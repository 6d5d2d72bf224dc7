SPECIFICATION Spec
CONSTANTS
    t1 = t1
    t2 = t2
    width = width
    height = height
    small = small
    large = large
    Threads <- MCThreads
    Vars <- MCVars
    Values <- MCValues
    Initial = small
    MaxCalls = 4
INVARIANTS KeysNameListeners
CHECK_DEADLOCK FALSE
