SPECIFICATION LoadSpec
CONSTANTS
    t1 = t1
    t2 = t2
    f1 = f1
    view = view
    size = size
    Sized = Sized
    small = small
    large = large
    huge = huge
    Threads <- MCThreads
    Vars <- MCVars
    Values <- MCValues
    Initial = small
    MaxCalls = 3
    Loaders <- MCLoaders
    Files <- MCFiles
    Documents <- MCDocuments
    Times <- MCTimes
    ValidKeys <- MCValidKeys
    Unparsable = Unparsable
    Gone = Gone
    Unfit = Unfit
    MaxEdits = 1
    MaxLoads = 2
INVARIANTS KeysNameListeners LoadTakesEffect
PROPERTIES ListenersTold CallsReturn DeletedStaysQuiet
CHECK_DEADLOCK FALSE
