SPECIFICATION Spec
CONSTANTS
    t1 = t1
    t2 = t2
    Others <- MCOthers
    MaxCalls <- MCMaxCalls
    MaxLoops <- MCMaxLoops
INVARIANTS FunctorsInOrder NoSleepOverWork
PROPERTIES FunctorsRun QuitEndsLoop
CHECK_DEADLOCK FALSE
