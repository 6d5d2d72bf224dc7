CONSTANTS
    p1 = p1
    p2 = p2
    p3 = p3
    Producers <- MCProducers
    NoLine = NoLine
    Unwritten = NoLine
    Size = 2
    RingSize = 2
    IndexModulus = 4
    RollSizes <- SmallRolls
    Mega = 1
    Lengths <- OneLength
    Levels <- TwoLevels
    MaxLines = 4
SPECIFICATION Spec
CHECK_DEADLOCK FALSE
INVARIANTS RemainingLogged
