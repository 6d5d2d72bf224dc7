CONSTANTS
    p1 = p1
    p2 = p2
    p3 = p3
    Producers <- OneProducer
    NoLine = NoLine
    Unwritten = NoLine
    Size = 2
    RingSize = 3
    IndexModulus = 4
    RollSizes <- SmallRolls
    Mega = 1
    Lengths <- OneLength
    Levels <- TwoLevels
    MaxLines = 7
SPECIFICATION Spec
CHECK_DEADLOCK FALSE
INVARIANT ReadAsClaimed
