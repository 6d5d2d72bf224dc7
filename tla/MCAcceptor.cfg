SPECIFICATION Spec
CONSTANTS
    c1 = c1
    c2 = c2
    acceptChannel_ = acceptChannel_
    Connections <- MCConnections
    Channels <- MCChannels
    MaxFd = 3
    MaxOpens = 2
INVARIANTS AssertionsHold SpareIsOwn
PROPERTIES BacklogDrains
CHECK_DEADLOCK FALSE
