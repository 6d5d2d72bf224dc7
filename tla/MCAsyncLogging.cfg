SPECIFICATION Spec
CONSTANTS
    BufferSize <- MCBufferSize
    Lengths <- MCLengths
    MaxBacklog <- MCMaxBacklog
    MaxAppends <- MCMaxAppends
    NoBuffer = NoBuffer
INVARIANTS NoAssertFails Accounting CutsAreAnnounced
PROPERTIES StopReturns ImplementsLogChannel QueueDrains
CHECK_DEADLOCK FALSE
