SPECIFICATION PoolSpec
CONSTANTS
    w1 = w1
    w2 = w2
    c1 = c1
    c2 = c2
    c3 = c3
    Workers <- MCWorkers
    Clients <- MCClients
    QueueSizes <- MCQueueSizes
    MaxCalls <- MCMaxCalls
    NestWhenBounded <- MCNestWhenBounded
INVARIANTS TasksOnceInOrder TasksHaveTakers RoomHasRunners
PROPERTIES TaskEventuallyRun OwnerReturns
CHECK_DEADLOCK FALSE
