\* A parent's wait after its child exited and the child's page was reused.
CONSTANTS
    Main = Main
    Idle = Idle
    Nil = Nil
    p1 = p1
    p2 = p2
    Pages <- MCPages
    Locks = {}
    PRI_MAX = 2
    PRI_DEFAULT = 1
    TIME_SLICE = 2
    SleepTicks = {}
    MaxTick = 2
    MaxTid = 5
    PoolSize = 9
SPECIFICATION HsSpec
INVARIANT WaitBlocksOnlyOnLiveChild
