\* Ready-list order under MLFQS creation (expected violation).
CONSTANTS
    Main = Main
    Idle = Idle
    Nil = Nil
    p1 = p1
    p2 = p2
    Pages <- MCPages
    Locks <- MCLocks
    PRI_MAX = 63
    PRI_DEFAULT = 31
    TIME_SLICE = 4
    SleepTicks = {}
    MaxTick = 12
    MaxTid = 4
    PoolSize = 7
    TIMER_FREQ = 6
    NiceArgs <- MCNiceArgs
    CreatePriorities = {31}
SYMMETRY PageSymmetry
SPECIFICATION MlfqsSpec
INVARIANT MlfqsReadySorted
