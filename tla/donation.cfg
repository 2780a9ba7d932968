\* Priority donation: two locks, create, exit, set_priority, the time slice.
CONSTANTS
    Main = Main
    Idle = Idle
    Nil = Nil
    p1 = p1
    p2 = p2
    l1 = l1
    l2 = l2
    Pages <- MCPages2
    Locks <- MCLocks2
    PRI_MAX = 2
    PRI_DEFAULT = 1
    TIME_SLICE = 4
    SleepTicks = {}
    MaxTick = 0
    MaxTid = 5
    PoolSize = 7
SYMMETRY PageSymmetry2
SPECIFICATION Spec
INVARIANT StatusMatchesQueues
INVARIANT ReadySorted
