\* Pure donation (no thread_set_priority calls): release of one of two held locks.
CONSTANTS
    Main = Main
    Idle = Idle
    Nil = Nil
    p1 = p1
    p2 = p2
    l1 = l1
    l2 = l2
    Pages <- MCPages2
    Locks <- MCLocks2
    PRI_MAX = 2
    PRI_DEFAULT = 1
    TIME_SLICE = 4
    SleepTicks = {}
    MaxTick = 0
    MaxTid = 5
    PoolSize = 7
    PriorityArgs <- MCNoPriorityArgs
SYMMETRY PageSymmetry2
SPECIFICATION Spec
PROPERTY ReleaseRestoresPriority
