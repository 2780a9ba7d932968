\* Scheduler core without locks: create, exit, set_priority, sleep, the tick.
CONSTANTS
    Main = Main
    Idle = Idle
    Nil = Nil
    p1 = p1
    p2 = p2
    l1 = l1
    l2 = l2
    Pages <- MCPages2
    Locks = {}
    PRI_MAX = 2
    PRI_DEFAULT = 1
    TIME_SLICE = 4
    SleepTicks = {1, 2}
    MaxTick = 3
    MaxTid = 5
    PoolSize = 9
SPECIFICATION Spec
INVARIANT TypeOK
INVARIANT StatusMatchesQueues
INVARIANT FreedPageUnreferenced
INVARIANT PagesAccounted
PROPERTY ReadyFifo
PROPERTY WakeupOnTime
PROPERTY LifecycleRefined
