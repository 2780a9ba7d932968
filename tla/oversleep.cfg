\* thread_sleep reads the tick before masking interrupts.
CONSTANTS
    Main = Main
    Idle = Idle
    Nil = Nil
    p1 = p1
    p2 = p2
    l1 = l1
    l2 = l2
    Pages <- MCPages2
    Locks = {}
    PRI_MAX = 2
    PRI_DEFAULT = 1
    TIME_SLICE = 4
    SleepTicks = {1, 2}
    MaxTick = 4
    MaxTid = 6
    PoolSize = 9
SYMMETRY PageSymmetry2
SPECIFICATION Spec
INVARIANT NoOversleep
