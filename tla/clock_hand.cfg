\* frame_free and eviction leaving the clock hand on a freed item.
CONSTANTS
    Nil = Nil
    Dangling = Dangling
    q1 = q1
    q2 = q2
    f1 = f1
    f2 = f2
    f3 = f3
    u1 = u1
    u2 = u2
    u3 = u3
    u4 = u4
    u5 = u5
    u6 = u6
    Procs <- MCProcs
    Frames <- MCFrames
    UPages <- MCUPages
    MmapPages <- MCMmapPages
    NSlots = 3
SYMMETRY MCSymmetry
SPECIFICATION Spec
CHECK_DEADLOCK FALSE
INVARIANT HandOnClock
