----------------------------- MODULE MC_Threads -----------------------------
(* Model values and symmetry for checking Threads with TLC.                *)
EXTENDS Threads, TLC

CONSTANTS p1, p2, l1, l2

MCPages2 == {p1, p2}
MCLocks2 == {l1, l2}

PageSymmetry2 == Permutations(MCPages2)

\* No thread_set_priority calls: priorities change only by donation.
MCNoPriorityArgs == {}
=============================================================================
