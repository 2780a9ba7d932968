------------------------------ MODULE MC_Mlfqs ------------------------------
(* Model values and symmetry for checking Mlfqs with TLC.                  *)
EXTENDS Mlfqs, TLC

CONSTANTS p1, p2

MCPages == {p1, p2}
MCLocks == {}

PageSymmetry == Permutations(MCPages)

\* thread_set_nice arguments: a value that lowers the priority and one out of range.
MCNiceArgs == {5, NICE_MAX + 1}
=============================================================================
