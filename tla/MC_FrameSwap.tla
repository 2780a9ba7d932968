---------------------------- MODULE MC_FrameSwap ----------------------------
(* Model values and symmetry for checking FrameSwap with TLC.              *)
EXTENDS FrameSwap, TLC
CONSTANTS q1, q2, f1, f2, f3, u1, u2, u3, u4, u5, u6

MCProcs == {q1, q2}
MCFrames == {f1, f2, f3}
MCUPages == {u1, u2, u3, u4, u5, u6}
MCMmapPages == {u6}

\* Processes, frames (palloc hands out any free page) and the anonymous
\* pages are interchangeable.
MCSymmetry == Permutations(MCProcs) \cup Permutations(MCFrames)
                \cup Permutations({u1, u2, u3, u4, u5})
=============================================================================
