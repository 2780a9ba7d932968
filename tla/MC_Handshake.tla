---------------------------- MODULE MC_Handshake ----------------------------
(* Model values and symmetry for checking Handshake with TLC.              *)
EXTENDS Handshake, TLC

CONSTANTS p1, p2

MCPages == {p1, p2}
====
