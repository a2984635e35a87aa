---------------------------- MODULE MCChatStore ----------------------------
(* Small instances of ChatStore for TLC. *)
EXTENDS ChatStore, TLC

CONSTANTS P1, P2, P3

OneProc    == {P1}
TwoProcs   == {P1, P2}
ThreeProcs == {P1, P2, P3}
Interchangeable == Permutations(Procs)
=============================================================================
