-------------------------- MODULE MCInterruptedRuns --------------------------
(* Small instances of InterruptedRuns for TLC. *)
EXTENDS InterruptedRuns, TLC

CONSTANTS P1, P2, C1, C2

OneProc  == {P1}
TwoProcs == {P1, P2}
OneChat  == {C1}
TwoChats == {C1, C2}

\* A checkpoint that is pruned is the only thing that goes wrong.
PrunedAlone == "pruned" \in kinds => faults = 1

Interchangeable == Permutations(Procs) \cup Permutations(Chats)
=============================================================================
