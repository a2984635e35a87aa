---------------------------- MODULE MCChangeJournal ----------------------------
(* Small instances of ChangeJournal for TLC. *)
EXTENDS ChangeJournal, TLC

CONSTANTS F1, F2, T1, T2, C1, C2

OneFile    == {F1}
TwoFiles   == {F1, F2}
TwoTexts   == {T1, T2}
OneCall    == {C1}
TwoCalls   == {C1, C2}
Interchangeable == Permutations(Files) \cup Permutations(Texts) \cup Permutations(Calls)

\* Bound: a behaviour with overlapping calls has at most one crash or failing disk besides.
OverlapOrFaults == overlapped => kinds \subseteq {"crash", "disk"} /\ faults <= 1
=============================================================================
