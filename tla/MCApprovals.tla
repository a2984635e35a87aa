----------------------------- MODULE MCApprovals -----------------------------
(* Small instances of Approvals for TLC. *)
EXTENDS Approvals, TLC

CONSTANTS P1, P2

OneProc  == {P1}
TwoProcs == {P1, P2}

EditGit    == [tool |-> "write_file", subject |-> NoSubject, risk |-> "edit", protected |-> TRUE]
ListRemote == [tool |-> "ssh_command", subject |-> "vps: ls", risk |-> "remote-shell", protected |-> FALSE]
TailRemote == [tool |-> "ssh_command", subject |-> "vps: tail", risk |-> "remote-shell", protected |-> FALSE]

ThreeRequests == {EditGit, ListRemote, TailRemote}

\* No rule of these covers another subject than its own.
Itself == {<<r.subject, r.subject>> : r \in {ListRemote, TailRemote}}

Interchangeable == Permutations(Procs)

\* Bound: one irregularity in a behaviour, not several; the last call only before
\* any restart and with one instance.
OneIrregularity == Cardinality(kinds) <= 1 /\ (Len(calls) = MaxCalls => starts = 1)
=============================================================================
