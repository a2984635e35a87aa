--------------------------- MODULE RetriedRequest ---------------------------
(***************************************************************************)
(* What a caller of the connection layer is promised: a request is sent a  *)
(* limited number of times, is not sent again once it was aborted or has   *)
(* ended, ends with an answer or an error of an attempt that was really    *)
(* made, and does end.  Reconnect implements it.                           *)
(***************************************************************************)
EXTENDS Naturals

CONSTANTS Requests,
          Limit(_)   \* how often a request of a kind may be sent

Outcomes == {"open", "answer", "error", "aborted"}

VARIABLES kind,     \* of each request
          tries,    \* how often it was sent
          outcome,
          aborted   \* whether its caller has aborted it

vars == <<kind, tries, outcome, aborted>>

Init ==
    /\ tries = [r \in Requests |-> 0]
    /\ outcome = [r \in Requests |-> "open"]
    /\ aborted = [r \in Requests |-> FALSE]

Attempt(r) ==
    /\ outcome[r] = "open" /\ ~aborted[r]
    /\ tries[r] < Limit(kind[r])
    /\ tries' = [tries EXCEPT ![r] = @ + 1]
    /\ UNCHANGED <<kind, outcome, aborted>>

Abort(r) ==
    /\ outcome[r] = "open"
    /\ aborted' = [aborted EXCEPT ![r] = TRUE]
    /\ UNCHANGED <<kind, tries, outcome>>

End(r) ==
    /\ outcome[r] = "open"
    /\ \E o \in Outcomes \ {"open"} :
          /\ o = "aborted" => aborted[r]
          /\ o # "aborted" => tries[r] > 0
          /\ outcome' = [outcome EXCEPT ![r] = o]
    /\ UNCHANGED <<kind, tries, aborted>>

Next == \E r \in Requests : Attempt(r) \/ Abort(r) \/ End(r)

Safety == Init /\ [][Next]_vars

\* Spec adds that every request ends.
Spec == Safety /\ \A r \in Requests : <>(outcome[r] # "open")
=============================================================================
