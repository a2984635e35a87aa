------------------------------ MODULE MCApiKeys ------------------------------
(* Small instances of ApiKeys for TLC. *)
EXTENDS ApiKeys

CONSTANTS P1, P2, K1, K2

TwoProcs == {P1, P2}
TwoKeys  == {K1, K2}

\* The environment of one instance holds a key.
OneEnv == [p \in TwoProcs |-> IF p = P1 THEN K1 ELSE NoKey]
=============================================================================
