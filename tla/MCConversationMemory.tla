------------------------ MODULE MCConversationMemory ------------------------
(* Small instances of ConversationMemory for TLC. *)
EXTENDS ConversationMemory

CONSTANTS P1, P2

OneProc  == {P1}
TwoProcs == {P1, P2}
=============================================================================
