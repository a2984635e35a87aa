------------------------------ MODULE LegacyImport ------------------------------
(***************************************************************************)
(* migrateLegacySession: the one chat a workspace had before chats had     *)
(* files of their own is imported at the start, once, and its old file     *)
(* renamed to a marker.  Instances may start at the same time, and end at  *)
(* any point.                                                              *)
(***************************************************************************)
EXTENDS Naturals

CONSTANTS Starts   \* the instances, each of which starts once

VARIABLES old,     \* sessions/<workspace>.json: "v1", "garbled" or "gone"
          marker,  \* its .migrated: "none", "renamed" (the old text) or "note"
          chat,    \* chats/<workspace>/legacy-<id>.json: its number of imported turns and its
                   \* costs in copies of the old chat, or none
          start,   \* each instance: where its import is
          past     \* history: imports, whether the user has deleted the chat, whether an import
                   \* was under way then, and whether a marker could not be made
importing == <<old, marker, chat, start, past>>

NoChat == [turns |-> 0, costs |-> 0]
LegacyInit ==
    /\ old \in {"v1", "garbled"} /\ marker = "none" /\ chat = NoChat
    /\ start = [i \in Starts |-> "new"]
    /\ past = [deleted |-> FALSE, raced |-> FALSE, unmarked |-> FALSE]

Goto(i, pc) == start' = [start EXCEPT ![i] = pc]
\* MUTANT: the marker is not looked at.
SeesNoMarker(i) ==
    /\ start[i] = "new"
    /\ Goto(i, "read")
    /\ UNCHANGED <<old, marker, chat, past>>
\* The marker, the old file - of this version, workspace and form -, and the chat are looked
\* at in turn.
SeesMarker(i) ==
    /\ start[i] = "new"
    /\ Goto(i, IF marker # "none" THEN "up" ELSE "read")
    /\ UNCHANGED <<old, marker, chat, past>>
ReadsOld(i) ==
    /\ start[i] = "read"
    /\ Goto(i, IF old = "v1" THEN "look" ELSE "up")
    /\ UNCHANGED <<old, marker, chat, past>>
LooksForChat(i) ==
    /\ start[i] = "look"
    /\ Goto(i, IF chat # NoChat THEN "mark" ELSE "save")
    /\ UNCHANGED <<old, marker, chat, past>>
\* save: the base of the merge is the import itself, so that a chat that has appeared
\* meanwhile stays as it is.
Merged(base, mine, theirs) ==
    [turns |-> IF theirs.turns > 0 THEN theirs.turns ELSE mine.turns,
     costs |-> theirs.costs + (mine.costs - base.costs)]
Imported == [turns |-> 1, costs |-> 1]
SavesChat(i) ==
    /\ start[i] = "save"
    /\ chat' = IF chat = NoChat THEN Imported ELSE Merged(Imported, Imported, chat)
    /\ Goto(i, "mark")
    /\ UNCHANGED <<old, marker, past>>
\* markLegacyMigrated: renamed, or, if that fails, a note of its own, or nothing at all.
Marks(i, how) ==
    /\ start[i] = "mark"
    /\ Goto(i, "up")
    /\ CASE old = "gone" -> UNCHANGED <<old, marker, past>>
         [] old # "gone" /\ how = "rename" ->
                marker' = "renamed" /\ old' = "gone" /\ UNCHANGED past
         [] old # "gone" /\ how = "note" ->
                /\ marker' = IF marker = "none" THEN "note" ELSE marker
                /\ UNCHANGED <<old, past>>
         [] OTHER -> past' = [past EXCEPT !.unmarked = TRUE] /\ UNCHANGED <<old, marker>>
    /\ UNCHANGED chat
Crashes(i) ==
    /\ start[i] \in {"read", "look", "save", "mark"}
    /\ Goto(i, "dead")
    /\ UNCHANGED <<old, marker, chat, past>>
\* SessionStore.remove, after the user has agreed.
DeletesChat(i) ==
    /\ start[i] = "up" /\ chat # NoChat
    /\ chat' = NoChat
    /\ past' = [past EXCEPT !.deleted = TRUE,
                            !.raced = @ \/ \E j \in Starts : start[j] \in {"read", "look", "save"}]
    /\ UNCHANGED <<old, marker, start>>

LegacyNext ==
    \E i \in Starts :
        \/ SeesMarker(i) \/ ReadsOld(i) \/ LooksForChat(i) \/ SavesChat(i)
        \/ \E how \in {"rename", "note", "fail"} : Marks(i, how)
        \/ Crashes(i) \/ DeletesChat(i)
LegacySpec == LegacyInit /\ [][LegacyNext]_importing
-----------------------------------------------------------------------------
(* Properties *)

\* The old chat is imported once however many instances import it; its text is never lost; and
\* a chat the user has deleted stays deleted, unless an import was under way meanwhile or no
\* marker could be made.  (migrateLegacySession, markLegacyMigrated)
ImportedOnce ==
    /\ chat.turns <= 1 /\ chat.costs <= 1
    /\ old # "gone" \/ marker = "renamed"
    /\ past.deleted /\ ~past.raced /\ ~past.unmarked => chat = NoChat
===============================================================================
