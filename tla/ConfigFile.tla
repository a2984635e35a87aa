------------------------------- MODULE ConfigFile -------------------------------
(***************************************************************************)
(* ~/.orcode/config.json: read once at the start, validated field by       *)
(* field, and written as a whole whenever a setting changes.  A file that  *)
(* cannot be parsed is moved aside before it is written over; two programs *)
(* may do this at once, and the user may edit the file by hand.            *)
(***************************************************************************)
EXTENDS Naturals, FiniteSets

CONSTANTS Programs,
          MaxEdits   \* bound: changes of settings and edits by hand, each

VARIABLES config,  \* config.json: "absent", "object" with settings, "broken" with its number
          backup,  \* the number of the broken text in config.json.beschaedigt, or 0
          prog,    \* each program: where its save is, and its settings
          past     \* history: bounds, the settings last asked for, the last broken text,
                   \* and what has happened that no promise covers
configuration == <<config, backup, prog, past>>

Fields == {"approvalMode", "maxSteps"}
Values == {"default", "chosen", "invalid"}
Defaults == [f \in Fields |-> "default"]
Object(settings) == [is |-> "object", settings |-> settings, number |-> 0]
Broken(n) == [is |-> "broken", settings |-> Defaults, number |-> n]
Down == [pc |-> "down", settings |-> Defaults]

ConfigInit ==
    /\ config = [is |-> "absent", settings |-> Defaults, number |-> 0]
    /\ backup = 0
    /\ prog = [p \in Programs |-> Down]
    /\ past = [changes |-> 0, edits |-> 0, asked |-> Defaults, broken |-> 0,
               shared |-> FALSE, excused |-> {}]

\* validateConfig: a field that is missing, of the wrong type or out of its bounds gets its
\* default; the others stay.
Validated(settings) == [f \in Fields |-> IF settings[f] = "invalid" THEN "default" ELSE settings[f]]

Alone(p) == \A q \in Programs \ {p} : prog[q].pc = "down"
\* loadConfigDetailed: never throws; what cannot be read or parsed counts as the defaults.
Load(p, readable) ==
    /\ prog[p].pc = "down"
    /\ prog' = [prog EXCEPT ![p] =
           [pc |-> "idle",
            settings |-> IF readable /\ config.is = "object" THEN Validated(config.settings)
                                                             ELSE Defaults]]
    /\ past' = [past EXCEPT !.shared = @ \/ ~Alone(p),
                            !.excused = IF readable THEN @ ELSE @ \cup {"unreadable"}]
    /\ UNCHANGED <<config, backup>>
\* A command changes a setting; saveConfig validates and begins.
Change(p, f, value) ==
    /\ prog[p].pc = "idle" /\ past.changes < MaxEdits
    /\ prog' = [prog EXCEPT ![p].pc = "preserve", ![p].settings[f] = value]
    /\ past' = [past EXCEPT !.changes = @ + 1, !.asked[f] = value]
    /\ UNCHANGED <<config, backup>>
\* MUTANT: nothing is moved aside.
PreserveNothing(p, readable) ==
    /\ prog[p].pc = "preserve"
    /\ prog' = [prog EXCEPT ![p].pc = "write"]
    /\ past' = [past EXCEPT !.excused = IF readable THEN @ ELSE @ \cup {"unreadable"}]
    /\ UNCHANGED <<config, backup>>
\* preserveBrokenConfig: a file that cannot be read is taken for none.
Preserve(p, readable) ==
    /\ prog[p].pc = "preserve"
    /\ prog' = [prog EXCEPT ![p].pc =
                   IF readable /\ config.is = "broken" THEN "rename" ELSE "write"]
    /\ past' = [past EXCEPT !.excused = IF readable THEN @ ELSE @ \cup {"unreadable"}]
    /\ UNCHANGED <<config, backup>>
\* The rename takes whatever is there by now; when it fails nobody hears of it.
Rename(p, ok) ==
    /\ prog[p].pc = "rename"
    /\ prog' = [prog EXCEPT ![p].pc = "write"]
    /\ IF ok /\ config.is # "absent"
       THEN /\ backup' = config.number
            /\ config' = [is |-> "absent", settings |-> Defaults, number |-> 0]
       ELSE UNCHANGED <<config, backup>>
    /\ past' = [past EXCEPT !.excused = IF ok THEN @ ELSE @ \cup {"rename"}]
\* writeFileAtomicSecure: the whole file at once, by rename, or an error and nothing.
Write(p, ok) ==
    /\ prog[p].pc = "write"
    /\ prog' = [prog EXCEPT ![p].pc = "idle"]
    /\ config' = IF ok THEN Object(prog[p].settings) ELSE config
    /\ past' = [past EXCEPT !.excused = IF ok THEN @ ELSE @ \cup {"write"}]
    /\ UNCHANGED backup
\* The end of the program, or of the process, at any point.
Ends(p) ==
    /\ prog[p].pc # "down"
    /\ prog' = [prog EXCEPT ![p] = Down]
    /\ past' = [past EXCEPT !.excused = IF prog[p].pc = "idle" THEN @ ELSE @ \cup {"crash"}]
    /\ UNCHANGED <<config, backup>>
\* By hand, while no program runs: a field with any value, or a text that is no object.
EditField(f, value) ==
    /\ past.edits < MaxEdits /\ config.is = "object" /\ \A p \in Programs : prog[p].pc = "down"
    /\ config' = [config EXCEPT !.settings[f] = value]
    /\ past' = [past EXCEPT !.edits = @ + 1,
                            !.asked[f] = IF value = "invalid" THEN "default" ELSE value]
    /\ UNCHANGED <<backup, prog>>
EditBreaks ==
    /\ past.edits < MaxEdits /\ \A p \in Programs : prog[p].pc = "down"
    /\ config' = Broken(past.edits + 1)
    /\ past' = [past EXCEPT !.edits = @ + 1, !.broken = past.edits + 1, !.asked = Defaults]
    /\ UNCHANGED <<backup, prog>>

ConfigNext ==
    \/ \E p \in Programs, b \in BOOLEAN : \/ Load(p, b) \/ Preserve(p, b)
                                          \/ Rename(p, b) \/ Write(p, b)
    \/ \E p \in Programs : \/ Ends(p)
                           \/ \E f \in Fields, v \in {"default", "chosen"} : Change(p, f, v)
    \/ \E f \in Fields, v \in Values : EditField(f, v)
    \/ EditBreaks
ConfigSpec == ConfigInit /\ [][ConfigNext]_configuration
-----------------------------------------------------------------------------
(* Properties *)

\* A text that could not be parsed is still there, in its place or moved aside, unless two
\* programs had the file at once, it could not be read, or could not be moved.
\* (preserveBrokenConfig)
BrokenConfigIsKept ==
    \/ past.broken = 0 \/ past.shared \/ past.excused \cap {"unreadable", "rename"} # {}
    \/ config.number = past.broken \/ backup = past.broken

\* With one program at a time, what was last asked for is what the next start will have,
\* whatever else the file has in it; a save that failed, or was cut, aside.
\* (saveConfig, validateConfig, loadConfigDetailed)
ChoicesSurvive ==
    \/ past.shared \/ past.excused # {}
    \/ \E p \in Programs : prog[p].pc \in {"preserve", "rename", "write"}
    \/ config.is # "object"
    \/ Validated(config.settings) = past.asked
===============================================================================
