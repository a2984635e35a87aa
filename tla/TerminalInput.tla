---------------------------- MODULE TerminalInput -----------------------------
(***************************************************************************)
(* The keyboard of the dashboard: TerminalUi with its one mode, the        *)
(* promises its callers wait for, the draft, the paste buffer, the queue   *)
(* of lines typed while it is busy, and Ctrl+C; and the loop of            *)
(* runDashboard that reads a line, runs it as a command or as a request,   *)
(* and asks for more while it does.                                        *)
(*                                                                         *)
(* A piece of text is the number of the keystroke that made it; a line is  *)
(* a sequence of pieces.  The chosen reply suggestion is piece 0.          *)
(***************************************************************************)
EXTENDS Naturals, SequencesExt

CONSTANTS MaxTyped,   \* bound: keystrokes that write text
          MaxLines,   \* bound: how often Enter is pressed for a line
          MaxAsked,   \* bound: questions of the program
          MaxLate     \* bound: calls of tools that outlive their run

ASSUME BoundAssumption == {MaxTyped, MaxLines, MaxAsked, MaxLate} \subseteq Nat

VARIABLES
    ui,      \* the fields of TerminalUi, see Started
    prog,    \* the loop: "loop", "reading", "command", "run", "suspended", "gone"
    got,     \* the lines readInput returned, in order
    tools,   \* the approvals whose calls wait, and those another one overtook (history)
    typed,   \* texts and Enters typed so far, and the texts typed as a secret (history)
    sent,    \* the lines submitted, in order (history)
    opened, late  \* bounds

terminalVars == <<ui, prog, got, tools, typed, sent, opened, late>>

\* Which mode serves which promise.  model-picker and choice-picker share keys and settling.
Questions == {"model", "choice", "secret", "recording", "confirm"}
ModeOf == [input |-> "input", model |-> "model-picker", choice |-> "choice-picker",
           secret |-> "secret", recording |-> "recording", confirm |-> "confirm"]

\* asked: the approval that #confirmResolve belongs to, 0 for none or that of a late tool.
Started == [mode |-> "idle", pending |-> {}, asked |-> 0, draft |-> <<>>, queue |-> <<>>,
            pasting |-> FALSE, paste |-> <<>>, handler |-> FALSE, cancelRequested |-> FALSE,
            reason |-> FALSE, replies |-> FALSE, active |-> TRUE]

-----------------------------------------------------------------------------
(* The operations of TerminalUi *)

EnterMode(u, next) == [u EXCEPT !.mode = next]

SetStatus(u, busy) ==
    IF busy /\ u.mode # "confirm" THEN EnterMode(u, "busy")
    ELSE IF ~busy /\ u.mode = "busy" THEN EnterMode(u, "idle")
    ELSE u

SetCancelHandler(u, handler) == [u EXCEPT !.handler = handler, !.cancelRequested = FALSE]
BeginAssistant(u) == [u EXCEPT !.mode = "busy", !.replies = FALSE]
FinishAssistant(u) == EnterMode(u, "idle")
InsertInputText(u, piece) == [u EXCEPT !.draft = Append(@, piece)]

\* pickModel, pickChoice, readSecret and awaitRecordingControl.
Ask(u, question) ==
    [u EXCEPT !.mode = ModeOf[question], !.pending = @ \cup {question},
              !.draft = IF question \in {"model", "choice", "secret"} THEN <<>> ELSE @]

\* confirmAction: the dialog and its answer go to the newest question, and a reason that was
\* begun for the one before it goes on.  MUTANT: the older question keeps the answer.
ConfirmKeepsFirst(u, n) ==
    [Ask(u, "confirm") EXCEPT !.asked = IF "confirm" \in u.pending THEN u.asked ELSE n]
ConfirmAction(u, n) == [Ask(u, "confirm") EXCEPT !.asked = n]

ResolveSelection(u) ==
    [u EXCEPT !.pending = @ \ {"model", "choice"}, !.draft = <<>>, !.mode = "busy"]
ResolveSecret(u) == [u EXCEPT !.pending = @ \ {"secret"}, !.draft = <<>>, !.mode = "busy"]
ResolveRecording(u) == [u EXCEPT !.pending = @ \ {"recording"}, !.mode = "busy"]
ResolveConfirm(u) ==
    [u EXCEPT !.pending = @ \ {"confirm"}, !.asked = 0, !.reason = FALSE, !.draft = <<>>,
              !.mode = "busy"]

\* requestCancel: whether it ends the program, and what it leaves.  MUTANT: the request is
\* forgotten as soon as it is passed on.
ForgetsRequest(u) == IF u.handler THEN [u EXCEPT !.handler = FALSE] ELSE SetStatus(u, FALSE)
RequestCancel(u) ==
    IF u.handler THEN [u EXCEPT !.handler = FALSE, !.cancelRequested = TRUE]
    ELSE SetStatus(u, FALSE)
Terminates(u) == ~u.handler /\ u.cancelRequested
Stop(u) == [u EXCEPT !.active = FALSE, !.pasting = FALSE, !.paste = <<>>]

TerminalInit ==
    /\ ui = Started /\ prog = "loop" /\ got = <<>> /\ sent = <<>>
    /\ tools = [waiting |-> {}, overtaken |-> {}]
    /\ typed = [n |-> 0, secret |-> {}, enters |-> 0] /\ opened = 0 /\ late = 0

-----------------------------------------------------------------------------
(* The loop *)

TakeQueued(u) == [line |-> Head(u.queue), rest |-> Tail(u.queue)]

\* readInput.  A queued line is never empty.
ReadInput ==
    /\ prog = "loop"
    /\ IF ui.queue # <<>>
       THEN LET taken == TakeQueued(ui)
            IN /\ ui' = [ui EXCEPT !.queue = taken.rest, !.mode = "busy"]
               /\ got' = Append(got, taken.line) /\ prog' \in {"command", "run"}
       ELSE /\ ui' = [ui EXCEPT !.mode = "input", !.pending = @ \cup {"input"}]
            /\ prog' = "reading" /\ UNCHANGED got
    /\ UNCHANGED <<tools, typed, sent, opened, late>>

Working == prog \in {"command", "run"}
OnlyUi == UNCHANGED <<got, tools, typed, sent, late>>

\* The status of a command or a run, at any time in a run.
Status ==
    /\ Working /\ (prog = "run" \/ ui.pending = {})
    /\ ui' = SetStatus(ui, TRUE)
    /\ UNCHANGED <<prog, opened>> /\ OnlyUi

Cancellable == ui.handler \/ ui.cancelRequested
BeginRun ==
    /\ prog = "run" /\ ui.pending = {} /\ ~Cancellable
    /\ ui' = SetCancelHandler(BeginAssistant(ui), TRUE)
    /\ UNCHANGED <<prog, opened>> /\ OnlyUi
\* A command that waits for the network, and its finally.
BeginRequest ==
    /\ prog = "command" /\ ui.pending = {} /\ opened < MaxAsked
    /\ ui' = SetCancelHandler(SetStatus(ui, TRUE), TRUE)
    /\ opened' = opened + 1 /\ UNCHANGED prog /\ OnlyUi
EndRequest ==
    /\ prog = "command" /\ ui.pending = {} /\ Cancellable
    /\ ui' = SetCancelHandler(ui, FALSE)
    /\ UNCHANGED <<prog, opened>> /\ OnlyUi

\* What a command asks for, one thing at a time.
Question ==
    /\ prog = "command" /\ opened < MaxAsked /\ ui.pending = {} /\ ~Cancellable
    /\ \E q \in Questions \ {"confirm"} : ui' = Ask(ui, q)
    /\ opened' = opened + 1 /\ UNCHANGED prog /\ OnlyUi
\* An approval.  The tools of a run ask whenever they get there, also while one is asked.
Overtakes == [waiting |-> tools.waiting \cup {opened + 1},
              overtaken |-> tools.overtaken \cup (IF "confirm" \in ui.pending THEN {ui.asked} ELSE {})]
Approval ==
    /\ opened < MaxAsked /\ \/ prog = "command" /\ ui.pending = {} /\ ~Cancellable
                            \/ prog = "run" /\ Cancellable
    /\ ui' = ConfirmAction(ui, opened + 1) /\ tools' = Overtakes /\ opened' = opened + 1
    /\ UNCHANGED <<prog, got, typed, sent, late>>

\* The size or time limit of a recording.
TriggerRecordingControl ==
    /\ ui.mode = "recording" /\ ui' = ResolveRecording(ui)
    /\ UNCHANGED <<prog, opened>> /\ OnlyUi

\* A transcript or a seed lands in the line.
Insert ==
    /\ prog = "command" /\ ui.pending = {} /\ typed.n < MaxTyped
    /\ ui' = InsertInputText(ui, typed.n + 1)
    /\ typed' = [typed EXCEPT !.n = @ + 1] /\ UNCHANGED <<prog, got, tools, sent, opened, late>>

\* suspend: the terminal belongs to a picker of the system for a while.
Suspend ==
    /\ prog = "command" /\ ui.pending = {} /\ opened < MaxAsked /\ prog' = "suspended"
    /\ ui' = [ui EXCEPT !.active = FALSE] /\ opened' = opened + 1 /\ OnlyUi
Resume ==
    /\ prog = "suspended" /\ prog' = "command"
    /\ ui' = [ui EXCEPT !.active = TRUE, !.pasting = FALSE, !.paste = <<>>]
    /\ UNCHANGED opened /\ OnlyUi

\* The end of a command, and of a run with its reply suggestions.  A run waits for its tools,
\* also for one whose question was overtaken and is never answered, unless it was cancelled.
Done ==
    /\ Working /\ ui.pending = {} /\ prog' = "loop"
    /\ tools.waiting = {} \/ ui.cancelRequested
    /\ tools' = [tools EXCEPT !.waiting = {}]
    /\ \/ prog = "command" /\ ui' = SetStatus(SetCancelHandler(ui, FALSE), FALSE)
       \/ /\ prog = "run"
          /\ \E replies \in BOOLEAN :
                ui' = [FinishAssistant(SetCancelHandler(ui, FALSE)) EXCEPT !.replies = replies]
    /\ UNCHANGED <<got, typed, sent, opened, late>>
\* /exit
Leave ==
    /\ prog = "command" /\ ui.pending = {} /\ prog' = "gone" /\ ui' = Stop(ui)
    /\ UNCHANGED opened /\ OnlyUi

\* A tool that outlives its run: a status or a question when nobody expects it; and a run
\* that ends although a tool still asks.
Late ==
    /\ late < MaxLate /\ late' = late + 1 /\ ui.active
    /\ \/ ui' = SetStatus(ui, TRUE) /\ UNCHANGED <<prog, tools>>
       \/ ui' = ConfirmAction(ui, 0) /\ UNCHANGED <<prog, tools>>
       \/ /\ prog = "run" /\ prog' = "loop" /\ ui' = FinishAssistant(SetCancelHandler(ui, FALSE))
          /\ UNCHANGED tools
    /\ UNCHANGED <<got, typed, sent, opened>>

Program == \/ ReadInput \/ Status \/ BeginRun \/ BeginRequest \/ EndRequest \/ Question \/ Approval
           \/ TriggerRecordingControl \/ Insert
           \/ Suspend \/ Resume \/ Done \/ Leave
-----------------------------------------------------------------------------
(* The keys *)

Pressed == ui.active /\ UNCHANGED <<opened, late>>
OnlyKey == Pressed /\ UNCHANGED <<prog, got, sent, typed>>
Answered == [tools EXCEPT !.waiting = @ \ {ui.asked}]

\* interrupt.  Ctrl+C comes before everything else, a paste included.
Interrupted(u) ==
    CASE u.mode \in {"model-picker", "choice-picker"} -> ResolveSelection(u)
      [] u.mode = "secret" -> ResolveSecret(u)
      [] u.mode = "recording" -> ResolveRecording(u)
      [] u.mode = "confirm" -> RequestCancel(ResolveConfirm(u))
      [] OTHER -> RequestCancel(u)
Unpasted(u) == [u EXCEPT !.pasting = FALSE, !.paste = <<>>]
CtrlC ==
    /\ Pressed /\ UNCHANGED <<got, typed, sent>>
    /\ tools' = IF ui.mode = "confirm" THEN Answered ELSE tools
    /\ LET own == {"model-picker", "choice-picker", "secret", "recording"}
           exits == ui.mode \notin own \cup {"confirm"} /\ "input" \in ui.pending
           kills == ui.mode \notin own /\ ~exits /\ Terminates(ui)
       IN IF exits \/ kills
          THEN prog' = "gone" /\ ui' = [Stop(ui) EXCEPT !.pending = @ \ {"input"}]
          ELSE UNCHANGED prog /\ ui' = Interrupted(Unpasted(ui))

PasteStart ==
    /\ OnlyKey /\ UNCHANGED tools
    /\ ui' = SetStatus([ui EXCEPT !.pasting = TRUE, !.paste = <<>>], FALSE)
PasteEnd ==
    /\ OnlyKey /\ ui.pasting /\ UNCHANGED tools
    /\ ui' = SetStatus([ui EXCEPT !.draft = @ \o ui.paste, !.pasting = FALSE, !.paste = <<>>],
                       FALSE)

\* A key that writes: into the paste buffer, or where the mode takes text.
Writes == ui.pasting \/ ui.mode \in {"model-picker", "choice-picker", "secret", "input", "busy"}
                     \/ (ui.mode = "confirm" /\ ui.reason)
Type ==
    /\ Pressed /\ Writes /\ typed.n < MaxTyped
    /\ ui' = IF ui.pasting THEN [ui EXCEPT !.paste = Append(@, typed.n + 1)]
             ELSE [ui EXCEPT !.draft = Append(@, typed.n + 1)]
    /\ typed' = [typed EXCEPT !.n = @ + 1,
                              !.secret = IF ui.mode = "secret" THEN @ \cup {typed.n + 1} ELSE @]
    /\ UNCHANGED <<prog, got, sent, tools>>

\* Enter, Escape, Shift+Enter, Ctrl+U and the letters j, n, a, d, g of an approval.
Select == /\ OnlyKey /\ ~ui.pasting /\ ui.mode \in {"model-picker", "choice-picker"}
          /\ ui' = ResolveSelection(ui) /\ UNCHANGED tools
Secret == /\ OnlyKey /\ ~ui.pasting /\ ui.mode = "secret"
          /\ ui' = ResolveSecret(ui) /\ UNCHANGED tools
Recording == /\ OnlyKey /\ ~ui.pasting /\ ui.mode = "recording"
             /\ ui' = ResolveRecording(ui) /\ UNCHANGED tools
Confirm ==
    /\ OnlyKey /\ ~ui.pasting /\ ui.mode = "confirm"
    /\ \/ ui' = ResolveConfirm(ui) /\ tools' = Answered
       \/ ui' = [ui EXCEPT !.reason = ~@, !.draft = <<>>] /\ UNCHANGED tools
Edit ==
    /\ OnlyKey /\ ~ui.pasting /\ ui.mode \in {"input", "busy"} /\ UNCHANGED tools
    /\ \/ ui' = [ui EXCEPT !.draft = <<>>]
       \/ ui' = SetStatus(ui, FALSE)  \* Shift+Enter; its newline is part of the piece before
       \/ ui.mode = "input" /\ ui.draft = <<>> /\ ui' = [ui EXCEPT !.replies = FALSE]

\* submit: into the queue while busy, to readInput otherwise.
Submitted == IF ui.draft # <<>> THEN ui.draft
             ELSE IF ui.mode = "input" /\ ui.replies THEN <<0>> ELSE <<>>
SubmitLine ==
    /\ Pressed /\ ~ui.pasting /\ ui.mode \in {"input", "busy"} /\ typed.enters < MaxLines
    /\ UNCHANGED tools
    /\ LET cleared == [ui EXCEPT !.draft = <<>>, !.replies = FALSE, !.mode = "busy"]
       IN IF ui.mode = "busy"
          THEN /\ ui' = IF Submitted = <<>> THEN cleared
                        ELSE [cleared EXCEPT !.queue = Append(@, Submitted)]
               /\ UNCHANGED <<prog, got>>
          ELSE /\ ui' = [cleared EXCEPT !.pending = @ \ {"input"}]
               /\ IF "input" \notin ui.pending THEN UNCHANGED <<prog, got>>
                  ELSE IF Submitted = <<>> THEN prog' = "loop" /\ UNCHANGED got
                  ELSE prog' \in {"command", "run"} /\ got' = Append(got, Submitted)
    /\ sent' = IF Submitted = <<>> THEN sent ELSE Append(sent, Submitted)
    /\ typed' = [typed EXCEPT !.enters = @ + 1]

Answer == Select \/ Secret \/ Recording \/ Confirm
User == CtrlC \/ PasteStart \/ PasteEnd \/ Type \/ Answer \/ Edit \/ SubmitLine

TerminalNext == Program \/ Late \/ User
TerminalSpec == TerminalInit /\ [][TerminalNext]_terminalVars

\* A line is read, a recording has a limit, what was suspended returns, and what cannot be
\* cancelled ends.  What can be cancelled may hang.
FairTerminalSpec == /\ TerminalSpec /\ WF_terminalVars(ReadInput) /\ WF_terminalVars(TriggerRecordingControl)
            /\ WF_terminalVars(Resume) /\ WF_terminalVars(BeginRun) /\ WF_terminalVars(~Cancellable /\ Done)
-----------------------------------------------------------------------------
(* Properties *)

\* Type invariant.
TypeOK ==
    /\ ui.mode \in {"idle", "busy", "input", "confirm", "secret", "recording",
                    "model-picker", "choice-picker"}
    /\ ui.pending \subseteq Questions \cup {"input"}
    /\ prog \in {"loop", "reading", "command", "run", "suspended", "gone"}
    /\ ui.draft \in Seq(0..MaxTyped) /\ ui.paste \in Seq(0..MaxTyped)
    /\ typed.n \in 0..MaxTyped /\ typed.secret \subseteq 1..MaxTyped /\ typed.enters \in 0..MaxLines
    /\ ui.asked \in 0..MaxAsked /\ tools.waiting \cup tools.overtaken \subseteq 0..MaxAsked
    /\ opened \in 0..MaxAsked /\ late \in 0..MaxLate

\* Whatever the program waits for, the keys go to it: one promise can be settled at most and
\* the mode is its own, however statuses, pastes, answers and Ctrl+C alternate; and the call
\* whose approval the keys answer is the one that waits, but for those whose question another
\* call's overtook: no key reaches them.  Unless a tool outlives its run.
\* (mode and the ...Resolve fields of TerminalUi)
WaitingIsReachable ==
    (late = 0 /\ ui.active) =>
        /\ Cardinality(ui.pending) <= 1
        /\ \A q \in ui.pending : ui.mode = ModeOf[q]
        /\ prog = "reading" <=> "input" \in ui.pending
        /\ tools.waiting \ tools.overtaken \subseteq {ui.asked}
        /\ ui.asked # 0 => "confirm" \in ui.pending /\ ui.asked \in tools.waiting

\* Every submitted line reaches the loop once and in order, or waits in the queue; and no
\* text is in two places.  (submit, readInput)
LinesInOrder ==
    /\ got \o ui.queue = sent
    /\ \A i, j \in DOMAIN sent :
          (ToSet(sent[i]) \cap ToSet(sent[j])) \ {0} # {} => i = j
    /\ \A i \in DOMAIN sent : ToSet(sent[i]) \cap (ToSet(ui.draft) \cup ToSet(ui.paste)) = {}

\* What was typed as a key or token is never submitted as a line - unless a tool outlives
\* its run.  (readSecret, resolveSecret)
SecretNeverSent ==
    late = 0 => \A i \in DOMAIN sent : ToSet(sent[i]) \cap typed.secret = {}

\* Whoever keeps pressing Ctrl+C, and Enter finitely often, gets out, whatever is open -
\* unless a tool outlives its run: its question can take the keys away from a picker for
\* good.  (interrupt, requestCancel)
UserGetsOut == ([](late = 0) /\ WF_terminalVars(CtrlC)) => <>(prog = "gone")

\* What the user types arrives where he typed it, and nowhere else (onKeypress, readInput).
LinesAreTheUsers == WaitingIsReachable /\ LinesInOrder /\ SecretNeverSent
===============================================================================
