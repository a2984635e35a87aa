------------------------------ MODULE Approvals ------------------------------
(***************************************************************************)
(* Who may run a tool: ApprovalManager (approval.ts), the remembered rules *)
(* (rules.ts) and the approval dialog of the dashboard (tui.ts).           *)
(*                                                                         *)
(* The SDK starts the tool calls of one model answer together, so several  *)
(* may stand before the dialog, of which there is one; its resolver        *)
(* belongs to the newest question.  All instances of a user share          *)
(* permissions.json, which each reads when it starts and replaces when it  *)
(* remembers or forgets a rule.  One workspace is modelled.                *)
(*                                                                         *)
(* A call is named by its position in calls.  A rule is named by the call  *)
(* whose answer was remembered: tool, subject and decision are that call's.*)
(* Only requests with a subject leave one.  Of those the tools make it is  *)
(* ssh_command, which alone sets what subjectOf needs, a command or a path.*)
(***************************************************************************)
EXTENDS Naturals, Sequences, FiniteSets

CONSTANTS
    Procs,       \* orcode instances of one user
    Requests,    \* what tools ask for, see Request
    Covers,      \* <<subject of a rule, subject of a request it matches>>
    Modes,       \* approval modes in use
    NoCall, NoSubject,
    MaxDenials,  \* MAX_DENIALS_PER_RUN
    MaxCalls, MaxRuns, MaxStarts  \* bounds: calls, runs, starts of instances

AllModes == {"read-only", "ask", "auto-edit", "allow-all"}
Risks    == {"read", "edit", "shell", "secret-read", "remote-shell", "network-fetch"}
Answers  == {"yes", "no", "always", "never"}

ASSUME ApprovalsAssumption ==
    /\ \A r \in Requests :
          /\ DOMAIN r = {"tool", "subject", "risk", "protected"}
          /\ r.risk \in Risks /\ r.protected \in BOOLEAN
          /\ r.subject # NoSubject => <<r.subject, r.subject>> \in Covers
    /\ Modes \subseteq AllModes
    /\ MaxDenials \in Nat \ {0}
    /\ MaxCalls \in Nat /\ MaxRuns \in Nat /\ MaxStarts \in Nat
    /\ NoCall \notin Nat

VARIABLES
    phase,    \* each instance: "down", "idle", "run" or "cancelled"
    mode,     \* its approval mode
    rules,    \* its #rules
    file,     \* the rules in permissions.json
    denials,  \* its #denials
    dialog,   \* the call that #confirmResolve belongs to, or NoCall
    calls,    \* all tool calls so far, see Call
    run,      \* number of each instance's latest run
    runs, starts

\* History; no step reads it.
VARIABLES
    known,    \* rules that were remembered for good before an instance could know
    gone,     \* rules it forgot, or that were forgotten before it started
    kept,     \* rules remembered for good and not forgotten
    dropped,  \* rules forgotten
    kinds     \* what has happened that properties except

history == <<known, gone, kept, dropped, kinds>>
vars == <<phase, mode, rules, file, denials, dialog, calls, run, runs, starts, history>>

-----------------------------------------------------------------------------
CallIds == 1..MaxCalls
Tools   == {r.tool : r \in Requests}

States  == {"asking", "remember", "write", "allowed", "denied", "failed", "dead"}
Settled == {"allowed", "denied", "failed", "dead"}

Call == [proc: Procs, run: 1..MaxRuns, req: Requests, state: States,
         answer: Answers \cup {"none"}, list: SUBSET CallIds]

Ids == DOMAIN calls
Of(p, state) == {c \in Ids : calls[c].proc = p /\ calls[c].state = state}
Unsettled(p) == {c \in Ids : calls[c].proc = p /\ calls[c].state \notin Settled}
Others(p)    == {q \in Procs \ {p} : phase[q] # "down"}
Writing(p)   == Of(p, "remember") \cup Of(p, "write")

Happened(kind, condition) == kinds' = IF condition THEN kinds \cup {kind} ELSE kinds

-----------------------------------------------------------------------------
(* The decision *)

Matches(i, r) ==
    /\ r.subject # NoSubject /\ calls[i].req.tool = r.tool
    /\ <<calls[i].req.subject, r.subject>> \in Covers

Remembered(p, r, answer) == \E i \in rules[p] : calls[i].answer = answer /\ Matches(i, r)

\* MUTANT of ByMode: the mode is looked at before the protected path.
ByModeFirst(m, r) ==
    IF r.risk = "read" THEN "allow"
    ELSE IF m = "read-only" THEN "deny"
    ELSE IF m = "allow-all" \/ (m = "auto-edit" /\ r.risk = "edit") THEN "allow"
    ELSE "ask"

\* #decide
ByMode(m, r) ==
    IF r.risk = "read" THEN (IF r.protected THEN "ask" ELSE "allow")
    ELSE IF r.risk \in {"secret-read", "remote-shell", "network-fetch"}
         THEN (IF m = "allow-all" /\ ~r.protected THEN "allow" ELSE "ask")
    ELSE IF m = "read-only" THEN "deny"
    ELSE IF r.protected THEN "ask"
    ELSE IF m = "allow-all" \/ (m = "auto-edit" /\ r.risk = "edit") THEN "allow"
    ELSE "ask"

\* MUTANT of Locked: one rejection too many.
LockedLate(p, tool) == denials[p][tool] > MaxDenials

\* #lockedTools
Locked(p, tool) == denials[p][tool] >= MaxDenials

\* authorize, up to the question
Verdict(p, r) ==
    IF Remembered(p, r, "never") THEN "denied"
    ELSE IF Remembered(p, r, "always") /\ ~r.protected THEN "allowed"
    ELSE IF ByMode(mode[p], r) = "allow" THEN "allowed"
    ELSE IF ByMode(mode[p], r) = "deny" \/ Locked(p, r.tool) THEN "denied"
    ELSE "asking"

NewCall(p, r) ==
    [proc |-> p, run |-> run[p], req |-> r, state |-> Verdict(p, r),
     answer |-> "none", list |-> {}]

\* A tool call that needs no question.
CallSettled(p, r) ==
    /\ phase[p] = "run" /\ Len(calls) < MaxCalls
    /\ Verdict(p, r) # "asking"
    /\ calls' = Append(calls, NewCall(p, r))
    /\ UNCHANGED <<phase, mode, rules, file, denials, dialog, run, runs, starts, history>>

\* confirmApproval: the dialog belongs to this call from now on.
CallAsks(p, r) ==
    /\ phase[p] = "run" /\ Len(calls) < MaxCalls
    /\ Verdict(p, r) = "asking"
    /\ calls' = Append(calls, NewCall(p, r))
    /\ dialog' = [dialog EXCEPT ![p] = Len(calls) + 1]
    /\ kinds' = kinds \cup (IF Of(p, "asking") # {} THEN {"parallel"} ELSE {})
                      \cup (IF Writing(p) # {} THEN {"early"} ELSE {})
    /\ UNCHANGED <<phase, mode, rules, file, denials, run, runs, starts, known, gone, kept, dropped>>

-----------------------------------------------------------------------------
(* The answer *)

Accepted(answer) == answer \in {"yes", "always"}

\* What authorize does with the answer at the end.
Settle(c, answer) ==
    LET p == calls[c].proc  t == calls[c].req.tool IN
    /\ calls' = [calls EXCEPT ![c].answer = answer, ![c].list = {},
                              ![c].state = IF Accepted(answer) THEN "allowed" ELSE "denied"]
    /\ denials' = IF Accepted(answer) THEN denials ELSE [denials EXCEPT ![p][t] = @ + 1]

\* The request on the screen has something for a rule to name.
Nameable(p) == calls[dialog[p]].req.subject # NoSubject

\* #resolveConfirm without a rule: none was asked for, or there is nothing to name in it.
AnswerOnce(p, answer) ==
    /\ phase[p] # "down" /\ dialog[p] # NoCall
    /\ answer \in {"always", "never"} => ~Nameable(p)
    /\ Settle(dialog[p], answer)
    /\ dialog' = [dialog EXCEPT ![p] = NoCall]
    /\ UNCHANGED <<phase, mode, rules, file, run, runs, starts, history>>

\* RuleStore.remember: the rule counts at once and is written down later.
AnswerForGood(p, answer) ==
    /\ phase[p] # "down" /\ dialog[p] # NoCall /\ Nameable(p)
    /\ calls' = [calls EXCEPT ![dialog[p]].answer = answer, ![dialog[p]].state = "remember"]
    /\ rules' = [rules EXCEPT ![p] = @ \cup {dialog[p]}]
    /\ dialog' = [dialog EXCEPT ![p] = NoCall]
    /\ Happened("overlap", Writing(p) # {})
    /\ UNCHANGED <<phase, mode, file, denials, run, runs, starts, known, gone, kept, dropped>>

\* #persist has the directory and turns the list into text.
ListRules(c) ==
    /\ calls[c].state = "remember"
    /\ calls' = [calls EXCEPT ![c].state = "write", ![c].list = rules[calls[c].proc]]
    /\ UNCHANGED <<phase, mode, rules, file, denials, dialog, run, runs, starts, history>>

\* MUTANT of WriteRules: only the new rule is written.
WriteNewRule(c) ==
    /\ calls[c].state = "write"
    /\ file' = {c}
    /\ Settle(c, calls[c].answer)
    /\ kept' = kept \cup ({c} \cap rules[calls[c].proc])
    /\ known' = [known EXCEPT ![calls[c].proc] = @ \cup ({c} \cap rules[calls[c].proc])]
    /\ Happened("shared", Others(calls[c].proc) # {})
    /\ UNCHANGED <<phase, mode, rules, dialog, run, runs, starts, gone, dropped>>

\* writeFileAtomicSecure: the file becomes this list, whatever it was.
WriteRules(c) ==
    /\ calls[c].state = "write"
    /\ file' = calls[c].list
    /\ Settle(c, calls[c].answer)
    /\ kept' = kept \cup ({c} \cap rules[calls[c].proc])
    /\ known' = [known EXCEPT ![calls[c].proc] = @ \cup ({c} \cap rules[calls[c].proc])]
    /\ Happened("shared", Others(calls[c].proc) # {})
    /\ UNCHANGED <<phase, mode, rules, dialog, run, runs, starts, gone, dropped>>

\* It fails, and so does the call: the answer is not counted.
WriteFails(c) ==
    /\ calls[c].state = "write"
    /\ calls' = [calls EXCEPT ![c].state = "failed", ![c].list = {}]
    /\ UNCHANGED <<phase, mode, rules, file, denials, dialog, run, runs, starts, history>>

\* Ctrl+C: a no to the question on the screen, and the run is cancelled.
Interrupt(p) ==
    /\ phase[p] = "run"
    /\ IF dialog[p] = NoCall THEN UNCHANGED <<calls, denials>> ELSE Settle(dialog[p], "no")
    /\ dialog' = [dialog EXCEPT ![p] = NoCall]
    /\ phase' = [phase EXCEPT ![p] = "cancelled"]
    /\ UNCHANGED <<mode, rules, file, run, runs, starts, history>>

-----------------------------------------------------------------------------
(* Runs, commands between them, and instances *)

\* beginRun
BeginRun(p) ==
    /\ phase[p] = "idle" /\ runs < MaxRuns
    /\ phase' = [phase EXCEPT ![p] = "run"]
    /\ runs' = runs + 1
    /\ run' = [run EXCEPT ![p] = runs + 1]
    /\ denials' = [denials EXCEPT ![p] = [t \in Tools |-> 0]]
    /\ UNCHANGED <<mode, rules, file, dialog, calls, starts, history>>

\* The SDK waits for its tool calls, or no longer after a cancellation.
EndRun(p) ==
    /\ phase[p] = "cancelled" \/ (phase[p] = "run" /\ Unsettled(p) = {})
    /\ phase' = [phase EXCEPT ![p] = "idle"]
    /\ Happened("outlived", Writing(p) # {})
    /\ UNCHANGED <<mode, rules, file, denials, dialog, calls, run, runs, starts, known, gone, kept, dropped>>

\* /allow <mode>
SetMode(p, m) ==
    /\ phase[p] = "idle" /\ mode[p] # m
    /\ mode' = [mode EXCEPT ![p] = m]
    /\ UNCHANGED <<phase, rules, file, denials, dialog, calls, run, runs, starts, history>>

\* /allow forget
Forget(p, i) ==
    /\ phase[p] = "idle" /\ i \in rules[p]
    /\ rules' = [rules EXCEPT ![p] = @ \ {i}]
    /\ file' = rules'[p]
    /\ kept' = kept \ {i} /\ dropped' = dropped \cup {i}
    /\ known' = [known EXCEPT ![p] = @ \ {i}]
    /\ gone' = [gone EXCEPT ![p] = @ \cup {i}]
    /\ kinds' = kinds \cup (IF Writing(p) # {} THEN {"overlap"} ELSE {})
                      \cup (IF Others(p) # {} THEN {"shared"} ELSE {})
    /\ UNCHANGED <<phase, mode, denials, dialog, calls, run, runs, starts>>

\* An instance starts in some mode and loads the rules.
Start(p, m) ==
    /\ phase[p] = "down" /\ starts < MaxStarts
    /\ starts' = starts + 1
    /\ phase' = [phase EXCEPT ![p] = "idle"]
    /\ mode' = [mode EXCEPT ![p] = m]
    /\ rules' = [rules EXCEPT ![p] = file]
    /\ denials' = [denials EXCEPT ![p] = [t \in Tools |-> 0]]
    /\ known' = [known EXCEPT ![p] = kept]
    /\ gone' = [gone EXCEPT ![p] = dropped]
    /\ UNCHANGED <<file, dialog, calls, run, runs, kept, dropped, kinds>>

\* It ends, in order or not, and takes its memory with it.
Exit(p) ==
    /\ phase[p] # "down"
    /\ phase' = [phase EXCEPT ![p] = "down"]
    /\ dialog' = [dialog EXCEPT ![p] = NoCall]
    /\ calls' = [c \in Ids |-> IF c \in Unsettled(p)
                               THEN [calls[c] EXCEPT !.state = "dead", !.list = {}] ELSE calls[c]]
    /\ mode' = [mode EXCEPT ![p] = CHOOSE m \in Modes : TRUE]
    /\ rules' = [rules EXCEPT ![p] = {}]
    /\ denials' = [denials EXCEPT ![p] = [t \in Tools |-> 0]]
    /\ known' = [known EXCEPT ![p] = {}] /\ gone' = [gone EXCEPT ![p] = {}]
    /\ UNCHANGED <<file, run, runs, starts, kept, dropped, kinds>>

-----------------------------------------------------------------------------
Init ==
    /\ phase = [p \in Procs |-> "down"]
    /\ mode = [p \in Procs |-> CHOOSE m \in Modes : TRUE]
    /\ rules = [p \in Procs |-> {}] /\ file = {}
    /\ denials = [p \in Procs |-> [t \in Tools |-> 0]]
    /\ dialog = [p \in Procs |-> NoCall]
    /\ calls = <<>>
    /\ run = [p \in Procs |-> 0] /\ runs = 0 /\ starts = 0
    /\ known = [p \in Procs |-> {}] /\ gone = [p \in Procs |-> {}]
    /\ kept = {} /\ dropped = {} /\ kinds = {}

AnswerKey(p) ==
    \/ \E answer \in Answers : AnswerOnce(p, answer)
    \/ \E answer \in {"always", "never"} : AnswerForGood(p, answer)

Persist(c) == ListRules(c) \/ WriteRules(c) \/ WriteFails(c)

Next ==
    \/ \E p \in Procs :
          \/ \E r \in Requests : CallSettled(p, r) \/ CallAsks(p, r)
          \/ AnswerKey(p)
          \/ Interrupt(p)
          \/ BeginRun(p)
          \/ EndRun(p)
          \/ \E m \in Modes : SetMode(p, m) \/ Start(p, m)
          \/ \E i \in rules[p] : Forget(p, i)
          \/ Exit(p)
    \/ \E c \in Ids : Persist(c)

Spec == Init /\ [][Next]_vars

-----------------------------------------------------------------------------
(* Properties *)

TypeOK ==
    /\ phase \in [Procs -> {"down", "idle", "run", "cancelled"}]
    /\ mode \in [Procs -> Modes]
    /\ rules \in [Procs -> SUBSET Ids] /\ file \subseteq Ids
    /\ denials \in [Procs -> [Tools -> Nat]]
    /\ \A p \in Procs : dialog[p] # NoCall => dialog[p] \in Of(p, "asking")
    /\ calls \in Seq(Call)
    /\ run \in [Procs -> 0..MaxRuns] /\ runs \in 0..MaxRuns /\ starts \in 0..MaxStarts

\* Whatever rules and modes say, a protected path is touched only after a yes
\* to the very call that touches it.
ProtectedOnlyByYes ==
    \A c \in Ids : calls[c].state = "allowed" /\ calls[c].req.protected
                   => Accepted(calls[c].answer)

Rejections(p, tool) ==
    {c \in Ids : /\ calls[c].proc = p /\ calls[c].run = run[p] /\ calls[c].req.tool = tool
                 /\ calls[c].answer \in {"no", "never"} /\ calls[c].state # "failed"}

\* After MAX_DENIALS_PER_RUN rejections of a tool the user is not asked about it
\* again in this run, however the questions of parallel calls interleave.  Not
\* covered: a question that opens while an earlier "never" is still being
\* written, and a "never" that cannot be written; neither is counted.
RejectedAtMostMaxDenials ==
    "early" \notin kinds =>
        \A p \in Procs, t \in Tools : Cardinality(Rejections(p, t)) <= MaxDenials

\* No run starts with the rejections of an earlier one, unless a call outlived
\* its cancelled run.
BudgetIsPerRun ==
    "outlived" \notin kinds =>
        \A p \in Procs, t \in Tools :
            phase[p] # "down" => denials[p][t] <= Cardinality(Rejections(p, t))

\* "Approvals ... can be remembered so you are not asked again": an instance
\* knows every rule it or, before it started, any other wrote and nobody forgot.
RememberedIsKnown ==
    \A p \in Procs : phase[p] # "down" => known[p] \subseteq rules[p]

\* It is true as long as no instance changes the file while another is up, or rules
\* while it is still writing another one.
RememberedIsKnownAlone == kinds \cap {"shared", "overlap"} = {} => RememberedIsKnown

\* Under the same condition a rule that was forgotten never comes back.
ForgottenStaysForgotten ==
    kinds \cap {"shared", "overlap"} = {} =>
        \A p \in Procs : phase[p] # "down" => rules[p] \cap gone[p] = {}

\* Every open question has the dialog's answer coming to it: no run waits for a
\* decision that nobody can make any more.  It takes questions one at a time; a
\* second one takes the dialog from the first for good.
NoQuestionIsOrphaned ==
    "parallel" \notin kinds =>
        \A p \in Procs, c \in Ids :
            calls[c].proc = p /\ calls[c].state = "asking" => dialog[p] = c

\* A rule holds until the user takes it back (remember, forget).
RulesAreKept == RememberedIsKnownAlone /\ ForgottenStaysForgotten

\* The user is asked as often as a run may, and every question gets his answer
\* (MAX_DENIALS_PER_RUN, beginRun, confirm).
QuestionsAreAnswered == RejectedAtMostMaxDenials /\ BudgetIsPerRun /\ NoQuestionIsOrphaned
=============================================================================
