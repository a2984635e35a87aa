------------------------------- MODULE AgentRun -------------------------------
(***************************************************************************)
(* One run of the agent (OrcodeAgent.run and #run): checks, compression,   *)
(* the model's stream with its tool rounds, and the epilogue, with every   *)
(* event the run tells its observer.  The SDK is the environment: it calls *)
(* the hooks in the order modelCall, turnStart, tools, modelCall, ... and  *)
(* runs the tools of a round in parallel.                                  *)
(*                                                                         *)
(* The local variables of #run are a closure record, because the hooks of  *)
(* an aborted run may still fire when the next run has its own.  A tool    *)
(* call is [id, tool, input]; its id is the number the agent gave it.      *)
(***************************************************************************)
EXTENDS Integers, Sequences, FiniteSets

CONSTANTS Tools, Inputs,  \* names of tools and inputs of calls
          Costs,          \* what a model call may cost
          MaxSteps,       \* config.maxSteps
          MaxCost,        \* config.maxCostUsd
          CompressionModes, \* of config.compressionMode
          MaxCalls,       \* bound: tool calls in a run
          MaxRuns,        \* bound: runs
          Faults,         \* of "late", "unannounced", "save", "breaks"
          MaxFaults       \* bound

ASSUME AgentAssumption ==
    /\ Costs \subseteq Nat
    /\ MaxSteps \in Nat \ {0} /\ MaxCost \in Nat /\ MaxCalls \in Nat /\ MaxRuns \in Nat
    /\ MaxFaults \in Nat

VARIABLES
    pc,        \* where the run is; "idle" between runs
    aborted,   \* observer.signal.aborted
    cur,       \* the closure of this run
    old,       \* the closure of an earlier one, whose tools still run
    sdk,       \* what the SDK does: phase, rounds left, calls it runs
    late,      \* the calls of the earlier run that still run
    stream,    \* the text and the reasoning stream, and whether there is text
    comp,      \* the outcome of the compression
    over,      \* #lastUsage is beyond the context budget
    booked,    \* what the session's ledger got from this run
    paid,      \* what this run really cost (history)
    last,      \* outcome, turns and memory of the last run
    told,      \* the events of the last step
    shown,     \* tool calls told started and not ended, and the steps told (history)
    runs, kinds, faults  \* bounds

vars == <<pc, aborted, cur, old, sdk, late, stream, comp, over, booked, paid, last, told,
          shown, runs, kinds, faults>>

-----------------------------------------------------------------------------
Call(id, t, i) == [id |-> id, tool |-> t, input |-> i]
Ev(type, n) == [type |-> type, n |-> n, call |-> {}]
ToolEv(type, c) == [type |-> type, n |-> c.id, call |-> {c}]

\* modelStep, announcedStep, pendingModelStep (0 for null), toolSequence, pendingTools
\* (their ids are activeToolIds), observedCost, stopReasons.at(-1).
Fresh == [step |-> 1, announced |-> 1, next |-> 0, seq |-> 0, pending |-> {}, observed |-> 0,
          stop |-> "completed"]
NoSdk == [phase |-> "off", turn |-> 0, todo |-> 0, running |-> {}, final |-> FALSE,
          reports |-> FALSE, heard |-> FALSE, cost |-> 0]
NoStream == [text |-> "open", reasoning |-> "open", visible |-> FALSE, abortLike |-> FALSE]
NoComp == [used |-> FALSE, cost |-> 0, lost |-> 0]
NothingShown == [open |-> {}, started |-> 0, ended |-> 0, over |-> FALSE]

\* startPendingModelStep with announceModelStep: the closure and the events after it.
\* MUTANT: while other tools of the round still run.
AnnounceAnyway(cl) ==
    IF cl.next > cl.announced
    THEN [cl |-> [cl EXCEPT !.announced = cl.next, !.step = cl.next, !.next = 0],
          events |-> <<Ev("model-start", cl.next)>>]
    ELSE [cl |-> [cl EXCEPT !.next = 0], events |-> <<>>]
StartPendingModelStep(cl) ==
    IF cl.next = 0 \/ cl.pending # {} THEN [cl |-> cl, events |-> <<>>]
    ELSE IF cl.next > cl.announced
         THEN [cl |-> [cl EXCEPT !.announced = cl.next, !.step = cl.next, !.next = 0],
               events |-> <<Ev("model-start", cl.next)>>]
         ELSE [cl |-> [cl EXCEPT !.next = 0], events |-> <<>>]

\* shiftPendingTool: of the calls of this tool the oldest with this input, or else the
\* oldest at all.
Oldest(S) == CHOOSE c \in S : \A d \in S : c.id <= d.id
ShiftPendingTool(cl, c) ==
    LET queue == {d \in cl.pending : d.tool = c.tool}
        exact == {d \in queue : d.input = c.input}
    IN IF queue = {} THEN {} ELSE IF exact # {} THEN {Oldest(exact)} ELSE {Oldest(queue)}

\* PostToolUse and PostToolUseFailure of a call that the SDK ended.
PostTool(cl, c, type) ==
    LET shifted == ShiftPendingTool(cl, c)
        id == IF shifted = {} THEN cl.seq + 1 ELSE (CHOOSE d \in shifted : TRUE).id
        next == StartPendingModelStep([cl EXCEPT !.seq = IF shifted = {} THEN @ + 1 ELSE @,
                                                 !.pending = @ \ shifted])
    IN [cl |-> next.cl,
        events |-> <<ToolEv(type, Call(id, c.tool, c.input))>> \o next.events]

\* What the observer has seen after the events.
See(events) ==
    LET started == UNION {events[i].call : i \in {j \in DOMAIN events : events[j].type = "tool-start"}}
        ended == {events[i].n : i \in {j \in DOMAIN events : events[j].type \in {"tool-end", "tool-error"}}}
        steps == {events[i].n : i \in {j \in DOMAIN events : events[j].type = "model-start"}}
        models == {events[i].n : i \in {j \in DOMAIN events : events[j].type = "model-end"}}
        Highest(S, n) == IF S = {} THEN n ELSE CHOOSE m \in S : \A k \in S : k <= m
    IN [open |-> {c \in shown.open \cup started : c.id \notin ended},
        started |-> Highest(steps, shown.started), ended |-> Highest(models, shown.ended),
        over |-> shown.over \/ \E i \in DOMAIN events : events[i].type = "run-end"]
Tell(events) == told' = events /\ shown' = See(events)
Quiet == told' = <<>> /\ UNCHANGED shown

Fault(kind) == /\ kind \in Faults /\ faults < MaxFaults
               /\ faults' = faults + 1 /\ kinds' = kinds \cup {kind}
NoFault == UNCHANGED <<faults, kinds>>

-----------------------------------------------------------------------------
(* The run up to the model call *)

Init ==
    /\ pc = "idle" /\ aborted = FALSE
    /\ cur = Fresh /\ old = Fresh /\ late = {}
    /\ sdk = NoSdk /\ stream = NoStream /\ comp = NoComp
    /\ over \in BOOLEAN /\ booked = 0 /\ paid = 0
    /\ last = [result |-> "none", turns |-> "none", memory |-> "kept"]
    /\ told = <<>> /\ shown = NothingShown
    /\ runs = 0 /\ kinds = {} /\ faults = 0

Begin ==
    /\ pc = "idle" /\ runs < MaxRuns
    /\ pc' = "check" /\ aborted' = FALSE /\ runs' = runs + 1
    /\ cur' = Fresh /\ sdk' = NoSdk /\ stream' = NoStream /\ comp' = NoComp
    /\ booked' = 0 /\ paid' = 0
    /\ last' = [result |-> "none", turns |-> "none", memory |-> "kept"]
    /\ told' = <<Ev("run-start", 0)>> /\ shown' = NothingShown
    /\ NoFault /\ UNCHANGED <<old, late, over>>

\* The one run-end of run().  The tools that the SDK still runs are forgotten, or live on
\* with their closure.
Ends(result, turns, memory) ==
    /\ pc' = "idle"
    /\ last' = [result |-> result, turns |-> turns, memory |-> memory]
    /\ Tell(<<Ev("run-end", 0)>>)
    /\ UNCHANGED <<aborted, cur, sdk, stream, comp, over, paid, runs>>
Dies(result) == /\ Ends(result, "none", "kept") /\ NoFault
                /\ UNCHANGED <<old, late, booked>>
Result == IF aborted THEN "cancelled" ELSE "error"

\* enforceBudget, checkBalance, assertSpendAvailable, the signal before and after, the
\* conversation state.  Later mainModelInfo may fail, and buildModelInput (an image is gone).
CheckFails == pc \in {"check", "input", "ready"} /\ Dies(Result)
CheckPasses ==
    /\ pc = "check" /\ ~aborted /\ pc' = "compress"
    /\ Quiet /\ NoFault
    /\ UNCHANGED <<aborted, cur, old, sdk, late, stream, comp, over, booked, paid, last, runs>>

\* #compress with compressContext: by mode and size, or forced by the last usage.  A
\* failure after the call was paid leaves the raw context and no cost.
Compresses(mode, long) == mode = "always" \/ (mode = "auto" /\ (long \/ over))
CompressWith(used, cost, known) ==
    /\ comp' = [used |-> used, cost |-> known, lost |-> cost - known]
    /\ paid' = paid + cost
    /\ pc' = IF known > 0 THEN "book" ELSE "input"
    /\ Quiet /\ NoFault
    /\ UNCHANGED <<aborted, cur, old, sdk, late, stream, over, booked, last, runs>>
Compress ==
    /\ pc = "compress"
    /\ \/ \E mode \in CompressionModes, long \in BOOLEAN :
             /\ Compresses(mode, long)
             /\ \E c \in Costs : \/ \E used \in BOOLEAN : CompressWith(used, c, c)
                                 \/ ~aborted /\ CompressWith(FALSE, c, 0)
       \/ CompressWith(FALSE, 0, 0)  \* not due, or its estimate is beyond the limit
CompressAborted == pc = "compress" /\ aborted /\ Dies("cancelled")

\* addCost("compressor") and its own save.
BookCompressor ==
    /\ pc = "book" /\ booked' = booked + comp.cost
    /\ \/ /\ pc' = "input" /\ Quiet /\ NoFault
          /\ UNCHANGED <<aborted, cur, sdk, stream, comp, over, paid, last, runs>>
       \/ Fault("save") /\ Ends(Result, "none", "kept")
    /\ UNCHANGED <<old, late>>

\* The first step is told before the input is complete.
TellFirstStep ==
    /\ pc = "input" /\ pc' = "ready"
    /\ Tell(<<Ev("model-start", cur.step)>>) /\ NoFault
    /\ UNCHANGED <<aborted, cur, old, sdk, late, stream, comp, over, booked, paid, last, runs>>

\* callModel: the stream and its hooks begin.  reports: whether the hooks tell the cost.
CallModel ==
    /\ pc = "ready" /\ pc' = "stream"
    /\ \E reports \in BOOLEAN :
          sdk' = [NoSdk EXCEPT !.phase = "model", !.reports = reports, !.heard = reports]
    /\ Quiet /\ NoFault
    /\ UNCHANGED <<aborted, cur, old, late, stream, comp, over, booked, paid, last, runs>>

-----------------------------------------------------------------------------
(* The hooks *)

Largest(m, n) == IF m > n THEN m ELSE n
InSdk(phase) == pc = "stream" /\ stream.text = "open" /\ sdk.phase = phase
OnlyHooks == UNCHANGED <<pc, aborted, late, old, stream, comp, over, last, runs>>

\* PostModelCall; the model answers, or wants tools.
PostModelCall(c) == [cur EXCEPT !.observed = @ + c,
                                !.announced = Largest(@, sdk.turn + 1),
                                !.step = Largest(@, sdk.turn + 1)]
ModelCallEnds ==
    /\ InSdk("model")
    /\ \E c \in Costs, todo \in 0..(MaxCalls - cur.seq) :
          LET known == IF sdk.reports THEN c ELSE 0
          IN /\ sdk.final => todo = 0
             /\ cur' = PostModelCall(known)
             /\ booked' = booked + known /\ paid' = paid + c
             /\ sdk' = [sdk EXCEPT !.phase = IF todo = 0 THEN "answered" ELSE "turn",
                                   !.turn = @ + 1, !.todo = todo, !.cost = @ + c]
    /\ Tell(<<Ev("model-end", sdk.turn + 1)>>)
    /\ OnlyHooks /\ NoFault

OnTurnStart ==
    /\ InSdk("turn")
    /\ cur' = [cur EXCEPT !.next = Largest(@, sdk.turn + 1)]
    /\ sdk' = [sdk EXCEPT !.phase = "tools"]
    /\ Quiet /\ OnlyHooks /\ NoFault /\ UNCHANGED <<booked, paid>>

PreToolUse ==
    /\ InSdk("tools") /\ sdk.todo > 0
    /\ \E t \in Tools, i \in Inputs :
          LET c == Call(cur.seq + 1, t, i)
          IN /\ cur' = [cur EXCEPT !.seq = @ + 1, !.pending = @ \cup {c}]
             /\ sdk' = [sdk EXCEPT !.todo = @ - 1, !.running = @ \cup {c}]
             /\ Tell(<<ToolEv("tool-start", c)>>)
    /\ OnlyHooks /\ NoFault /\ UNCHANGED <<booked, paid>>

ToolEnds ==
    /\ pc \in {"stream", "response", "save", "memory"}
    /\ \E c \in sdk.running, type \in {"tool-end", "tool-error"} :
          LET post == PostTool(cur, c, type)
          IN /\ cur' = post.cl /\ Tell(post.events)
             /\ sdk' = [sdk EXCEPT !.running = @ \ {c}]
    /\ OnlyHooks /\ NoFault /\ UNCHANGED <<booked, paid>>

\* A call that failed before PreToolUse: the hook has a number for it all the same.
UnannouncedEnds ==
    /\ InSdk("tools") /\ sdk.todo > 0 /\ Fault("unannounced")
    /\ \E t \in Tools, i \in Inputs :
          LET post == PostTool(cur, Call(0, t, i), "tool-error")
          IN cur' = post.cl /\ Tell(post.events)
    /\ sdk' = [sdk EXCEPT !.todo = @ - 1]
    /\ OnlyHooks /\ UNCHANGED <<booked, paid>>

\* All tools of the round are done: the next model call, the last one after Stop.
RoundEnds ==
    /\ InSdk("tools") /\ sdk.todo = 0 /\ sdk.running = {}
    /\ IF sdk.turn >= MaxSteps \/ cur.observed >= MaxCost
       THEN /\ cur' = [cur EXCEPT !.stop = IF cur.observed >= MaxCost THEN "cost-limit"
                                           ELSE "step-limit"]
            /\ sdk' = [sdk EXCEPT !.phase = "model", !.final = TRUE]
       ELSE sdk' = [sdk EXCEPT !.phase = "model"] /\ UNCHANGED cur
    /\ Quiet /\ OnlyHooks /\ NoFault /\ UNCHANGED <<booked, paid>>

\* Tools of an aborted run that end when it is over.
LateToolEnds ==
    /\ \E c \in late, type \in {"tool-end", "tool-error"} :
          LET post == PostTool(old, c, type)
          IN old' = post.cl /\ late' = late \ {c} /\ Tell(post.events)
    /\ NoFault
    /\ UNCHANGED <<pc, aborted, cur, sdk, stream, comp, over, booked, paid, last, runs>>

-----------------------------------------------------------------------------
(* The streams *)

OnlyStream == UNCHANGED <<pc, aborted, cur, old, late, comp, over, booked, paid, last, runs>>

TextArrives ==
    /\ InSdk("model") /\ stream' = [stream EXCEPT !.visible = TRUE]
    /\ Tell(<<Ev("text", 0)>>) /\ OnlyStream /\ NoFault /\ UNCHANGED sdk
ReasoningArrives ==
    /\ InSdk("model") /\ stream.reasoning = "open" /\ UNCHANGED stream
    /\ Tell(<<Ev("reasoning", cur.step)>>) /\ OnlyStream /\ NoFault /\ UNCHANGED sdk
TextEnds ==
    /\ InSdk("answered") /\ stream' = [stream EXCEPT !.text = "done"]
    /\ Quiet /\ OnlyStream /\ NoFault /\ UNCHANGED sdk
\* breaks: an error whose message reads like an abort (isAbortError).
TextFails ==
    /\ pc = "stream" /\ stream.text = "open"
    /\ \/ NoFault /\ stream' = [stream EXCEPT !.text = "error"]
       \/ Fault("breaks") /\ stream' = [stream EXCEPT !.text = "error", !.abortLike = TRUE]
    /\ sdk' = [sdk EXCEPT !.phase = "off", !.todo = 0]
    /\ Quiet /\ OnlyStream
ReasoningEnds ==
    /\ pc = "stream" /\ stream.reasoning = "open"
    /\ \/ stream' = [stream EXCEPT !.reasoning = "error"]
       \/ sdk.phase \in {"answered", "off"} /\ stream' = [stream EXCEPT !.reasoning = "done"]
    /\ Quiet /\ OnlyStream /\ NoFault /\ UNCHANGED sdk

Abort ==
    /\ pc # "idle" /\ ~aborted /\ aborted' = TRUE
    /\ Quiet /\ NoFault
    /\ UNCHANGED <<pc, cur, old, sdk, late, stream, comp, over, booked, paid, last, runs>>

-----------------------------------------------------------------------------
(* The epilogue *)

\* From the end of the streams and the response to the save, without an await: cost,
\* outcome, turns.  MUTANT: the cost of the response comes on top of what was observed.
BookTwice(cost) == booked + cost
BookMain(cost) == IF cur.observed = 0 THEN booked + cost ELSE booked
Cancelled == aborted \/ stream.abortLike
Conclude(failed, cost) ==
    /\ pc' = "save"
    /\ booked' = BookMain(cost)
    /\ over' \in IF sdk.turn > 0 THEN BOOLEAN ELSE {over}
    /\ LET result == IF ~failed THEN cur.stop ELSE IF Cancelled THEN "cancelled" ELSE "error"
           turns == IF ~failed THEN "full" ELSE IF stream.visible THEN result ELSE "none"
           cut == ~failed /\ comp.used  \* compactTurns, and the memory is emptied
       IN last' = [result |-> result, turns |-> turns, memory |-> IF cut THEN "reset" ELSE "kept"]
    /\ Quiet /\ NoFault
    /\ UNCHANGED <<aborted, cur, old, late, stream, comp, paid, runs>>

Failed == stream.text = "error" \/ (stream.reasoning = "error" /\ ~stream.visible)
\* MUTANT: the tools that still run are awaited too.
StreamsAndToolsOver == stream.text # "open" /\ stream.reasoning # "open" /\ sdk.running = {}
StreamsOver == stream.text # "open" /\ stream.reasoning # "open"
Settle ==
    /\ pc = "stream" /\ StreamsOver
    /\ IF Failed THEN Conclude(TRUE, 0) /\ UNCHANGED sdk
       ELSE /\ pc' = "response" /\ Quiet /\ NoFault
            /\ UNCHANGED <<aborted, cur, old, sdk, late, stream, comp, over, booked, paid, last, runs>>
Response ==
    /\ pc = "response"
    /\ \/ Conclude(FALSE, sdk.cost) /\ sdk' = [sdk EXCEPT !.heard = TRUE]
       \/ Conclude(FALSE, 0) /\ UNCHANGED sdk  \* no usage in it, or it failed behind an answer
       \/ ~stream.visible /\ Conclude(TRUE, 0) /\ UNCHANGED sdk

LeaveTools == \/ NoFault /\ UNCHANGED <<old, late>>
              \/ sdk.running # {} /\ late = {} /\ Fault("late") /\ old' = cur /\ late' = sdk.running

\* session.save(); when it throws, the memory is neither committed nor discarded.
Save ==
    /\ pc = "save" /\ UNCHANGED booked
    /\ \/ /\ pc' = "memory" /\ Quiet /\ NoFault
          /\ UNCHANGED <<aborted, cur, old, late, sdk, stream, comp, over, paid, last, runs>>
       \/ Fault("save") /\ Ends(Result, last.turns, last.memory) /\ UNCHANGED <<old, late>>

\* Commit or discard, then run-end; a memory that was emptied has nothing to commit, and
\* no file is written.
Success == last.turns = "full"
Committed == IF comp.used THEN "reset" ELSE "committed"
Remember == IF Success THEN Committed ELSE "discarded"
Memory ==
    /\ pc = "memory" /\ UNCHANGED booked
    /\ \/ Ends(last.result, last.turns, Remember) /\ LeaveTools
       \/ /\ Success /\ ~comp.used /\ Fault("save")
          /\ Ends(Result, last.turns, "kept") /\ UNCHANGED <<old, late>>

-----------------------------------------------------------------------------
Prepare == \/ Begin \/ CheckFails \/ CheckPasses \/ Compress \/ CompressAborted
           \/ BookCompressor \/ TellFirstStep \/ CallModel
Hooks == \/ ModelCallEnds \/ OnTurnStart \/ PreToolUse \/ ToolEnds \/ UnannouncedEnds
         \/ RoundEnds \/ LateToolEnds
Streams == TextArrives \/ ReasoningArrives \/ TextEnds \/ TextFails \/ ReasoningEnds
Epilogue == Settle \/ Response \/ Save \/ Memory
Next == Prepare \/ Hooks \/ Streams \/ Abort \/ Epilogue

Spec == Init /\ [][Next]_vars

\* The code's own steps are taken, and an SDK whose signal is aborted ends its streams.
OwnSteps == \/ CheckFails \/ CheckPasses \/ Compress \/ CompressAborted
            \/ BookCompressor \/ TellFirstStep \/ CallModel \/ Epilogue
FairSpec == /\ Spec
            /\ WF_vars(OwnSteps)
            /\ WF_vars(aborted /\ TextFails)
            /\ WF_vars(aborted /\ ReasoningEnds)
-----------------------------------------------------------------------------
(* Properties *)

Calls == {Call(n, t, i) : n \in 1..(MaxCalls + 1), t \in Tools, i \in Inputs}

\* Type invariant.
TypeOK ==
    /\ pc \in {"idle", "check", "compress", "book", "input", "ready", "stream", "response", "save", "memory"}
    /\ aborted \in BOOLEAN /\ over \in BOOLEAN
    /\ \A cl \in {cur, old} :
          /\ cl.pending \subseteq Calls /\ cl.seq \in 0..(MaxCalls + 1)
          /\ {cl.step, cl.announced, cl.next, cl.observed} \subseteq Nat
          /\ cl.stop \in {"completed", "step-limit", "cost-limit"}
    /\ sdk.running \subseteq Calls /\ late \subseteq Calls
    /\ booked \in Nat /\ paid \in Nat
    /\ last.result \in {"none", "completed", "step-limit", "cost-limit", "cancelled", "error"}
    /\ last.turns \in {"none", "full", "cancelled", "error"}
    /\ last.memory \in {"kept", "reset", "committed", "discarded"}

\* An end that is told belongs to a call that was told to have started with that input and
\* has not ended, however the parallel calls of a round finish - unless a call ended that
\* never began, or one of an earlier run (the hooks of agent.ts and shiftPendingTool).
ToolEventsPaired ==
    [][kinds' \cap {"unannounced", "late"} = {} =>
        \A i \in DOMAIN told' :
            told'[i].type \in {"tool-end", "tool-error"} =>
                told'[i].call \subseteq shown.open]_vars

\* The steps told grow, a step is not announced after it ended nor while a tool is open, and
\* nothing follows the run's end - with the same exceptions.  (announceModelStep, PostModelCall, run.)
StepsInOrder ==
    [][kinds' \cap {"unannounced", "late"} = {} =>
        \A i \in DOMAIN told' :
            LET e == told'[i]
            IN /\ e.type = "model-start" =>
                      e.n > shown.started /\ e.n > shown.ended /\ shown'.open = {}
               /\ e.type = "model-end" => e.n = shown.ended + 1
               /\ e.type # "run-start" => ~shown.over]_vars

\* What the ledger got is never more than what the run cost, and all of it once the run
\* has heard the costs and no compressor call failed after it was paid.  (PostModelCall,
\* mainCostUsd, #compress.)
CostsBookedOnce ==
    /\ booked <= paid
    /\ (pc = "idle" /\ runs > 0 /\ sdk.heard /\ comp.lost = 0) => booked = paid

\* A run counts as finished exactly if its whole answer is in the chat; it is in the memory
\* then, or the context was cut and the memory begins anew; a fragment says why it is one;
\* only an abort is called cancelled - unless a write fails or an error reads like an abort.
\* (the epilogue of #run)
OutcomeHonest ==
    (pc = "idle" /\ kinds \cap {"save", "breaks"} = {}) =>
        /\ (last.memory = "committed") <=> (last.turns = "full" /\ ~comp.used)
        /\ (last.memory = "reset") <=> (last.turns = "full" /\ comp.used)
        /\ (last.turns = "full") <=> (last.result \in {"completed", "step-limit", "cost-limit"})
        /\ last.result = "cancelled" => aborted
        /\ last.result = "cost-limit" => cur.observed >= MaxCost
        /\ (stream.text = "done" /\ stream.visible) => last.turns = "full"
        /\ last.turns \in {"cancelled", "error"} => stream.visible

\* An aborted run ends, with whatever tools are running.  (Ctrl+C)
AbortedRunEnds == (aborted /\ pc # "idle") ~> (pc = "idle")

\* The stream of events can be shown as it comes (AgentRunEvent).
EventsInOrder == ToolEventsPaired /\ StepsInOrder

\* What a run leaves behind says what it did and cost (the epilogue of #run).
ResultIsHonest == OutcomeHonest /\ CostsBookedOnce
===============================================================================
