---------------------------- MODULE RunViewProofs ----------------------------
(* Proofs about a run of the agent and about the view of it: AgentRun, to      *)
(* which RunView only adds the view.                                           *)
EXTENDS RunView, FiniteSetTheorems, SequenceTheorems, WellFoundedInduction, TLAPS

-----------------------------------------------------------------------------
(* Types *)

Steps == {"idle", "check", "compress", "book", "input", "ready", "stream", "response", "save",
          "memory"}
Stops == {"completed", "step-limit", "cost-limit"}
Ended == {"none", "completed", "step-limit", "cost-limit", "cancelled", "error"}
CallRec == [id : Nat, tool : Tools, input : Inputs]
ClosureRec == [step : Nat, announced : Nat, next : Nat, seq : Nat, pending : SUBSET CallRec,
               observed : Nat, stop : Stops]
SdkRec == [phase : {"off", "model", "answered", "turn", "tools"}, turn : Nat, todo : Nat,
           running : SUBSET CallRec, final : BOOLEAN, reports : BOOLEAN, heard : BOOLEAN, cost : Nat]
StreamRec == [text : {"open", "done", "error"}, reasoning : {"open", "done", "error"},
              visible : BOOLEAN, abortLike : BOOLEAN]
CompRec == [used : BOOLEAN, cost : Nat, lost : Nat]
LastRec == [result : Ended, turns : {"none", "full", "cancelled", "error"},
            memory : {"kept", "reset", "committed", "discarded"}]

IClosures == cur \in ClosureRec /\ old \in ClosureRec
ISdk == sdk \in SdkRec /\ late \subseteq CallRec
IStream == stream \in StreamRec /\ last \in LastRec
IMoney == comp \in CompRec /\ booked \in Nat /\ paid \in Nat
IType == IClosures /\ ISdk /\ IStream /\ IMoney

-----------------------------------------------------------------------------
(* What a run leaves behind *)

\* Before the model is called nothing of the closure and of the streams is used.
Early == {"check", "compress", "book", "input", "ready"}
IEarly ==
    /\ pc \in Steps
    /\ pc \in Early => cur = Fresh /\ sdk = NoSdk /\ stream = NoStream
    /\ pc \in {"check", "compress"} => comp = NoComp

\* What was booked and what was paid, in every phase of a run.
IBooked ==
    /\ pc \in {"check", "compress", "book"} => booked = 0
    /\ pc \in {"input", "ready"} => booked = comp.cost
    /\ pc \in {"stream", "response"} => booked = comp.cost + cur.observed
    /\ pc \in {"save", "memory", "idle"} =>
           booked <= paid /\ (sdk.heard /\ comp.lost = 0 => booked = paid)
IPaid ==
    /\ pc \in {"check", "compress"} => paid = 0
    /\ pc \in {"book", "input", "ready"} => paid = comp.cost + comp.lost
    /\ pc \in {"stream", "response"} =>
           /\ paid = comp.cost + comp.lost + sdk.cost
           /\ sdk.heard = sdk.reports
           /\ sdk.reports => cur.observed = sdk.cost
           /\ ~sdk.reports => cur.observed = 0

\* The outcome a run was concluded with.
Concluded ==
    /\ last.turns = "full" <=> last.result \in Stops
    /\ last.result = "cancelled" => aborted \/ "breaks" \in kinds
    /\ last.result = "cost-limit" => cur.observed >= MaxCost
    /\ stream.text = "done" /\ stream.visible => last.turns = "full"
    /\ last.turns \in {"cancelled", "error"} => stream.visible
IOutcome ==
    /\ cur.stop = "cost-limit" => cur.observed >= MaxCost
    /\ stream.abortLike => "breaks" \in kinds
    /\ pc \in {"save", "memory"} => Concluded
    /\ pc = "idle" /\ kinds \cap {"save", "breaks"} = {} =>
           /\ last.memory = "committed" <=> (last.turns = "full" /\ ~comp.used)
           /\ last.memory = "reset" <=> (last.turns = "full" /\ comp.used)
           /\ Concluded

IResult == IType /\ IEarly /\ IBooked /\ IPaid /\ IOutcome

-----------------------------------------------------------------------------
(* Operators of AgentRun *)

LEMMA FreshTypes == Fresh \in ClosureRec /\ NoSdk \in SdkRec /\ NoStream \in StreamRec
                    /\ NoComp \in CompRec
BY DEF Fresh, NoSdk, NoStream, NoComp, ClosureRec, SdkRec, StreamRec, CompRec, Stops

LEMMA NextKeepsClosure ==
    ASSUME NEW cl \in ClosureRec
    PROVE  /\ StartPendingModelStep(cl).cl \in ClosureRec
           /\ StartPendingModelStep(cl).cl.observed = cl.observed
           /\ StartPendingModelStep(cl).cl.stop = cl.stop
<1>1. CASE cl.next = 0 \/ cl.pending # {}
  BY <1>1 DEF StartPendingModelStep
<1>2. CASE ~(cl.next = 0 \/ cl.pending # {}) /\ cl.next > cl.announced
  BY <1>2 DEF StartPendingModelStep, ClosureRec
<1>3. CASE ~(cl.next = 0 \/ cl.pending # {}) /\ ~(cl.next > cl.announced)
  BY <1>3 DEF StartPendingModelStep, ClosureRec
<1>. QED BY <1>1, <1>2, <1>3

\* The end of a call changes neither what was observed nor why the run stops.
LEMMA PostKeepsClosure ==
    ASSUME NEW cl \in ClosureRec, NEW c, NEW type
    PROVE  /\ PostTool(cl, c, type).cl \in ClosureRec
           /\ PostTool(cl, c, type).cl.observed = cl.observed
           /\ PostTool(cl, c, type).cl.stop = cl.stop
<1>. DEFINE shifted == ShiftPendingTool(cl, c)
            before == [cl EXCEPT !.seq = IF shifted = {} THEN @ + 1 ELSE @,
                                 !.pending = @ \ shifted]
<1>1. cl.seq \in Nat /\ cl.pending \subseteq CallRec
  BY DEF ClosureRec
<1>2. cl.seq + 1 \in Nat
  BY <1>1
<1>3. before \in ClosureRec /\ before.observed = cl.observed /\ before.stop = cl.stop
  BY <1>1, <1>2 DEF ClosureRec
<1>4. PostTool(cl, c, type).cl = StartPendingModelStep(before).cl
  BY DEF PostTool
<1>. HIDE DEF before
<1>. QED BY <1>3, <1>4, NextKeepsClosure

LEMMA LargestIsNat ==
    ASSUME NEW m \in Nat, NEW n \in Nat
    PROVE  Largest(m, n) \in Nat /\ Largest(m, n) >= m /\ Largest(m, n) >= n
BY DEF Largest

-----------------------------------------------------------------------------
(* Before the model is called *)

LEMMA InitResult == Init => IResult
<1>. SUFFICES ASSUME Init PROVE IResult
  OBVIOUS
<1>1. IType
  BY FreshTypes DEF Init, IType, IClosures, ISdk, IStream, IMoney, LastRec, Ended
<1>2. cur.stop = "completed" /\ ~sdk.heard /\ ~stream.abortLike /\ ~stream.visible
  BY DEF Init, Fresh, NoSdk, NoStream
<1>. QED BY <1>1, <1>2 DEF Init, IResult, IEarly, IBooked, IPaid, IOutcome, Concluded, Steps, Early, Stops

LEMMA BeginResult == IResult /\ Begin => IResult'
<1>. SUFFICES ASSUME IResult, Begin PROVE IResult'
  OBVIOUS
<1>1. IType'
  BY FreshTypes DEF Begin, IResult, IType, IClosures, ISdk, IStream, IMoney, LastRec, Ended
<1>2. cur'.stop = "completed" /\ ~stream'.abortLike
  BY DEF Begin, Fresh, NoStream
<1>. QED BY <1>1, <1>2 DEF Begin, IResult, IEarly, IBooked, IPaid, IOutcome, Steps, Early

\* The run ends before anything was asked of the model.
LEMMA DiesResult ==
    ASSUME IResult, pc \in Early, pc # "book", NEW result, Dies(result),
           result \in {"cancelled", "error"}, result = "cancelled" => aborted
    PROVE  IResult'
<1>1. /\ pc' = "idle" /\ last' = [result |-> result, turns |-> "none", memory |-> "kept"]
      /\ UNCHANGED <<aborted, cur, sdk, stream, comp, paid, old, late, booked, kinds>>
  BY DEF Dies, Ends, NoFault
<1>2. IType'
  BY <1>1 DEF IResult, IType, IClosures, ISdk, IStream, IMoney, LastRec, Ended
<1>3. ~sdk.heard /\ stream.text = "open" /\ cur.stop = "completed" /\ ~stream.abortLike
  BY DEF IResult, IEarly, NoSdk, NoStream, Fresh
<1>4. booked <= paid
  BY DEF IResult, IType, IMoney, CompRec, IBooked, IPaid, Early
<1>. QED BY <1>1, <1>2, <1>3, <1>4
            DEF IResult, IEarly, IBooked, IPaid, IOutcome, Concluded, Steps, Early, Stops

LEMMA CompressResult == IResult /\ Compress => IResult'
<1>. SUFFICES ASSUME IResult, Compress PROVE IResult'
  OBVIOUS
<1>1. PICK used \in BOOLEAN, cost \in Nat, known \in Nat :
        CompressWith(used, cost, known) /\ known <= cost
  <2>1. \A c \in Costs : c \in Nat /\ 0 <= c /\ c <= c
    BY AgentAssumption
  <2>2. CASE \E c \in Costs : \/ \E used \in BOOLEAN : CompressWith(used, c, c)
                              \/ CompressWith(FALSE, c, 0)
    BY <2>1, <2>2
  <2>3. CASE CompressWith(FALSE, 0, 0)
    <3>1. 0 \in Nat /\ 0 <= 0 /\ FALSE \in BOOLEAN
      OBVIOUS
    <3>. QED BY <2>3, <3>1, Zenon
  <2>. QED BY <2>2, <2>3 DEF Compress
<1>2. comp' = [used |-> used, cost |-> known, lost |-> cost - known] /\ cost - known \in Nat
  BY <1>1 DEF CompressWith
<1>3. pc = "compress" /\ booked = 0 /\ paid = 0
  BY DEF Compress, IResult, IBooked, IPaid
<1>4. paid' = cost /\ booked' = 0 /\ comp'.cost + comp'.lost = cost /\ comp'.cost = known
  BY <1>1, <1>2, <1>3 DEF CompressWith
<1>5. pc' = (IF known > 0 THEN "book" ELSE "input")
      /\ UNCHANGED <<aborted, cur, sdk, stream, last, old, late, kinds>>
  BY <1>1 DEF CompressWith, NoFault
<1>6. comp' \in CompRec
  BY <1>2 DEF CompRec
<1>7. IType'
  BY <1>4, <1>5, <1>6 DEF IResult, IType, IClosures, ISdk, IStream, IMoney
<1>8. IEarly' /\ IOutcome'
  BY <1>3, <1>5 DEF IResult, IEarly, IOutcome, Concluded, Steps, Early
<1>9. IBooked' /\ IPaid'
  BY <1>4, <1>5 DEF IBooked, IPaid
<1>. QED BY <1>7, <1>8, <1>9 DEF IResult

LEMMA BookResult == IResult /\ BookCompressor => IResult'
<1>. SUFFICES ASSUME IResult, BookCompressor PROVE IResult'
  OBVIOUS
<1>1. pc = "book" /\ booked = 0 /\ paid = comp.cost + comp.lost /\ booked' = booked + comp.cost
      /\ comp.cost \in Nat /\ comp.lost \in Nat
  BY DEF BookCompressor, IResult, IBooked, IPaid, IType, IMoney, CompRec
<1>2. booked' = comp.cost /\ booked' \in Nat /\ booked' <= paid
  BY <1>1
<1>3. UNCHANGED <<aborted, cur, sdk, stream, comp, paid, old, late>>
  BY DEF BookCompressor, Ends
<1>4. cur = Fresh /\ sdk = NoSdk /\ stream = NoStream
  BY <1>1 DEF IResult, IEarly, Early
<1>5. ~sdk.heard /\ stream.text = "open" /\ cur.stop = "completed" /\ ~stream.abortLike
  BY <1>4 DEF NoSdk, NoStream, Fresh
<1>6. CASE pc' = "input" /\ NoFault /\ UNCHANGED last
  BY <1>1, <1>2, <1>3, <1>6 DEF IResult, IType, IClosures, ISdk, IStream, IMoney, IEarly, IBooked,
     IPaid, IOutcome, Steps, Early, NoFault
<1>7. CASE Fault("save") /\ Ends(Result, "none", "kept")
  <2>1. /\ pc' = "idle" /\ "save" \in kinds'
        /\ last' = [result |-> Result, turns |-> "none", memory |-> "kept"]
    BY <1>7 DEF Fault, Ends
  <2>2. last' \in LastRec
    BY <2>1 DEF Result, LastRec, Ended
  <2>3. IType'
    BY <1>2, <1>3, <2>2 DEF IResult, IType, IClosures, ISdk, IStream, IMoney
  <2>. QED BY <1>2, <1>3, <1>5, <2>1, <2>3 DEF IResult, IEarly, IBooked, IPaid, IOutcome, Steps, Early
<1>. QED BY <1>6, <1>7 DEF BookCompressor

LEMMA CallModelResult == IResult /\ CallModel => IResult'
<1>. SUFFICES ASSUME IResult, CallModel PROVE IResult'
  OBVIOUS
<1>1. PICK reports \in BOOLEAN :
        sdk' = [NoSdk EXCEPT !.phase = "model", !.reports = reports, !.heard = reports]
  BY DEF CallModel
<1>2. sdk' \in SdkRec /\ sdk'.cost = 0 /\ sdk'.heard = sdk'.reports
  BY <1>1 DEF NoSdk, SdkRec
<1>3. pc = "ready" /\ pc' = "stream"
      /\ UNCHANGED <<aborted, cur, old, late, stream, comp, booked, paid, last, kinds>>
  BY DEF CallModel, NoFault
<1>4. cur.observed = 0 /\ comp.cost \in Nat /\ comp.lost \in Nat
  BY <1>3 DEF IResult, IEarly, Early, Fresh, IType, IMoney, CompRec
<1>5. IType'
  BY <1>2, <1>3 DEF IResult, IType, IClosures, ISdk, IStream, IMoney
<1>6. IEarly' /\ IOutcome'
  BY <1>3 DEF IResult, IEarly, IOutcome, Steps, Early
<1>7. IBooked' /\ IPaid'
  BY <1>2, <1>3, <1>4 DEF IResult, IBooked, IPaid
<1>. QED BY <1>5, <1>6, <1>7 DEF IResult

LEMMA PrepareResult == IResult /\ Prepare => IResult'
<1>. SUFFICES ASSUME IResult, Prepare PROVE IResult'
  OBVIOUS
<1>1. ASSUME CheckFails PROVE IResult'
  BY <1>1, DiesResult DEF CheckFails, Result, Early
<1>2. ASSUME CompressAborted PROVE IResult'
  BY <1>2, DiesResult DEF CompressAborted, Early
<1>3. ASSUME CheckPasses \/ TellFirstStep PROVE IResult'
  <2>1. /\ \/ pc = "check" /\ pc' = "compress"
           \/ pc = "input" /\ pc' = "ready"
        /\ UNCHANGED <<aborted, cur, old, sdk, late, stream, comp, booked, paid, last, kinds>>
    BY <1>3 DEF CheckPasses, TellFirstStep, NoFault
  <2>. QED BY <2>1 DEF IResult, IType, IClosures, ISdk, IStream, IMoney, IEarly, IBooked, IPaid,
                       IOutcome, Steps, Early
<1>. QED BY <1>1, <1>2, <1>3, BeginResult, CompressResult, BookResult, CallModelResult DEF Prepare

-----------------------------------------------------------------------------
(* The hooks *)

\* A hook that changes neither the costs nor the outcome.
LEMMA HookResult ==
    ASSUME IResult, pc \in {"stream", "response", "save", "memory"},
           UNCHANGED <<pc, aborted, stream, comp, last, booked, paid>>,
           kinds \subseteq kinds', kinds' \cap {"save", "breaks"} = kinds \cap {"save", "breaks"},
           cur' \in ClosureRec, old' \in ClosureRec, cur'.observed = cur.observed,
           cur'.stop = "cost-limit" => cur.stop = "cost-limit" \/ cur.observed >= MaxCost,
           sdk' \in SdkRec, late' \subseteq CallRec, sdk'.cost = sdk.cost,
           sdk'.heard = sdk.heard, sdk'.reports = sdk.reports
    PROVE  IResult'
<1>1. IType'
  BY DEF IResult, IType, IClosures, ISdk, IStream, IMoney
<1>2. IEarly'
  BY DEF IResult, IEarly, Early, Steps
<1>3. IBooked' /\ IPaid'
  BY DEF IResult, IBooked, IPaid
<1>4. IOutcome'
  BY DEF IResult, IOutcome, Concluded
<1>. QED BY <1>1, <1>2, <1>3, <1>4 DEF IResult

LEMMA ModelCallResult == IResult /\ ModelCallEnds => IResult'
<1>. SUFFICES ASSUME IResult, ModelCallEnds PROVE IResult'
  OBVIOUS
<1>1. PICK c \in Costs, todo \in 0..(MaxCalls - cur.seq) :
        /\ cur' = PostModelCall(IF sdk.reports THEN c ELSE 0)
        /\ booked' = booked + (IF sdk.reports THEN c ELSE 0) /\ paid' = paid + c
        /\ sdk' = [sdk EXCEPT !.phase = IF todo = 0 THEN "answered" ELSE "turn",
                              !.turn = @ + 1, !.todo = todo, !.cost = @ + c]
  BY DEF ModelCallEnds
<1>2. PICK known \in Nat : known = IF sdk.reports THEN c ELSE 0
  BY AgentAssumption
<1>3. c \in Nat /\ todo \in Nat
  BY AgentAssumption, <1>1
<1>4. /\ pc = "stream" /\ stream.text = "open"
      /\ UNCHANGED <<pc, aborted, late, old, stream, comp, over, last, kinds>>
  BY DEF ModelCallEnds, InSdk, OnlyHooks, NoFault
<1>5. /\ cur.observed \in Nat /\ cur.announced \in Nat /\ cur.step \in Nat
      /\ sdk.turn \in Nat /\ sdk.cost \in Nat
  BY DEF IResult, IType, IClosures, ISdk, ClosureRec, SdkRec
<1>6. /\ cur.observed + known \in Nat /\ sdk.cost + c \in Nat /\ sdk.turn + 1 \in Nat
      /\ cur.observed + known >= cur.observed
  BY <1>2, <1>3, <1>5
<1>7. Largest(cur.announced, sdk.turn + 1) \in Nat /\ Largest(cur.step, sdk.turn + 1) \in Nat
  BY <1>5, <1>6, LargestIsNat
<1>8. cur' \in ClosureRec /\ cur'.observed = cur.observed + known /\ cur'.stop = cur.stop
  BY <1>1, <1>2, <1>6, <1>7 DEF PostModelCall, IResult, IType, IClosures, ClosureRec
<1>9. /\ sdk' \in SdkRec /\ sdk'.cost = sdk.cost + c /\ sdk'.heard = sdk.heard
      /\ sdk'.reports = sdk.reports
  BY <1>1, <1>3, <1>6 DEF IResult, IType, ISdk, SdkRec
<1>10. /\ comp.cost \in Nat /\ comp.lost \in Nat /\ booked \in Nat /\ paid \in Nat
       /\ booked' = booked + known /\ paid' = paid + c
  BY <1>1, <1>2 DEF IResult, IType, IMoney, CompRec
<1>11. IType'
  BY <1>2, <1>3, <1>4, <1>8, <1>9, <1>10 DEF IResult, IType, IClosures, ISdk, IStream, IMoney
<1>12. IEarly'
  BY <1>4 DEF IResult, IEarly, Early, Steps
<1>13. IBooked'
  BY <1>3, <1>4, <1>5, <1>8, <1>10 DEF IResult, IBooked
<1>14. IPaid'
  <2>1. sdk.reports \in BOOLEAN
    BY DEF IResult, IType, ISdk, SdkRec
  <2>2. CASE sdk.reports
    <3>1. known = c /\ cur.observed = sdk.cost /\ paid = comp.cost + comp.lost + sdk.cost
          /\ sdk.heard = sdk.reports
      BY <1>2, <1>4, <2>2 DEF IResult, IPaid
    <3>2. paid' = comp.cost + comp.lost + sdk'.cost
      BY <1>3, <1>5, <1>9, <1>10, <3>1
    <3>. QED BY <1>4, <1>8, <1>9, <2>2, <3>1, <3>2 DEF IPaid
  <2>3. CASE ~sdk.reports
    BY <1>2, <1>3, <1>4, <1>5, <1>8, <1>9, <1>10, <2>3 DEF IResult, IPaid
  <2>. QED BY <2>2, <2>3
<1>15. IOutcome'
  BY AgentAssumption, <1>4, <1>5, <1>6, <1>8 DEF IResult, IOutcome
<1>. QED BY <1>11, <1>12, <1>13, <1>14, <1>15 DEF IResult

LEMMA HooksResult == IResult /\ Hooks => IResult'
<1>. SUFFICES ASSUME IResult, Hooks PROVE IResult'
  OBVIOUS
<1>0. /\ cur \in ClosureRec /\ old \in ClosureRec /\ sdk \in SdkRec /\ late \subseteq CallRec
      /\ sdk.turn \in Nat /\ sdk.todo \in Nat /\ cur.next \in Nat /\ cur.seq \in Nat
      /\ cur.pending \subseteq CallRec /\ sdk.running \subseteq CallRec
  BY DEF IResult, IType, IClosures, ISdk, ClosureRec, SdkRec
<1>1. ASSUME OnTurnStart PROVE IResult'
  <2>1. sdk.turn + 1 \in Nat
    BY <1>0
  <2>2. Largest(cur.next, sdk.turn + 1) \in Nat
    BY <1>0, <2>1, LargestIsNat
  <2>3. cur' \in ClosureRec /\ cur'.observed = cur.observed /\ cur'.stop = cur.stop
    BY <1>0, <1>1, <2>2 DEF OnTurnStart, ClosureRec
  <2>4. sdk' \in SdkRec /\ sdk'.cost = sdk.cost /\ sdk'.heard = sdk.heard
        /\ sdk'.reports = sdk.reports
    BY <1>0, <1>1 DEF OnTurnStart, SdkRec
  <2>. QED BY <1>0, <1>1, <2>3, <2>4, HookResult DEF OnTurnStart, InSdk, OnlyHooks, NoFault
<1>2. ASSUME PreToolUse PROVE IResult'
  <2>1. PICK t \in Tools, i \in Inputs :
          /\ cur' = [cur EXCEPT !.seq = @ + 1, !.pending = @ \cup {Call(cur.seq + 1, t, i)}]
          /\ sdk' = [sdk EXCEPT !.todo = @ - 1, !.running = @ \cup {Call(cur.seq + 1, t, i)}]
    BY <1>2 DEF PreToolUse
  <2>2. cur.seq + 1 \in Nat /\ sdk.todo - 1 \in Nat
    BY <1>0, <1>2 DEF PreToolUse
  <2>3. Call(cur.seq + 1, t, i) \in CallRec
    BY <2>2 DEF Call, CallRec
  <2>4. cur' \in ClosureRec /\ cur'.observed = cur.observed /\ cur'.stop = cur.stop
    BY <1>0, <2>1, <2>2, <2>3 DEF ClosureRec
  <2>5. sdk' \in SdkRec /\ sdk'.cost = sdk.cost /\ sdk'.heard = sdk.heard
        /\ sdk'.reports = sdk.reports
    BY <1>0, <2>1, <2>2, <2>3 DEF SdkRec
  <2>. QED BY <1>0, <1>2, <2>4, <2>5, HookResult DEF PreToolUse, InSdk, OnlyHooks, NoFault
<1>3. ASSUME ToolEnds PROVE IResult'
  <2>1. PICK c \in sdk.running, type \in {"tool-end", "tool-error"} :
          cur' = PostTool(cur, c, type).cl /\ sdk' = [sdk EXCEPT !.running = @ \ {c}]
    BY <1>3 DEF ToolEnds
  <2>2. cur' \in ClosureRec /\ cur'.observed = cur.observed /\ cur'.stop = cur.stop
    BY <1>0, <2>1, PostKeepsClosure
  <2>3. sdk' \in SdkRec /\ sdk'.cost = sdk.cost /\ sdk'.heard = sdk.heard
        /\ sdk'.reports = sdk.reports
    BY <1>0, <2>1 DEF SdkRec
  <2>. QED BY <1>0, <1>3, <2>2, <2>3, HookResult DEF ToolEnds, OnlyHooks, NoFault
<1>4. ASSUME UnannouncedEnds PROVE IResult'
  <2>1. PICK c : cur' = PostTool(cur, c, "tool-error").cl
    BY <1>4 DEF UnannouncedEnds
  <2>2. cur' \in ClosureRec /\ cur'.observed = cur.observed /\ cur'.stop = cur.stop
    BY <1>0, <2>1, PostKeepsClosure
  <2>3. sdk.todo - 1 \in Nat
    BY <1>0, <1>4 DEF UnannouncedEnds
  <2>4. sdk' \in SdkRec /\ sdk'.cost = sdk.cost /\ sdk'.heard = sdk.heard
        /\ sdk'.reports = sdk.reports
    BY <1>0, <1>4, <2>3 DEF UnannouncedEnds, SdkRec
  <2>5. kinds' = kinds \cup {"unannounced"}
    BY <1>4 DEF UnannouncedEnds, Fault
  <2>. QED BY <1>0, <1>4, <2>2, <2>4, <2>5, HookResult DEF UnannouncedEnds, InSdk, OnlyHooks
<1>5. ASSUME RoundEnds PROVE IResult'
  <2>1. cur' \in ClosureRec /\ cur'.observed = cur.observed
        /\ (cur'.stop = "cost-limit" => cur.stop = "cost-limit" \/ cur.observed >= MaxCost)
    BY <1>0, <1>5 DEF RoundEnds, ClosureRec, Stops
  <2>2. sdk' \in SdkRec /\ sdk'.cost = sdk.cost /\ sdk'.heard = sdk.heard
        /\ sdk'.reports = sdk.reports
    BY <1>0, <1>5, ZenonT(40) DEF RoundEnds, SdkRec
  <2>. QED BY <1>0, <1>5, <2>1, <2>2, HookResult DEF RoundEnds, InSdk, OnlyHooks, NoFault
<1>6. ASSUME LateToolEnds PROVE IResult'
  <2>1. PICK c \in late, type \in {"tool-end", "tool-error"} :
          old' = PostTool(old, c, type).cl /\ late' = late \ {c}
    BY <1>6 DEF LateToolEnds
  <2>2. old' \in ClosureRec /\ late' \subseteq CallRec
    BY <1>0, <2>1, PostKeepsClosure
  <2>3. UNCHANGED <<pc, aborted, cur, sdk, stream, comp, booked, paid, last, kinds>>
    BY <1>6 DEF LateToolEnds, NoFault
  <2>. QED BY <2>2, <2>3 DEF IResult, IType, IClosures, ISdk, IStream, IMoney, IEarly, IBooked,
                             IPaid, IOutcome, Concluded
<1>. QED BY <1>1, <1>2, <1>3, <1>4, <1>5, <1>6, ModelCallResult DEF Hooks

-----------------------------------------------------------------------------
(* The streams and the epilogue *)

LEMMA StreamsResult == IResult /\ (Streams \/ Abort) => IResult'
<1>. SUFFICES ASSUME IResult, Streams \/ Abort PROVE IResult'
  OBVIOUS
<1>1. /\ pc' = pc /\ pc # "idle" /\ UNCHANGED <<cur, old, late, comp, booked, paid, last>>
      /\ kinds \subseteq kinds'
  BY DEF Streams, Abort, TextArrives, ReasoningArrives, TextEnds, TextFails, ReasoningEnds, InSdk,
         OnlyStream, NoFault, Fault
<1>2. CASE Abort
  BY <1>1, <1>2 DEF Abort, NoFault, IResult, IType, IClosures, ISdk, IStream, IMoney, IEarly,
                    IBooked, IPaid, IOutcome, Concluded
<1>3. CASE Streams
  <2>1. pc = "stream" /\ aborted' = aborted
    BY <1>3 DEF Streams, TextArrives, ReasoningArrives, TextEnds, TextFails, ReasoningEnds, InSdk,
                OnlyStream
  <2>2. stream' \in StreamRec /\ (stream'.abortLike => stream.abortLike \/ "breaks" \in kinds')
    BY <1>3 DEF Streams, TextArrives, ReasoningArrives, TextEnds, TextFails, ReasoningEnds, Fault,
                IResult, IType, IStream, StreamRec
  <2>3. sdk' \in SdkRec /\ sdk'.cost = sdk.cost /\ sdk'.heard = sdk.heard
        /\ sdk'.reports = sdk.reports
    <3>1. sdk' = sdk \/ sdk' = [sdk EXCEPT !.phase = "off", !.todo = 0]
      BY <1>3 DEF Streams, TextArrives, ReasoningArrives, TextEnds, TextFails, ReasoningEnds
    <3>2. sdk \in SdkRec
      BY DEF IResult, IType, ISdk
    <3>3. ASSUME sdk' = [sdk EXCEPT !.phase = "off", !.todo = 0]
          PROVE  /\ sdk'.turn = sdk.turn /\ sdk'.running = sdk.running /\ sdk'.final = sdk.final
                 /\ sdk'.reports = sdk.reports /\ sdk'.heard = sdk.heard /\ sdk'.cost = sdk.cost
                 /\ sdk' \in SdkRec
      <4>. DEFINE next == [sdk EXCEPT !.phase = "off", !.todo = 0]
      <4>1. next \in SdkRec
        BY <3>2 DEF SdkRec
      <4>2. /\ next.turn = sdk.turn /\ next.running = sdk.running /\ next.final = sdk.final
            /\ next.reports = sdk.reports /\ next.heard = sdk.heard /\ next.cost = sdk.cost
        BY <3>2 DEF SdkRec
      <4>. QED BY <3>3, <4>1, <4>2
    <3>. QED BY <3>1, <3>2, <3>3
  <2>4. IType'
    BY <1>1, <2>2, <2>3 DEF IResult, IType, IClosures, ISdk, IStream, IMoney
  <2>5. IEarly' /\ IBooked' /\ IPaid'
    BY <1>1, <2>1, <2>3 DEF IResult, IEarly, IBooked, IPaid, Early
  <2>6. IOutcome'
    BY <1>1, <2>1, <2>2 DEF IResult, IOutcome
  <2>. QED BY <2>4, <2>5, <2>6 DEF IResult
<1>. QED BY <1>2, <1>3

\* The outcome is settled in the step that books what is left to book.
LEMMA ConcludeResult ==
    ASSUME IResult, pc \in {"stream", "response"}, NEW failed \in BOOLEAN, NEW cost \in Nat,
           Conclude(failed, cost),
           \/ cost = 0 /\ UNCHANGED sdk
           \/ cost = sdk.cost /\ sdk' = [sdk EXCEPT !.heard = TRUE],
           failed => ~(stream.text = "done" /\ stream.visible)
    PROVE  IResult'
<1>1. /\ pc' = "save" /\ booked' = BookMain(cost)
      /\ UNCHANGED <<aborted, cur, old, late, stream, comp, paid, kinds>>
  BY DEF Conclude, NoFault
<1>2. /\ comp.cost \in Nat /\ comp.lost \in Nat /\ booked \in Nat /\ paid \in Nat
      /\ cur.observed \in Nat /\ sdk.cost \in Nat /\ cur.stop \in Stops /\ sdk.reports \in BOOLEAN
  BY DEF IResult, IType, IMoney, IClosures, ISdk, CompRec, ClosureRec, SdkRec
<1>3. /\ booked = comp.cost + cur.observed /\ paid = comp.cost + comp.lost + sdk.cost
      /\ sdk.heard = sdk.reports
      /\ sdk.reports => cur.observed = sdk.cost
      /\ ~sdk.reports => cur.observed = 0
  BY DEF IResult, IBooked, IPaid
<1>4. sdk' \in SdkRec /\ (sdk'.heard => sdk.heard \/ cost = sdk.cost)
  BY DEF IResult, IType, ISdk, SdkRec
<1>5. booked' \in Nat /\ booked' <= paid /\ (sdk'.heard /\ comp.lost = 0 => booked' = paid)
  <2>1. CASE cur.observed = 0 /\ cost = sdk.cost
    BY <1>1, <1>2, <1>3, <2>1 DEF BookMain
  <2>2. CASE cur.observed = 0 /\ cost = 0 /\ cost # sdk.cost
    BY <1>1, <1>2, <1>3, <1>4, <2>2 DEF BookMain
  <2>3. CASE cur.observed # 0
    BY <1>1, <1>2, <1>3, <2>3 DEF BookMain
  <2>. QED BY <2>1, <2>2, <2>3
<1>6. PICK result, turns :
        /\ result = IF ~failed THEN cur.stop ELSE IF Cancelled THEN "cancelled" ELSE "error"
        /\ turns = IF ~failed THEN "full" ELSE IF stream.visible THEN result ELSE "none"
        /\ last' = [result |-> result, turns |-> turns,
                     memory |-> IF ~failed /\ comp.used THEN "reset" ELSE "kept"]
  BY DEF Conclude
<1>7. /\ failed => result \in {"cancelled", "error"} /\ turns \in {result, "none"}
      /\ ~failed => result \in Stops /\ turns = "full"
  BY <1>2, <1>6
<1>8. last' \in LastRec /\ last'.result = result /\ last'.turns = turns
  BY <1>6, <1>7 DEF LastRec, Ended, Stops
<1>9. IType'
  BY <1>1, <1>4, <1>5, <1>8 DEF IResult, IType, IClosures, ISdk, IStream, IMoney
<1>10. IEarly' /\ IBooked' /\ IPaid'
  BY <1>1, <1>5 DEF IEarly, IBooked, IPaid, Early, Steps
<1>11. /\ result = "cancelled" => aborted \/ "breaks" \in kinds
       /\ result = "cost-limit" => cur.observed >= MaxCost
       /\ turns \in {"cancelled", "error"} => stream.visible
  BY <1>6, <1>7 DEF IResult, IOutcome, Cancelled, Stops
<1>12. turns = "full" <=> result \in Stops
  BY <1>7 DEF Stops
<1>13. IOutcome'
  BY <1>1, <1>7, <1>8, <1>11, <1>12 DEF IResult, IOutcome, Concluded
<1>. QED BY <1>9, <1>10, <1>13 DEF IResult

\* The end of a run that was concluded.
LEMMA EndsResult ==
    ASSUME IResult, pc \in {"save", "memory"}, NEW result \in Ended, NEW memory,
           Ends(result, last.turns, memory), booked' = booked,
           old' \in {old, cur}, late' \in {late, sdk.running}, kinds \subseteq kinds',
           memory \in {"kept", "reset", "committed", "discarded"},
           \/ "save" \in kinds'
           \/ result = last.result /\ memory = Remember
    PROVE  IResult'
<1>1. /\ pc' = "idle" /\ last' = [result |-> result, turns |-> last.turns, memory |-> memory]
      /\ UNCHANGED <<aborted, cur, sdk, stream, comp, paid, booked>>
  BY DEF Ends
<1>2. last' \in LastRec /\ last'.result = result /\ last'.turns = last.turns
      /\ last'.memory = memory
  BY <1>1 DEF IResult, IType, IStream, LastRec
<1>3. IType'
  BY <1>1, <1>2 DEF IResult, IType, IClosures, ISdk, IStream, IMoney, SdkRec
<1>4. IEarly' /\ IBooked' /\ IPaid'
  BY <1>1 DEF IResult, IEarly, IBooked, IPaid, Early, Steps
<1>5. IOutcome'
  <2>1. Concluded /\ (cur.stop = "cost-limit" => cur.observed >= MaxCost)
        /\ (stream.abortLike => "breaks" \in kinds)
    BY DEF IResult, IOutcome
  <2>2. CASE "save" \in kinds'
    BY <1>1, <2>1, <2>2 DEF IOutcome
  <2>3. CASE result = last.result /\ memory = Remember
    <3>1. /\ (memory = "committed") <=> (last.turns = "full" /\ ~comp.used)
          /\ (memory = "reset") <=> (last.turns = "full" /\ comp.used)
      BY <2>3 DEF Remember, Committed, Success
    <3>. QED BY <1>1, <1>2, <2>1, <2>3, <3>1 DEF IOutcome, Concluded
  <2>. QED BY <2>2, <2>3
<1>. QED BY <1>3, <1>4, <1>5 DEF IResult

LEMMA EpilogueResult == IResult /\ Epilogue => IResult'
<1>. SUFFICES ASSUME IResult, Epilogue PROVE IResult'
  OBVIOUS
<1>0. /\ sdk.cost \in Nat /\ last.result \in Ended /\ Result \in Ended
      /\ sdk.running \subseteq CallRec
      /\ {"kept", last.memory, Remember} \subseteq {"kept", "reset", "committed", "discarded"}
  BY DEF IResult, IType, ISdk, IStream, SdkRec, LastRec, Result, Ended, Remember, Committed
<1>1. ASSUME Settle PROVE IResult'
  <2>1. CASE Failed
    BY <1>1, <2>1, ConcludeResult DEF Settle, Failed
  <2>2. CASE ~Failed
    <3>1. pc = "stream" /\ pc' = "response"
          /\ UNCHANGED <<aborted, cur, old, sdk, late, stream, comp, booked, paid, last, kinds>>
      BY <1>1, <2>2 DEF Settle, NoFault
    <3>. QED BY <3>1 DEF IResult, IType, IClosures, ISdk, IStream, IMoney, IEarly, IBooked, IPaid,
                         IOutcome, Early, Steps
  <2>. QED BY <2>1, <2>2
<1>2. ASSUME Response PROVE IResult'
  BY <1>0, <1>2, ConcludeResult DEF Response
<1>3. ASSUME Save PROVE IResult'
  <2>1. CASE pc' = "memory" /\ NoFault /\ UNCHANGED <<aborted, cur, old, late, sdk, stream, comp, paid, last>>
    BY <1>3, <2>1 DEF Save, NoFault, IResult, IType, IClosures, ISdk, IStream, IMoney, IEarly,
                      IBooked, IPaid, IOutcome, Concluded, Early, Steps
  <2>2. CASE Fault("save") /\ Ends(Result, last.turns, last.memory) /\ UNCHANGED <<old, late>>
    <3>1. kinds \subseteq kinds' /\ "save" \in kinds'
      BY <2>2 DEF Fault
    <3>. QED BY <1>0, <1>3, <2>2, <3>1, EndsResult DEF Save
  <2>. QED BY <1>3, <2>1, <2>2 DEF Save
<1>4. ASSUME Memory PROVE IResult'
  <2>1. CASE Ends(last.result, last.turns, Remember) /\ LeaveTools
    <3>1. /\ kinds \subseteq kinds' /\ old' \in {old, cur} /\ late' \in {late, sdk.running}
      BY <2>1 DEF LeaveTools, NoFault, Fault
    <3>. QED BY <1>0, <1>4, <2>1, <3>1, EndsResult DEF Memory
  <2>2. CASE Fault("save") /\ Ends(Result, last.turns, "kept") /\ UNCHANGED <<old, late>>
    <3>1. kinds \subseteq kinds' /\ "save" \in kinds'
      BY <2>2 DEF Fault
    <3>. QED BY <1>0, <1>4, <2>2, <3>1, EndsResult DEF Memory
  <2>. QED BY <1>4, <2>1, <2>2 DEF Memory
<1>. QED BY <1>1, <1>2, <1>3, <1>4 DEF Epilogue

LEMMA StepResult == IResult /\ [Next]_vars => IResult'
<1>1. IResult /\ UNCHANGED vars => IResult'
  BY DEF vars, IResult, IType, IClosures, ISdk, IStream, IMoney, IEarly, IBooked, IPaid, IOutcome,
         Concluded
<1>. QED BY <1>1, PrepareResult, HooksResult, StreamsResult, EpilogueResult DEF Next

\* However the run goes - its streams break, its tools go on, the user aborts it, a write
\* fails -, the ledger has what the run cost, once, and the outcome is the one the chat and the
\* memory have; for any tools, costs and limits, and any number of runs.
\* (OrcodeAgent.run and #run, PostModelCall, mainCostUsd)
THEOREM ResultsAreHonest == Spec => []ResultIsHonest
<1>1. Init => IResult
  BY InitResult
<1>2. IResult /\ [Next]_vars => IResult'
  BY StepResult
<1>3. IResult => ResultIsHonest
  <2>. SUFFICES ASSUME IResult PROVE ResultIsHonest
    OBVIOUS
  <2>1. booked <= paid
    BY DEF IResult, IType, IMoney, CompRec, IEarly, IBooked, IPaid, Steps, ISdk, SdkRec, IClosures,
           ClosureRec
  <2>. QED BY <2>1 DEF IResult, IBooked, IOutcome, Concluded, ResultIsHonest, OutcomeHonest,
                      CostsBookedOnce, Stops
<1>. QED BY <1>1, <1>2, <1>3, PTL DEF Spec

-----------------------------------------------------------------------------
(* The events of a run *)

\* Nothing but the calls of this run's rounds has ended.
Clean == kinds \cap {"unannounced", "late"} = {}
InCall == {"stream", "response", "save", "memory"}
Same(S, t, i) == {c \in S : c.tool = t /\ c.input = i}

\* The closure waits for exactly the calls the observer sees, and the SDK runs as many with
\* each tool and input, whichever of them it is that the closure has for one that ended.
IPending ==
    /\ cur.pending = shown.open /\ IsFiniteSet(cur.pending) /\ IsFiniteSet(sdk.running)
    /\ \A c, d \in cur.pending : c.id = d.id => c = d
    /\ \A c \in cur.pending \cup sdk.running : c.id <= cur.seq
    /\ \A t \in Tools, i \in Inputs :
           Cardinality(Same(cur.pending, t, i)) = Cardinality(Same(sdk.running, t, i))

\* What the observer has seen of the steps.
ISeen ==
    /\ shown.started \in Nat /\ shown.started <= cur.announced
    /\ shown.ended = sdk.turn /\ sdk.turn <= cur.announced
    /\ ~shown.over
IBefore ==
    /\ shown.open = {} /\ shown.ended = 0 /\ ~shown.over
    /\ shown.started = IF pc = "ready" THEN 1 ELSE 0
IEvents ==
    Clean => /\ late = {}
             /\ pc \in InCall => IPending /\ ISeen
             /\ pc \in Early => IBefore

\* What the properties of the events say of one step.
PairedStep ==
    \A i \in DOMAIN told' :
        told'[i].type \in {"tool-end", "tool-error"} => told'[i].call \subseteq shown.open
OrderedStep ==
    \A i \in DOMAIN told' :
        LET e == told'[i]
        IN /\ e.type = "model-start" => e.n > shown.started /\ e.n > shown.ended /\ shown'.open = {}
           /\ e.type = "model-end" => e.n = shown.ended + 1
           /\ e.type # "run-start" => ~shown.over
Events == PairedStep /\ OrderedStep

LEMMA QuietEvents == told' = <<>> => Events
BY DEF Events, PairedStep, OrderedStep

LEMMA OneEvent ==
    ASSUME NEW e, told' = <<e>>,
           e.type \in {"tool-end", "tool-error"} => e.call \subseteq shown.open,
           e.type = "model-start" => e.n > shown.started /\ e.n > shown.ended /\ shown'.open = {},
           e.type = "model-end" => e.n = shown.ended + 1,
           e.type # "run-start" => ~shown.over
    PROVE  Events
<1>1. \A i \in DOMAIN told' : told'[i] = e
  OBVIOUS
<1>. QED BY <1>1 DEF Events, PairedStep, OrderedStep

\* What the observer has seen after events that tell these calls, ends and steps.
Highest(S, n) == IF S = {} THEN n ELSE CHOOSE m \in S : \A k \in S : k <= m
Seen(started, ended, steps, models, final) ==
    [open |-> {c \in shown.open \cup started : c.id \notin ended},
     started |-> Highest(steps, shown.started), ended |-> Highest(models, shown.ended),
     over |-> shown.over \/ final]

LEMMA HighestOfNone == \A n : Highest({}, n) = n
BY DEF Highest

LEMMA HighestOfOne ==
    ASSUME NEW m \in Nat, NEW n
    PROVE  Highest({m}, n) = m
<1>1. m <= m
  OBVIOUS
<1>. QED BY <1>1 DEF Highest

LEMMA SeeIsSeen ==
    ASSUME NEW events
    PROVE  See(events) = Seen(
               UNION {events[i].call : i \in {j \in DOMAIN events : events[j].type = "tool-start"}},
               {events[i].n : i \in {j \in DOMAIN events : events[j].type \in {"tool-end", "tool-error"}}},
               {events[i].n : i \in {j \in DOMAIN events : events[j].type = "model-start"}},
               {events[i].n : i \in {j \in DOMAIN events : events[j].type = "model-end"}},
               \E i \in DOMAIN events : events[i].type = "run-end")
BY DEF See, Seen, Highest

\* What the observer has seen after one event, and after the end of a call with the step
\* that begins after it.
LEMMA SeeOne ==
    ASSUME NEW e, e.n \in Nat
    PROVE  See(<<e>>) = Seen(IF e.type = "tool-start" THEN e.call ELSE {},
                             IF e.type \in {"tool-end", "tool-error"} THEN {e.n} ELSE {},
                             IF e.type = "model-start" THEN {e.n} ELSE {},
                             IF e.type = "model-end" THEN {e.n} ELSE {},
                             e.type = "run-end")
<1>. DEFINE events == <<e>>
<1>1. DOMAIN events = {1} /\ events[1] = e
  OBVIOUS
<1>2. UNION {events[i].call : i \in {j \in DOMAIN events : events[j].type = "tool-start"}}
        = IF e.type = "tool-start" THEN e.call ELSE {}
  BY <1>1
<1>3. {events[i].n : i \in {j \in DOMAIN events : events[j].type \in {"tool-end", "tool-error"}}}
        = IF e.type \in {"tool-end", "tool-error"} THEN {e.n} ELSE {}
  BY <1>1
<1>4. {events[i].n : i \in {j \in DOMAIN events : events[j].type = "model-start"}}
        = IF e.type = "model-start" THEN {e.n} ELSE {}
  BY <1>1
<1>5. {events[i].n : i \in {j \in DOMAIN events : events[j].type = "model-end"}}
        = IF e.type = "model-end" THEN {e.n} ELSE {}
  BY <1>1
<1>6. (\E i \in DOMAIN events : events[i].type = "run-end") = (e.type = "run-end")
  BY <1>1
<1>7. See(events) = Seen(
               UNION {events[i].call : i \in {j \in DOMAIN events : events[j].type = "tool-start"}},
               {events[i].n : i \in {j \in DOMAIN events : events[j].type \in {"tool-end", "tool-error"}}},
               {events[i].n : i \in {j \in DOMAIN events : events[j].type = "model-start"}},
               {events[i].n : i \in {j \in DOMAIN events : events[j].type = "model-end"}},
               \E i \in DOMAIN events : events[i].type = "run-end")
  BY SeeIsSeen
<1>. QED BY <1>2, <1>3, <1>4, <1>5, <1>6, <1>7, Zenon

LEMMA SeeTwo ==
    \A e, f : e.type \in {"tool-end", "tool-error"} /\ f.type = "model-start" /\ f.n \in Nat
                => See(<<e, f>>) = Seen({}, {e.n}, {f.n}, {}, FALSE)
<1>. TAKE e, f
<1>. HAVE e.type \in {"tool-end", "tool-error"} /\ f.type = "model-start" /\ f.n \in Nat
<1>. DEFINE events == <<e, f>>
<1>1. DOMAIN events = {1, 2} /\ events[1] = e /\ events[2] = f
  OBVIOUS
<1>2. UNION {events[i].call : i \in {j \in DOMAIN events : events[j].type = "tool-start"}} = {}
  BY <1>1
<1>3. {events[i].n : i \in {j \in DOMAIN events : events[j].type \in {"tool-end", "tool-error"}}}
        = {e.n}
  BY <1>1
<1>4. {events[i].n : i \in {j \in DOMAIN events : events[j].type = "model-start"}} = {f.n}
  BY <1>1
<1>5. {events[i].n : i \in {j \in DOMAIN events : events[j].type = "model-end"}} = {}
  BY <1>1
<1>6. (\E i \in DOMAIN events : events[i].type = "run-end") = FALSE
  BY <1>1
<1>7. See(events) = Seen(
               UNION {events[i].call : i \in {j \in DOMAIN events : events[j].type = "tool-start"}},
               {events[i].n : i \in {j \in DOMAIN events : events[j].type \in {"tool-end", "tool-error"}}},
               {events[i].n : i \in {j \in DOMAIN events : events[j].type = "model-start"}},
               {events[i].n : i \in {j \in DOMAIN events : events[j].type = "model-end"}},
               \E i \in DOMAIN events : events[i].type = "run-end")
  BY SeeIsSeen
<1>. QED BY <1>2, <1>3, <1>4, <1>5, <1>6, <1>7, Zenon

-----------------------------------------------------------------------------
(* The call that a hook finds for one that ended *)

LEMMA OldestIsMember ==
    ASSUME NEW S \in SUBSET CallRec, S # {}
    PROVE  Oldest(S) \in S
<1>. DEFINE R == OpToRel(<, Nat)
            T == {c.id : c \in S}
<1>1. IsWellFoundedOn(R, Nat)
  BY NatLessThanWellFounded
<1>2. T \subseteq Nat /\ T # {}
  BY DEF CallRec
<1>3. PICK m \in T : \A n \in T : ~(<<n, m>> \in R)
  <2>. HIDE DEF R, T
  <2>. QED BY <1>1, <1>2, WFMin
<1>4. PICK c \in S : c.id = m
  OBVIOUS
<1>5. \A d \in S : c.id <= d.id
  <2>. SUFFICES ASSUME NEW d \in S, ~(c.id <= d.id) PROVE FALSE
    OBVIOUS
  <2>1. d.id \in T /\ d.id \in Nat /\ m \in Nat /\ d.id < m
    BY <1>2, <1>4
  <2>2. <<d.id, m>> \in R
    BY <2>1 DEF OpToRel
  <2>. QED BY <1>3, <2>1, <2>2
<1>. QED BY <1>5 DEF Oldest

LEMMA JoinOfTwo ==
    ASSUME NEW a, NEW b
    PROVE  <<a>> \o <<b>> = <<a, b>>
<1>. DEFINE S == {a, b}
<1>1. <<a>> \in Seq(S) /\ <<b>> \in Seq(S) /\ Len(<<a>>) = 1 /\ Len(<<b>>) = 1
  OBVIOUS
<1>2. <<a>> \o <<b>> \in Seq(S) /\ Len(<<a>> \o <<b>>) = 2
  BY <1>1, ConcatProperties
<1>3. (<<a>> \o <<b>>)[1] = a /\ (<<a>> \o <<b>>)[2] = b
  <2>1. \A i \in 1..2 : (<<a>> \o <<b>>)[i] = IF i <= 1 THEN <<a>>[i] ELSE <<b>>[i - 1]
    BY <1>1, ConcatProperties
  <2>. QED BY <2>1
<1>4. <<a, b>> \in Seq(S) /\ Len(<<a, b>>) = 2 /\ <<a, b>>[1] = a /\ <<a, b>>[2] = b
  OBVIOUS
<1>. HIDE DEF S
<1>5. \A i \in 1..2 : (<<a>> \o <<b>>)[i] = <<a, b>>[i]
  <2>1. \A i \in 1..2 : i = 1 \/ i = 2
    OBVIOUS
  <2>. QED BY <1>3, <1>4, <2>1, Zenon
<1>6. ASSUME NEW s \in Seq(S), NEW t \in Seq(S), Len(s) = 2, Len(t) = 2,
             \A i \in 1..2 : s[i] = t[i]
      PROVE  s = t
  BY <1>6, SeqEqual
<1>. QED BY <1>2, <1>4, <1>5, <1>6, Zenon

\* If a call with this tool and input is waited for, one such is what is told to have ended,
\* and the closure is as before without it, with the next step announced if it was the last.
LEMMA PostToolFinds ==
    ASSUME NEW cl \in ClosureRec, NEW c \in CallRec, NEW type,
           Same(cl.pending, c.tool, c.input) # {}
    PROVE  \E o \in Same(cl.pending, c.tool, c.input) :
              /\ PostTool(cl, c, type).cl.pending = cl.pending \ {o}
              /\ PostTool(cl, c, type).cl.seq = cl.seq
              /\ \/ /\ PostTool(cl, c, type).cl.announced = cl.announced
                    /\ PostTool(cl, c, type).events = <<ToolEv(type, o)>>
                 \/ /\ cl.pending \ {o} = {} /\ cl.next > cl.announced
                    /\ PostTool(cl, c, type).cl.announced = cl.next
                    /\ PostTool(cl, c, type).events = <<ToolEv(type, o), Ev("model-start", cl.next)>>
<1>. DEFINE exact == Same(cl.pending, c.tool, c.input)
            o == Oldest(exact)
            before == [cl EXCEPT !.pending = cl.pending \ {o}]
            next == StartPendingModelStep(before)
<1>1. o \in exact
  <2>1. exact \subseteq CallRec
    BY DEF Same, ClosureRec
  <2>. QED BY <2>1, OldestIsMember
<1>2. o \in CallRec /\ o \in cl.pending /\ o.tool = c.tool /\ o.input = c.input
  BY <1>1 DEF Same, ClosureRec
<1>3. ShiftPendingTool(cl, c) = {o}
  <2>1. {d \in {d \in cl.pending : d.tool = c.tool} : d.input = c.input} = exact
    BY DEF Same
  <2>2. {d \in cl.pending : d.tool = c.tool} # {}
    BY <1>2
  <2>. QED BY <1>1, <2>1, <2>2 DEF ShiftPendingTool
<1>4. Call(o.id, c.tool, c.input) = o
  BY <1>2 DEF Call, CallRec
<1>. HIDE DEF o
<1>5. (CHOOSE d \in {o} : TRUE) = o
  OBVIOUS
<1>6. [cl EXCEPT !.seq = IF {o} = {} THEN @ + 1 ELSE @, !.pending = @ \ {o}] = before
  BY DEF ClosureRec
<1>7. PostTool(cl, c, type).cl = next.cl
      /\ PostTool(cl, c, type).events = <<ToolEv(type, o)>> \o next.events
  BY <1>3, <1>4, <1>5, <1>6 DEF PostTool
<1>8. /\ before \in ClosureRec /\ before.pending = cl.pending \ {o} /\ before.seq = cl.seq
      /\ before.announced = cl.announced /\ before.next = cl.next /\ cl.next \in Nat
      /\ cl.announced \in Nat
  BY DEF ClosureRec
<1>. HIDE DEF before
<1>9. CASE before.next = 0 \/ before.pending # {}
  <2>1. next.cl = before /\ next.events = <<>>
    BY <1>9 DEF StartPendingModelStep
  <2>. QED BY <1>1, <1>7, <1>8, <2>1
<1>10. CASE ~(before.next = 0 \/ before.pending # {}) /\ before.next > before.announced
  <2>1. /\ next.cl = [before EXCEPT !.announced = before.next, !.step = before.next, !.next = 0]
        /\ next.events = <<Ev("model-start", before.next)>>
    BY <1>10 DEF StartPendingModelStep
  <2>2. next.cl.pending = before.pending /\ next.cl.seq = before.seq
        /\ next.cl.announced = before.next
    BY <1>8, <2>1 DEF ClosureRec
  <2>3. /\ cl.pending \ {o} = {} /\ cl.next > cl.announced
        /\ PostTool(cl, c, type).cl = next.cl /\ next.cl.pending = cl.pending \ {o}
        /\ next.cl.seq = cl.seq /\ next.cl.announced = cl.next
    BY <1>7, <1>8, <1>10, <2>2
  <2>4. PostTool(cl, c, type).events = <<ToolEv(type, o)>> \o <<Ev("model-start", cl.next)>>
    BY <1>7, <1>8, <2>1
  <2>5. PostTool(cl, c, type).events = <<ToolEv(type, o), Ev("model-start", cl.next)>>
    BY <2>4, JoinOfTwo
  <2>. HIDE DEF next
  <2>. QED BY <1>1, <2>3, <2>5
<1>11. CASE ~(before.next = 0 \/ before.pending # {}) /\ ~(before.next > before.announced)
  <2>1. next.cl = [before EXCEPT !.next = 0] /\ next.events = <<>>
    BY <1>11 DEF StartPendingModelStep
  <2>2. next.cl.pending = before.pending /\ next.cl.seq = before.seq
        /\ next.cl.announced = before.announced
    BY <1>8, <2>1 DEF ClosureRec
  <2>. QED BY <1>1, <1>7, <1>8, <2>1, <2>2
<1>. QED BY <1>9, <1>10, <1>11

-----------------------------------------------------------------------------
(* How many calls are alike *)

LEMMA SameOfMore ==
    ASSUME NEW S, NEW c, IsFiniteSet(S), c \notin S, NEW t, NEW i
    PROVE  Cardinality(Same(S \cup {c}, t, i))
             = Cardinality(Same(S, t, i)) + (IF c.tool = t /\ c.input = i THEN 1 ELSE 0)
<1>1. IsFiniteSet(Same(S, t, i)) /\ c \notin Same(S, t, i)
  BY FS_Subset DEF Same
<1>2. Cardinality(Same(S, t, i)) \in Nat
  BY <1>1, FS_CardinalityType
<1>3. CASE c.tool = t /\ c.input = i
  <2>1. Same(S \cup {c}, t, i) = Same(S, t, i) \cup {c}
    BY <1>3 DEF Same
  <2>. QED BY <1>1, <1>3, <2>1, FS_AddElement, ZenonT(40)
<1>4. CASE ~(c.tool = t /\ c.input = i)
  <2>1. Same(S \cup {c}, t, i) = Same(S, t, i)
    BY <1>4 DEF Same
  <2>. QED BY <1>2, <1>4, <2>1
<1>. QED BY <1>3, <1>4

LEMMA SameOfLess ==
    ASSUME NEW S, NEW c, IsFiniteSet(S), c \in S, NEW t, NEW i
    PROVE  Cardinality(Same(S \ {c}, t, i))
             = Cardinality(Same(S, t, i)) - (IF c.tool = t /\ c.input = i THEN 1 ELSE 0)
<1>1. IsFiniteSet(Same(S, t, i))
  BY FS_Subset DEF Same
<1>2. Cardinality(Same(S, t, i)) \in Nat
  BY <1>1, FS_CardinalityType
<1>3. CASE c.tool = t /\ c.input = i
  <2>1. Same(S \ {c}, t, i) = Same(S, t, i) \ {c} /\ c \in Same(S, t, i)
    BY <1>3 DEF Same
  <2>. QED BY <1>1, <1>3, <2>1, FS_RemoveElement
<1>4. CASE ~(c.tool = t /\ c.input = i)
  <2>1. Same(S \ {c}, t, i) = Same(S, t, i)
    BY <1>4 DEF Same
  <2>. QED BY <1>2, <1>4, <2>1
<1>. QED BY <1>3, <1>4

LEMMA SameIsThere ==
    ASSUME NEW S, NEW T, IsFiniteSet(S), IsFiniteSet(T), NEW c \in T,
           Cardinality(Same(S, c.tool, c.input)) = Cardinality(Same(T, c.tool, c.input))
    PROVE  Same(S, c.tool, c.input) # {}
<1>1. IsFiniteSet(Same(S, c.tool, c.input)) /\ IsFiniteSet(Same(T, c.tool, c.input))
  BY FS_Subset DEF Same
<1>2. Same(T, c.tool, c.input) # {}
  BY DEF Same
<1>. QED BY <1>1, <1>2, FS_EmptySet

-----------------------------------------------------------------------------
(* The events of each step *)

LEMMA CleanBefore == kinds \subseteq kinds' /\ Clean' => Clean
BY DEF Clean

\* The observer's picture after one event.
LEMMA TellOne ==
    ASSUME NEW e, e.n \in Nat, Tell(<<e>>), shown.started \in Nat
    PROVE  /\ told' = <<e>>
           /\ shown'.open = {c \in shown.open \cup (IF e.type = "tool-start" THEN e.call ELSE {}) :
                  c.id \notin IF e.type \in {"tool-end", "tool-error"} THEN {e.n} ELSE {}}
           /\ shown'.started = IF e.type = "model-start" THEN e.n ELSE shown.started
           /\ shown'.ended = IF e.type = "model-end" THEN e.n ELSE shown.ended
           /\ shown'.over <=> shown.over \/ e.type = "run-end"
<1>. DEFINE started == IF e.type = "tool-start" THEN e.call ELSE {}
            ended == IF e.type \in {"tool-end", "tool-error"} THEN {e.n} ELSE {}
            steps == IF e.type = "model-start" THEN {e.n} ELSE {}
            models == IF e.type = "model-end" THEN {e.n} ELSE {}
            final == e.type = "run-end"
<1>1. told' = <<e>> /\ shown' = Seen(started, ended, steps, models, final)
  BY SeeOne DEF Tell
<1>2. Highest(steps, shown.started) = IF e.type = "model-start" THEN e.n ELSE shown.started
  BY HighestOfNone, HighestOfOne
<1>3. Highest(models, shown.ended) = IF e.type = "model-end" THEN e.n ELSE shown.ended
  BY HighestOfNone, HighestOfOne
<1>4. /\ shown'.open = {c \in shown.open \cup started : c.id \notin ended}
      /\ shown'.started = Highest(steps, shown.started)
      /\ shown'.ended = Highest(models, shown.ended)
      /\ shown'.over = (shown.over \/ final)
  <2>. HIDE DEF started, ended, steps, models, final
  <2>. QED BY <1>1 DEF Seen
<1>. QED BY <1>1, <1>2, <1>3, <1>4, Zenon

\* Hooks and streams that tell nothing of calls and steps.
LEMMA CallsStay ==
    ASSUME IEvents, Clean' => Clean, late' = late, pc \in InCall, pc' \in InCall,
           cur'.pending = cur.pending, cur'.seq = cur.seq, cur'.announced = cur.announced,
           sdk'.running = sdk.running, sdk'.turn = sdk.turn, shown'.open = shown.open,
           shown'.started = shown.started, shown'.ended = shown.ended, shown'.over <=> shown.over
    PROVE  IEvents'
<1>. SUFFICES ASSUME Clean' PROVE IEvents'
  BY DEF IEvents
<1>1. IPending' /\ ISeen'
  BY DEF IEvents, IPending, ISeen
<1>. QED BY <1>1 DEF IEvents, InCall, Early

LEMMA PrepareEvents == IResult /\ IEvents /\ Prepare => IEvents' /\ (Clean' => Events)
<1>. SUFFICES ASSUME IResult, IEvents, Prepare, Clean' PROVE IEvents' /\ Events
  BY DEF IEvents
<1>0. kinds \subseteq kinds'
  BY DEF Prepare, Begin, CheckFails, CheckPasses, Compress, CompressAborted, BookCompressor,
         TellFirstStep, CallModel, CompressWith, Dies, NoFault, Fault
<1>00. Clean /\ late = {} /\ (pc \in Early => IBefore)
  BY <1>0, CleanBefore DEF IEvents
<1>1. ASSUME Begin PROVE IEvents' /\ Events
  <2>1. told' = <<Ev("run-start", 0)>> /\ pc' = "check" /\ late' = {} /\ shown' = NothingShown
    BY <1>1, <1>00 DEF Begin
  <2>2. Events
    BY <2>1, OneEvent DEF Ev
  <2>. QED BY <2>1, <2>2 DEF IEvents, IBefore, NothingShown, InCall, Early
<1>2. ASSUME NEW result, NEW turns, NEW memory, Ends(result, turns, memory), pc \in Early,
             late' = late
      PROVE  IEvents' /\ Events
  <2>1. told' = <<Ev("run-end", 0)>> /\ pc' = "idle" /\ ~shown.over
    BY <1>00, <1>2 DEF Ends, Tell, IBefore
  <2>2. Events
    BY <2>1, OneEvent DEF Ev
  <2>. QED BY <1>00, <1>2, <2>1, <2>2 DEF IEvents, InCall, Early
<1>3. ASSUME Quiet, pc \in Early, pc' \in Early, pc # "ready", pc' # "ready", late' = late
      PROVE  IEvents' /\ Events
  BY <1>00, <1>3, QuietEvents DEF Quiet, IEvents, IBefore, InCall, Early
<1>4. ASSUME TellFirstStep PROVE IEvents' /\ Events
  <2>1. pc = "input" /\ pc' = "ready" /\ late' = late /\ cur.step = 1
    BY <1>4 DEF TellFirstStep, IResult, IEarly, Early, Fresh
  <2>2. shown.open = {} /\ shown.ended = 0 /\ ~shown.over /\ shown.started = 0
    BY <1>00, <2>1 DEF IBefore, Early
  <2>. DEFINE e == Ev("model-start", 1)
  <2>3. e.n = 1 /\ e.type = "model-start" /\ Tell(<<e>>)
    BY <1>4, <2>1 DEF TellFirstStep, Ev
  <2>. HIDE DEF e
  <2>4. told' = <<e>> /\ shown'.open = {} /\ shown'.started = 1 /\ shown'.ended = 0 /\ ~shown'.over
    <3>1. shown'.open \subseteq shown.open
      BY <2>2, <2>3, TellOne
    <3>2. told' = <<e>> /\ shown'.started = 1 /\ shown'.ended = shown.ended
          /\ (shown'.over <=> shown.over)
      BY <2>2, <2>3, TellOne
    <3>. QED BY <2>2, <3>1, <3>2
  <2>5. Events
    BY <2>2, <2>3, <2>4, OneEvent
  <2>. QED BY <1>00, <2>1, <2>4, <2>5 DEF IEvents, IBefore, InCall, Early
<1>5. ASSUME CallModel PROVE IEvents' /\ Events
  <2>1. /\ pc = "ready" /\ pc' = "stream" /\ late' = {} /\ UNCHANGED cur
        /\ told' = <<>> /\ UNCHANGED shown /\ sdk'.running = {} /\ sdk'.turn = 0
    BY <1>00, <1>5 DEF CallModel, Quiet, NoSdk
  <2>2. cur.pending = {} /\ cur.announced = 1 /\ cur.seq = 0
    BY <2>1 DEF IResult, IEarly, Early, Fresh
  <2>3. shown.open = {} /\ shown.ended = 0 /\ ~shown.over /\ shown.started = 1
    BY <1>00, <2>1 DEF IBefore, Early
  <2>4. IPending'
    BY <2>1, <2>2, <2>3, FS_EmptySet DEF IPending
  <2>5. ISeen'
    BY <2>1, <2>2, <2>3 DEF ISeen
  <2>. QED BY <2>1, <2>4, <2>5, QuietEvents DEF IEvents, InCall, Early
<1>6. ASSUME CheckFails PROVE IEvents' /\ Events
  BY <1>2, <1>6 DEF CheckFails, Dies, Early
<1>7. ASSUME CompressAborted PROVE IEvents' /\ Events
  BY <1>2, <1>7 DEF CompressAborted, Dies, Early
<1>8. ASSUME CheckPasses PROVE IEvents' /\ Events
  BY <1>3, <1>8 DEF CheckPasses, Early
<1>9. ASSUME Compress PROVE IEvents' /\ Events
  <2>1. /\ Quiet /\ late' = late /\ pc = "compress" /\ pc' \in {"book", "input"}
    BY <1>9 DEF Compress, CompressWith
  <2>. QED BY <1>3, <2>1 DEF Early
<1>10. ASSUME BookCompressor PROVE IEvents' /\ Events
  <2>1. pc = "book" /\ late' = late
    BY <1>10 DEF BookCompressor
  <2>2. CASE pc' = "input" /\ Quiet
    BY <1>3, <2>1, <2>2 DEF Early
  <2>3. CASE Ends(Result, "none", "kept")
    BY <1>2, <2>1, <2>3 DEF Early
  <2>. QED BY <1>10, <2>2, <2>3 DEF BookCompressor
<1>. QED BY <1>1, <1>4, <1>5, <1>6, <1>7, <1>8, <1>9, <1>10 DEF Prepare

LEMMA ModelCallEvents ==
    ASSUME IResult, IEvents, Clean, Clean', ModelCallEnds
    PROVE  IEvents' /\ Events
<1>. DEFINE e == Ev("model-end", sdk.turn + 1)
<1>1. late = {} /\ IPending /\ ISeen /\ pc = "stream"
  BY DEF IEvents, InCall, ModelCallEnds, InSdk
<1>2. sdk.turn \in Nat /\ sdk.turn + 1 \in Nat /\ cur.announced \in Nat
  BY DEF IResult, IType, ISdk, IClosures, SdkRec, ClosureRec
<1>3. e.n = sdk.turn + 1 /\ e.type = "model-end" /\ Tell(<<e>>)
  BY DEF ModelCallEnds, Ev
<1>4. pc' = pc /\ late' = late
  BY DEF ModelCallEnds, OnlyHooks
<1>5. /\ cur'.pending = cur.pending /\ cur'.seq = cur.seq
      /\ cur'.announced = Largest(cur.announced, sdk.turn + 1)
      /\ sdk'.running = sdk.running /\ sdk'.turn = sdk.turn + 1
  BY DEF ModelCallEnds, PostModelCall, IResult, IType, ISdk, IClosures, SdkRec, ClosureRec
<1>. HIDE DEF e
<1>6. /\ told' = <<e>> /\ shown'.started = shown.started /\ shown'.ended = sdk.turn + 1
      /\ (shown'.over <=> shown.over)
  BY <1>1, <1>2, <1>3, TellOne DEF ISeen
<1>7. shown'.open = shown.open
  <2>1. shown'.open = {c \in shown.open \cup {} : c.id \notin {}}
    BY <1>1, <1>2, <1>3, TellOne DEF ISeen
  <2>. QED BY <2>1
<1>8. Events
  BY <1>1, <1>3, <1>6, OneEvent DEF ISeen
<1>9. IPending'
  BY <1>1, <1>5, <1>7 DEF IPending
<1>10. ISeen'
  <2>1. /\ cur'.announced \in Nat /\ cur'.announced >= cur.announced
        /\ cur'.announced >= sdk.turn + 1
    BY <1>2, <1>5, LargestIsNat
  <2>. QED BY <1>1, <1>2, <1>5, <1>6, <2>1 DEF ISeen
<1>. QED BY <1>1, <1>4, <1>8, <1>9, <1>10 DEF IEvents, InCall, Early

LEMMA PreToolUseEvents ==
    ASSUME IResult, IEvents, Clean, Clean', PreToolUse
    PROVE  IEvents' /\ Events
<1>1. late = {} /\ IPending /\ ISeen /\ pc = "stream"
  BY DEF IEvents, InCall, PreToolUse, InSdk
<1>2. /\ cur.seq \in Nat /\ cur.seq + 1 \in Nat /\ cur.announced \in Nat
      /\ cur.pending \subseteq CallRec /\ sdk.running \subseteq CallRec
  BY DEF IResult, IType, IClosures, ClosureRec, ISdk, SdkRec
<1>3. PICK t \in Tools, i \in Inputs :
        /\ cur' = [cur EXCEPT !.seq = @ + 1, !.pending = @ \cup {Call(cur.seq + 1, t, i)}]
        /\ sdk' = [sdk EXCEPT !.todo = @ - 1, !.running = @ \cup {Call(cur.seq + 1, t, i)}]
        /\ Tell(<<ToolEv("tool-start", Call(cur.seq + 1, t, i))>>)
  BY DEF PreToolUse
<1>. DEFINE c == Call(cur.seq + 1, t, i)
            e == ToolEv("tool-start", c)
<1>4. c.id = cur.seq + 1 /\ c.tool = t /\ c.input = i
  BY DEF Call
<1>5. e.type = "tool-start" /\ e.n \in Nat /\ e.call = {c} /\ Tell(<<e>>)
  BY <1>2, <1>3, <1>4 DEF ToolEv
<1>6. pc' = pc /\ late' = late
  BY DEF PreToolUse, OnlyHooks
<1>7. /\ cur'.pending = cur.pending \cup {c} /\ cur'.seq = cur.seq + 1
      /\ cur'.announced = cur.announced
      /\ sdk'.running = sdk.running \cup {c} /\ sdk'.turn = sdk.turn
  BY <1>3 DEF IResult, IType, IClosures, ClosureRec, ISdk, SdkRec
<1>. HIDE DEF c, e
<1>8. /\ told' = <<e>> /\ shown'.started = shown.started /\ shown'.ended = shown.ended
      /\ (shown'.over <=> shown.over)
  BY <1>1, <1>5, TellOne DEF ISeen
<1>9. shown'.open = shown.open \cup {c}
  <2>1. shown'.open = {d \in shown.open \cup {c} : d.id \notin {}}
    BY <1>1, <1>5, TellOne DEF ISeen
  <2>. QED BY <2>1
<1>10. Events
  BY <1>1, <1>5, <1>8, OneEvent DEF ISeen
<1>11. IPending'
  <2>1. c \notin cur.pending /\ c \notin sdk.running
    BY <1>1, <1>2, <1>4 DEF IPending
  <2>2. IsFiniteSet(cur'.pending) /\ IsFiniteSet(sdk'.running)
    <3>1. IsFiniteSet(cur.pending) /\ IsFiniteSet(sdk.running)
      BY <1>1 DEF IPending
    <3>2. IsFiniteSet(cur.pending \cup {c}) /\ IsFiniteSet(sdk.running \cup {c})
      BY <3>1, FS_AddElement
    <3>. QED BY <1>7, <3>2
  <2>3. \A x, y \in cur'.pending : x.id = y.id => x = y
    <3>1. \A x \in cur.pending : x.id \in Nat /\ x.id <= cur.seq
      BY <1>1, <1>2 DEF IPending, CallRec
    <3>2. \A x \in cur.pending : x.id # c.id
      BY <1>2, <1>4, <3>1
    <3>. QED BY <1>1, <1>7, <3>2 DEF IPending
  <2>4. \A x \in cur'.pending \cup sdk'.running : x.id <= cur'.seq
    <3>1. \A x \in cur.pending \cup sdk.running : x.id \in Nat /\ x.id <= cur.seq
      BY <1>1, <1>2 DEF IPending, CallRec
    <3>2. \A n \in Nat : n <= cur.seq => n <= cur.seq + 1
      BY <1>2
    <3>3. c.id <= cur.seq + 1
      BY <1>2, <1>4
    <3>. QED BY <1>7, <3>1, <3>2, <3>3
  <2>5. ASSUME NEW u \in Tools, NEW j \in Inputs
        PROVE  Cardinality(Same(cur'.pending, u, j)) = Cardinality(Same(sdk'.running, u, j))
    BY <1>1, <1>7, <2>1, SameOfMore DEF IPending
  <2>. QED BY <1>1, <1>7, <1>9, <2>2, <2>3, <2>4, <2>5 DEF IPending
<1>12. ISeen'
  BY <1>1, <1>7, <1>8 DEF ISeen
<1>. QED BY <1>1, <1>6, <1>10, <1>11, <1>12 DEF IEvents, InCall, Early

LEMMA ToolEndsEvents ==
    ASSUME IResult, IEvents, Clean, Clean', ToolEnds
    PROVE  IEvents' /\ Events
<1>1. late = {} /\ IPending /\ ISeen /\ pc \in InCall
  BY DEF IEvents, InCall, ToolEnds
<1>2. /\ cur \in ClosureRec /\ sdk \in SdkRec /\ cur.next \in Nat /\ cur.announced \in Nat
      /\ cur.pending \subseteq CallRec /\ sdk.running \subseteq CallRec /\ sdk.turn \in Nat
  BY DEF IResult, IType, IClosures, ClosureRec, ISdk, SdkRec
<1>3. PICK c \in sdk.running, type \in {"tool-end", "tool-error"} :
        /\ cur' = PostTool(cur, c, type).cl /\ Tell(PostTool(cur, c, type).events)
        /\ sdk' = [sdk EXCEPT !.running = @ \ {c}]
  BY DEF ToolEnds
<1>4. pc' = pc /\ late' = late
  BY DEF ToolEnds, OnlyHooks
<1>5. c \in CallRec /\ c.tool \in Tools /\ c.input \in Inputs
  BY <1>2 DEF CallRec
<1>6. Same(cur.pending, c.tool, c.input) # {}
  BY <1>1, <1>5, SameIsThere DEF IPending
<1>7. PICK o \in Same(cur.pending, c.tool, c.input) :
        /\ cur'.pending = cur.pending \ {o} /\ cur'.seq = cur.seq
        /\ \/ /\ cur'.announced = cur.announced
              /\ PostTool(cur, c, type).events = <<ToolEv(type, o)>>
           \/ /\ cur.pending \ {o} = {} /\ cur.next > cur.announced
              /\ cur'.announced = cur.next
              /\ PostTool(cur, c, type).events = <<ToolEv(type, o), Ev("model-start", cur.next)>>
  BY <1>2, <1>3, <1>5, <1>6, PostToolFinds
<1>8. o \in cur.pending /\ o.tool = c.tool /\ o.input = c.input /\ o \in shown.open /\ o.id \in Nat
  BY <1>1, <1>2 DEF Same, IPending, CallRec
<1>9. sdk'.running = sdk.running \ {c} /\ sdk'.turn = sdk.turn
  BY <1>2, <1>3 DEF SdkRec
<1>10. {d \in shown.open : d.id # o.id} = shown.open \ {o}
  BY <1>1, <1>8 DEF IPending
<1>. DEFINE e == ToolEv(type, o)
<1>11. e.n = o.id /\ e.call = {o} /\ e.type = type
  BY DEF ToolEv
<1>12. ASSUME shown'.open = shown.open \ {o} PROVE IPending'
  <2>1. IsFiniteSet(cur'.pending) /\ IsFiniteSet(sdk'.running)
    BY <1>1, <1>7, <1>9, FS_RemoveElement DEF IPending
  <2>2. ASSUME NEW u \in Tools, NEW j \in Inputs
        PROVE  Cardinality(Same(cur'.pending, u, j)) = Cardinality(Same(sdk'.running, u, j))
    <3>1. Cardinality(Same(cur'.pending, u, j))
            = Cardinality(Same(cur.pending, u, j)) - (IF c.tool = u /\ c.input = j THEN 1 ELSE 0)
      BY <1>1, <1>7, <1>8, SameOfLess DEF IPending
    <3>2. Cardinality(Same(sdk'.running, u, j))
            = Cardinality(Same(sdk.running, u, j)) - (IF c.tool = u /\ c.input = j THEN 1 ELSE 0)
      BY <1>1, <1>9, SameOfLess DEF IPending
    <3>. QED BY <1>1, <3>1, <3>2 DEF IPending
  <2>. QED BY <1>1, <1>7, <1>9, <1>12, <2>1, <2>2 DEF IPending
<1>. HIDE DEF e
<1>13. CASE cur'.announced = cur.announced /\ PostTool(cur, c, type).events = <<e>>
  <2>1. Tell(<<e>>)
    BY <1>3, <1>13
  <2>2. /\ told' = <<e>> /\ shown'.started = shown.started /\ shown'.ended = shown.ended
        /\ (shown'.over <=> shown.over)
    BY <1>1, <1>3, <1>8, <1>11, <2>1, TellOne DEF ISeen
  <2>3. shown'.open = {d \in shown.open \cup {} : d.id \notin {e.n}}
    BY <1>1, <1>3, <1>8, <1>11, <2>1, TellOne DEF ISeen
  <2>4. shown'.open = shown.open \ {o}
    BY <1>10, <1>11, <2>3
  <2>5. Events
    BY <1>1, <1>3, <1>8, <1>11, <2>2, OneEvent DEF ISeen
  <2>6. ISeen'
    BY <1>1, <1>9, <1>13, <2>2 DEF ISeen
  <2>. QED BY <1>1, <1>4, <1>12, <2>4, <2>5, <2>6 DEF IEvents, InCall, Early
<1>14. CASE /\ cur.pending \ {o} = {} /\ cur.next > cur.announced /\ cur'.announced = cur.next
            /\ PostTool(cur, c, type).events = <<e, Ev("model-start", cur.next)>>
  <2>. DEFINE f == Ev("model-start", cur.next)
  <2>1. f.type = "model-start" /\ f.n = cur.next
    BY DEF Ev
  <2>. HIDE DEF f
  <2>2. told' = <<e, f>> /\ shown' = See(<<e, f>>)
    BY <1>3, <1>14 DEF Tell, f
  <2>3. shown' = Seen({}, {o.id}, {cur.next}, {}, FALSE)
    <3>1. e.type \in {"tool-end", "tool-error"} /\ f.n \in Nat
      BY <1>2, <1>11, <2>1
    <3>2. See(<<e, f>>) = Seen({}, {e.n}, {f.n}, {}, FALSE)
      BY <2>1, <3>1, SeeTwo, Zenon
    <3>. QED BY <1>11, <2>1, <2>2, <3>2
  <2>4. /\ shown'.open = {d \in shown.open \cup {} : d.id \notin {o.id}}
        /\ shown'.started = cur.next /\ shown'.ended = shown.ended /\ (shown'.over <=> shown.over)
    BY <1>2, <2>3, HighestOfNone, HighestOfOne DEF Seen
  <2>5. shown'.open = shown.open \ {o} /\ shown'.open = {}
    BY <1>1, <1>10, <1>14, <2>4 DEF IPending
  <2>6. \A i \in DOMAIN told' : told'[i] = e \/ told'[i] = f
    BY <2>2
  <2>7. cur.next > shown.started /\ cur.next > shown.ended
    BY <1>1, <1>2, <1>14 DEF ISeen
  <2>8. PairedStep
    BY <1>8, <1>11, <2>1, <2>6 DEF PairedStep
  <2>9. OrderedStep
    BY <1>1, <1>3, <1>11, <2>1, <2>5, <2>6, <2>7 DEF OrderedStep, ISeen
  <2>10. ISeen'
    BY <1>1, <1>2, <1>9, <1>14, <2>4 DEF ISeen
  <2>. QED BY <1>1, <1>4, <1>12, <2>5, <2>8, <2>9, <2>10 DEF IEvents, InCall, Early, Events
<1>. QED BY <1>7, <1>13, <1>14 DEF e

LEMMA HooksEvents == IResult /\ IEvents /\ Hooks => IEvents' /\ (Clean' => Events)
<1>. SUFFICES ASSUME IResult, IEvents, Hooks, Clean' PROVE IEvents' /\ Events
  BY DEF IEvents
<1>0. kinds \subseteq kinds'
  BY DEF Hooks, ModelCallEnds, OnTurnStart, PreToolUse, ToolEnds, UnannouncedEnds, RoundEnds,
         LateToolEnds, NoFault, Fault
<1>1. Clean /\ late = {}
  BY <1>0, CleanBefore DEF IEvents
<1>2. ~UnannouncedEnds /\ ~LateToolEnds
  BY <1>1 DEF UnannouncedEnds, LateToolEnds, Fault, Clean
<1>3. ASSUME OnTurnStart \/ RoundEnds PROVE IEvents' /\ Events
  <2>1. /\ pc = "stream" /\ pc' = pc /\ told' = <<>> /\ shown' = shown /\ late' = late
    BY <1>3 DEF OnTurnStart, RoundEnds, InSdk, Quiet, OnlyHooks
  <2>2. /\ cur'.pending = cur.pending /\ cur'.seq = cur.seq /\ cur'.announced = cur.announced
        /\ sdk'.running = sdk.running /\ sdk'.turn = sdk.turn
    BY <1>3 DEF OnTurnStart, RoundEnds, IResult, IType, IClosures, ISdk, ClosureRec, SdkRec
  <2>. QED BY <1>1, <2>1, <2>2, CallsStay, QuietEvents DEF InCall
<1>. QED BY <1>1, <1>2, <1>3, ModelCallEvents, PreToolUseEvents, ToolEndsEvents DEF Hooks

LEMMA StreamsEvents == IResult /\ IEvents /\ (Streams \/ Abort) => IEvents' /\ (Clean' => Events)
<1>. SUFFICES ASSUME IResult, IEvents, Streams \/ Abort, Clean' PROVE IEvents' /\ Events
  BY DEF IEvents
<1>0. kinds \subseteq kinds' /\ pc' = pc /\ cur' = cur /\ late' = late
  BY DEF Streams, Abort, TextArrives, ReasoningArrives, TextEnds, TextFails, ReasoningEnds,
         OnlyStream, NoFault, Fault
<1>1. Clean
  BY <1>0, CleanBefore
<1>2. sdk'.running = sdk.running /\ sdk'.turn = sdk.turn
  BY DEF Streams, Abort, TextArrives, ReasoningArrives, TextEnds, TextFails, ReasoningEnds,
         IResult, IType, ISdk, SdkRec
<1>3. CASE Quiet
  BY <1>0, <1>1, <1>2, <1>3, QuietEvents DEF Quiet, IEvents, IPending, ISeen, IBefore
<1>4. ASSUME NEW e, e.type \in {"text", "reasoning"}, e.n \in Nat, Tell(<<e>>), pc = "stream"
      PROVE  IEvents' /\ Events
  <2>1. ISeen
    BY <1>1, <1>4 DEF IEvents, InCall
  <2>2. /\ told' = <<e>> /\ shown'.started = shown.started /\ shown'.ended = shown.ended
        /\ (shown'.over <=> shown.over)
    BY <1>4, <2>1, TellOne DEF ISeen
  <2>3. shown'.open = {c \in shown.open \cup {} : c.id \notin {}}
    BY <1>4, <2>1, TellOne DEF ISeen
  <2>4. shown'.open = shown.open
    BY <2>3
  <2>5. Events
    BY <1>4, <2>1, <2>2, OneEvent DEF ISeen
  <2>. QED BY <1>0, <1>1, <1>2, <1>4, <2>2, <2>4, <2>5, CallsStay DEF InCall
<1>5. ASSUME TextArrives PROVE IEvents' /\ Events
  BY <1>4, <1>5 DEF TextArrives, InSdk, Ev
<1>6. ASSUME ReasoningArrives PROVE IEvents' /\ Events
  <2>1. cur.step \in Nat
    BY DEF IResult, IType, IClosures, ClosureRec
  <2>. QED BY <1>4, <1>6, <2>1 DEF ReasoningArrives, InSdk, Ev
<1>. QED BY <1>3, <1>5, <1>6 DEF Streams, Abort, TextEnds, TextFails, ReasoningEnds

LEMMA EpilogueEvents == IResult /\ IEvents /\ Epilogue => IEvents' /\ (Clean' => Events)
<1>. SUFFICES ASSUME IResult, IEvents, Epilogue, Clean' PROVE IEvents' /\ Events
  BY DEF IEvents
<1>0. kinds \subseteq kinds' /\ pc \in InCall
  BY DEF Epilogue, Settle, Response, Save, Memory, Conclude, LeaveTools, NoFault, Fault, InCall
<1>1. Clean /\ late = {} /\ ISeen
  BY <1>0, CleanBefore DEF IEvents
<1>2. ASSUME Quiet, pc' \in InCall, cur' = cur, late' = late, sdk'.running = sdk.running,
             sdk'.turn = sdk.turn
      PROVE  IEvents' /\ Events
  BY <1>0, <1>1, <1>2, CallsStay, QuietEvents DEF Quiet
<1>3. ASSUME NEW result, NEW turns, NEW memory, Ends(result, turns, memory), late' = {}
      PROVE  IEvents' /\ Events
  <2>1. told' = <<Ev("run-end", 0)>> /\ pc' = "idle" /\ ~shown.over
    BY <1>1, <1>3 DEF Ends, Tell, ISeen
  <2>2. Events
    BY <2>1, OneEvent DEF Ev
  <2>. QED BY <1>3, <2>1, <2>2 DEF IEvents, InCall, Early
<1>4. ASSUME Settle \/ Response PROVE IEvents' /\ Events
  <2>1. Quiet /\ pc' \in InCall /\ cur' = cur /\ late' = late
    BY <1>4 DEF Settle, Response, Conclude, InCall
  <2>2. sdk'.running = sdk.running /\ sdk'.turn = sdk.turn
    BY <1>4 DEF Settle, Response, IResult, IType, ISdk, SdkRec
  <2>. QED BY <1>2, <2>1, <2>2
<1>5. ASSUME Save PROVE IEvents' /\ Events
  BY <1>1, <1>2, <1>3, <1>5 DEF Save, InCall
<1>6. ASSUME Memory PROVE IEvents' /\ Events
  <2>1. LeaveTools => late' = late
    BY DEF LeaveTools, Fault, Clean
  <2>. QED BY <1>1, <1>3, <1>6, <2>1 DEF Memory
<1>. QED BY <1>4, <1>5, <1>6 DEF Epilogue

LEMMA StepEvents == IResult /\ IEvents /\ [Next]_vars => IEvents'
<1>1. IEvents /\ UNCHANGED vars => IEvents'
  BY DEF vars, IEvents, Clean, IPending, ISeen, IBefore
<1>. QED BY <1>1, PrepareEvents, HooksEvents, StreamsEvents, EpilogueEvents DEF Next

\* Whatever order the parallel tools of the rounds end in, an end that is told belongs to a call
\* that was told to have started and has not ended, and steps are told in order, none while a
\* tool of the round before is open; nothing follows the end of a run.  With the exceptions the
\* property names.  (the hooks of agent.ts, shiftPendingTool, announceModelStep)
THEOREM EventsAreInOrder == Spec => EventsInOrder
<1>1. Init => IResult /\ IEvents
  BY InitResult DEF Init, IEvents, InCall, Early
<1>2. IResult /\ IEvents /\ [Next]_vars => (IResult /\ IEvents)'
  BY StepResult, StepEvents
<1>3. IResult /\ IEvents /\ Next /\ Clean' => Events
  BY PrepareEvents, HooksEvents, StreamsEvents, EpilogueEvents DEF Next
<1>4. IResult /\ IEvents /\ [Next]_vars =>
        [kinds' \cap {"unannounced", "late"} = {} =>
            \A i \in DOMAIN told' :
                told'[i].type \in {"tool-end", "tool-error"} =>
                    told'[i].call \subseteq shown.open]_vars
  BY <1>3 DEF Events, PairedStep, Clean
<1>5. IResult /\ IEvents /\ [Next]_vars =>
        [kinds' \cap {"unannounced", "late"} = {} =>
            \A i \in DOMAIN told' :
                LET e == told'[i]
                IN /\ e.type = "model-start" =>
                          e.n > shown.started /\ e.n > shown.ended /\ shown'.open = {}
                   /\ e.type = "model-end" => e.n = shown.ended + 1
                   /\ e.type # "run-start" => ~shown.over]_vars
  BY <1>3 DEF Events, OrderedStep, Clean
<1>. QED BY <1>1, <1>2, <1>4, <1>5, PTL DEF Spec, EventsInOrder, ToolEventsPaired, StepsInOrder

-----------------------------------------------------------------------------
(* The view *)

Blocks == [run : Nat, call : SUBSET CallRec, state : {"running", "ended", "closed"}]
View(b, t, th, h) == [blocks |-> b, tools |-> t, thinking |-> th, header |-> h]
HeaderOf(r, s) == [running |-> r, step |-> s]
IsView(v) ==
    /\ v.blocks \in Seq(Blocks)
    /\ v = View(v.blocks, v.tools, v.thinking, v.header)
    /\ v.header = HeaderOf(v.header.running, v.header.step)

\* The view shows exactly these calls of this run as running, each in a block of its own that
\* is found by the id of the call.
Shows(v, calls, run) ==
    /\ DOMAIN v.tools = {c.id : c \in calls}
    /\ \A c \in calls :
           /\ v.tools[c.id] \in DOMAIN v.blocks
           /\ v.blocks[v.tools[c.id]] = [run |-> run, call |-> {c}, state |-> "running"]
    /\ \A k \in DOMAIN v.blocks :
           v.blocks[k].state = "running" => \E c \in calls : v.tools[c.id] = k

IView ==
    Clean => /\ IsView(view)
             /\ pc # "idle" => Shows(view, cur.pending, runs)
             /\ pc = "idle" => Shows(view, {}, runs) /\ ~view.thinking /\ ~view.header.running
IViewed == runs \in Nat /\ IView

LEMMA HeaderIs ==
    ASSUME NEW h, h = HeaderOf(h.running, h.step), NEW e
    PROVE  /\ Header(h, e) = HeaderOf(Header(h, e).running, Header(h, e).step)
           /\ e.type = "run-end" => ~Header(h, e).running
BY DEF Header, HeaderOf

\* The view after an event, field by field.
LEMMA HandleIs ==
    ASSUME NEW v, IsView(v), NEW e, NEW a, a = Apply(v, e),
           a = View(a.blocks, a.tools, a.thinking, v.header), a.blocks \in Seq(Blocks)
    PROVE  /\ IsView(HandleRunEvent(v, e))
           /\ HandleRunEvent(v, e).blocks = a.blocks
           /\ HandleRunEvent(v, e).tools = a.tools
           /\ HandleRunEvent(v, e).thinking = a.thinking
           /\ e.type = "run-end" => ~HandleRunEvent(v, e).header.running
<1>1. a.header = v.header
  BY DEF View
<1>2. HandleRunEvent(v, e) = View(a.blocks, a.tools, a.thinking, Header(v.header, e))
  BY <1>1 DEF HandleRunEvent, View
<1>3. /\ Header(v.header, e) = HeaderOf(Header(v.header, e).running, Header(v.header, e).step)
      /\ e.type = "run-end" => ~Header(v.header, e).running
  BY HeaderIs DEF IsView
<1>. QED BY <1>2, <1>3 DEF IsView, View

LEMMA ThinkingSet ==
    ASSUME NEW v, NEW b, NEW t, NEW th, NEW h, v = View(b, t, th, h), NEW x
    PROVE  [v EXCEPT !.thinking = x] = View(b, t, x, h)
BY DEF View

\* The events that touch no block.
LEMMA PlainEvent ==
    ASSUME NEW v, IsView(v), NEW e, e.type \in {"run-start", "text", "reasoning", "model-start", "model-end"}
    PROVE  /\ IsView(HandleRunEvent(v, e))
           /\ HandleRunEvent(v, e).blocks = v.blocks
           /\ HandleRunEvent(v, e).tools = v.tools
<1>1. PICK th : Apply(v, e) = View(v.blocks, v.tools, th, v.header)
  <2>1. Apply(v, e) \in {v, [v EXCEPT !.thinking = TRUE], [v EXCEPT !.thinking = FALSE]}
    BY DEF Apply
  <2>2. v = View(v.blocks, v.tools, v.thinking, v.header)
    BY DEF IsView
  <2>3. \A x : [v EXCEPT !.thinking = x] = View(v.blocks, v.tools, x, v.header)
    BY <2>2, ThinkingSet
  <2>. QED BY <2>1, <2>2, <2>3
<1>. DEFINE a == Apply(v, e)
<1>2. /\ a = View(a.blocks, a.tools, a.thinking, v.header)
      /\ a.blocks = v.blocks /\ a.tools = v.tools
  BY <1>1 DEF View
<1>3. a.blocks \in Seq(Blocks)
  BY <1>2 DEF IsView
<1>. HIDE DEF a
<1>4. a = Apply(v, e)
  BY DEF a
<1>. QED BY <1>2, <1>3, <1>4, HandleIs

\* The view with other blocks, and what finds them.
WithBlocks(v, b, t) == [v EXCEPT !.blocks = b, !.tools = t]

LEMMA WithBlocksIs ==
    ASSUME NEW v, NEW b, NEW t, NEW th, NEW h, v = View(b, t, th, h), NEW x, NEW y
    PROVE  WithBlocks(v, x, y) = View(x, y, th, h)
<1>1. [v EXCEPT !.blocks = x] = View(x, t, th, h)
  BY DEF View
<1>2. [View(x, t, th, h) EXCEPT !.tools = y] = View(x, y, th, h)
  BY DEF View
<1>3. WithBlocks(v, x, y) = [[v EXCEPT !.blocks = x] EXCEPT !.tools = y]
  BY DEF WithBlocks
<1>. QED BY <1>1, <1>2, <1>3

\* A call that starts is shown in a new block, found by its id.
LEMMA StartIsShown ==
    ASSUME NEW v, IsView(v), NEW calls, NEW c \in CallRec, runs' \in Nat,
           Shows(v, calls, runs'), \A d \in calls : d.id # c.id
    PROVE  /\ IsView(HandleRunEvent(v, ToolEv("tool-start", c)))
           /\ Shows(HandleRunEvent(v, ToolEv("tool-start", c)), calls \cup {c}, runs')
<1>. DEFINE e == ToolEv("tool-start", c)
            b == [run |-> runs', call |-> {c}, state |-> "running"]
            n == Len(v.blocks) + 1
            w == HandleRunEvent(v, e)
<1>1. e.type = "tool-start" /\ e.n = c.id /\ e.call = {c}
  BY DEF ToolEv
<1>. HIDE DEF e
<1>2. v.blocks \in Seq(Blocks) /\ v = View(v.blocks, v.tools, v.thinking, v.header)
  BY DEF IsView
<1>3. Apply(v, e) = WithBlocks(v, Append(v.blocks, b), With(v.tools, c.id, n))
  BY <1>1, <1>2 DEF Apply, ToolStarted, View, WithBlocks
<1>4. b \in Blocks
  BY DEF Blocks
<1>. HIDE DEF b
<1>5. Append(v.blocks, b) \in Seq(Blocks)
  BY <1>2, <1>4
<1>6. Apply(v, e) = View(Append(v.blocks, b), With(v.tools, c.id, n), v.thinking, v.header)
  BY <1>2, <1>3, WithBlocksIs
<1>7. /\ Apply(v, e).blocks = Append(v.blocks, b) /\ Apply(v, e).tools = With(v.tools, c.id, n)
      /\ Apply(v, e).thinking = v.thinking
  BY <1>6 DEF View
<1>8. IsView(w) /\ w.blocks = Append(v.blocks, b) /\ w.tools = With(v.tools, c.id, n)
  <2>. DEFINE a == Apply(v, e)
  <2>1. a = View(a.blocks, a.tools, a.thinking, v.header) /\ a.blocks \in Seq(Blocks)
    BY <1>5, <1>6, <1>7
  <2>2. a = Apply(v, e)
    OBVIOUS
  <2>. HIDE DEF a
  <2>3. IsView(w) /\ w.blocks = a.blocks /\ w.tools = a.tools
    BY <2>1, <2>2, HandleIs
  <2>. QED BY <1>7, <2>2, <2>3
<1>. HIDE DEF w
<1>9. n \in Nat /\ n \notin DOMAIN v.blocks
  BY <1>2
<1>10. DOMAIN w.blocks = DOMAIN v.blocks \cup {n} /\ w.blocks[n] = b
       /\ \A k \in DOMAIN v.blocks : w.blocks[k] = v.blocks[k]
  BY <1>2, <1>4, <1>8
<1>11. DOMAIN w.tools = DOMAIN v.tools \cup {c.id}
       /\ \A m \in DOMAIN w.tools : w.tools[m] = IF m = c.id THEN n ELSE v.tools[m]
  BY <1>8 DEF With
<1>12. DOMAIN w.tools = {d.id : d \in calls \cup {c}}
  BY <1>11 DEF Shows
<1>13. w.tools[c.id] = n /\ \A d \in calls : w.tools[d.id] = v.tools[d.id]
  BY <1>11, <1>12
<1>. HIDE DEF n
<1>14. \A d \in calls \cup {c} :
          /\ w.tools[d.id] \in DOMAIN w.blocks
          /\ w.blocks[w.tools[d.id]] = [run |-> runs', call |-> {d}, state |-> "running"]
  BY <1>10, <1>13, ZenonT(40) DEF Shows, b
<1>15. \A k \in DOMAIN w.blocks :
          w.blocks[k].state = "running" => \E d \in calls \cup {c} : w.tools[d.id] = k
  BY <1>10, <1>13 DEF Shows
<1>16. Shows(w, calls \cup {c}, runs')
  BY <1>12, <1>14, <1>15 DEF Shows
<1>. QED BY <1>8, <1>16 DEF w, e

\* The end of a call that is shown closes its block, and its id is free again.
LEMMA EndIsShown ==
    ASSUME NEW v, IsView(v), NEW calls, NEW c \in calls, NEW type \in {"tool-end", "tool-error"},
           Shows(v, calls, runs'), \A d \in calls : d.id = c.id => d = c
    PROVE  /\ IsView(HandleRunEvent(v, ToolEv(type, c)))
           /\ Shows(HandleRunEvent(v, ToolEv(type, c)), calls \ {c}, runs')
<1>. DEFINE e == ToolEv(type, c)
            k == v.tools[c.id]
            blocks == [v.blocks EXCEPT ![k].state = "ended"]
            w == HandleRunEvent(v, e)
<1>1. e.type = type /\ e.n = c.id
  BY DEF ToolEv
<1>. HIDE DEF e
<1>2. v.blocks \in Seq(Blocks) /\ v = View(v.blocks, v.tools, v.thinking, v.header)
  BY DEF IsView
<1>3. c.id \in DOMAIN v.tools /\ k \in DOMAIN v.blocks
      /\ v.blocks[k] = [run |-> runs', call |-> {c}, state |-> "running"]
  BY DEF Shows
<1>. HIDE DEF k
<1>4. Apply(v, e) = [v EXCEPT !.blocks[k].state = "ended", !.tools = Without(@, c.id)]
  BY <1>1, <1>3 DEF Apply, ToolEnded, k
<1>5. Apply(v, e) = WithBlocks(v, blocks, Without(v.tools, c.id))
  BY <1>2, <1>4 DEF View, WithBlocks
<1>6. blocks \in Seq(Blocks) /\ DOMAIN blocks = DOMAIN v.blocks
      /\ blocks[k].state = "ended"
      /\ \A j \in DOMAIN v.blocks : j # k => blocks[j] = v.blocks[j]
  <2>1. v.blocks[k] \in Blocks
    BY <1>2, <1>3
  <2>2. [v.blocks[k] EXCEPT !.state = "ended"] \in Blocks
        /\ [v.blocks[k] EXCEPT !.state = "ended"].state = "ended"
    BY <2>1 DEF Blocks
  <2>3. blocks = [v.blocks EXCEPT ![k] = [v.blocks[k] EXCEPT !.state = "ended"]]
    OBVIOUS
  <2>. QED BY <1>2, <1>3, <2>2, <2>3
<1>. HIDE DEF blocks
<1>7. Apply(v, e) = View(blocks, Without(v.tools, c.id), v.thinking, v.header)
  BY <1>2, <1>5, WithBlocksIs
<1>8. IsView(w) /\ w.blocks = blocks /\ w.tools = Without(v.tools, c.id)
  <2>. DEFINE a == Apply(v, e)
  <2>1. /\ a.blocks = blocks /\ a.tools = Without(v.tools, c.id) /\ a.thinking = v.thinking
    BY <1>7 DEF View
  <2>2. a = Apply(v, e)
    OBVIOUS
  <2>3. a = View(a.blocks, a.tools, a.thinking, v.header) /\ a.blocks \in Seq(Blocks)
    BY <1>6, <1>7, <2>1
  <2>. HIDE DEF a
  <2>4. IsView(w) /\ w.blocks = a.blocks /\ w.tools = a.tools
    BY <2>2, <2>3, HandleIs
  <2>. QED BY <2>1, <2>4
<1>. HIDE DEF w
<1>9. DOMAIN w.tools = DOMAIN v.tools \ {c.id}
      /\ \A m \in DOMAIN w.tools : w.tools[m] = v.tools[m]
  BY <1>8 DEF Without
<1>10. DOMAIN w.tools = {d.id : d \in calls \ {c}}
  BY <1>9 DEF Shows
<1>11. ASSUME NEW d \in calls \ {c}
       PROVE  /\ w.tools[d.id] = v.tools[d.id] /\ v.tools[d.id] \in DOMAIN v.blocks
              /\ v.tools[d.id] # k
              /\ w.blocks[w.tools[d.id]] = [run |-> runs', call |-> {d}, state |-> "running"]
  <2>1. w.tools[d.id] = v.tools[d.id]
    BY <1>9, <1>10
  <2>2. /\ v.tools[d.id] \in DOMAIN v.blocks
        /\ v.blocks[v.tools[d.id]] = [run |-> runs', call |-> {d}, state |-> "running"]
    BY DEF Shows
  <2>3. v.tools[d.id] # k
    <3>1. v.blocks[v.tools[d.id]].call = {d} /\ v.blocks[k].call = {c} /\ d # c
      BY <1>3, <2>2
    <3>. QED BY <3>1
  <2>. QED BY <1>6, <1>8, <2>1, <2>2, <2>3
<1>12. ASSUME NEW j \in DOMAIN w.blocks, w.blocks[j].state = "running"
       PROVE  \E d \in calls \ {c} : w.tools[d.id] = j
  <2>1. j \in DOMAIN v.blocks /\ j # k /\ v.blocks[j].state = "running"
    BY <1>6, <1>8, <1>12
  <2>2. PICK d \in calls : v.tools[d.id] = j
    BY <2>1 DEF Shows
  <2>3. d # c
    BY <2>1, <2>2 DEF k
  <2>. QED BY <1>11, <2>2, <2>3
<1>13. Shows(w, calls \ {c}, runs')
  BY <1>6, <1>8, <1>10, <1>11, <1>12 DEF Shows
<1>. QED BY <1>8, <1>13 DEF w, e

\* The end of the run closes every block that still runs.
LEMMA RunEndIsShown ==
    ASSUME NEW v, IsView(v), NEW run
    PROVE  /\ IsView(HandleRunEvent(v, Ev("run-end", 0)))
           /\ Shows(HandleRunEvent(v, Ev("run-end", 0)), {}, run)
           /\ ~HandleRunEvent(v, Ev("run-end", 0)).thinking
           /\ ~HandleRunEvent(v, Ev("run-end", 0)).header.running
<1>. DEFINE e == Ev("run-end", 0)
            Closed(b) == IF b.state = "running" THEN [b EXCEPT !.state = "closed"] ELSE b
            blocks == [i \in DOMAIN v.blocks |-> Closed(v.blocks[i])]
            w == HandleRunEvent(v, e)
<1>1. e.type = "run-end"
  BY DEF Ev
<1>. HIDE DEF e
<1>2. v.blocks \in Seq(Blocks) /\ v = View(v.blocks, v.tools, v.thinking, v.header)
  BY DEF IsView
<1>3. Apply(v, e) = [WithBlocks(v, blocks, <<>>) EXCEPT !.thinking = FALSE]
  BY <1>1, <1>2 DEF Apply, RunEnded, View, WithBlocks
<1>4. \A b \in Blocks : Closed(b) \in Blocks /\ Closed(b).state # "running"
  BY DEF Blocks
<1>. HIDE DEF Closed
<1>5. blocks \in Seq(Blocks) /\ DOMAIN blocks = DOMAIN v.blocks
      /\ \A k \in DOMAIN blocks : blocks[k].state # "running"
  <2>1. \A k \in DOMAIN v.blocks : v.blocks[k] \in Blocks
    BY <1>2
  <2>2. DOMAIN v.blocks = 1..Len(v.blocks) /\ Len(v.blocks) \in Nat
    BY <1>2
  <2>3. blocks \in [1..Len(v.blocks) -> Blocks]
    BY <1>4, <2>1, <2>2
  <2>4. blocks \in Seq(Blocks)
    BY <2>2, <2>3, SeqDef
  <2>. QED BY <1>4, <2>1, <2>4
<1>. HIDE DEF blocks
<1>6. Apply(v, e) = View(blocks, <<>>, FALSE, v.header)
  <2>1. WithBlocks(v, blocks, <<>>) = View(blocks, <<>>, v.thinking, v.header)
    BY <1>2, WithBlocksIs
  <2>. DEFINE u == WithBlocks(v, blocks, <<>>)
  <2>2. u = View(blocks, <<>>, v.thinking, v.header)
    BY <2>1
  <2>. HIDE DEF u
  <2>3. \A x : [u EXCEPT !.thinking = x] = View(blocks, <<>>, x, v.header)
    BY <2>2, ThinkingSet
  <2>. QED BY <1>3, <2>3 DEF u
<1>7. /\ IsView(w) /\ w.blocks = blocks /\ w.tools = <<>> /\ w.thinking = FALSE
      /\ ~w.header.running
  <2>. DEFINE a == Apply(v, e)
  <2>1. a.blocks = blocks /\ a.tools = <<>> /\ a.thinking = FALSE
    BY <1>6 DEF View
  <2>2. a = Apply(v, e)
    OBVIOUS
  <2>3. a = View(a.blocks, a.tools, a.thinking, v.header) /\ a.blocks \in Seq(Blocks)
    BY <1>5, <1>6, <2>1
  <2>. HIDE DEF a
  <2>4. /\ IsView(w) /\ w.blocks = a.blocks /\ w.tools = a.tools /\ w.thinking = a.thinking
        /\ ~w.header.running
    BY <1>1, <2>2, <2>3, HandleIs
  <2>. QED BY <2>1, <2>4
<1>. HIDE DEF w
<1>8. DOMAIN w.tools = {}
  BY <1>7
<1>9. Shows(w, {}, run)
  BY <1>5, <1>7, <1>8 DEF Shows
<1>. QED BY <1>7, <1>9 DEF w, e

-----------------------------------------------------------------------------
(* What a step tells, and what it does to the calls that wait *)

InRun == pc # "idle" /\ pc' # "idle" /\ runs' = runs
TellsBegin == /\ pc = "idle" /\ pc' # "idle" /\ runs' = runs + 1 /\ cur'.pending = {}
              /\ told' = <<Ev("run-start", 0)>>
TellsNothing == InRun /\ cur'.pending = cur.pending /\ told' = <<>>
TellsPlain ==
    /\ InRun /\ cur'.pending = cur.pending
    /\ \E e : told' = <<e>> /\ e.type \in {"text", "reasoning", "model-start", "model-end"}
TellsStart ==
    /\ InRun
    /\ \E c \in CallRec : /\ cur'.pending = cur.pending \cup {c}
                          /\ told' = <<ToolEv("tool-start", c)>>
                          /\ \A d \in cur.pending : d.id # c.id
TellsEnd ==
    /\ InRun
    /\ \E c \in cur.pending, type \in {"tool-end", "tool-error"} :
          /\ cur'.pending = cur.pending \ {c}
          /\ \A d \in cur.pending : d.id = c.id => d = c
          /\ \/ told' = <<ToolEv(type, c)>>
             \/ \E n : told' = <<ToolEv(type, c), Ev("model-start", n)>>
TellsOver == pc # "idle" /\ pc' = "idle" /\ runs' = runs /\ told' = <<Ev("run-end", 0)>>
Tells == TellsBegin \/ TellsNothing \/ TellsPlain \/ TellsStart \/ TellsEnd \/ TellsOver

LEMMA PrepareTells == IResult /\ Prepare => Tells
<1>. SUFFICES ASSUME IResult, Prepare PROVE Tells
  OBVIOUS
<1>1. ASSUME Begin PROVE TellsBegin
  BY <1>1 DEF Begin, TellsBegin, Fresh
<1>2. ASSUME NEW result, NEW turns, NEW memory, Ends(result, turns, memory), pc # "idle"
      PROVE  TellsOver
  BY <1>2 DEF Ends, Tell, TellsOver
<1>3. ASSUME NEW result, Dies(result), pc # "idle" PROVE TellsOver
  BY <1>2, <1>3 DEF Dies
<1>4. ASSUME CheckPasses \/ CallModel PROVE TellsNothing
  BY <1>4 DEF CheckPasses, CallModel, Quiet, TellsNothing, InRun
<1>5. ASSUME Compress PROVE TellsNothing
  BY <1>5 DEF Compress, CompressWith, Quiet, TellsNothing, InRun
<1>6. ASSUME TellFirstStep PROVE TellsPlain
  BY <1>6 DEF TellFirstStep, Tell, TellsPlain, InRun, Ev
<1>7. ASSUME BookCompressor PROVE TellsNothing \/ TellsOver
  BY <1>2, <1>7 DEF BookCompressor, Quiet, TellsNothing, InRun
<1>8. ASSUME CheckFails \/ CompressAborted PROVE TellsOver
  BY <1>3, <1>8 DEF CheckFails, CompressAborted
<1>. QED BY <1>1, <1>4, <1>5, <1>6, <1>7, <1>8 DEF Prepare, Tells

LEMMA HooksTell == IResult /\ IEvents /\ Clean /\ Clean' /\ Hooks => Tells
<1>. SUFFICES ASSUME IResult, IEvents, Clean, Clean', Hooks PROVE Tells
  OBVIOUS
<1>1. late = {} /\ (pc \in InCall => IPending)
  BY DEF IEvents
<1>2. ~UnannouncedEnds /\ ~LateToolEnds
  BY <1>1 DEF UnannouncedEnds, LateToolEnds, Fault, Clean
<1>3. /\ cur \in ClosureRec /\ sdk \in SdkRec /\ cur.seq \in Nat /\ cur.next \in Nat
      /\ cur.pending \subseteq CallRec /\ sdk.running \subseteq CallRec
  BY DEF IResult, IType, IClosures, ClosureRec, ISdk, SdkRec
<1>4. ASSUME OnTurnStart \/ RoundEnds PROVE TellsNothing
  BY <1>3, <1>4 DEF OnTurnStart, RoundEnds, InSdk, Quiet, OnlyHooks, TellsNothing, InRun, ClosureRec
<1>5. ASSUME ModelCallEnds PROVE TellsPlain
  BY <1>3, <1>5 DEF ModelCallEnds, PostModelCall, InSdk, Tell, OnlyHooks, TellsPlain, InRun, Ev, ClosureRec
<1>6. ASSUME PreToolUse PROVE TellsStart
  <2>1. PICK t \in Tools, i \in Inputs :
          /\ cur' = [cur EXCEPT !.seq = @ + 1, !.pending = @ \cup {Call(cur.seq + 1, t, i)}]
          /\ told' = <<ToolEv("tool-start", Call(cur.seq + 1, t, i))>>
    BY <1>6 DEF PreToolUse, Tell
  <2>. DEFINE c == Call(cur.seq + 1, t, i)
  <2>2. c \in CallRec /\ c.id = cur.seq + 1
    <3>1. cur.seq + 1 \in Nat
      BY <1>3
    <3>. QED BY <3>1 DEF Call, CallRec
  <2>3. cur'.pending = cur.pending \cup {c} /\ told' = <<ToolEv("tool-start", c)>>
    BY <1>3, <2>1 DEF ClosureRec
  <2>4. InRun /\ pc \in InCall
    BY <1>6 DEF PreToolUse, InSdk, OnlyHooks, InRun, InCall
  <2>. HIDE DEF c
  <2>5. \A d \in cur.pending : d.id # c.id
    BY <1>1, <1>3, <2>2, <2>4 DEF IPending, CallRec
  <2>. QED BY <2>2, <2>3, <2>4, <2>5 DEF TellsStart
<1>7. ASSUME ToolEnds PROVE TellsEnd
  <2>1. PICK c \in sdk.running, type \in {"tool-end", "tool-error"} :
          cur' = PostTool(cur, c, type).cl /\ told' = PostTool(cur, c, type).events
    BY <1>7 DEF ToolEnds, Tell
  <2>2. IPending /\ InRun
    BY <1>1, <1>7 DEF ToolEnds, OnlyHooks, InRun, InCall
  <2>3. c \in CallRec /\ c.tool \in Tools /\ c.input \in Inputs
    BY <1>3 DEF CallRec
  <2>4. Same(cur.pending, c.tool, c.input) # {}
    BY <2>2, <2>3, SameIsThere DEF IPending
  <2>5. PICK o \in Same(cur.pending, c.tool, c.input) :
          /\ cur'.pending = cur.pending \ {o}
          /\ \/ told' = <<ToolEv(type, o)>>
             \/ told' = <<ToolEv(type, o), Ev("model-start", cur.next)>>
    BY <1>3, <2>1, <2>3, <2>4, PostToolFinds
  <2>6. o \in cur.pending /\ \A d \in cur.pending : d.id = o.id => d = o
    BY <2>2 DEF Same, IPending
  <2>. QED BY <2>2, <2>5, <2>6 DEF TellsEnd
<1>. QED BY <1>2, <1>4, <1>5, <1>6, <1>7 DEF Hooks, Tells

LEMMA StreamsTell == Streams \/ Abort => Tells
<1>1. ASSUME TextEnds \/ TextFails \/ ReasoningEnds \/ Abort PROVE TellsNothing
  BY <1>1 DEF TextEnds, TextFails, ReasoningEnds, Abort, InSdk, OnlyStream, Quiet, TellsNothing, InRun
<1>2. ASSUME TextArrives PROVE TellsPlain
  BY <1>2 DEF TextArrives, InSdk, OnlyStream, Tell, TellsPlain, InRun, Ev
<1>3. ASSUME ReasoningArrives PROVE TellsPlain
  BY <1>3 DEF ReasoningArrives, InSdk, OnlyStream, Tell, TellsPlain, InRun, Ev
<1>. QED BY <1>1, <1>2, <1>3 DEF Streams, Tells

LEMMA EpilogueTells == Epilogue => Tells
<1>1. ASSUME NEW result, NEW turns, NEW memory, Ends(result, turns, memory), pc # "idle"
      PROVE  TellsOver
  BY <1>1 DEF Ends, Tell, TellsOver
<1>2. ASSUME Settle \/ Response PROVE TellsNothing
  BY <1>2 DEF Settle, Response, Conclude, Quiet, TellsNothing, InRun
<1>3. ASSUME Save PROVE TellsNothing \/ TellsOver
  BY <1>1, <1>3 DEF Save, Quiet, TellsNothing, InRun
<1>4. ASSUME Memory PROVE TellsOver
  BY <1>1, <1>4 DEF Memory
<1>. QED BY <1>2, <1>3, <1>4 DEF Epilogue, Tells

LEMMA StepTells == IResult /\ IEvents /\ Clean' /\ Next => Clean /\ Tells
<1>. SUFFICES ASSUME IResult, IEvents, Clean', Next PROVE Clean /\ Tells
  OBVIOUS
<1>1. kinds \subseteq kinds'
  BY DEF Next, Prepare, Begin, CheckFails, CheckPasses, Compress, CompressAborted, BookCompressor,
         TellFirstStep, CallModel, CompressWith, Dies, Hooks, ModelCallEnds, OnTurnStart,
         PreToolUse, ToolEnds, UnannouncedEnds, RoundEnds, LateToolEnds, Streams, TextArrives,
         ReasoningArrives, TextEnds, TextFails, ReasoningEnds, Abort, Epilogue, Settle, Response,
         Save, Memory, Conclude, LeaveTools, NoFault, Fault
<1>2. Clean
  BY <1>1, CleanBefore
<1>. QED BY <1>2, PrepareTells, HooksTell, StreamsTell, EpilogueTells DEF Next

-----------------------------------------------------------------------------
(* The view follows the run *)

LEMMA AfterOne == \A v, e : AfterEvents(v, <<e>>) = HandleRunEvent(v, e)
BY DEF AfterEvents
LEMMA AfterTwo ==
    \A v, e, f : AfterEvents(v, <<e, f>>) = HandleRunEvent(HandleRunEvent(v, e), f)
BY DEF AfterEvents

\* What is shown as running is the same if the blocks and their ids are.
LEMMA StillShows ==
    ASSUME NEW v, NEW w, w.blocks = v.blocks, w.tools = v.tools, NEW calls, NEW run, Shows(v, calls, run)
    PROVE  Shows(w, calls, run)
BY DEF Shows

LEMMA StepViewed ==
    ASSUME IResult, IEvents, IViewed, Next, view' = AfterEvents(view, told')
    PROVE  IViewed'
<1>1. runs' \in Nat
  <2>1. runs' = runs \/ runs' = runs + 1
    BY DEF Next, Prepare, Begin, CheckFails, CheckPasses, Compress, CompressAborted, BookCompressor,
           TellFirstStep, CallModel, CompressWith, Dies, Ends, Hooks, ModelCallEnds, OnTurnStart,
           PreToolUse, ToolEnds, UnannouncedEnds, RoundEnds, LateToolEnds, OnlyHooks, Streams,
           TextArrives, ReasoningArrives, TextEnds, TextFails, ReasoningEnds, OnlyStream, Abort,
           Epilogue, Settle, Response, Save, Memory, Conclude
  <2>. QED BY <2>1 DEF IViewed
<1>. SUFFICES ASSUME Clean' PROVE IView'
  BY <1>1 DEF IViewed, IView
<1>2. Clean /\ Tells
  BY StepTells
<1>3. IsView(view) /\ (pc # "idle" => Shows(view, cur.pending, runs))
      /\ (pc = "idle" => Shows(view, {}, runs))
  BY <1>2 DEF IViewed, IView
<1>4. ASSUME pc' # "idle", IsView(view'), Shows(view', cur'.pending, runs') PROVE IView'
  BY <1>4 DEF IView
<1>5. CASE TellsBegin
  <2>. DEFINE e == Ev("run-start", 0)
  <2>1. e.type = "run-start" /\ view' = HandleRunEvent(view, e)
    BY <1>5, AfterOne DEF TellsBegin, Ev
  <2>. HIDE DEF e
  <2>2. IsView(view') /\ view'.blocks = view.blocks /\ view'.tools = view.tools
    BY <1>3, <2>1, PlainEvent
  <2>3. Shows(view', {}, runs')
    BY <1>3, <1>5, <2>2 DEF Shows, TellsBegin
  <2>. QED BY <1>4, <1>5, <2>2, <2>3 DEF TellsBegin
<1>6. CASE TellsNothing
  <2>1. view' = view
    BY <1>6 DEF TellsNothing, AfterEvents
  <2>. QED BY <1>3, <1>4, <1>6, <2>1 DEF TellsNothing, InRun
<1>7. CASE TellsPlain
  <2>1. PICK e : told' = <<e>> /\ e.type \in {"text", "reasoning", "model-start", "model-end"}
    BY <1>7 DEF TellsPlain
  <2>2. view' = HandleRunEvent(view, e)
    BY <2>1, AfterOne
  <2>3. IsView(view') /\ view'.blocks = view.blocks /\ view'.tools = view.tools
    BY <1>3, <2>1, <2>2, PlainEvent
  <2>4. Shows(view', cur.pending, runs)
    BY <1>3, <1>7, <2>3, StillShows DEF TellsPlain, InRun
  <2>. QED BY <1>4, <1>7, <2>3, <2>4 DEF TellsPlain, InRun
<1>8. CASE TellsStart
  <2>1. PICK c \in CallRec : /\ cur'.pending = cur.pending \cup {c}
                             /\ told' = <<ToolEv("tool-start", c)>>
                             /\ \A d \in cur.pending : d.id # c.id
    BY <1>8 DEF TellsStart
  <2>2. view' = HandleRunEvent(view, ToolEv("tool-start", c))
    BY <2>1, AfterOne
  <2>3. Shows(view, cur.pending, runs')
    BY <1>3, <1>8 DEF TellsStart, InRun
  <2>4. IsView(view') /\ Shows(view', cur.pending \cup {c}, runs')
    BY <1>1, <1>3, <2>1, <2>2, <2>3, StartIsShown
  <2>. QED BY <1>4, <1>8, <2>1, <2>4 DEF TellsStart, InRun
<1>9. CASE TellsEnd
  <2>1. PICK c \in cur.pending, type \in {"tool-end", "tool-error"} :
          /\ cur'.pending = cur.pending \ {c}
          /\ \A d \in cur.pending : d.id = c.id => d = c
          /\ \/ told' = <<ToolEv(type, c)>>
             \/ \E n : told' = <<ToolEv(type, c), Ev("model-start", n)>>
    BY <1>9 DEF TellsEnd
  <2>. DEFINE w == HandleRunEvent(view, ToolEv(type, c))
  <2>2. Shows(view, cur.pending, runs')
    BY <1>3, <1>9 DEF TellsEnd, InRun
  <2>3. IsView(w) /\ Shows(w, cur.pending \ {c}, runs')
    BY <1>3, <2>1, <2>2, EndIsShown
  <2>4. CASE told' = <<ToolEv(type, c)>>
    <3>1. view' = w
      BY <2>4, AfterOne
    <3>. QED BY <1>4, <1>9, <2>1, <2>3, <3>1 DEF TellsEnd, InRun
  <2>5. CASE \E n : told' = <<ToolEv(type, c), Ev("model-start", n)>>
    <3>1. PICK n : told' = <<ToolEv(type, c), Ev("model-start", n)>>
      BY <2>5
    <3>. DEFINE f == Ev("model-start", n)
    <3>2. view' = HandleRunEvent(w, f) /\ f.type = "model-start"
      BY <3>1, AfterTwo DEF Ev
    <3>. HIDE DEF f, w
    <3>3. IsView(view') /\ view'.blocks = w.blocks /\ view'.tools = w.tools
      BY <2>3, <3>2, PlainEvent
    <3>4. Shows(view', cur.pending \ {c}, runs')
      BY <2>3, <3>3, StillShows
    <3>. QED BY <1>4, <1>9, <2>1, <3>3, <3>4 DEF TellsEnd, InRun
  <2>. QED BY <2>1, <2>4, <2>5
<1>10. CASE TellsOver
  <2>1. view' = HandleRunEvent(view, Ev("run-end", 0)) /\ pc' = "idle"
    BY <1>10, AfterOne DEF TellsOver
  <2>2. IsView(view') /\ Shows(view', {}, runs') /\ ~view'.thinking /\ ~view'.header.running
    BY <1>3, <2>1, RunEndIsShown
  <2>. QED BY <2>1, <2>2 DEF IView
<1>. QED BY <1>2, <1>5, <1>6, <1>7, <1>8, <1>9, <1>10 DEF Tells

\* As many blocks are shown as running as calls of this tool and input wait.
LEMMA AsManyAreShown ==
    ASSUME NEW calls, calls \subseteq CallRec, IsFiniteSet(calls), NEW t, NEW i,
           Shows(view, calls, runs), IsView(view)
    PROVE  Cardinality(ShownRunning(t, i)) = Cardinality(Same(calls, t, i))
<1>. DEFINE S == Same(calls, t, i)
            T == ShownRunning(t, i)
            f == [c \in S |-> view.tools[c.id]]
<1>1. \A c \in calls :
         /\ view.tools[c.id] \in DOMAIN view.blocks
         /\ view.blocks[view.tools[c.id]].run = runs
         /\ view.blocks[view.tools[c.id]].call = {c}
         /\ view.blocks[view.tools[c.id]].state = "running"
  <2>. TAKE c \in calls
  <2>. DEFINE b == view.blocks[view.tools[c.id]]
  <2>1. b = [run |-> runs, call |-> {c}, state |-> "running"] /\ view.tools[c.id] \in DOMAIN view.blocks
    BY DEF Shows
  <2>. HIDE DEF b
  <2>2. b.run = runs /\ b.call = {c} /\ b.state = "running"
    BY <2>1
  <2>. QED BY <2>1, <2>2 DEF b
<1>2. f \in [S -> T]
  <2>1. \A c \in S : view.tools[c.id] \in T
    BY <1>1 DEF Same, ShownRunning
  <2>. QED BY <2>1
<1>3. \A c, d \in S : f[c] = f[d] => c = d
  <2>1. \A c, d \in S : view.tools[c.id] = view.tools[d.id] => {c} = {d}
    BY <1>1 DEF Same
  <2>. QED BY <2>1
<1>4. \A k \in T : \E c \in S : f[c] = k
  <2>. TAKE k \in T
  <2>1. /\ k \in DOMAIN view.blocks /\ view.blocks[k].state = "running"
        /\ \E c \in view.blocks[k].call : c.tool = t /\ c.input = i
    BY DEF ShownRunning
  <2>2. PICK c \in calls : view.tools[c.id] = k
    BY <2>1 DEF Shows
  <2>3. c.tool = t /\ c.input = i
    BY <1>1, <2>1, <2>2
  <2>4. c \in S
    BY <2>3 DEF Same
  <2>. QED BY <2>2, <2>4
<1>5. f \in Bijection(S, T)
  <2>. HIDE DEF f, S, T
  <2>. QED BY <1>2, <1>3, <1>4 DEF Bijection, Injection, Surjection, IsInjective
<1>6. IsFiniteSet(S)
  BY FS_Subset DEF Same
<1>. HIDE DEF S, T
<1>7. ExistsBijection(S, T)
  BY <1>5 DEF ExistsBijection
<1>8. Cardinality(T) = Cardinality(S)
  BY <1>6, <1>7, FS_Bijection
<1>. QED BY <1>8 DEF S, T

\* While the model streams, the view shows as running exactly the calls that the SDK runs, by tool
\* and input, whichever end it was told first; between runs nothing runs or thinks.  With the
\* exceptions the property names.  (RunViewModel.apply, handleRunEvent)
THEOREM ViewIsTheRun == ViewSpec => []ViewFollowsRun
<1>. DEFINE I == IResult /\ IEvents /\ IViewed
<1>1. ViewInit => I
  <2>1. Init => IResult /\ IEvents
    BY InitResult DEF Init, IEvents, InCall, Early
  <2>2. ViewInit => IViewed
    <3>. SUFFICES ASSUME ViewInit PROVE IViewed
      OBVIOUS
    <3>1. view = View(<<>>, <<>>, FALSE, HeaderOf(FALSE, 0)) /\ pc = "idle" /\ runs = 0
      BY DEF ViewInit, Init, NoView, View, HeaderOf
    <3>2. IsView(view)
      BY <3>1 DEF IsView, View, HeaderOf
    <3>3. Shows(view, {}, runs)
      BY <3>1 DEF Shows, View
    <3>4. ~view.thinking /\ ~view.header.running
      BY <3>1 DEF View, HeaderOf
    <3>. QED BY <3>1, <3>2, <3>3, <3>4 DEF IViewed, IView
  <2>. QED BY <2>1, <2>2 DEF ViewInit
<1>2. I /\ [ViewNext]_<<vars, view>> => I'
  <2>. SUFFICES ASSUME I, [ViewNext]_<<vars, view>> PROVE I'
    OBVIOUS
  <2>1. [Next]_vars
    BY DEF ViewNext, Showing
  <2>2. IResult'
    BY <2>1, StepResult
  <2>3. IEvents'
    BY <2>1, StepEvents
  <2>4. IViewed'
    <3>1. CASE ViewNext
      BY <3>1, StepViewed DEF ViewNext, Showing
    <3>2. CASE UNCHANGED <<vars, view>>
      BY <3>2 DEF vars, IViewed, IView, Clean, Shows, IsView
    <3>. QED BY <3>1, <3>2
  <2>. QED BY <2>2, <2>3, <2>4
<1>3. I => ViewFollowsRun
  <2>. SUFFICES ASSUME I, Clean PROVE ViewFollowsRun
    BY DEF ViewFollowsRun, Clean
  <2>1. CASE pc = "idle"
    BY <2>1 DEF IViewed, IView, Shows, ViewFollowsRun
  <2>2. CASE pc = "stream"
    <3>1. IPending /\ IsView(view) /\ Shows(view, cur.pending, runs)
      BY <2>2 DEF IEvents, InCall, IViewed, IView
    <3>2. cur.pending \subseteq CallRec
      BY DEF IResult, IType, IClosures, ClosureRec
    <3>3. ASSUME NEW t \in Tools, NEW i \in Inputs
          PROVE  Cardinality(Running(t, i)) = Cardinality(ShownRunning(t, i))
      <4>1. Cardinality(ShownRunning(t, i)) = Cardinality(Same(cur.pending, t, i))
        BY <3>1, <3>2, AsManyAreShown DEF IPending
      <4>2. Running(t, i) = Same(sdk.running, t, i)
        BY DEF Running, Same
      <4>. QED BY <3>1, <4>1, <4>2 DEF IPending
    <3>. QED BY <2>2, <3>3 DEF ViewFollowsRun
  <2>. QED BY <2>1, <2>2 DEF ViewFollowsRun
<1>. QED BY <1>1, <1>2, <1>3, PTL DEF ViewSpec
=============================================================================
