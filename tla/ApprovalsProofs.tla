--------------------------- MODULE ApprovalsProofs ---------------------------
(* Proofs about Approvals, for every number of instances, calls, modes and rules: a     *)
(* protected path takes a yes to the very call, and what the user decided for good      *)
(* holds as long as one instance at a time changes the rules.                           *)
EXTENDS Approvals, FiniteSetTheorems, TLAPS

Rec == [proc: Procs, run: Nat, req: Requests, state: States,
        answer: Answers \cup {"none"}, list: SUBSET Nat]

Guarded(r) == r.protected

\* The calls whose question, if they had one, has been answered.
Answered == {i \in Ids : calls[i].state # "asking"}

Clean == kinds \cap {"shared", "overlap"} = {}

IType ==
    /\ calls \in Seq(Rec)
    /\ phase \in [Procs -> {"down", "idle", "run", "cancelled"}]
    /\ dialog \in [Procs -> Nat \cup {NoCall}]
    /\ rules \in [Procs -> SUBSET Nat]
    /\ known \in [Procs -> SUBSET Nat] /\ gone \in [Procs -> SUBSET Nat]
    /\ kept \subseteq Nat
    /\ run \in [Procs -> Nat] /\ runs \in Nat

\* The dialog belongs to a call of its own instance that waits for the answer.
IDialog == \A p \in Procs : dialog[p] # NoCall => dialog[p] \in Of(p, "asking")

\* An instance that is down left no call unsettled.
IDown == \A c \in Ids : calls[c].state \notin Settled => phase[calls[c].proc] # "down"

IGuarded ==
    \A c \in Ids : calls[c].state = "allowed" /\ Guarded(calls[c].req) => Accepted(calls[c].answer)

\* Only answered questions become rules.
IAnswered ==
    /\ file \subseteq Answered /\ dropped \subseteq Answered
    /\ \A p \in Procs : rules[p] \subseteq Answered
    /\ \A c \in Ids : calls[c].state = "write" => calls[c].list \subseteq Answered

\* While one instance at a time changes the rules, the file and the memory of each
\* instance hold what was kept and nothing that was dropped, and a list on its way to the
\* file is the instance's own.
Kept ==
    /\ kept \subseteq file /\ file \cap dropped = {}
    /\ \A p \in Procs :
          phase[p] # "down" => /\ known[p] \subseteq kept /\ kept \subseteq rules[p]
                               /\ gone[p] \subseteq dropped /\ rules[p] \cap dropped = {}
    /\ \A c \in Ids : calls[c].state = "write" => calls[c].list = rules[calls[c].proc]

IKept == Clean => Kept

IInv == IType /\ IDialog /\ IDown /\ IGuarded /\ IAnswered /\ IKept

-----------------------------------------------------------------------------
(* How a step changes the calls *)

\* One call changes in its state, its answer and its list.
Changed(c, s, a, l) ==
    /\ calls' \in Seq(Rec) /\ DOMAIN calls' = Ids
    /\ \A i \in Ids : i # c => calls'[i] = calls[i]
    /\ calls'[c].proc = calls[c].proc /\ calls'[c].req = calls[c].req
    /\ calls'[c].run = calls[c].run
    /\ calls'[c].state = s /\ calls'[c].answer = a /\ calls'[c].list = l

Added(p, r) ==
    /\ calls' \in Seq(Rec) /\ DOMAIN calls' = Ids \cup {Len(calls) + 1}
    /\ Len(calls) + 1 \notin Ids
    /\ \A i \in Ids : calls'[i] = calls[i]
    /\ calls'[Len(calls) + 1].proc = p /\ calls'[Len(calls) + 1].req = r
    /\ calls'[Len(calls) + 1].run = run[p] /\ calls'[Len(calls) + 1].answer = "none"
    /\ calls'[Len(calls) + 1].state = Verdict(p, r)

LEMMA UpdateOne ==
    ASSUME NEW c \in Ids, calls \in Seq(Rec), NEW new \in Rec,
           new.proc = calls[c].proc, new.req = calls[c].req, new.run = calls[c].run,
           calls' = [calls EXCEPT ![c] = new]
    PROVE  Changed(c, new.state, new.answer, new.list)
BY DEF Changed, Ids

LEMMA Fields ==
    ASSUME NEW c \in Ids, calls \in Seq(Rec)
    PROVE  /\ calls[c].proc \in Procs /\ calls[c].req \in Requests
           /\ calls[c].answer \in Answers \cup {"none"} /\ calls[c].list \in SUBSET Nat
<1>1. calls[c] \in Rec
  BY DEF Ids
<1>. QED BY <1>1 DEF Rec

LEMMA SettleChanges ==
    ASSUME NEW c \in Ids, calls \in Seq(Rec), NEW answer \in Answers \cup {"none"},
           Settle(c, answer)
    PROVE  Changed(c, IF Accepted(answer) THEN "allowed" ELSE "denied", answer, {})
<1>. DEFINE s == IF Accepted(answer) THEN "allowed" ELSE "denied"
<1>. DEFINE new == [calls[c] EXCEPT !.answer = answer, !.list = {}, !.state = s]
<1>1. calls' = [calls EXCEPT ![c].answer = answer, ![c].list = {}, ![c].state = s]
  BY DEF Settle
<1>2. s \in States
  BY DEF States
<1>. HIDE DEF s
<1>3. calls[c] \in Rec
  BY DEF Ids
<1>4. calls' = [calls EXCEPT ![c] = new]
  BY <1>1 DEF Ids
<1>5. /\ new \in Rec /\ new.proc = calls[c].proc /\ new.req = calls[c].req /\ new.run = calls[c].run
      /\ new.state = s /\ new.answer = answer /\ new.list = {}
  BY <1>2, <1>3 DEF Rec
<1>. HIDE DEF new
<1>6. Changed(c, s, answer, {})
  BY <1>4, <1>5, UpdateOne
<1>. QED BY <1>6 DEF s

LEMMA AnswerChanges ==
    ASSUME NEW c \in Ids, calls \in Seq(Rec), NEW answer \in Answers,
           calls' = [calls EXCEPT ![c].answer = answer, ![c].state = "remember"]
    PROVE  Changed(c, "remember", answer, calls[c].list)
<1>. DEFINE new == [calls[c] EXCEPT !.answer = answer, !.state = "remember"]
<1>1. calls[c] \in Rec
  BY DEF Ids
<1>2. calls' = [calls EXCEPT ![c] = new]
  BY DEF Ids
<1>3. /\ new \in Rec /\ new.proc = calls[c].proc /\ new.req = calls[c].req /\ new.run = calls[c].run
      /\ new.state = "remember" /\ new.answer = answer /\ new.list = calls[c].list
  BY <1>1 DEF Rec, States
<1>. HIDE DEF new
<1>. QED BY <1>2, <1>3, UpdateOne

LEMMA ListChanges ==
    ASSUME NEW c \in Ids, calls \in Seq(Rec), NEW s \in {"write", "failed"},
           NEW l \in SUBSET Nat,
           calls' = [calls EXCEPT ![c].state = s, ![c].list = l]
    PROVE  Changed(c, s, calls[c].answer, l)
<1>. DEFINE new == [calls[c] EXCEPT !.state = s, !.list = l]
<1>1. calls[c] \in Rec
  BY DEF Ids
<1>2. calls' = [calls EXCEPT ![c] = new]
  BY DEF Ids
<1>3. /\ new \in Rec /\ new.proc = calls[c].proc /\ new.req = calls[c].req /\ new.run = calls[c].run
      /\ new.state = s /\ new.answer = calls[c].answer /\ new.list = l
  BY <1>1 DEF Rec, States
<1>. HIDE DEF new
<1>. QED BY <1>2, <1>3, UpdateOne

\* An instance that ends takes its unsettled calls with it.
Ended(p) ==
    /\ calls' \in Seq(Rec) /\ DOMAIN calls' = Ids
    /\ \A i \in Ids : IF i \in Unsettled(p)
                      THEN calls'[i].proc = calls[i].proc /\ calls'[i].req = calls[i].req
                           /\ calls'[i].run = calls[i].run /\ calls'[i].answer = calls[i].answer
                           /\ calls'[i].state = "dead"
                      ELSE calls'[i] = calls[i]

LEMMA ExitEnds ==
    ASSUME calls \in Seq(Rec), NEW p \in Procs, Exit(p)
    PROVE  Ended(p)
<1>. DEFINE new(i) == [calls[i] EXCEPT !.state = "dead", !.list = {}]
<1>1. calls' = [i \in Ids |-> IF i \in Unsettled(p) THEN new(i) ELSE calls[i]]
  BY DEF Exit
<1>2. ASSUME NEW i \in Ids PROVE calls[i] \in Rec
  BY DEF Ids
<1>3. ASSUME NEW i \in Ids
      PROVE  /\ new(i) \in Rec /\ new(i).proc = calls[i].proc /\ new(i).req = calls[i].req
             /\ new(i).run = calls[i].run /\ new(i).answer = calls[i].answer
             /\ new(i).state = "dead"
  BY <1>2 DEF Rec, States
<1>. HIDE DEF new
<1>4. DOMAIN calls' = Ids
  BY <1>1
<1>5. \A i \in Ids : calls'[i] \in Rec
  BY <1>1, <1>2, <1>3
<1>6. Ids = 1..Len(calls) /\ Len(calls) \in Nat
  BY DEF Ids
<1>7. calls' \in Seq(Rec)
  BY <1>1, <1>5, <1>6
<1>. QED BY <1>1, <1>3, <1>4, <1>7 DEF Ended

LEMMA AppendAdds ==
    ASSUME IType, NEW p \in Procs, NEW r \in Requests,
           calls' = Append(calls, NewCall(p, r))
    PROVE  Added(p, r)
<1>1. Verdict(p, r) \in States
  BY DEF Verdict, States
<1>. DEFINE new == NewCall(p, r)
<1>2. run[p] \in Nat
  BY DEF IType
<1>3. new \in Rec
  BY <1>1, <1>2 DEF NewCall, Rec
<1>4. /\ new.proc = p /\ new.req = r /\ new.state = Verdict(p, r)
      /\ new.run = run[p] /\ new.answer = "none"
  BY DEF NewCall
<1>. HIDE DEF new
<1>5. calls' = Append(calls, new) /\ calls \in Seq(Rec)
  BY DEF new, IType
<1>. QED BY <1>3, <1>4, <1>5 DEF Added, Ids

-----------------------------------------------------------------------------
(* The decision *)

\* Without a question only a request that is not guarded is allowed.
LEMMA AllowedUnasked ==
    ASSUME NEW p \in Procs, NEW r \in Requests, Verdict(p, r) = "allowed"
    PROVE  ~Guarded(r)
<1>1. CASE Remembered(p, r, "never")
  BY <1>1 DEF Verdict
<1>2. CASE ~Remembered(p, r, "never") /\ Remembered(p, r, "always") /\ ~r.protected
  BY <1>2 DEF Guarded
<1>3. CASE ByMode(mode[p], r) = "allow"
  BY <1>3 DEF ByMode, Guarded
<1>4. CASE /\ ~Remembered(p, r, "never") /\ ~(Remembered(p, r, "always") /\ ~r.protected)
           /\ ByMode(mode[p], r) # "allow"
  BY <1>4 DEF Verdict
<1>. QED BY <1>1, <1>2, <1>3, <1>4

-----------------------------------------------------------------------------
(* The invariant *)

LEMMA InitInv == Init => IInv
<1>. SUFFICES ASSUME Init PROVE IInv
  OBVIOUS
<1>1. calls = <<>> /\ Ids = {}
  BY DEF Init, Ids
<1>2. IType
  BY <1>1 DEF Init, IType
<1>3. IDialog /\ IDown /\ IGuarded
  BY <1>1 DEF Init, IDialog, IDown, IGuarded
<1>4. IAnswered /\ IKept
  BY <1>1 DEF Init, IAnswered, IKept, Kept
<1>. QED BY <1>2, <1>3, <1>4 DEF IInv

\* Nothing but a phase moves, and no instance starts or ends.
LEMMA QuietStep ==
    ASSUME IInv, UNCHANGED <<calls, dialog, rules, file, known, gone, kept, dropped>>,
           Clean' => Clean,
           phase' \in [Procs -> {"down", "idle", "run", "cancelled"}],
           \A q \in Procs : phase[q] # "down" <=> phase'[q] # "down",
           run' \in [Procs -> Nat], runs' \in Nat
    PROVE  IInv'
<1>1. IType' /\ IDialog' /\ IGuarded'
  BY DEF IInv, IType, IDialog, IGuarded, Of, Ids
<1>2. IDown'
  BY Fields DEF IInv, IType, IDown, Ids
<1>3. IAnswered' /\ IKept'
  BY DEF IInv, IAnswered, IKept, Kept, Answered, Ids
<1>. QED BY <1>1, <1>2, <1>3 DEF IInv

\* A new call, settled at once or by a question that takes the dialog.
LEMMA NewCallStep ==
    ASSUME IInv, NEW p \in Procs, NEW r \in Requests, CallSettled(p, r) \/ CallAsks(p, r)
    PROVE  IInv'
<1>1. Added(p, r)
  BY AppendAdds DEF IInv, CallSettled, CallAsks
<1>2. phase[p] = "run" /\ phase' = phase /\ rules' = rules /\ file' = file /\ run' = run
      /\ runs' = runs /\ known' = known /\ gone' = gone /\ kept' = kept /\ dropped' = dropped
  BY DEF CallSettled, CallAsks, history
<1>3. Clean' => Clean
  BY DEF CallSettled, CallAsks, history, Clean
<1>4. Len(calls) + 1 \in Nat
  BY DEF IInv, IType
<1>5. \/ dialog' = dialog /\ Verdict(p, r) # "asking"
      \/ dialog' = [dialog EXCEPT ![p] = Len(calls) + 1] /\ Verdict(p, r) = "asking"
  BY DEF CallSettled, CallAsks
<1>6. IType'
  BY <1>1, <1>2, <1>4, <1>5 DEF IInv, IType, Added
<1>7. IDialog'
  <2>. SUFFICES ASSUME NEW q \in Procs, dialog'[q] # NoCall PROVE dialog'[q] \in Of(q, "asking")'
    BY DEF IDialog
  <2>1. CASE dialog'[q] = dialog[q]
    BY <1>1, <2>1 DEF IInv, IDialog, Of, Added, Ids
  <2>2. CASE dialog'[q] # dialog[q]
    <3>1. q = p /\ dialog'[q] = Len(calls) + 1 /\ Verdict(p, r) = "asking"
      BY <1>5, <2>2 DEF IInv, IType
    <3>. QED BY <1>1, <3>1 DEF Of, Added, Ids
  <2>. QED BY <2>1, <2>2
<1>8. IDown'
  BY <1>1, <1>2 DEF IInv, IDown, Added, Ids
<1>9. IGuarded'
  <2>. SUFFICES ASSUME NEW c \in Ids', calls'[c].state = "allowed", Guarded(calls'[c].req)
                PROVE  Accepted(calls'[c].answer)
    BY DEF IGuarded
  <2>1. CASE c \in Ids
    BY <1>1, <2>1 DEF IInv, IGuarded, Added
  <2>2. CASE c \notin Ids
    <3>1. c = Len(calls) + 1
      BY <1>1, <2>2 DEF Added, Ids
    <3>2. calls'[c].req = r /\ Verdict(p, r) = "allowed"
      BY <1>1, <3>1 DEF Added
    <3>3. Guarded(r)
      BY <3>2
    <3>. QED BY <3>2, <3>3, AllowedUnasked
  <2>. QED BY <2>1, <2>2
<1>10. Verdict(p, r) # "write" /\ Answered \subseteq Answered'
  BY <1>1 DEF Verdict, Added, Answered, Ids
<1>11. IAnswered'
  BY <1>1, <1>2, <1>10 DEF IInv, IAnswered, Added, Ids
<1>12. IKept'
  BY <1>1, <1>2, <1>3, <1>10 DEF IInv, IKept, Kept, Added, Ids
<1>. QED BY <1>6, <1>7, <1>8, <1>9, <1>11, <1>12 DEF IInv

\* The dialog's call is settled by an answer to this call alone.
LEMMA SettleDialog ==
    ASSUME IInv, NEW p \in Procs, NEW answer \in Answers, dialog[p] # NoCall, phase[p] # "down",
           Settle(dialog[p], answer), dialog' = [dialog EXCEPT ![p] = NoCall],
           phase' \in [Procs -> {"down", "idle", "run", "cancelled"}],
           \A q \in Procs : phase[q] # "down" <=> phase'[q] # "down",
           UNCHANGED <<rules, file, run, runs, history>>
    PROVE  IInv'
<1>. DEFINE c == dialog[p]
<1>. DEFINE s == IF Accepted(answer) THEN "allowed" ELSE "denied"
<1>1. c \in Ids /\ calls[c].proc = p /\ calls[c].state = "asking"
  BY DEF IInv, IDialog, Of
<1>. HIDE DEF c
<1>2. Changed(c, s, answer, {})
  <2>1. Settle(c, answer) /\ calls \in Seq(Rec)
    BY DEF c, IInv, IType
  <2>. QED BY <1>1, <2>1, SettleChanges
<1>3. s \in Settled /\ s # "write" /\ s # "asking" /\ (s = "allowed" => Accepted(answer))
  BY DEF Settled
<1>. HIDE DEF s
<1>4. IType'
  BY <1>2 DEF IInv, IType, Changed, history
<1>5. IDialog'
  <2>. SUFFICES ASSUME NEW q \in Procs, dialog'[q] # NoCall PROVE dialog'[q] \in Of(q, "asking")'
    BY DEF IDialog
  <2>1. q # p /\ dialog'[q] = dialog[q]
    BY DEF IInv, IType
  <2>2. dialog[q] \in Ids /\ calls[dialog[q]].proc = q /\ calls[dialog[q]].state = "asking"
    BY <2>1 DEF IInv, IDialog, Of
  <2>3. dialog[q] # c
    BY <1>1, <2>1, <2>2
  <2>. QED BY <1>2, <2>1, <2>2, <2>3 DEF Of, Changed, Ids
<1>6. IDown'
  <2>. SUFFICES ASSUME NEW d \in Ids', calls'[d].state \notin Settled
                PROVE  phase'[calls'[d].proc] # "down"
    BY DEF IDown
  <2>1. d \in Ids /\ d # c /\ calls'[d] = calls[d]
    BY <1>2, <1>3 DEF Changed, Ids
  <2>2. calls[d].proc \in Procs
    BY <2>1, Fields DEF IInv, IType
  <2>. QED BY <2>1, <2>2 DEF IInv, IDown
<1>7. IGuarded'
  BY <1>2, <1>3 DEF IInv, IGuarded, Changed, Ids
<1>8. Answered \subseteq Answered'
  BY <1>2, <1>3 DEF Changed, Answered, Ids
<1>9. IAnswered'
  BY <1>2, <1>3, <1>8 DEF IInv, IAnswered, Changed, Ids, history
<1>10. IKept'
  BY <1>2, <1>3 DEF IInv, IKept, Kept, Changed, Ids, history, Clean
<1>. QED BY <1>4, <1>5, <1>6, <1>7, <1>9, <1>10 DEF IInv

LEMMA AnswerOnceStep ==
    ASSUME IInv, NEW p \in Procs, NEW answer \in Answers, AnswerOnce(p, answer)
    PROVE  IInv'
<1>2. /\ phase[p] # "down" /\ dialog[p] # NoCall /\ Settle(dialog[p], answer)
      /\ dialog' = [dialog EXCEPT ![p] = NoCall] /\ phase' = phase
      /\ UNCHANGED <<rules, file, run, runs, history>>
  BY DEF AnswerOnce
<1>3. phase' \in [Procs -> {"down", "idle", "run", "cancelled"}]
  BY <1>2 DEF IInv, IType
<1>4. \A q \in Procs : phase[q] # "down" <=> phase'[q] # "down"
  BY <1>2
<1>. QED BY <1>2, <1>3, <1>4, SettleDialog

\* A rule: it counts at once, for a call that no longer waits for its answer.
LEMMA AnswerForGoodStep ==
    ASSUME IInv, NEW p \in Procs, NEW answer \in {"always", "never"}, AnswerForGood(p, answer)
    PROVE  IInv'
<1>. DEFINE c == dialog[p]
<1>1. c \in Ids /\ calls[c].proc = p /\ calls[c].state = "asking" /\ c \in Nat
  <2>1. c \in Ids /\ calls[c].proc = p /\ calls[c].state = "asking"
    BY DEF IInv, IDialog, Of, AnswerForGood
  <2>. HIDE DEF c
  <2>2. c \in Nat
    BY <2>1 DEF IInv, IType, Ids
  <2>. QED BY <2>1, <2>2
<1>2. /\ calls' = [calls EXCEPT ![c].answer = answer, ![c].state = "remember"]
      /\ rules' = [rules EXCEPT ![p] = @ \cup {c}] /\ dialog' = [dialog EXCEPT ![p] = NoCall]
      /\ phase[p] # "down" /\ phase' = phase /\ file' = file /\ run' = run /\ runs' = runs
      /\ known' = known /\ gone' = gone /\ kept' = kept /\ dropped' = dropped
  BY DEF AnswerForGood
<1>3. Clean' => Clean /\ Writing(p) = {}
  BY DEF AnswerForGood, Happened, Clean
<1>. HIDE DEF c
<1>4. Changed(c, "remember", answer, calls[c].list)
  BY <1>1, <1>2, AnswerChanges DEF IInv, IType, Answers
<1>5. IType'
  BY <1>1, <1>2, <1>4 DEF IInv, IType, Changed
<1>6. IDialog'
  <2>. SUFFICES ASSUME NEW q \in Procs, dialog'[q] # NoCall PROVE dialog'[q] \in Of(q, "asking")'
    BY DEF IDialog
  <2>1. q # p /\ dialog'[q] = dialog[q]
    BY <1>2 DEF IInv, IType
  <2>2. dialog[q] \in Ids /\ calls[dialog[q]].proc = q /\ calls[dialog[q]].state = "asking"
    BY <2>1 DEF IInv, IDialog, Of
  <2>3. dialog[q] # c
    BY <1>1, <2>1, <2>2
  <2>. QED BY <1>4, <2>1, <2>2, <2>3 DEF Of, Changed, Ids
<1>7. IDown'
  BY <1>1, <1>2, <1>4 DEF IInv, IDown, Changed, Ids
<1>8. IGuarded'
  BY <1>4 DEF IInv, IGuarded, Changed, Ids
<1>9. Answered \cup {c} \subseteq Answered'
  BY <1>1, <1>4 DEF Changed, Answered, Ids
<1>10. IAnswered'
  <2>1. \A q \in Procs : rules'[q] \subseteq Answered'
    BY <1>2, <1>9 DEF IInv, IType, IAnswered
  <2>. QED BY <1>2, <1>4, <1>9, <2>1 DEF IInv, IAnswered, Changed, Ids
<1>11. IKept'
  <2>. SUFFICES ASSUME Clean' PROVE Kept'
    BY DEF IKept
  <2>1. c \notin dropped
    BY <1>1 DEF IInv, IAnswered, Answered
  <2>2. ASSUME NEW q \in Procs, phase'[q] # "down"
        PROVE  /\ known'[q] \subseteq kept' /\ kept' \subseteq rules'[q]
               /\ gone'[q] \subseteq dropped' /\ rules'[q] \cap dropped' = {}
    BY <1>2, <1>3, <2>1, <2>2 DEF IInv, IType, IKept, Kept
  <2>3. ASSUME NEW d \in Ids', calls'[d].state = "write"
        PROVE  calls'[d].list = rules'[calls'[d].proc]
    <3>1. d \in Ids /\ d # c /\ calls'[d] = calls[d]
      BY <1>4, <2>3 DEF Changed, Ids
    <3>2. calls[d].proc \in Procs /\ calls[d].proc # p
      BY <1>3, <2>3, <3>1, Fields DEF Writing, Of, IInv, IType
    <3>. QED BY <1>2, <1>3, <2>3, <3>1, <3>2 DEF IInv, IType, IKept, Kept
  <2>. QED BY <1>2, <1>3, <2>2, <2>3 DEF IInv, IKept, Kept
<1>. QED BY <1>5, <1>6, <1>7, <1>8, <1>10, <1>11 DEF IInv

\* A call on its way to the file, and what a step with it leaves alone.
LEMMA PersistKeeps ==
    ASSUME IInv, NEW c \in Ids, calls[c].state \in {"remember", "write"}, NEW s \in States,
           NEW a, NEW l, Changed(c, s, a, l),
           s # "asking", s = "allowed" => Accepted(a),
           UNCHANGED <<phase, rules, dialog>>
    PROVE  IDialog' /\ IDown' /\ IGuarded' /\ Answered \subseteq Answered'
<1>1. phase[calls[c].proc] # "down"
  BY DEF IInv, IDown, Settled
<1>2. IDialog'
  BY DEF IInv, IDialog, Of, Changed, Ids
<1>3. IDown'
  BY <1>1 DEF IInv, IDown, Changed, Ids
<1>4. IGuarded'
  BY DEF IInv, IGuarded, Changed, Ids
<1>5. Answered \subseteq Answered'
  BY DEF Answered, Changed, Ids
<1>. QED BY <1>2, <1>3, <1>4, <1>5

LEMMA ListRulesStep ==
    ASSUME IInv, NEW c \in Ids, ListRules(c)
    PROVE  IInv'
<1>. DEFINE p == calls[c].proc
<1>1. p \in Procs /\ calls \in Seq(Rec) /\ rules[p] \in SUBSET Nat
  BY Fields DEF IInv, IType
<1>2. Changed(c, "write", calls[c].answer, rules[p])
  BY <1>1, ListChanges DEF ListRules
<1>3. /\ calls[c].state = "remember"
      /\ UNCHANGED <<phase, rules, file, dialog, run, runs, history>>
  BY DEF ListRules
<1>4. IDialog' /\ IDown' /\ IGuarded' /\ Answered \subseteq Answered'
  BY <1>2, <1>3, PersistKeeps DEF States
<1>5. IType'
  BY <1>2, <1>3 DEF IInv, IType, Changed, history
<1>6. IAnswered'
  BY <1>1, <1>2, <1>3, <1>4 DEF IInv, IAnswered, Changed, Ids, history
<1>7. IKept'
  BY <1>1, <1>2, <1>3 DEF IInv, IKept, Kept, Changed, Ids, history, Clean
<1>. QED BY <1>4, <1>5, <1>6, <1>7 DEF IInv

LEMMA WriteFailsStep ==
    ASSUME IInv, NEW c \in Ids, WriteFails(c)
    PROVE  IInv'
<1>1. calls \in Seq(Rec) /\ {} \in SUBSET Nat
  BY DEF IInv, IType
<1>2. Changed(c, "failed", calls[c].answer, {})
  BY <1>1, ListChanges DEF WriteFails
<1>3. /\ calls[c].state = "write"
      /\ UNCHANGED <<phase, rules, file, dialog, run, runs, history>>
  BY DEF WriteFails
<1>4. IDialog' /\ IDown' /\ IGuarded' /\ Answered \subseteq Answered'
  BY <1>2, <1>3, PersistKeeps DEF States
<1>5. IType'
  BY <1>2, <1>3 DEF IInv, IType, Changed, history
<1>6. IAnswered'
  BY <1>2, <1>3, <1>4 DEF IInv, IAnswered, Changed, Ids, history
<1>7. IKept'
  BY <1>2, <1>3 DEF IInv, IKept, Kept, Changed, Ids, history, Clean
<1>. QED BY <1>4, <1>5, <1>6, <1>7 DEF IInv

LEMMA WriteRulesStep ==
    ASSUME IInv, NEW c \in Ids, WriteRules(c)
    PROVE  IInv'
<1>. DEFINE p == calls[c].proc
<1>. DEFINE s == IF Accepted(calls[c].answer) THEN "allowed" ELSE "denied"
<1>1. /\ p \in Procs /\ calls \in Seq(Rec) /\ calls[c].list \in SUBSET Nat
      /\ calls[c].answer \in Answers \cup {"none"}
  BY Fields DEF IInv, IType
<1>2. Settle(c, calls[c].answer)
  BY DEF WriteRules
<1>3. Changed(c, s, calls[c].answer, {})
  BY <1>1, <1>2, SettleChanges
<1>4. s \in States /\ s # "write" /\ s # "asking" /\ (s = "allowed" => Accepted(calls[c].answer))
  BY DEF States
<1>. HIDE DEF s
<1>5. /\ calls[c].state = "write" /\ file' = calls[c].list
      /\ kept' = kept \cup ({c} \cap rules[p])
      /\ known' = [known EXCEPT ![p] = @ \cup ({c} \cap rules[p])]
      /\ UNCHANGED <<phase, rules, dialog, run, runs, gone, dropped>>
  BY DEF WriteRules
<1>6. Clean' => Clean /\ Others(p) = {}
  BY DEF WriteRules, Happened, Clean
<1>. HIDE DEF p
<1>7. IDialog' /\ IDown' /\ IGuarded' /\ Answered \subseteq Answered'
  BY <1>3, <1>4, <1>5, PersistKeeps
<1>8. c \in Nat
  BY <1>1 DEF Ids
<1>9. IType'
  BY <1>1, <1>3, <1>5, <1>8 DEF IInv, IType, Changed
<1>10. IAnswered'
  <2>1. file' \subseteq Answered'
    BY <1>5, <1>7 DEF IInv, IAnswered
  <2>. QED BY <1>3, <1>4, <1>5, <1>7, <2>1 DEF IInv, IAnswered, Changed, Ids
<1>11. IKept'
  <2>. SUFFICES ASSUME Clean' PROVE Kept'
    BY DEF IKept
  <2>1. phase[p] # "down" /\ calls[c].list = rules[p]
    BY <1>5, <1>6 DEF p, IInv, IDown, IKept, Kept, Settled
  <2>2. kept \subseteq rules[p] /\ rules[p] \cap dropped = {}
    BY <1>1, <1>6, <2>1 DEF IInv, IKept, Kept
  <2>3. kept' \subseteq file' /\ file' \cap dropped' = {}
    BY <1>5, <2>1, <2>2
  <2>4. ASSUME NEW q \in Procs, phase'[q] # "down"
        PROVE  /\ known'[q] \subseteq kept' /\ kept' \subseteq rules'[q]
               /\ gone'[q] \subseteq dropped' /\ rules'[q] \cap dropped' = {}
    <3>1. q = p
      BY <1>5, <1>6, <2>4 DEF Others
    <3>2. known[p] \subseteq kept /\ gone[p] \subseteq dropped
      BY <1>1, <1>6, <2>1 DEF IInv, IKept, Kept
    <3>3. known'[p] = known[p] \cup ({c} \cap rules[p])
      BY <1>1, <1>5 DEF IInv, IType
    <3>. QED BY <1>5, <2>2, <3>1, <3>2, <3>3
  <2>5. ASSUME NEW d \in Ids', calls'[d].state = "write"
        PROVE  calls'[d].list = rules'[calls'[d].proc]
    BY <1>3, <1>4, <1>5, <1>6, <2>5 DEF IInv, IKept, Kept, Changed, Ids
  <2>. QED BY <2>3, <2>4, <2>5 DEF Kept
<1>. QED BY <1>7, <1>9, <1>10, <1>11 DEF IInv

LEMMA InterruptStep ==
    ASSUME IInv, NEW p \in Procs, Interrupt(p)
    PROVE  IInv'
<1>1. /\ phase[p] = "run" /\ phase' = [phase EXCEPT ![p] = "cancelled"]
      /\ dialog' = [dialog EXCEPT ![p] = NoCall]
      /\ UNCHANGED <<rules, file, run, runs, history>>
  BY DEF Interrupt
<1>2. /\ phase' \in [Procs -> {"down", "idle", "run", "cancelled"}]
      /\ \A q \in Procs : phase[q] # "down" <=> phase'[q] # "down"
  BY <1>1 DEF IInv, IType
<1>3. CASE dialog[p] # NoCall
  <2>1. Settle(dialog[p], "no") /\ "no" \in Answers
    BY <1>3 DEF Interrupt, Answers
  <2>. QED BY <1>1, <1>2, <1>3, <2>1, SettleDialog
<1>4. CASE dialog[p] = NoCall
  <2>1. calls' = calls /\ dialog' = dialog
    BY <1>1, <1>4 DEF Interrupt, IInv, IType
  <2>2. run' \in [Procs -> Nat] /\ runs' \in Nat /\ Clean' = Clean
    BY <1>1 DEF IInv, IType, Clean, history
  <2>. QED BY <1>1, <1>2, <2>1, <2>2, QuietStep DEF history
<1>. QED BY <1>3, <1>4

LEMMA BeginRunStep ==
    ASSUME IInv, NEW p \in Procs, BeginRun(p)
    PROVE  IInv'
<1>1. /\ phase[p] = "idle" /\ phase' = [phase EXCEPT ![p] = "run"]
      /\ runs' = runs + 1 /\ run' = [run EXCEPT ![p] = runs + 1]
      /\ UNCHANGED <<calls, dialog, rules, file, history>>
  BY DEF BeginRun
<1>2. /\ phase' \in [Procs -> {"down", "idle", "run", "cancelled"}]
      /\ \A q \in Procs : phase[q] # "down" <=> phase'[q] # "down"
      /\ run' \in [Procs -> Nat] /\ runs' \in Nat
  BY <1>1 DEF IInv, IType
<1>. QED BY <1>1, <1>2, QuietStep DEF history, Clean

LEMMA EndRunStep ==
    ASSUME IInv, NEW p \in Procs, EndRun(p)
    PROVE  IInv'
<1>1. /\ phase[p] # "down" /\ phase' = [phase EXCEPT ![p] = "idle"]
      /\ UNCHANGED <<calls, dialog, rules, file, run, runs, known, gone, kept, dropped>>
  BY DEF EndRun
<1>2. Clean' => Clean
  BY DEF EndRun, Happened, Clean
<1>3. /\ phase' \in [Procs -> {"down", "idle", "run", "cancelled"}]
      /\ \A q \in Procs : phase[q] # "down" <=> phase'[q] # "down"
      /\ run' \in [Procs -> Nat] /\ runs' \in Nat
  BY <1>1 DEF IInv, IType
<1>. QED BY <1>1, <1>2, <1>3, QuietStep

LEMMA SetModeStep ==
    ASSUME IInv, NEW p \in Procs, NEW m \in Modes, SetMode(p, m)
    PROVE  IInv'
<1>1. UNCHANGED <<calls, dialog, rules, file, run, runs, phase, history>>
  BY DEF SetMode
<1>2. /\ phase' \in [Procs -> {"down", "idle", "run", "cancelled"}]
      /\ run' \in [Procs -> Nat] /\ runs' \in Nat
  BY <1>1 DEF IInv, IType
<1>. QED BY <1>1, <1>2, QuietStep DEF history, Clean

\* A rule is forgotten: nothing of this instance is on its way to the file, or the step
\* is no longer clean.
LEMMA ForgetStep ==
    ASSUME IInv, NEW p \in Procs, NEW i \in rules[p], Forget(p, i)
    PROVE  IInv'
<1>1. /\ phase[p] = "idle" /\ rules' = [rules EXCEPT ![p] = @ \ {i}] /\ file' = rules'[p]
      /\ kept' = kept \ {i} /\ dropped' = dropped \cup {i}
      /\ known' = [known EXCEPT ![p] = @ \ {i}] /\ gone' = [gone EXCEPT ![p] = @ \cup {i}]
      /\ UNCHANGED <<phase, dialog, calls, run, runs>>
  BY DEF Forget
<1>2. Clean' => Clean /\ Writing(p) = {} /\ Others(p) = {}
  BY DEF Forget, Clean
<1>3. rules[p] \subseteq Answered /\ i \in Nat /\ rules'[p] = rules[p] \ {i}
      /\ \A q \in Procs : rules'[q] \subseteq rules[q]
  BY <1>1 DEF IInv, IType, IAnswered
<1>4. IType'
  BY <1>1, <1>3 DEF IInv, IType
<1>5. IDialog' /\ IGuarded'
  BY <1>1 DEF IInv, IDialog, IGuarded, Of, Ids
<1>6. IDown'
  BY <1>1 DEF IInv, IDown, Ids
<1>7. Answered' = Answered
  BY <1>1 DEF Answered, Ids
<1>8. IAnswered'
  BY <1>1, <1>3, <1>7 DEF IInv, IAnswered, Ids
<1>9. IKept'
  <2>. SUFFICES ASSUME Clean' PROVE Kept'
    BY DEF IKept
  <2>1. kept \subseteq rules[p] /\ rules[p] \cap dropped = {}
        /\ known[p] \subseteq kept /\ gone[p] \subseteq dropped
    BY <1>1, <1>2 DEF IInv, IKept, Kept
  <2>2. kept' \subseteq file' /\ file' \cap dropped' = {}
    BY <1>1, <1>3, <2>1
  <2>3. ASSUME NEW q \in Procs, phase'[q] # "down"
        PROVE  /\ known'[q] \subseteq kept' /\ kept' \subseteq rules'[q]
               /\ gone'[q] \subseteq dropped' /\ rules'[q] \cap dropped' = {}
    <3>1. q = p
      BY <1>1, <1>2, <2>3 DEF Others
    <3>2. known'[p] = known[p] \ {i} /\ gone'[p] = gone[p] \cup {i}
      BY <1>1 DEF IInv, IType
    <3>. QED BY <1>1, <1>3, <2>1, <3>1, <3>2
  <2>4. ASSUME NEW d \in Ids', calls'[d].state = "write"
        PROVE  calls'[d].list = rules'[calls'[d].proc]
    <3>1. d \in Ids /\ calls' = calls /\ calls[d].state = "write"
      BY <1>1, <2>4 DEF Ids
    <3>2. calls[d].proc \in Procs /\ calls[d].proc # p
      BY <1>2, <3>1, Fields DEF Writing, Of, IInv, IType
    <3>. QED BY <1>1, <1>2, <3>1, <3>2 DEF IInv, IType, IKept, Kept
  <2>. QED BY <2>2, <2>3, <2>4 DEF Kept
<1>. QED BY <1>4, <1>5, <1>6, <1>8, <1>9 DEF IInv

\* An instance that starts reads the file: it holds what was kept and nothing dropped.
LEMMA StartStep ==
    ASSUME IInv, NEW p \in Procs, NEW m \in Modes, Start(p, m)
    PROVE  IInv'
<1>1. /\ phase[p] = "down" /\ phase' = [phase EXCEPT ![p] = "idle"]
      /\ rules' = [rules EXCEPT ![p] = file]
      /\ known' = [known EXCEPT ![p] = kept] /\ gone' = [gone EXCEPT ![p] = dropped]
      /\ UNCHANGED <<file, dialog, calls, run, runs, kept, dropped, kinds>>
  BY DEF Start
<1>2. file \subseteq Answered /\ dropped \subseteq Answered /\ Answered \subseteq Nat
  BY DEF IInv, IType, IAnswered, Answered, Ids
<1>3. Clean => kept \subseteq file
  BY DEF IInv, IKept, Kept
<1>4. \A d \in Ids : calls[d].state \notin Settled => calls[d].proc \in Procs \ {p}
  BY <1>1, Fields DEF IInv, IType, IDown
<1>5. IType'
  BY <1>1, <1>2 DEF IInv, IType
<1>6. IDialog' /\ IGuarded'
  BY <1>1 DEF IInv, IDialog, IGuarded, Of, Ids
<1>7. IDown'
  BY <1>1, <1>4 DEF IInv, IType, IDown, Ids
<1>8. Answered' = Answered
  BY <1>1 DEF Answered, Ids
<1>9. IAnswered'
  BY <1>1, <1>2, <1>8 DEF IInv, IType, IAnswered, Ids
<1>10. IKept'
  <2>. SUFFICES ASSUME Clean PROVE Kept'
    BY <1>1 DEF IKept, Clean
  <2>1. kept \subseteq file /\ file \cap dropped = {}
    BY DEF IInv, IKept, Kept
  <2>2. ASSUME NEW q \in Procs, phase'[q] # "down"
        PROVE  /\ known'[q] \subseteq kept' /\ kept' \subseteq rules'[q]
               /\ gone'[q] \subseteq dropped' /\ rules'[q] \cap dropped' = {}
    BY <1>1, <2>1, <2>2 DEF IInv, IType, IKept, Kept
  <2>3. ASSUME NEW d \in Ids', calls'[d].state = "write"
        PROVE  calls'[d].list = rules'[calls'[d].proc]
    <3>1. d \in Ids /\ calls' = calls /\ calls[d].state = "write"
      BY <1>1, <2>3 DEF Ids
    <3>2. calls[d].proc \in Procs \ {p}
      BY <1>4, <3>1 DEF Settled
    <3>. QED BY <1>1, <3>1, <3>2 DEF IInv, IType, IKept, Kept
  <2>. QED BY <1>1, <2>1, <2>2, <2>3 DEF Kept
<1>. QED BY <1>5, <1>6, <1>7, <1>9, <1>10 DEF IInv

LEMMA ExitStep ==
    ASSUME IInv, NEW p \in Procs, Exit(p)
    PROVE  IInv'
<1>1. /\ phase[p] # "down" /\ phase' = [phase EXCEPT ![p] = "down"]
      /\ dialog' = [dialog EXCEPT ![p] = NoCall] /\ rules' = [rules EXCEPT ![p] = {}]
      /\ known' = [known EXCEPT ![p] = {}] /\ gone' = [gone EXCEPT ![p] = {}]
      /\ UNCHANGED <<file, run, runs, kept, dropped, kinds>>
  BY DEF Exit
<1>2. Ended(p)
  BY ExitEnds DEF IInv, IType
<1>3. IType'
  BY <1>1, <1>2 DEF IInv, IType, Ended
<1>4. \A d \in Ids : /\ calls'[d].proc = calls[d].proc /\ calls'[d].req = calls[d].req
                     /\ calls'[d].state \in {"dead", calls[d].state}
  BY <1>2 DEF Ended
<1>5. ASSUME NEW d \in Ids, calls'[d].state # "dead"
      PROVE  calls'[d] = calls[d] /\ (calls[d].state \notin Settled => calls[d].proc # p)
  BY <1>2, <1>5 DEF Ended, Unsettled
<1>6. IDialog'
  <2>. SUFFICES ASSUME NEW q \in Procs, dialog'[q] # NoCall PROVE dialog'[q] \in Of(q, "asking")'
    BY DEF IDialog
  <2>1. q # p /\ dialog'[q] = dialog[q]
    BY <1>1 DEF IInv, IType
  <2>2. dialog[q] \in Ids /\ calls[dialog[q]].proc = q /\ calls[dialog[q]].state = "asking"
    BY <2>1 DEF IInv, IDialog, Of
  <2>3. calls'[dialog[q]] = calls[dialog[q]]
    BY <1>2, <2>1, <2>2 DEF Ended, Unsettled
  <2>. QED BY <1>2, <2>1, <2>2, <2>3 DEF Of, Ended, Ids
<1>7. IDown'
  <2>. SUFFICES ASSUME NEW d \in Ids', calls'[d].state \notin Settled
                PROVE  phase'[calls'[d].proc] # "down"
    BY DEF IDown
  <2>1. d \in Ids /\ calls'[d].state # "dead"
    BY <1>2 DEF Ended, Ids, Settled
  <2>2. calls'[d] = calls[d] /\ calls[d].proc \in Procs \ {p}
    BY <1>5, <2>1, Fields DEF IInv, IType
  <2>. QED BY <1>1, <2>1, <2>2 DEF IInv, IType, IDown
<1>8. IGuarded'
  <2>. SUFFICES ASSUME NEW d \in Ids', calls'[d].state = "allowed", Guarded(calls'[d].req)
                PROVE  Accepted(calls'[d].answer)
    BY DEF IGuarded
  <2>1. d \in Ids /\ calls'[d] = calls[d]
    BY <1>2, <1>5 DEF Ended, Ids
  <2>. QED BY <2>1 DEF IInv, IGuarded
<1>9. Answered \subseteq Answered'
  BY <1>2, <1>4 DEF Answered, Ended, Ids
<1>10. IAnswered'
  <2>1. \A q \in Procs : rules'[q] \subseteq Answered'
    BY <1>1, <1>9 DEF IInv, IType, IAnswered
  <2>2. ASSUME NEW d \in Ids', calls'[d].state = "write" PROVE calls'[d].list \subseteq Answered'
    BY <1>2, <1>5, <1>9, <2>2 DEF IInv, IAnswered, Ended, Ids
  <2>. QED BY <1>1, <1>9, <2>1, <2>2 DEF IInv, IAnswered
<1>11. IKept'
  <2>. SUFFICES ASSUME Clean PROVE Kept'
    BY <1>1 DEF IKept, Clean
  <2>1. kept' \subseteq file' /\ file' \cap dropped' = {}
    BY <1>1 DEF IInv, IKept, Kept
  <2>2. ASSUME NEW q \in Procs, phase'[q] # "down"
        PROVE  /\ known'[q] \subseteq kept' /\ kept' \subseteq rules'[q]
               /\ gone'[q] \subseteq dropped' /\ rules'[q] \cap dropped' = {}
    <3>1. q # p
      BY <1>1, <2>2 DEF IInv, IType
    <3>. QED BY <1>1, <2>2, <3>1 DEF IInv, IType, IKept, Kept
  <2>3. ASSUME NEW d \in Ids', calls'[d].state = "write"
        PROVE  calls'[d].list = rules'[calls'[d].proc]
    <3>1. d \in Ids /\ calls'[d] = calls[d] /\ calls[d].proc \in Procs \ {p}
      BY <1>2, <1>5, <2>3, Fields DEF Ended, Ids, Settled, IInv, IType
    <3>. QED BY <1>1, <2>3, <3>1 DEF IInv, IType, IKept, Kept
  <2>. QED BY <2>1, <2>2, <2>3 DEF Kept
<1>. QED BY <1>3, <1>6, <1>7, <1>8, <1>10, <1>11 DEF IInv

LEMMA StepInv == IInv /\ [Next]_vars => IInv'
<1>. SUFFICES ASSUME IInv, [Next]_vars PROVE IInv'
  OBVIOUS
<1>1. ASSUME NEW p \in Procs, NEW r \in Requests, CallSettled(p, r) \/ CallAsks(p, r)
      PROVE  IInv'
  BY <1>1, NewCallStep
<1>2. ASSUME NEW p \in Procs, AnswerKey(p) PROVE IInv'
  BY <1>2, AnswerOnceStep, AnswerForGoodStep DEF AnswerKey
<1>3. ASSUME NEW p \in Procs, Interrupt(p) \/ BeginRun(p) \/ EndRun(p) \/ Exit(p) PROVE IInv'
  BY <1>3, InterruptStep, BeginRunStep, EndRunStep, ExitStep
<1>4. ASSUME NEW p \in Procs, NEW m \in Modes, SetMode(p, m) \/ Start(p, m) PROVE IInv'
  BY <1>4, SetModeStep, StartStep
<1>5. ASSUME NEW p \in Procs, NEW i \in rules[p], Forget(p, i) PROVE IInv'
  BY <1>5, ForgetStep
<1>6. ASSUME NEW c \in Ids, Persist(c) PROVE IInv'
  BY <1>6, ListRulesStep, WriteRulesStep, WriteFailsStep DEF Persist
<1>7. ASSUME UNCHANGED vars PROVE IInv'
  <2>1. /\ UNCHANGED <<calls, dialog, rules, file, run, runs, phase, history>>
        /\ phase' \in [Procs -> {"down", "idle", "run", "cancelled"}]
        /\ run' \in [Procs -> Nat] /\ runs' \in Nat
    BY <1>7 DEF vars, IInv, IType
  <2>. QED BY <2>1, QuietStep DEF history, Clean
<1>. QED BY <1>1, <1>2, <1>3, <1>4, <1>5, <1>6, <1>7 DEF Next

-----------------------------------------------------------------------------
\* The invariant holds in every reachable state (approval.ts, rules.ts, tui.ts confirm).
THEOREM Invariant == Spec => []IInv
BY InitInv, StepInv, PTL DEF Spec

\* No mode, no remembered rule, no question of another call lets a tool touch a protected
\* path: the user said yes to that very call (authorize, confirm).
THEOREM OnlyByYes == Spec => []ProtectedOnlyByYes
<1>1. IInv => ProtectedOnlyByYes
  BY DEF IInv, IGuarded, Guarded, ProtectedOnlyByYes
<1>. QED BY <1>1, Invariant, PTL

\* A rule the user left for good holds until he takes it back, and then stays taken back,
\* in every instance and after every restart, as long as no two changes of the rules
\* overlap and no other instance is up when one is written (remember, forget, load).
THEOREM HoldForGood == Spec => []RulesAreKept
<1>1. IInv => RulesAreKept
  BY DEF IInv, IKept, Kept, Clean, RulesAreKept, RememberedIsKnownAlone, RememberedIsKnown,
         ForgottenStaysForgotten
<1>. QED BY <1>1, Invariant, PTL

-----------------------------------------------------------------------------
(* Questions and how often they are asked *)

Denied(p, t) == {c \in Rejections(p, t) : calls[c].state = "denied"}

\* Numbers of runs, and which answers belong to which states.
IRuns ==
    /\ denials \in [Procs -> [Tools -> Nat]]
    /\ \A p \in Procs : run[p] <= runs
    /\ \A c \in Ids : /\ calls[c].run <= runs
                      /\ calls[c].state = "asking" => calls[c].answer = "none"
                      /\ calls[c].state \in {"remember", "write"} => calls[c].answer \in {"always", "never"}
                      /\ calls[c].state = "allowed" => calls[c].answer \notin {"no", "never"}

\* The dialog asks for the run that goes on, and a call of this run is not dead.
IThisRun ==
    /\ \A p \in Procs :
          dialog[p] # NoCall => phase[p] = "run" /\ calls[dialog[p]].run = run[p]
    /\ \A c \in Ids :
          calls[c].state = "dead" /\ calls[c].run = run[calls[c].proc]
              => phase[calls[c].proc] \in {"down", "idle"}

\* Every rejection that was settled in this run is counted.
ICounted ==
    \A p \in Procs, t \in Tools :
        phase[p] = "run" => Cardinality(Denied(p, t)) <= denials[p][t]

\* An open question leaves room for its own rejection.
ILimit ==
    "early" \notin kinds =>
        \A p \in Procs, t \in Tools :
            /\ Cardinality(Rejections(p, t)) <= MaxDenials
            /\ dialog[p] # NoCall /\ calls[dialog[p]].req.tool = t
                   => Cardinality(Rejections(p, t)) < MaxDenials

\* Where no call outlives its run, nothing else is counted.
IOwnRun ==
    "outlived" \notin kinds =>
        /\ \A c \in Ids :
              calls[c].state \in {"remember", "write"} =>
                  /\ phase[calls[c].proc] \in {"run", "cancelled"}
                  /\ calls[c].run = run[calls[c].proc]
        /\ \A p \in Procs, t \in Tools :
              phase[p] # "down" => denials[p][t] <= Cardinality(Denied(p, t))

IAsk == IRuns /\ IThisRun /\ ICounted /\ ILimit /\ IOwnRun /\ NoQuestionIsOrphaned

\* What the proofs about these sets need of them.
Mine(c, q, t) == calls[c].proc = q /\ calls[c].run = run[q] /\ calls[c].req.tool = t

Same(q, t) ==
    Rejections(q, t)' = Rejections(q, t) /\ Denied(q, t)' = Denied(q, t)

LEMMA OneMore ==
    ASSUME NEW S, IsFiniteSet(S), NEW c
    PROVE  /\ Cardinality(S) \in Nat /\ Cardinality(S \cup {c}) \in Nat
           /\ Cardinality(S \cup {c}) <= Cardinality(S) + 1
           /\ c \notin S => Cardinality(S \cup {c}) = Cardinality(S) + 1
           /\ Cardinality(S \ {c}) \in Nat /\ Cardinality(S \ {c}) <= Cardinality(S)
<1>1. Cardinality(S) \in Nat
  BY FS_CardinalityType
<1>2. Cardinality(S \cup {c}) = IF c \in S THEN Cardinality(S) ELSE Cardinality(S) + 1
  BY FS_AddElement
<1>3. Cardinality(S \ {c}) = IF c \in S THEN Cardinality(S) - 1 ELSE Cardinality(S)
  BY FS_RemoveElement
<1>4. IsFiniteSet(S \ {c})
  BY FS_RemoveElement
<1>5. Cardinality(S \ {c}) \in Nat
  BY <1>4, FS_CardinalityType
<1>. QED BY <1>1, <1>2, <1>3, <1>5

LEMMA SetsAreFinite ==
    ASSUME calls \in Seq(Rec), NEW q \in Procs, NEW t \in Tools
    PROVE  /\ IsFiniteSet(Rejections(q, t)) /\ Cardinality(Rejections(q, t)) \in Nat
           /\ IsFiniteSet(Denied(q, t)) /\ Cardinality(Denied(q, t)) \in Nat
           /\ Cardinality(Denied(q, t)) <= Cardinality(Rejections(q, t))
<1>1. Ids = 1..Len(calls) /\ Len(calls) \in Nat
  BY DEF Ids
<1>2. IsFiniteSet(Ids)
  BY <1>1, FS_Interval
<1>3. Rejections(q, t) \subseteq Ids /\ Denied(q, t) \subseteq Rejections(q, t)
  BY DEF Rejections, Denied
<1>4. IsFiniteSet(Rejections(q, t))
  BY <1>2, <1>3, FS_Subset
<1>5. /\ IsFiniteSet(Denied(q, t))
      /\ Cardinality(Denied(q, t)) <= Cardinality(Rejections(q, t))
  BY <1>3, <1>4, FS_Subset
<1>. QED BY <1>4, <1>5, FS_CardinalityType

\* How the sets follow a call that changes.
LEMMA SetsAfter ==
    ASSUME NEW c \in Ids, NEW s, NEW a, NEW l, Changed(c, s, a, l),
           NEW q \in Procs, NEW t \in Tools, run'[q] = run[q]
    PROVE  /\ Rejections(q, t)' =
                  IF Mine(c, q, t) /\ a \in {"no", "never"} /\ s # "failed"
                  THEN Rejections(q, t) \cup {c} ELSE Rejections(q, t) \ {c}
           /\ Denied(q, t)' =
                  IF Mine(c, q, t) /\ a \in {"no", "never"} /\ s = "denied"
                  THEN Denied(q, t) \cup {c} ELSE Denied(q, t) \ {c}
<1>1. DOMAIN calls' = DOMAIN calls /\ c \in DOMAIN calls
  BY DEF Changed, Ids
<1>2. \A i \in DOMAIN calls : i # c => calls'[i] = calls[i]
  BY DEF Changed, Ids
<1>3. /\ calls'[c].proc = calls[c].proc /\ calls'[c].req = calls[c].req
      /\ calls'[c].run = calls[c].run /\ calls'[c].state = s /\ calls'[c].answer = a
  BY DEF Changed
<1>4. \A i : i \in Rejections(q, t)' <=>
                i \in IF Mine(c, q, t) /\ a \in {"no", "never"} /\ s # "failed"
                      THEN Rejections(q, t) \cup {c} ELSE Rejections(q, t) \ {c}
  BY <1>1, <1>2, <1>3 DEF Rejections, Mine, Ids
<1>5. \A i : i \in Denied(q, t)' <=>
                i \in IF Mine(c, q, t) /\ a \in {"no", "never"} /\ s = "denied"
                      THEN Denied(q, t) \cup {c} ELSE Denied(q, t) \ {c}
  BY <1>1, <1>2, <1>3 DEF Rejections, Denied, Mine, Ids
<1>. QED BY <1>4, <1>5

\* A call that stays as it was in what the sets look at leaves them alone.
LEMMA SetsAfterNew ==
    ASSUME NEW p \in Procs, NEW r \in Requests, Added(p, r), run' = run,
           NEW q \in Procs, NEW t \in Tools
    PROVE  Same(q, t)
<1>1. \A i : i \in Rejections(q, t)' <=> i \in Rejections(q, t)
  BY DEF Rejections, Added, Ids
<1>2. \A i : i \in Denied(q, t)' <=> i \in Denied(q, t)
  BY DEF Rejections, Denied, Added, Ids
<1>. QED BY <1>1, <1>2 DEF Same

LEMMA SetsAfterExit ==
    ASSUME NEW p \in Procs, Ended(p), run' = run, NEW q \in Procs, NEW t \in Tools
    PROVE  Same(q, t)
<1>1. \A i \in Ids : /\ calls'[i].proc = calls[i].proc /\ calls'[i].req = calls[i].req
                     /\ calls'[i].run = calls[i].run /\ calls'[i].answer = calls[i].answer
                     /\ calls'[i].state = "failed" <=> calls[i].state = "failed"
                     /\ calls'[i].state = "denied" <=> calls[i].state = "denied"
  BY DEF Ended, Unsettled, Settled
<1>2. DOMAIN calls' = DOMAIN calls
  BY DEF Ended, Ids
<1>3. \A i : i \in Rejections(q, t)' <=> i \in Rejections(q, t)
  BY <1>1, <1>2 DEF Rejections, Ids
<1>4. \A i : i \in Denied(q, t)' <=> i \in Denied(q, t)
  BY <1>1, <1>2, <1>3 DEF Denied, Rejections, Ids
<1>. QED BY <1>3, <1>4 DEF Same

LEMMA InitAsk == Init => IAsk
<1>. SUFFICES ASSUME Init PROVE IAsk
  OBVIOUS
<1>1. calls = <<>> /\ Ids = {} /\ kinds = {}
  BY DEF Init, Ids
<1>2. \A p \in Procs, t \in Tools :
          /\ Rejections(p, t) = {} /\ Denied(p, t) = {} /\ dialog[p] = NoCall
          /\ denials[p][t] = 0 /\ phase[p] = "down"
  BY <1>1 DEF Init, Rejections, Denied
<1>3. Cardinality({}) = 0
  BY FS_EmptySet
<1>4. IRuns
  BY <1>1 DEF Init, IRuns
<1>5. IThisRun /\ NoQuestionIsOrphaned
  <2>1. \A p \in Procs : dialog[p] = NoCall
    BY DEF Init
  <2>. QED BY <1>1, <2>1 DEF IThisRun, NoQuestionIsOrphaned
<1>6. ICounted
  BY <1>2 DEF ICounted
<1>7. ILimit /\ IOwnRun
  <2>1. MaxDenials \in Nat \ {0}
    BY ApprovalsAssumption
  <2>2. \A p \in Procs, t \in Tools :
           /\ Cardinality(Rejections(p, t)) = 0 /\ Cardinality(Denied(p, t)) = 0
           /\ dialog[p] = NoCall /\ phase[p] = "down"
    BY <1>2, <1>3
  <2>3. ILimit
    BY <2>1, <2>2 DEF ILimit
  <2>4. IOwnRun
    BY <1>1, <2>2 DEF IOwnRun
  <2>. QED BY <2>3, <2>4
<1>. QED BY <1>4, <1>5, <1>6, <1>7 DEF IAsk

\* No call changes.
LEMMA AskQuiet ==
    ASSUME IInv, IAsk, UNCHANGED <<calls, dialog, run, runs>>, kinds \subseteq kinds',
           denials' \in [Procs -> [Tools -> Nat]],
           \A q \in Procs :
               /\ phase'[q] = "run" => phase[q] = "run" /\ denials'[q] = denials[q]
               /\ dialog[q] # NoCall => phase'[q] = phase[q]
               /\ phase[q] \in {"down", "idle"} => phase'[q] \in {"down", "idle"}
               /\ \/ denials'[q] = denials[q] /\ (phase'[q] # "down" => phase[q] # "down")
                  \/ \A t \in Tools : denials'[q][t] = 0
               /\ "outlived" \notin kinds' =>
                      Writing(q) = {} \/ phase'[q] \in {"run", "cancelled"}
    PROVE  IAsk'
<1>1. ASSUME NEW q \in Procs, NEW t \in Tools PROVE Same(q, t)
  BY DEF Same, Rejections, Denied, Ids
<1>2. \A c \in Ids : calls[c].proc \in Procs
  BY Fields DEF IInv, IType
<1>3. IRuns'
  BY DEF IAsk, IRuns, Ids
<1>4. IThisRun'
  BY <1>2 DEF IAsk, IThisRun, Ids
<1>5. ICounted'
  BY <1>1 DEF IAsk, ICounted, Same
<1>6. ILimit'
  BY <1>1 DEF IAsk, ILimit, Same
<1>7. IOwnRun'
  <2>. SUFFICES ASSUME "outlived" \notin kinds' PROVE IOwnRun'
    BY DEF IOwnRun
  <2>1. "outlived" \notin kinds
    OBVIOUS
  <2>2. ASSUME NEW c \in Ids', calls'[c].state \in {"remember", "write"}
        PROVE  /\ phase'[calls'[c].proc] \in {"run", "cancelled"}
               /\ calls'[c].run = run'[calls'[c].proc]
    <3>1. c \in Ids /\ calls[c].proc \in Procs /\ c \in Writing(calls[c].proc)
      BY <1>2, <2>2 DEF Ids, Writing, Of
    <3>. QED BY <2>1, <2>2, <3>1 DEF IAsk, IOwnRun
  <2>3. ASSUME NEW q \in Procs, NEW t \in Tools, phase'[q] # "down"
        PROVE  denials'[q][t] <= Cardinality(Denied(q, t)')
    <3>1. Denied(q, t)' = Denied(q, t)
      BY <1>1 DEF Same
    <3>2. CASE denials'[q] = denials[q] /\ phase[q] # "down"
      BY <2>1, <3>1, <3>2 DEF IAsk, IOwnRun
    <3>3. CASE denials'[q][t] = 0
      BY <3>1, <3>3, SetsAreFinite DEF IInv, IType
    <3>. QED BY <2>3, <3>2, <3>3
  <2>. QED BY <2>2, <2>3 DEF IOwnRun
<1>8. NoQuestionIsOrphaned'
  BY DEF IAsk, NoQuestionIsOrphaned, Ids
<1>. QED BY <1>3, <1>4, <1>5, <1>6, <1>7, <1>8 DEF IAsk

\* A new call: a question is asked only while another rejection fits.
LEMMA AskNew ==
    ASSUME IInv, IAsk, NEW p \in Procs, NEW r \in Requests, CallSettled(p, r) \/ CallAsks(p, r)
    PROVE  IAsk'
<1>1. Added(p, r)
  BY AppendAdds DEF IInv, CallSettled, CallAsks
<1>2. phase[p] = "run" /\ phase' = phase /\ run' = run /\ runs' = runs /\ denials' = denials
      /\ kinds \subseteq kinds'
  BY DEF CallSettled, CallAsks, history
<1>. DEFINE n == Len(calls) + 1
<1>3. n \in Nat /\ Ids' = Ids \cup {n} /\ n \notin Ids
  BY <1>1 DEF IInv, IType, Added, Ids
<1>4. /\ \A i \in Ids : calls'[i] = calls[i]
      /\ calls'[n].proc = p /\ calls'[n].req = r /\ calls'[n].run = run[p]
      /\ calls'[n].answer = "none" /\ calls'[n].state = Verdict(p, r)
      /\ Verdict(p, r) \in {"asking", "allowed", "denied"}
  BY <1>1 DEF Added, Verdict
<1>5. \/ dialog' = dialog /\ Verdict(p, r) # "asking"
      \/ /\ dialog' = [dialog EXCEPT ![p] = n] /\ Verdict(p, r) = "asking"
         /\ "early" \notin kinds' => Writing(p) = {}
         /\ "parallel" \notin kinds' => Of(p, "asking") = {}
  BY DEF CallSettled, CallAsks
<1>. HIDE DEF n
<1>6. ASSUME NEW q \in Procs, NEW t \in Tools PROVE Same(q, t)
  BY <1>1, <1>2, <1>6, SetsAfterNew
<1>7. \A q \in Procs : dialog[q] # NoCall => dialog[q] \in Ids
  BY DEF IInv, IDialog, Of
<1>8. \A q \in Procs : dialog'[q] # dialog[q] =>
          q = p /\ dialog'[q] = n /\ Verdict(p, r) = "asking"
  BY <1>5 DEF IInv, IType
<1>9. run[p] <= runs /\ run[p] \in Nat
  BY DEF IInv, IType, IAsk, IRuns
<1>10. IRuns'
  BY <1>2, <1>3, <1>4, <1>9 DEF IAsk, IRuns
<1>11. IThisRun'
  BY <1>2, <1>3, <1>4, <1>7, <1>8 DEF IAsk, IThisRun
<1>12. ICounted'
  BY <1>2, <1>6 DEF IAsk, ICounted, Same
<1>13. ILimit'
  <2>. SUFFICES ASSUME "early" \notin kinds', NEW q \in Procs, NEW t \in Tools
                PROVE  /\ Cardinality(Rejections(q, t)') <= MaxDenials
                       /\ dialog'[q] # NoCall /\ calls'[dialog'[q]].req.tool = t
                            => Cardinality(Rejections(q, t)') < MaxDenials
    BY DEF ILimit
  <2>1. Rejections(q, t)' = Rejections(q, t) /\ "early" \notin kinds
    BY <1>2, <1>6 DEF Same
  <2>2. Cardinality(Rejections(q, t)) <= MaxDenials
    BY <2>1 DEF IAsk, ILimit
  <2>3. CASE dialog'[q] = dialog[q]
    BY <1>4, <1>7, <2>1, <2>2, <2>3 DEF IAsk, ILimit
  <2>4. CASE dialog'[q] # dialog[q] /\ r.tool # t
    BY <1>4, <1>8, <2>1, <2>2, <2>4
  <2>5. CASE dialog'[q] # dialog[q] /\ r.tool = t
    <3>1. q = p /\ Verdict(p, r) = "asking" /\ Writing(p) = {}
      BY <1>5, <1>8, <2>5
    <3>2. denials[p][t] < MaxDenials
      <4>1. ~Locked(p, t)
        BY <2>5, <3>1 DEF Verdict
      <4>2. denials[p][t] \in Nat /\ MaxDenials \in Nat
        BY ApprovalsAssumption DEF IAsk, IRuns
      <4>. QED BY <4>1, <4>2 DEF Locked
    <3>3. Rejections(p, t) = Denied(p, t)
      <4>. SUFFICES ASSUME NEW c \in Rejections(p, t) PROVE calls[c].state = "denied"
        BY DEF Denied
      <4>1. c \in Ids /\ calls[c].proc = p /\ calls[c].run = run[p]
            /\ calls[c].answer \in {"no", "never"} /\ calls[c].state # "failed"
        BY DEF Rejections
      <4>2. calls[c].state \in States
        <5>1. calls[c] \in Rec
          BY <4>1 DEF IInv, IType, Ids
        <5>. QED BY <5>1 DEF Rec
      <4>3. calls[c].state \notin {"asking", "allowed"}
        BY <4>1 DEF IAsk, IRuns
      <4>4. calls[c].state # "dead"
        BY <1>2, <4>1 DEF IAsk, IThisRun
      <4>5. calls[c].state \notin {"remember", "write"}
        BY <3>1, <4>1 DEF Writing, Of
      <4>. QED BY <4>1, <4>2, <4>3, <4>4, <4>5 DEF States
    <3>4. Cardinality(Denied(p, t)) <= denials[p][t] /\ Cardinality(Denied(p, t)) \in Nat
          /\ denials[p][t] \in Nat /\ MaxDenials \in Nat
      BY <1>2, SetsAreFinite, ApprovalsAssumption DEF IInv, IType, IAsk, IRuns, ICounted
    <3>. QED BY <2>1, <2>2, <3>1, <3>2, <3>3, <3>4
  <2>. QED BY <2>3, <2>4, <2>5
<1>14. IOwnRun'
  <2>. SUFFICES ASSUME "outlived" \notin kinds' PROVE IOwnRun'
    BY DEF IOwnRun
  <2>1. "outlived" \notin kinds
    BY <1>2
  <2>2. ASSUME NEW c \in Ids', calls'[c].state \in {"remember", "write"}
        PROVE  /\ phase'[calls'[c].proc] \in {"run", "cancelled"}
               /\ calls'[c].run = run'[calls'[c].proc]
    BY <1>2, <1>3, <1>4, <2>1, <2>2 DEF IAsk, IOwnRun
  <2>3. ASSUME NEW q \in Procs, NEW t \in Tools, phase'[q] # "down"
        PROVE  denials'[q][t] <= Cardinality(Denied(q, t)')
    BY <1>2, <1>6, <2>1, <2>3 DEF IAsk, IOwnRun, Same
  <2>. QED BY <2>2, <2>3 DEF IOwnRun
<1>15. NoQuestionIsOrphaned'
  <2>. SUFFICES ASSUME "parallel" \notin kinds', NEW q \in Procs, NEW c \in Ids',
                       calls'[c].proc = q, calls'[c].state = "asking"
                PROVE  dialog'[q] = c
    BY DEF NoQuestionIsOrphaned
  <2>1. CASE c = n
    BY <1>4, <1>5, <2>1 DEF IInv, IType
  <2>2. CASE c \in Ids
    <3>1. dialog[q] = c
      BY <1>2, <1>4, <2>2 DEF IAsk, NoQuestionIsOrphaned
    <3>2. c \in Of(q, "asking")
      BY <1>4, <2>2 DEF Of
    <3>. QED BY <1>5, <3>1, <3>2 DEF IInv, IType
  <2>. QED BY <1>3, <2>1, <2>2
<1>. QED BY <1>10, <1>11, <1>12, <1>13, <1>14, <1>15 DEF IAsk

\* A call is answered, or what follows its answer happens.
LEMMA AskChange ==
    ASSUME IInv, IAsk, NEW c \in Ids, NEW s, NEW a, NEW l, Changed(c, s, a, l),
           s \in {"remember", "write", "failed", "allowed", "denied"},
           s \in {"remember", "write"} => a \in {"always", "never"},
           s = "allowed" => a \notin {"no", "never"},
           s = "denied" => a \in {"no", "never"},
           NEW p \in Procs, p = calls[c].proc,
           denials' = IF s = "denied" THEN [denials EXCEPT ![p][calls[c].req.tool] = @ + 1]
                      ELSE denials,
           \/ /\ calls[c].state = "asking" /\ dialog[p] = c
              /\ dialog' = [dialog EXCEPT ![p] = NoCall]
              /\ phase' = phase \/ phase' = [phase EXCEPT ![p] = "cancelled"]
           \/ /\ calls[c].state \in {"remember", "write"} /\ calls[c].answer = a
              /\ dialog' = dialog /\ phase' = phase,
           UNCHANGED <<run, runs>>, kinds \subseteq kinds'
    PROVE  IAsk'
<1>. DEFINE tool == calls[c].req.tool
<1>1. /\ Ids' = Ids /\ \A i \in Ids : i # c => calls'[i] = calls[i]
      /\ calls'[c].proc = calls[c].proc /\ calls'[c].req = calls[c].req
      /\ calls'[c].run = calls[c].run /\ calls'[c].state = s /\ calls'[c].answer = a
  BY DEF Changed, Ids
<1>2. ASSUME NEW q \in Procs, NEW t \in Tools
      PROVE  /\ Rejections(q, t)' = IF Mine(c, q, t) /\ a \in {"no", "never"} /\ s # "failed"
                                    THEN Rejections(q, t) \cup {c} ELSE Rejections(q, t) \ {c}
             /\ Denied(q, t)' = IF Mine(c, q, t) /\ a \in {"no", "never"} /\ s = "denied"
                                THEN Denied(q, t) \cup {c} ELSE Denied(q, t) \ {c}
  BY SetsAfter, <1>2
<1>3. ASSUME NEW q \in Procs, NEW t \in Tools
      PROVE  /\ c \notin Denied(q, t)
             /\ Cardinality(Denied(q, t)) \in Nat /\ IsFiniteSet(Denied(q, t))
             /\ Cardinality(Rejections(q, t)) \in Nat /\ IsFiniteSet(Rejections(q, t))
             /\ denials[q][t] \in Nat
  BY SetsAreFinite DEF Denied, IInv, IType, IAsk, IRuns
<1>4. tool \in Tools
  BY Fields DEF Tools, IInv, IType
<1>5. ASSUME NEW q \in Procs, NEW t \in Tools
      PROVE  denials'[q][t] = IF s = "denied" /\ q = p /\ t = tool
                              THEN denials[q][t] + 1 ELSE denials[q][t]
  BY <1>4 DEF IAsk, IRuns
<1>6. \A q \in Procs : dialog[q] # NoCall =>
          /\ dialog[q] \in Ids /\ calls[dialog[q]].state = "asking" /\ calls[dialog[q]].proc = q
          /\ phase[q] = "run" /\ calls[dialog[q]].run = run[q]
  BY DEF IInv, IDialog, Of, IAsk, IThisRun
<1>7. \A q \in Procs : dialog'[q] # NoCall =>
          /\ dialog'[q] = dialog[q] /\ dialog[q] # c /\ phase'[q] = phase[q]
          /\ calls'[dialog[q]] = calls[dialog[q]]
  BY <1>1, <1>6 DEF IInv, IType
<1>8. c \in Nat /\ NoCall \notin Nat
  BY ApprovalsAssumption DEF Ids, IInv, IType
<1>9. calls[c].run = run[p] \/ "outlived" \in kinds
  <2>1. CASE dialog[p] = c
    BY <1>6, <1>8, <2>1
  <2>2. CASE calls[c].state \in {"remember", "write"}
    BY <2>2 DEF IAsk, IOwnRun
  <2>. QED BY <2>1, <2>2
<1>10. \A q \in Procs : phase'[q] \in {phase[q], "cancelled"} /\ (phase'[q] # phase[q] => phase[q] = "run")
  BY <1>6, <1>8 DEF IInv, IType
<1>. HIDE DEF tool
<1>11. IRuns'
  <2>1. denials' \in [Procs -> [Tools -> Nat]]
    BY <1>4 DEF tool, IAsk, IRuns
  <2>. QED BY <1>1, <2>1 DEF IAsk, IRuns
<1>12. IThisRun'
  <2>1. ASSUME NEW q \in Procs, dialog'[q] # NoCall
        PROVE  phase'[q] = "run" /\ calls'[dialog'[q]].run = run'[q]
    BY <1>6, <1>7, <2>1
  <2>2. ASSUME NEW d \in Ids', calls'[d].state = "dead", calls'[d].run = run'[calls'[d].proc]
        PROVE  phase'[calls'[d].proc] \in {"down", "idle"}
    <3>1. d \in Ids /\ d # c /\ calls'[d] = calls[d] /\ calls[d].proc \in Procs
      BY <1>1, <2>2, Fields DEF IInv, IType
    <3>2. phase[calls[d].proc] \in {"down", "idle"}
      BY <2>2, <3>1 DEF IAsk, IThisRun
    <3>. QED BY <1>10, <3>1, <3>2
  <2>. QED BY <2>1, <2>2 DEF IThisRun
<1>13. ICounted'
  <2>. SUFFICES ASSUME NEW q \in Procs, NEW t \in Tools, phase'[q] = "run"
                PROVE  Cardinality(Denied(q, t)') <= denials'[q][t]
    BY DEF ICounted
  <2>1. Cardinality(Denied(q, t)) <= denials[q][t]
    BY <1>10 DEF IAsk, ICounted
  <2>2. CASE Mine(c, q, t) /\ s = "denied"
    <3>1. Denied(q, t)' = Denied(q, t) \cup {c} /\ denials'[q][t] = denials[q][t] + 1
      BY <1>2, <1>5, <2>2 DEF Mine, tool
    <3>. QED BY <1>3, <2>1, <3>1, OneMore
  <2>3. CASE ~(Mine(c, q, t) /\ s = "denied")
    <3>1. Denied(q, t)' = Denied(q, t) \ {c}
      BY <1>2, <2>3
    <3>2. Denied(q, t) \ {c} = Denied(q, t)
      BY <1>3
    <3>3. denials'[q][t] \in {denials[q][t], denials[q][t] + 1}
      BY <1>5
    <3>. QED BY <1>3, <2>1, <3>1, <3>2, <3>3
  <2>. QED BY <2>2, <2>3
<1>14. ILimit'
  <2>. SUFFICES ASSUME "early" \notin kinds', NEW q \in Procs, NEW t \in Tools
                PROVE  /\ Cardinality(Rejections(q, t)') <= MaxDenials
                       /\ dialog'[q] # NoCall /\ calls'[dialog'[q]].req.tool = t
                            => Cardinality(Rejections(q, t)') < MaxDenials
    BY DEF ILimit
  <2>1. /\ Cardinality(Rejections(q, t)) <= MaxDenials
        /\ dialog[q] # NoCall /\ calls[dialog[q]].req.tool = t
              => Cardinality(Rejections(q, t)) < MaxDenials
    BY DEF IAsk, ILimit
  <2>2. MaxDenials \in Nat
    BY ApprovalsAssumption
  <2>3. CASE Mine(c, q, t) /\ a \in {"no", "never"} /\ s # "failed" /\ calls[c].state = "asking"
    <3>1. q = p /\ dialog[p] = c /\ dialog'[p] = NoCall /\ calls[c].req.tool = t
      BY <2>3 DEF Mine, IInv, IType
    <3>2. Cardinality(Rejections(q, t)) < MaxDenials
      BY <1>8, <2>1, <3>1
    <3>3. Rejections(q, t)' = Rejections(q, t) \cup {c}
      BY <1>2, <2>3
    <3>4. /\ Cardinality(Rejections(q, t) \cup {c}) <= Cardinality(Rejections(q, t)) + 1
          /\ Cardinality(Rejections(q, t) \cup {c}) \in Nat
      BY <1>3, OneMore
    <3>. QED BY <1>3, <2>2, <3>1, <3>2, <3>3, <3>4
  <2>4. CASE Mine(c, q, t) /\ a \in {"no", "never"} /\ s # "failed" /\ calls[c].state # "asking"
    <3>1. c \in Rejections(q, t)
      BY <2>4 DEF Mine, Rejections
    <3>2. Rejections(q, t)' = Rejections(q, t)
      <4>1. Rejections(q, t)' = Rejections(q, t) \cup {c}
        BY <1>2, <2>4
      <4>. QED BY <3>1, <4>1
    <3>. QED BY <1>7, <2>1, <3>2
  <2>5. CASE ~(Mine(c, q, t) /\ a \in {"no", "never"} /\ s # "failed")
    <3>1. Rejections(q, t)' = Rejections(q, t) \ {c}
      BY <1>2, <2>5
    <3>2. Cardinality(Rejections(q, t) \ {c}) <= Cardinality(Rejections(q, t))
          /\ Cardinality(Rejections(q, t) \ {c}) \in Nat
      BY <1>3, OneMore
    <3>. QED BY <1>3, <1>7, <2>1, <2>2, <3>1, <3>2
  <2>. QED BY <2>3, <2>4, <2>5
<1>15. IOwnRun'
  <2>. SUFFICES ASSUME "outlived" \notin kinds' PROVE IOwnRun'
    BY DEF IOwnRun
  <2>1. "outlived" \notin kinds
    OBVIOUS
  <2>2. ASSUME NEW d \in Ids', calls'[d].state \in {"remember", "write"}
        PROVE  /\ phase'[calls'[d].proc] \in {"run", "cancelled"}
               /\ calls'[d].run = run'[calls'[d].proc]
    <3>1. CASE d # c
      <4>1. d \in Ids /\ calls'[d] = calls[d] /\ calls[d].proc \in Procs
        BY <1>1, <3>1, Fields DEF IInv, IType
      <4>2. phase[calls[d].proc] \in {"run", "cancelled"} /\ calls[d].run = run[calls[d].proc]
        BY <2>1, <2>2, <4>1 DEF IAsk, IOwnRun
      <4>. QED BY <1>10, <4>1, <4>2
    <3>2. CASE d = c
      <4>1. phase[p] \in {"run", "cancelled"}
        <5>1. CASE dialog[p] = c
          BY <1>6, <1>8, <5>1
        <5>2. CASE calls[c].state \in {"remember", "write"}
          BY <2>1, <5>2 DEF IAsk, IOwnRun
        <5>. QED BY <5>1, <5>2
      <4>. QED BY <1>1, <1>9, <1>10, <2>1, <3>2, <4>1
    <3>. QED BY <3>1, <3>2
  <2>3. ASSUME NEW q \in Procs, NEW t \in Tools, phase'[q] # "down"
        PROVE  denials'[q][t] <= Cardinality(Denied(q, t)')
    <3>1. phase[q] # "down"
      BY <1>10, <2>3
    <3>2. denials[q][t] <= Cardinality(Denied(q, t))
      BY <2>1, <3>1 DEF IAsk, IOwnRun
    <3>3. CASE s = "denied" /\ q = p /\ t = tool
      <4>1. Mine(c, q, t)
        BY <1>9, <2>1, <3>3 DEF Mine, tool
      <4>2. Denied(q, t)' = Denied(q, t) \cup {c} /\ denials'[q][t] = denials[q][t] + 1
        BY <1>2, <1>5, <3>3, <4>1
      <4>3. Cardinality(Denied(q, t) \cup {c}) = Cardinality(Denied(q, t)) + 1
        BY <1>3, OneMore
      <4>. QED BY <1>3, <3>2, <4>2, <4>3
    <3>4. CASE ~(s = "denied" /\ q = p /\ t = tool)
      <4>1. ~(Mine(c, q, t) /\ s = "denied")
        BY <3>4 DEF Mine, tool
      <4>2. Denied(q, t)' = Denied(q, t) \ {c}
        BY <1>2, <4>1
      <4>3. Denied(q, t) \ {c} = Denied(q, t)
        BY <1>3
      <4>4. denials'[q][t] = denials[q][t]
        BY <1>5, <3>4
      <4>. QED BY <3>2, <4>2, <4>3, <4>4
    <3>. QED BY <3>3, <3>4
  <2>. QED BY <2>2, <2>3 DEF IOwnRun
<1>16. NoQuestionIsOrphaned'
  <2>. SUFFICES ASSUME "parallel" \notin kinds', NEW q \in Procs, NEW d \in Ids',
                       calls'[d].proc = q, calls'[d].state = "asking"
                PROVE  dialog'[q] = d
    BY DEF NoQuestionIsOrphaned
  <2>1. d \in Ids /\ d # c /\ calls'[d] = calls[d]
    BY <1>1
  <2>2. dialog[q] = d
    BY <2>1 DEF IAsk, NoQuestionIsOrphaned
  <2>. QED BY <2>1, <2>2 DEF IInv, IType
<1>. QED BY <1>11, <1>12, <1>13, <1>14, <1>15, <1>16 DEF IAsk

\* A new run: what came before it is of earlier runs.
LEMMA AskBegin ==
    ASSUME IInv, IAsk, NEW p \in Procs, BeginRun(p)
    PROVE  IAsk'
<1>1. /\ phase[p] = "idle" /\ phase' = [phase EXCEPT ![p] = "run"]
      /\ runs' = runs + 1 /\ run' = [run EXCEPT ![p] = runs + 1]
      /\ denials' = [denials EXCEPT ![p] = [t \in Tools |-> 0]]
      /\ UNCHANGED <<dialog, calls, kinds>>
  BY DEF BeginRun, history
<1>2. dialog[p] = NoCall /\ runs \in Nat
  BY <1>1 DEF IAsk, IThisRun, IInv, IType
<1>3. /\ phase'[p] = "run" /\ run'[p] = runs + 1 /\ \A t \in Tools : denials'[p][t] = 0
      /\ \A q \in Procs \ {p} : /\ phase'[q] = phase[q] /\ run'[q] = run[q]
                                /\ denials'[q] = denials[q]
  BY <1>1 DEF IInv, IType, IAsk, IRuns
<1>4. \A c \in Ids : /\ calls[c].proc \in Procs /\ calls[c].run <= runs /\ calls[c].run \in Nat
                     /\ calls[c].run # runs + 1
  <2>. SUFFICES ASSUME NEW c \in Ids
                PROVE  /\ calls[c].proc \in Procs /\ calls[c].run <= runs /\ calls[c].run \in Nat
                       /\ calls[c].run # runs + 1
    OBVIOUS
  <2>1. calls[c] \in Rec
    BY DEF Ids, IInv, IType
  <2>2. calls[c].proc \in Procs /\ calls[c].run \in Nat
    BY <2>1 DEF Rec
  <2>3. calls[c].run <= runs
    BY DEF IAsk, IRuns
  <2>. QED BY <1>2, <2>2, <2>3
<1>5. \A t \in Tools : Rejections(p, t)' = {} /\ Denied(p, t)' = {}
  BY <1>1, <1>3, <1>4 DEF Rejections, Denied, Ids
<1>6. ASSUME NEW q \in Procs \ {p}, NEW t \in Tools PROVE Same(q, t)
  BY <1>1, <1>3 DEF Same, Rejections, Denied, Ids
<1>7. IRuns'
  <2>1. denials' \in [Procs -> [Tools -> Nat]]
    BY <1>1 DEF IAsk, IRuns
  <2>2. \A q \in Procs : run'[q] <= runs'
    BY <1>1, <1>2, <1>3 DEF IAsk, IRuns, IInv, IType
  <2>3. \A c \in Ids : calls[c].run <= runs'
    BY <1>1, <1>2, <1>4
  <2>. QED BY <1>1, <2>1, <2>2, <2>3 DEF IAsk, IRuns, Ids
<1>8. IThisRun'
  <2>1. ASSUME NEW q \in Procs, dialog'[q] # NoCall
        PROVE  phase'[q] = "run" /\ calls'[dialog'[q]].run = run'[q]
    <3>1. q # p
      BY <1>1, <1>2, <2>1
    <3>. QED BY <1>1, <1>3, <2>1, <3>1 DEF IAsk, IThisRun
  <2>2. ASSUME NEW d \in Ids', calls'[d].state = "dead", calls'[d].run = run'[calls'[d].proc]
        PROVE  phase'[calls'[d].proc] \in {"down", "idle"}
    <3>1. d \in Ids /\ calls[d].proc \in Procs \ {p}
      BY <1>1, <1>3, <1>4, <2>2 DEF Ids
    <3>. QED BY <1>1, <1>3, <2>2, <3>1 DEF IAsk, IThisRun
  <2>. QED BY <2>1, <2>2 DEF IThisRun
<1>9. Cardinality({}) = 0 /\ MaxDenials \in Nat \ {0}
  BY FS_EmptySet, ApprovalsAssumption
<1>10. ASSUME NEW q \in Procs, NEW t \in Tools
       PROVE  \/ q # p /\ Same(q, t) /\ phase'[q] = phase[q] /\ denials'[q][t] = denials[q][t]
              \/ q = p /\ Cardinality(Rejections(q, t)') = 0 /\ Cardinality(Denied(q, t)') = 0
                 /\ denials'[q][t] = 0
  BY <1>3, <1>5, <1>6, <1>9
<1>11. ICounted'
  BY <1>10 DEF IAsk, ICounted, Same
<1>12. ILimit'
  <2>. SUFFICES ASSUME "early" \notin kinds', NEW q \in Procs, NEW t \in Tools
                PROVE  /\ Cardinality(Rejections(q, t)') <= MaxDenials
                       /\ dialog'[q] # NoCall /\ calls'[dialog'[q]].req.tool = t
                            => Cardinality(Rejections(q, t)') < MaxDenials
    BY DEF ILimit
  <2>1. CASE q # p
    BY <1>1, <1>10, <2>1 DEF IAsk, ILimit, Same
  <2>2. CASE q = p
    BY <1>9, <1>10, <2>2
  <2>. QED BY <2>1, <2>2
<1>13. IOwnRun'
  <2>. SUFFICES ASSUME "outlived" \notin kinds' PROVE IOwnRun'
    BY DEF IOwnRun
  <2>1. ASSUME NEW d \in Ids', calls'[d].state \in {"remember", "write"}
        PROVE  /\ phase'[calls'[d].proc] \in {"run", "cancelled"}
               /\ calls'[d].run = run'[calls'[d].proc]
    <3>1. d \in Ids /\ calls' = calls /\ calls[d].proc \in Procs
      BY <1>1, <1>4 DEF Ids
    <3>2. phase[calls[d].proc] \in {"run", "cancelled"} /\ calls[d].run = run[calls[d].proc]
      BY <1>1, <2>1, <3>1 DEF IAsk, IOwnRun
    <3>. QED BY <1>1, <1>3, <3>1, <3>2
  <2>2. ASSUME NEW q \in Procs, NEW t \in Tools, phase'[q] # "down"
        PROVE  denials'[q][t] <= Cardinality(Denied(q, t)')
    BY <1>1, <1>10, <2>2 DEF IAsk, IOwnRun, Same
  <2>. QED BY <2>1, <2>2 DEF IOwnRun
<1>14. NoQuestionIsOrphaned'
  BY <1>1 DEF IAsk, NoQuestionIsOrphaned, Ids
<1>. QED BY <1>7, <1>8, <1>11, <1>12, <1>13, <1>14 DEF IAsk

\* An instance that ends takes its questions with it; its rejections stay what they were.
LEMMA AskExit ==
    ASSUME IInv, IAsk, NEW p \in Procs, Exit(p)
    PROVE  IAsk'
<1>1. /\ phase' = [phase EXCEPT ![p] = "down"] /\ dialog' = [dialog EXCEPT ![p] = NoCall]
      /\ denials' = [denials EXCEPT ![p] = [t \in Tools |-> 0]]
      /\ UNCHANGED <<run, runs, kinds>>
  BY DEF Exit
<1>2. Ended(p)
  BY ExitEnds DEF IInv, IType
<1>3. /\ phase'[p] = "down" /\ dialog'[p] = NoCall /\ \A t \in Tools : denials'[p][t] = 0
      /\ \A q \in Procs \ {p} : /\ phase'[q] = phase[q] /\ dialog'[q] = dialog[q]
                                /\ denials'[q] = denials[q]
  BY <1>1 DEF IInv, IType, IAsk, IRuns
<1>4. ASSUME NEW q \in Procs, NEW t \in Tools PROVE Same(q, t)
  BY <1>1, <1>2, <1>4, SetsAfterExit
<1>5. Ids' = Ids /\ \A c \in Ids : /\ calls'[c].proc = calls[c].proc /\ calls[c].proc \in Procs
                                   /\ calls'[c].req = calls[c].req /\ calls'[c].run = calls[c].run
                                   /\ calls'[c].answer = calls[c].answer
                                   /\ calls'[c].state \in {calls[c].state, "dead"}
                                   /\ calls'[c].state # calls[c].state => calls[c].proc = p
  BY <1>2, Fields DEF Ended, Ids, IInv, IType, Unsettled
<1>6. \A c \in Ids : calls'[c].state \notin Settled => calls[c].proc # p
  BY <1>2 DEF Ended, Unsettled, Settled
<1>7. \A q \in Procs : dialog[q] # NoCall => dialog[q] \in Ids
  BY DEF IInv, IDialog, Of
<1>8. IRuns'
  <2>1. denials' \in [Procs -> [Tools -> Nat]]
    BY <1>1 DEF IAsk, IRuns
  <2>. QED BY <1>1, <1>5, <2>1 DEF IAsk, IRuns
<1>9. IThisRun'
  <2>1. ASSUME NEW q \in Procs, dialog'[q] # NoCall
        PROVE  phase'[q] = "run" /\ calls'[dialog'[q]].run = run'[q]
    <3>1. q # p /\ dialog'[q] = dialog[q] /\ phase'[q] = phase[q] /\ dialog[q] \in Ids
      BY <1>3, <1>7, <2>1
    <3>. QED BY <1>1, <1>5, <2>1, <3>1 DEF IAsk, IThisRun
  <2>2. ASSUME NEW d \in Ids', calls'[d].state = "dead", calls'[d].run = run'[calls'[d].proc]
        PROVE  phase'[calls'[d].proc] \in {"down", "idle"}
    <3>1. CASE calls[d].proc = p
      BY <1>3, <1>5, <3>1
    <3>2. CASE calls[d].proc # p
      BY <1>1, <1>3, <1>5, <2>2, <3>2 DEF IAsk, IThisRun
    <3>. QED BY <3>1, <3>2
  <2>. QED BY <2>1, <2>2 DEF IThisRun
<1>10. ICounted'
  BY <1>3, <1>4 DEF IAsk, ICounted, Same
<1>11. ILimit'
  <2>. SUFFICES ASSUME "early" \notin kinds', NEW q \in Procs, NEW t \in Tools
                PROVE  /\ Cardinality(Rejections(q, t)') <= MaxDenials
                       /\ dialog'[q] # NoCall /\ calls'[dialog'[q]].req.tool = t
                            => Cardinality(Rejections(q, t)') < MaxDenials
    BY DEF ILimit
  <2>1. Rejections(q, t)' = Rejections(q, t) /\ "early" \notin kinds
    BY <1>1, <1>4 DEF Same
  <2>2. dialog'[q] # NoCall => dialog'[q] = dialog[q] /\ dialog[q] \in Ids
    BY <1>3, <1>7
  <2>. QED BY <1>5, <2>1, <2>2 DEF IAsk, ILimit
<1>12. IOwnRun'
  <2>. SUFFICES ASSUME "outlived" \notin kinds' PROVE IOwnRun'
    BY DEF IOwnRun
  <2>1. ASSUME NEW d \in Ids', calls'[d].state \in {"remember", "write"}
        PROVE  /\ phase'[calls'[d].proc] \in {"run", "cancelled"}
               /\ calls'[d].run = run'[calls'[d].proc]
    <3>1. d \in Ids /\ calls[d].state \in {"remember", "write"} /\ calls[d].proc \in Procs \ {p}
      BY <1>5, <1>6, <2>1 DEF Settled
    <3>2. phase[calls[d].proc] \in {"run", "cancelled"} /\ calls[d].run = run[calls[d].proc]
      BY <1>1, <3>1 DEF IAsk, IOwnRun
    <3>. QED BY <1>1, <1>3, <1>5, <3>1, <3>2
  <2>2. ASSUME NEW q \in Procs, NEW t \in Tools, phase'[q] # "down"
        PROVE  denials'[q][t] <= Cardinality(Denied(q, t)')
    BY <1>1, <1>3, <1>4, <2>2 DEF IAsk, IOwnRun, Same
  <2>. QED BY <2>1, <2>2 DEF IOwnRun
<1>13. NoQuestionIsOrphaned'
  <2>. SUFFICES ASSUME "parallel" \notin kinds', NEW q \in Procs, NEW d \in Ids',
                       calls'[d].proc = q, calls'[d].state = "asking"
                PROVE  dialog'[q] = d
    BY DEF NoQuestionIsOrphaned
  <2>1. d \in Ids /\ q # p /\ calls[d].state = "asking" /\ calls[d].proc = q
    BY <1>5, <1>6 DEF Settled
  <2>. QED BY <1>1, <1>3, <2>1 DEF IAsk, NoQuestionIsOrphaned
<1>. QED BY <1>8, <1>9, <1>10, <1>11, <1>12, <1>13 DEF IAsk

\* The dialog's call is answered.
LEMMA AskAnswered ==
    ASSUME IInv, IAsk, NEW p \in Procs, NEW answer \in Answers, dialog[p] # NoCall,
           Settle(dialog[p], answer), dialog' = [dialog EXCEPT ![p] = NoCall],
           phase' = phase \/ phase' = [phase EXCEPT ![p] = "cancelled"],
           UNCHANGED <<run, runs>>, kinds \subseteq kinds'
    PROVE  IAsk'
<1>. DEFINE c == dialog[p]
            s == IF Accepted(answer) THEN "allowed" ELSE "denied"
<1>1. c \in Ids /\ calls[c].proc = p /\ calls[c].state = "asking"
  BY DEF IInv, IDialog, Of
<1>2. Settle(c, answer) /\ calls \in Seq(Rec)
  BY DEF IInv, IType
<1>. HIDE DEF c
<1>3. Changed(c, s, answer, {})
  BY <1>1, <1>2, SettleChanges
<1>4. denials' = IF s = "denied" THEN [denials EXCEPT ![p][calls[c].req.tool] = @ + 1] ELSE denials
  BY <1>1, <1>2 DEF Settle
<1>5. /\ s \in {"allowed", "denied"}
      /\ s = "allowed" => answer \notin {"no", "never"}
      /\ s = "denied" => answer \in {"no", "never"}
  BY DEF Accepted, Answers
<1>6. dialog[p] = c
  BY DEF c
<1>. HIDE DEF s
<1>7. s \in {"remember", "write", "failed", "allowed", "denied"} /\ s \notin {"remember", "write"}
  BY <1>5
<1>. QED BY <1>1, <1>3, <1>4, <1>5, <1>6, <1>7, AskChange

LEMMA AskAnswerOnce ==
    ASSUME IInv, IAsk, NEW p \in Procs, NEW answer \in Answers, AnswerOnce(p, answer)
    PROVE  IAsk'
<1>1. kinds' = kinds
  BY DEF AnswerOnce, history
<1>. QED BY <1>1, AskAnswered DEF AnswerOnce

LEMMA AskAnswerForGood ==
    ASSUME IInv, IAsk, NEW p \in Procs, NEW answer \in {"always", "never"}, AnswerForGood(p, answer)
    PROVE  IAsk'
<1>. DEFINE c == dialog[p]
<1>1. c \in Ids /\ calls[c].proc = p /\ calls[c].state = "asking"
  BY DEF IInv, IDialog, Of, AnswerForGood
<1>2. /\ calls' = [calls EXCEPT ![c].answer = answer, ![c].state = "remember"]
      /\ dialog' = [dialog EXCEPT ![p] = NoCall] /\ phase' = phase /\ denials' = denials
      /\ UNCHANGED <<run, runs>> /\ kinds \subseteq kinds' /\ dialog[p] = c
  BY DEF AnswerForGood, Happened
<1>. HIDE DEF c
<1>3. Changed(c, "remember", answer, calls[c].list)
  <2>1. answer \in Answers /\ calls \in Seq(Rec)
    BY DEF Answers, IInv, IType
  <2>. QED BY <1>1, <1>2, <2>1, AnswerChanges
<1>4. /\ denials' = IF "remember" = "denied" THEN [denials EXCEPT ![p][calls[c].req.tool] = @ + 1]
                    ELSE denials
      /\ "remember" = "allowed" => answer \notin {"no", "never"}
      /\ "remember" = "denied" => answer \in {"no", "never"}
  BY <1>2
<1>. QED BY <1>1, <1>2, <1>3, <1>4, AskChange

LEMMA AskPersist ==
    ASSUME IInv, IAsk, NEW c \in Ids, Persist(c)
    PROVE  IAsk'
<1>. DEFINE p == calls[c].proc
            a == calls[c].answer
<1>1. p \in Procs /\ calls \in Seq(Rec)
  BY Fields DEF IInv, IType
<1>2. CASE ListRules(c)
  <2>1. Changed(c, "write", a, rules[p])
    <3>1. calls' = [calls EXCEPT ![c].state = "write", ![c].list = rules[p]]
      BY <1>2 DEF ListRules
    <3>2. rules[p] \in SUBSET Nat
      BY <1>1 DEF IInv, IType
    <3>. QED BY <1>1, <3>1, <3>2, ListChanges
  <2>2. /\ calls[c].state = "remember" /\ dialog' = dialog /\ phase' = phase /\ denials' = denials
        /\ UNCHANGED <<run, runs>> /\ kinds \subseteq kinds'
    BY <1>2 DEF ListRules, history
  <2>3. a \in {"always", "never"}
    BY <2>2 DEF IAsk, IRuns
  <2>4. /\ denials' = IF "write" = "denied" THEN [denials EXCEPT ![p][calls[c].req.tool] = @ + 1]
                      ELSE denials
        /\ "write" = "allowed" => a \notin {"no", "never"}
        /\ "write" = "denied" => a \in {"no", "never"}
    BY <2>2
  <2>. QED BY <1>1, <2>1, <2>2, <2>3, <2>4, AskChange
<1>3. CASE WriteFails(c)
  <2>1. Changed(c, "failed", a, {})
    <3>1. calls' = [calls EXCEPT ![c].state = "failed", ![c].list = {}]
      BY <1>3 DEF WriteFails
    <3>. QED BY <1>1, <3>1, ListChanges
  <2>2. /\ calls[c].state = "write" /\ dialog' = dialog /\ phase' = phase /\ denials' = denials
        /\ UNCHANGED <<run, runs>> /\ kinds \subseteq kinds'
    BY <1>3 DEF WriteFails, history
  <2>3. /\ denials' = IF "failed" = "denied" THEN [denials EXCEPT ![p][calls[c].req.tool] = @ + 1]
                      ELSE denials
        /\ "failed" = "allowed" => a \notin {"no", "never"}
        /\ "failed" = "denied" => a \in {"no", "never"}
        /\ "failed" \in {"remember", "write"} => a \in {"always", "never"}
    BY <2>2
  <2>. QED BY <1>1, <2>1, <2>2, <2>3, AskChange
<1>4. CASE WriteRules(c)
  <2>. DEFINE s == IF Accepted(a) THEN "allowed" ELSE "denied"
  <2>1. /\ calls[c].state = "write" /\ dialog' = dialog /\ phase' = phase /\ Settle(c, a)
        /\ UNCHANGED <<run, runs>> /\ kinds \subseteq kinds'
    BY <1>4 DEF WriteRules, Happened
  <2>2. a \in {"always", "never"} /\ a \in Answers
    BY <2>1 DEF IAsk, IRuns, Answers
  <2>3. Changed(c, s, a, {})
    BY <1>1, <2>1, <2>2, SettleChanges
  <2>4. denials' = IF s = "denied" THEN [denials EXCEPT ![p][calls[c].req.tool] = @ + 1]
                   ELSE denials
    BY <2>1 DEF Settle
  <2>5. /\ s \in {"allowed", "denied"}
        /\ s = "allowed" => a \notin {"no", "never"}
        /\ s = "denied" => a \in {"no", "never"}
    BY <2>2 DEF Accepted, Answers
  <2>. HIDE DEF s
  <2>6. s \in {"remember", "write", "failed", "allowed", "denied"} /\ s \notin {"remember", "write"}
    BY <2>5
  <2>. QED BY <1>1, <2>1, <2>3, <2>4, <2>5, <2>6, AskChange
<1>. QED BY <1>2, <1>3, <1>4 DEF Persist

\* Ctrl+C answers the question on the screen, if there is one.
LEMMA AskInterrupt ==
    ASSUME IInv, IAsk, NEW p \in Procs, Interrupt(p)
    PROVE  IAsk'
<1>1. /\ phase[p] = "run" /\ phase' = [phase EXCEPT ![p] = "cancelled"]
      /\ dialog' = [dialog EXCEPT ![p] = NoCall]
      /\ UNCHANGED <<run, runs, kinds>>
  BY DEF Interrupt, history
<1>2. CASE dialog[p] # NoCall
  <2>1. Settle(dialog[p], "no") /\ "no" \in Answers
    BY <1>2 DEF Interrupt, Answers
  <2>. QED BY <1>1, <1>2, <2>1, AskAnswered
<1>3. CASE dialog[p] = NoCall
  <2>1. calls' = calls /\ dialog' = dialog /\ denials' = denials
    BY <1>1, <1>3 DEF Interrupt, IInv, IType
  <2>2. denials' \in [Procs -> [Tools -> Nat]]
    BY <2>1 DEF IAsk, IRuns
  <2>3. ASSUME NEW q \in Procs
        PROVE  /\ phase'[q] = "run" => phase[q] = "run" /\ denials'[q] = denials[q]
               /\ dialog[q] # NoCall => phase'[q] = phase[q]
               /\ phase[q] \in {"down", "idle"} => phase'[q] \in {"down", "idle"}
               /\ \/ denials'[q] = denials[q] /\ (phase'[q] # "down" => phase[q] # "down")
                  \/ \A t \in Tools : denials'[q][t] = 0
               /\ "outlived" \notin kinds' =>
                      Writing(q) = {} \/ phase'[q] \in {"run", "cancelled"}
    <3>1. phase'[q] = IF q = p THEN "cancelled" ELSE phase[q]
      BY <1>1 DEF IInv, IType
    <3>2. "outlived" \notin kinds' => Writing(q) = {} \/ phase[q] \in {"run", "cancelled"}
      BY <1>1 DEF IAsk, IOwnRun, Writing, Of
    <3>. QED BY <1>1, <1>3, <2>1, <3>1, <3>2
  <2>. QED BY <1>1, <2>1, <2>2, <2>3, AskQuiet
<1>. QED BY <1>2, <1>3

\* What touches no call: the end of a run, a command, the start of an instance.
LEMMA AskElse ==
    ASSUME IInv, IAsk,
           \/ UNCHANGED vars
           \/ \E p \in Procs : \/ EndRun(p)
                               \/ \E m \in Modes : SetMode(p, m) \/ Start(p, m)
                               \/ \E i \in rules[p] : Forget(p, i)
    PROVE  IAsk'
<1>1. ASSUME NEW q \in Procs
      PROVE  "outlived" \notin kinds => Writing(q) = {} \/ phase[q] \in {"run", "cancelled"}
  BY DEF IAsk, IOwnRun, Writing, Of
<1>2. CASE phase' = phase /\ denials' = denials /\ UNCHANGED <<calls, dialog, run, runs>>
           /\ kinds \subseteq kinds'
  <2>1. denials' \in [Procs -> [Tools -> Nat]]
    BY <1>2 DEF IAsk, IRuns
  <2>. QED BY <1>1, <1>2, <2>1, AskQuiet
<1>3. ASSUME NEW p \in Procs, EndRun(p) PROVE IAsk'
  <2>1. /\ phase[p] = "cancelled" \/ (phase[p] = "run" /\ Unsettled(p) = {})
        /\ phase' = [phase EXCEPT ![p] = "idle"]
        /\ kinds \subseteq kinds' /\ ("outlived" \notin kinds' => Writing(p) = {})
        /\ UNCHANGED <<calls, dialog, run, runs, denials>>
    BY <1>3 DEF EndRun, Happened
  <2>2. dialog[p] = NoCall
    <3>1. CASE phase[p] = "cancelled"
      BY <3>1 DEF IAsk, IThisRun
    <3>2. CASE Unsettled(p) = {}
      BY <3>2 DEF IInv, IDialog, Of, Unsettled, Settled
    <3>. QED BY <2>1, <3>1, <3>2
  <2>3. denials' \in [Procs -> [Tools -> Nat]]
    BY <2>1 DEF IAsk, IRuns
  <2>4. ASSUME NEW q \in Procs
        PROVE  /\ phase'[q] = "run" => phase[q] = "run" /\ denials'[q] = denials[q]
               /\ dialog[q] # NoCall => phase'[q] = phase[q]
               /\ phase[q] \in {"down", "idle"} => phase'[q] \in {"down", "idle"}
               /\ \/ denials'[q] = denials[q] /\ (phase'[q] # "down" => phase[q] # "down")
                  \/ \A t \in Tools : denials'[q][t] = 0
               /\ "outlived" \notin kinds' =>
                      Writing(q) = {} \/ phase'[q] \in {"run", "cancelled"}
    <3>1. phase'[q] = IF q = p THEN "idle" ELSE phase[q]
      BY <2>1 DEF IInv, IType
    <3>. QED BY <1>1, <2>1, <2>2, <3>1
  <2>. QED BY <2>1, <2>3, <2>4, AskQuiet
<1>4. ASSUME NEW p \in Procs, NEW m \in Modes, Start(p, m) PROVE IAsk'
  <2>1. /\ phase[p] = "down" /\ phase' = [phase EXCEPT ![p] = "idle"]
        /\ denials' = [denials EXCEPT ![p] = [t \in Tools |-> 0]]
        /\ kinds' = kinds /\ UNCHANGED <<calls, dialog, run, runs>>
    BY <1>4 DEF Start
  <2>2. dialog[p] = NoCall
    BY <2>1 DEF IAsk, IThisRun
  <2>3. denials' \in [Procs -> [Tools -> Nat]]
    BY <2>1 DEF IAsk, IRuns
  <2>4. Writing(p) = {}
    BY <2>1 DEF IInv, IDown, Writing, Of, Settled
  <2>5. ASSUME NEW q \in Procs
        PROVE  /\ phase'[q] = "run" => phase[q] = "run" /\ denials'[q] = denials[q]
               /\ dialog[q] # NoCall => phase'[q] = phase[q]
               /\ phase[q] \in {"down", "idle"} => phase'[q] \in {"down", "idle"}
               /\ \/ denials'[q] = denials[q] /\ (phase'[q] # "down" => phase[q] # "down")
                  \/ \A t \in Tools : denials'[q][t] = 0
               /\ "outlived" \notin kinds' =>
                      Writing(q) = {} \/ phase'[q] \in {"run", "cancelled"}
    <3>1. phase'[q] = IF q = p THEN "idle" ELSE phase[q]
      BY <2>1 DEF IInv, IType
    <3>2. denials'[q] = IF q = p THEN [t \in Tools |-> 0] ELSE denials[q]
      BY <2>1 DEF IAsk, IRuns
    <3>. QED BY <1>1, <2>1, <2>2, <2>4, <3>1, <3>2
  <2>. QED BY <2>1, <2>3, <2>5, AskQuiet
<1>. QED BY <1>2, <1>3, <1>4 DEF vars, history, SetMode, Forget

LEMMA StepAsk == IInv /\ IAsk /\ [Next]_vars => IAsk'
<1>. SUFFICES ASSUME IInv, IAsk, [Next]_vars PROVE IAsk'
  OBVIOUS
<1>1. ASSUME NEW p \in Procs, NEW r \in Requests, CallSettled(p, r) \/ CallAsks(p, r)
      PROVE  IAsk'
  BY <1>1, AskNew
<1>2. ASSUME NEW p \in Procs, AnswerKey(p) PROVE IAsk'
  BY <1>2, AskAnswerOnce, AskAnswerForGood DEF AnswerKey
<1>3. ASSUME NEW p \in Procs, Interrupt(p) \/ BeginRun(p) \/ Exit(p) PROVE IAsk'
  BY <1>3, AskInterrupt, AskBegin, AskExit
<1>4. ASSUME NEW c \in Ids, Persist(c) PROVE IAsk'
  BY <1>4, AskPersist
<1>. QED BY <1>1, <1>2, <1>3, <1>4, AskElse DEF Next

\* A tool is rejected at most MAX_DENIALS_PER_RUN times in a run before it is locked, no run
\* starts with the rejections of an earlier one, and no question is left without the dialog,
\* whatever the order of parallel calls, answers, interruptions, restarts and writes of rules,
\* outside the three cases the property names (authorize, confirm, beginRun).
THEOREM EveryQuestionIsAnswered == Spec => []QuestionsAreAnswered
<1>1. IInv /\ IAsk => QuestionsAreAnswered
  <2>. SUFFICES ASSUME IInv, IAsk PROVE QuestionsAreAnswered
    OBVIOUS
  <2>1. RejectedAtMostMaxDenials
    BY DEF IAsk, ILimit, RejectedAtMostMaxDenials
  <2>2. BudgetIsPerRun
    <3>. SUFFICES ASSUME "outlived" \notin kinds, NEW p \in Procs, NEW t \in Tools, phase[p] # "down"
                  PROVE  denials[p][t] <= Cardinality(Rejections(p, t))
      BY DEF BudgetIsPerRun
    <3>1. denials[p][t] <= Cardinality(Denied(p, t)) /\ denials[p][t] \in Nat
      BY DEF IAsk, IOwnRun, IRuns
    <3>2. /\ Cardinality(Rejections(p, t)) \in Nat /\ Cardinality(Denied(p, t)) \in Nat
          /\ Cardinality(Denied(p, t)) <= Cardinality(Rejections(p, t))
      BY SetsAreFinite DEF IInv, IType
    <3>. QED BY <3>1, <3>2
  <2>. QED BY <2>1, <2>2 DEF IAsk, QuestionsAreAnswered
<1>. QED BY <1>1, Invariant, InitAsk, StepAsk, PTL DEF Spec
=============================================================================
