------------------------- MODULE InterruptedRunsProofs -------------------------
(* Proofs about InterruptedRuns, for every number of instances, chats, runs and faults: *)
(* what a crash cuts off is reported and can be taken back, and nothing else is asked   *)
(* about.                                                                               *)
EXTENDS InterruptedRuns, NaturalsInduction, WellFoundedInduction, TLAPS

HasLog(r)  == log[r] # NoLog
WithEnd(l) == l # NoLog /\ l.ended
IsTorn(l)  == l # NoLog /\ l.torn

\* Lines on their way: none, or the last one, is the end of the run.
AllEvents(s) == \A i \in 1..Len(s) : s[i] = "event"
EndsIn(s)    == s # <<>> /\ s[Len(s)] = "end"

Up(p) == state[p] # "down"

\* What is known about a run is known about one that began.
IBegun ==
    /\ over \subseteq 1..runs /\ cut \subseteq 1..runs /\ changed \subseteq 1..runs
    /\ decided \subseteq 1..runs /\ undone \subseteq 1..runs
    /\ \A r \in Runs : HasLog(r) => r <= runs
    /\ \A r \in Runs : queue[r] # <<>> => HasLog(r)

\* Each instance works on a run of its own, in the chat its log lies under.
IWorking ==
    /\ \A p \in Procs : Up(p) => chat[p] \in Chats /\ home[p] \in Chats
    /\ \A p \in Procs :
          Working(p) => /\ current[p] \in 1..runs /\ current[p] \notin cut
                        /\ HasLog(current[p]) => log[current[p]].chat = chat[p]
    /\ \A p, q \in Procs : Working(p) /\ Working(q) /\ current[p] = current[q] => p = q

\* It asks about a run of its chat.
IFound ==
    \A p \in Procs :
        state[p] = "asked" => HasLog(found[p]) /\ log[found[p]].chat = chat[p]

\* The log of a run that is going, or was cut, has an end only when the user has
\* decided about it.
IOpen ==
    /\ \A p \in Procs :
          state[p] = "run" => /\ WithEnd(log[current[p]]) => current[p] \in decided
                              /\ AllEvents(queue[current[p]])
    /\ \A r \in cut : WithEnd(log[r]) => r \in decided

\* At home, what a run changed and saved has its checkpoint under the chat of its log.
ISaved ==
    kinds \cap {"moved", "pruned"} = {} => \A r \in changed : HasLog(r) => <<r, log[r].chat>> \in saved

\* With a disk that works, the one change that is not saved is the one being made.
ILoose ==
    /\ \A r \in Runs : r > runs => loose[r] = 0
    /\ "disk" \notin kinds =>
          /\ \A r \in Runs : loose[r] <= 1
          /\ \A p \in Procs : state[p] = "run" /\ writing[p] = "no" => loose[current[p]] = 0

\* What was taken back and saved is gone.
IGone == kinds \cap {"moved", "shared", "pruned"} = {} => undone \cap changed = {}

\* Each instance in a chat of its own, nobody decides about a run that is going.
IAlone ==
    "shared" \notin kinds =>
        /\ \A p, q \in Procs : Up(p) /\ Up(q) /\ chat[p] = chat[q] => p = q
        /\ \A p \in Procs : Working(p) => current[p] \notin undone

\* With a disk that works, the log of a run that ended has an end, or will get it.
IOver ==
    "disk" \notin kinds =>
        /\ \A r \in over : HasLog(r) => WithEnd(log[r])
        /\ \A p \in Procs :
              state[p] = "closing" /\ HasLog(current[p]) =>
                  WithEnd(log[current[p]]) \/ EndsIn(queue[current[p]])

\* A decision is written down where no line is torn.
IDecided ==
    "torn" \notin kinds =>
        /\ \A r \in Runs : ~IsTorn(log[r])
        /\ \A r \in decided : WithEnd(log[r])

IInv == /\ TypeOK /\ IBegun /\ IWorking /\ IFound /\ IOpen /\ ISaved /\ IAlone
        /\ IGone /\ IOver /\ IDecided /\ ILoose

-----------------------------------------------------------------------------
(* The greatest of a set of numbers *)

\* A nonempty set of numbers that has a bound has a greatest element.
LEMMA MaxIsMember ==
    ASSUME NEW n \in Nat, NEW S \in SUBSET (1..n), S # {}
    PROVE  Max(S) \in S
<1>. DEFINE R == OpToRel(<, Nat)
<1>. DEFINE T == {n - x : x \in S}
<1>1. IsWellFoundedOn(R, Nat)
  BY NatLessThanWellFounded
<1>2. T \subseteq Nat /\ T # {}
  <2>1. \A x \in S : n - x \in Nat
    OBVIOUS
  <2>2. PICK x \in S : TRUE
    OBVIOUS
  <2>. HIDE DEF R
  <2>. QED BY <2>1, <2>2
<1>3. PICK m \in T : \A y \in T : ~(<<y, m>> \in R)
  <2>. HIDE DEF R, T
  <2>. QED BY <1>1, <1>2, WFMin
<1>4. PICK x \in S : m = n - x
  OBVIOUS
<1>5. \A y \in S : x >= y
  <2>. SUFFICES ASSUME NEW y \in S, ~(x >= y) PROVE FALSE
    OBVIOUS
  <2>1. n - y < m /\ n - y \in T /\ n - y \in Nat /\ m \in Nat
    BY <1>4
  <2>2. <<n - y, m>> \in R
    BY <2>1 DEF OpToRel
  <2>. QED BY <1>3, <2>1, <2>2
<1>. QED BY <1>5 DEF Max

-----------------------------------------------------------------------------
(* Lines and logs *)

LEMMA Lines ==
    ASSUME NEW s \in Seq({"event", "end"})
    PROVE  /\ AllEvents(s) => EndsIn(Append(s, "end"))
           /\ s # <<>> /\ AllEvents(s) => AllEvents(Tail(s)) /\ Head(s) # "end"
           /\ EndsIn(s) /\ Head(s) # "end" => EndsIn(Tail(s))
<1>1. AllEvents(s) => EndsIn(Append(s, "end"))
  BY DEF EndsIn
<1>2. s # <<>> /\ AllEvents(s) => AllEvents(Tail(s)) /\ Head(s) # "end"
  BY DEF AllEvents
<1>3. ASSUME EndsIn(s), Head(s) # "end" PROVE EndsIn(Tail(s))
  <2>1. s # <<>> /\ Len(s) \in Nat /\ Len(s) # 1 /\ Len(s) > 0
    BY <1>3 DEF EndsIn
  <2>2. /\ Tail(s) \in Seq({"event", "end"}) /\ Len(Tail(s)) = Len(s) - 1
        /\ Tail(s)[Len(s) - 1] = s[Len(s)]
    BY <2>1
  <2>3. Tail(s) # <<>>
    BY <2>1, <2>2
  <2>. QED BY <1>3, <2>2, <2>3 DEF EndsIn
<1>. QED BY <1>1, <1>2, <1>3

LEMMA NewLog ==
    ASSUME NEW c \in Chats, NEW l, l = [chat |-> c, ended |-> FALSE, torn |-> FALSE]
    PROVE  l \in LogFile /\ l # NoLog /\ l.chat = c /\ ~WithEnd(l) /\ ~IsTorn(l)
<1>1. l \in LogFile
  BY DEF LogFile
<1>2. l # NoLog
  BY <1>1, NoLogAssumption
<1>. QED BY <1>1, <1>2 DEF WithEnd, IsTorn

LEMMA EndedLog ==
    ASSUME NEW l \in LogFile, NEW new, new = [l EXCEPT !.ended = TRUE]
    PROVE  /\ new \in LogFile /\ new # NoLog /\ new.chat = l.chat
           /\ WithEnd(new) /\ (IsTorn(new) => IsTorn(l))
<1>1. new \in LogFile /\ new.chat = l.chat /\ new.torn = l.torn /\ new.ended = TRUE
  BY DEF LogFile
<1>2. new # NoLog /\ l # NoLog
  BY <1>1, NoLogAssumption
<1>. QED BY <1>1, <1>2, Zenon DEF WithEnd, IsTorn

LEMMA TornLog ==
    ASSUME NEW l \in LogFile, NEW new, new = [l EXCEPT !.torn = TRUE]
    PROVE  /\ new \in LogFile /\ new # NoLog /\ new.chat = l.chat
           /\ WithEnd(new) <=> WithEnd(l)
<1>1. new \in LogFile /\ new.chat = l.chat /\ new.ended = l.ended
  BY DEF LogFile
<1>2. new # NoLog /\ l # NoLog
  BY <1>1, NoLogAssumption
<1>. QED BY <1>1, <1>2, Zenon DEF WithEnd

LEMMA MarkedLog ==
    ASSUME NEW l \in LogFile, NEW new,
           new = [l EXCEPT !.ended = @ \/ ~l.torn, !.torn = FALSE]
    PROVE  /\ new \in LogFile /\ new # NoLog /\ new.chat = l.chat
           /\ WithEnd(l) \/ ~IsTorn(l) => WithEnd(new)
           /\ ~IsTorn(new)
<1>1. /\ new \in LogFile /\ new.chat = l.chat
      /\ new.ended = (l.ended \/ ~l.torn) /\ new.torn = FALSE
  BY DEF LogFile
<1>2. new # NoLog /\ l # NoLog
  BY <1>1, NoLogAssumption
<1>. QED BY <1>1, <1>2, Zenon DEF WithEnd, IsTorn

-----------------------------------------------------------------------------
(* What a step does to the logs *)

\* No log comes or goes or changes its chat, an end stays, and a new one is in Ends.
LogStep(Ends) ==
    /\ log' \in [Runs -> LogFile \cup {NoLog}]
    /\ \A r \in Runs : /\ (log'[r] # NoLog) <=> (log[r] # NoLog)
                       /\ log'[r].chat = log[r].chat
                       /\ WithEnd(log[r]) => WithEnd(log'[r])
                       /\ WithEnd(log'[r]) => r \in Ends \/ WithEnd(log[r])

NoneTorn == \A r \in Runs : ~IsTorn(log[r])

LEMMA LogChanged ==
    ASSUME log \in [Runs -> LogFile \cup {NoLog}], NEW f \in Runs, log[f] # NoLog,
           NEW new \in LogFile, new # NoLog, new.chat = log[f].chat,
           WithEnd(log[f]) => WithEnd(new), log' = [log EXCEPT ![f] = new]
    PROVE  /\ LogStep({f})
           /\ WithEnd(log[f]) \/ ~WithEnd(new) => LogStep({})
           /\ NoneTorn /\ ~IsTorn(new) => NoneTorn'
<1>1. log' \in [Runs -> LogFile \cup {NoLog}] /\ log'[f] = new
  OBVIOUS
<1>2. \A r \in Runs : r # f => log'[r] = log[r]
  OBVIOUS
<1>3. \A r \in Runs : /\ (log'[r] # NoLog) <=> (log[r] # NoLog)
                      /\ log'[r].chat = log[r].chat
                      /\ WithEnd(log[r]) => WithEnd(log'[r])
  BY <1>1, <1>2
<1>4. LogStep({f})
  BY <1>1, <1>2, <1>3 DEF LogStep
<1>5. ASSUME WithEnd(log[f]) \/ ~WithEnd(new) PROVE LogStep({})
  BY <1>1, <1>2, <1>3, <1>5 DEF LogStep
<1>6. NoneTorn /\ ~IsTorn(new) => NoneTorn'
  BY <1>1, <1>2 DEF NoneTorn
<1>. QED BY <1>4, <1>5, <1>6

LEMMA LogUnchanged ==
    ASSUME TypeOK, log' = log
    PROVE  LogStep({}) /\ (NoneTorn => NoneTorn')
BY DEF LogStep, NoneTorn, TypeOK

LEMMA LogMarked ==
    ASSUME TypeOK, NEW f \in Runs, HasLog(f), log' = Marked(f)
    PROVE  /\ LogStep({f}) /\ (NoneTorn => NoneTorn')
           /\ NoneTorn => WithEnd(log'[f])
<1>. DEFINE l == log[f]
            new == [l EXCEPT !.ended = @ \/ ~l.torn, !.torn = FALSE]
<1>1. l \in LogFile /\ log \in [Runs -> LogFile \cup {NoLog}] /\ log[f] # NoLog
  BY DEF TypeOK, HasLog
<1>2. log' = [log EXCEPT ![f] = new]
  BY <1>1 DEF Marked
<1>3. /\ new \in LogFile /\ new # NoLog /\ new.chat = l.chat
      /\ WithEnd(l) \/ ~IsTorn(l) => WithEnd(new)
      /\ ~IsTorn(new)
  BY <1>1, MarkedLog
<1>. HIDE DEF new
<1>4. LogStep({f}) /\ (NoneTorn => NoneTorn') /\ log'[f] = new
  BY <1>1, <1>2, <1>3, LogChanged
<1>. QED BY <1>1, <1>3, <1>4 DEF NoneTorn

LEMMA LogAppended ==
    ASSUME TypeOK, NEW f \in Runs, HasLog(f), log' = [log EXCEPT ![f].ended = TRUE]
    PROVE  LogStep({f}) /\ (NoneTorn => NoneTorn') /\ WithEnd(log'[f])
<1>. DEFINE l == log[f]
            new == [l EXCEPT !.ended = TRUE]
<1>1. l \in LogFile /\ log \in [Runs -> LogFile \cup {NoLog}] /\ log[f] # NoLog
  BY DEF TypeOK, HasLog
<1>2. log' = [log EXCEPT ![f] = new]
  BY <1>1
<1>3. /\ new \in LogFile /\ new # NoLog /\ new.chat = l.chat
      /\ WithEnd(new) /\ (IsTorn(new) => IsTorn(l))
  BY <1>1, EndedLog
<1>. HIDE DEF new
<1>4. LogStep({f}) /\ (NoneTorn /\ ~IsTorn(new) => NoneTorn') /\ log'[f] = new
  BY <1>1, <1>2, <1>3, LogChanged
<1>. QED BY <1>1, <1>3, <1>4 DEF NoneTorn

LEMMA LogTorn ==
    ASSUME TypeOK, NEW f \in Runs, HasLog(f), log' = [log EXCEPT ![f].torn = TRUE]
    PROVE  LogStep({})
<1>. DEFINE l == log[f]
            new == [l EXCEPT !.torn = TRUE]
<1>1. l \in LogFile /\ log \in [Runs -> LogFile \cup {NoLog}] /\ log[f] # NoLog
  BY DEF TypeOK, HasLog
<1>2. log' = [log EXCEPT ![f] = new]
  BY <1>1
<1>3. /\ new \in LogFile /\ new # NoLog /\ new.chat = l.chat
      /\ WithEnd(new) <=> WithEnd(l)
  BY <1>1, TornLog
<1>. HIDE DEF new
<1>. QED BY <1>1, <1>2, <1>3, LogChanged

-----------------------------------------------------------------------------
(* A step keeps the invariant *)

LEMMA InitInv == Init => IInv
<1>. SUFFICES ASSUME Init PROVE IInv
  OBVIOUS
<1>1. TypeOK
  BY InterruptedRunsAssumption DEF Init, TypeOK
<1>2. /\ \A r \in Runs : log[r] = NoLog /\ queue[r] = <<>>
      /\ \A p \in Procs : state[p] = "down"
  BY DEF Init
<1>3. IBegun /\ IWorking /\ IFound /\ IOpen
  BY <1>2 DEF Init, IBegun, IWorking, IFound, IOpen, HasLog, Up, Working
<1>4. ISaved /\ IAlone /\ IGone /\ IOver /\ ILoose
  BY <1>2 DEF Init, ISaved, IAlone, IGone, IOver, ILoose, HasLog, Up, Working
<1>5. IDecided
  BY <1>2 DEF Init, IDecided, IsTorn
<1>. QED BY <1>1, <1>3, <1>4, <1>5 DEF IInv

\* The process is gone, with the lines its run had not written yet.
LEMMA Vanished ==
    ASSUME TypeOK, NEW p \in Procs, Vanish(p)
    PROVE  /\ state' \in [Procs -> {"down", "idle", "asked", "run", "closing"}]
           /\ chat' \in [Procs -> Chats \cup {NoChat}]
           /\ home' \in [Procs -> Chats \cup {NoChat}]
           /\ journal' \in [Procs -> SUBSET Runs]
           /\ current' \in [Procs -> 0..runs] /\ found' \in [Procs -> 0..runs]
           /\ \A q \in Procs : (state'[q] = "asked") = (found'[q] # 0)
           /\ writing' \in [Procs -> {"no", "wrote", "pushed"}] /\ hydrated' \in [Procs -> 0..runs]
           /\ queue' \in [Runs -> Seq({"event", "end"})]
           /\ state'[p] = "down" /\ found'[p] = 0
           /\ \A q \in Procs : q # p => /\ state'[q] = state[q] /\ chat'[q] = chat[q]
                                        /\ home'[q] = home[q] /\ found'[q] = found[q]
                                        /\ current'[q] = current[q]
           /\ \A r \in Runs : queue'[r] = queue[r] \/ queue'[r] = <<>>
           /\ \A r \in Runs : ~(Working(p) /\ r = current[p]) => queue'[r] = queue[r]
           /\ cut \subseteq cut' /\ cut' \subseteq cut \cup {current[p]}
           /\ current[p] \in cut' => current[p] \in cut \/ state[p] = "run"
BY DEF TypeOK, Vanish, Goto

\* A tool changes a file, or a checkpoint is pruned.
Touch(p) ==
    \/ WriteFile(p) \/ Push(p) \/ Save(p) \/ SaveFails(p)
    \/ \E r \in Runs, c \in Chats : Prune(p, r, c)

LEMMA TouchStep ==
    ASSUME NEW p \in Procs, Touch(p)
    PROVE  /\ UNCHANGED <<state, chat, home, current, found, log, queue, runs, over, cut, decided, undone>>
           /\ state[p] # "down" /\ kinds \subseteq kinds'
           /\ changed' = changed \/ (state[p] = "run" /\ changed' = changed \cup {current[p]})
<1>1. CASE WriteFile(p)
  BY <1>1 DEF WriteFile, procVars, fileVars, history
<1>2. CASE Push(p)
  BY <1>2 DEF Push, fileVars, history
<1>3. CASE Save(p)
  BY <1>3 DEF Save, procVars
<1>4. CASE SaveFails(p)
  BY <1>4 DEF SaveFails, procVars, fileVars
<1>5. CASE \E r \in Runs, c \in Chats : Prune(p, r, c)
  BY <1>5 DEF Prune, procVars
<1>. QED BY <1>1, <1>2, <1>3, <1>4, <1>5 DEF Touch

LEMMA QueueTyped ==
    ASSUME TypeOK, NEW r \in Runs, NEW s \in Seq({"event", "end"}),
           queue' = [queue EXCEPT ![r] = s]
    PROVE  queue' \in [Runs -> Seq({"event", "end"})]
BY DEF TypeOK

LEMMA StepType ==
    ASSUME IInv, Next
    PROVE  TypeOK'
<1>. USE DEF Goto, Answered, fileVars, procVars, changes, history
<1>0. TypeOK /\ IBegun /\ IWorking /\ runs \in Nat /\ MaxRuns \in Nat /\ faults \in Nat /\ MaxFaults \in Nat
  BY InterruptedRunsAssumption DEF IInv, TypeOK
<1>1. ASSUME NEW p \in Procs, NEW c \in Chats, Start(p, c) \/ SwitchChat(p, c) PROVE TypeOK'
  BY <1>0, <1>1, ZenonT(40) DEF TypeOK, Start, SwitchChat
<1>2. ASSUME NEW p \in Procs, Quit(p) PROVE TypeOK'
  BY <1>0, <1>2, Vanished DEF TypeOK, Quit
<1>3. ASSUME NEW p \in Procs, NEW torn \in BOOLEAN, Crash(p, torn) PROVE TypeOK'
  <2>1. log' \in [Runs -> LogFile \cup {NoLog}]
    BY <1>0, <1>3, LogTorn DEF TypeOK, Crash, LogStep, IWorking, IBegun
  <2>2. faults' \in 0..MaxFaults
    BY <1>0, <1>3 DEF Crash, Fault
  <2>. QED BY <1>0, <1>3, <2>1, <2>2, Vanished DEF TypeOK, Crash
<1>4. ASSUME NEW p \in Procs, BeginRun(p) PROVE TypeOK'
  <2>1. runs + 1 \in Runs /\ runs' = runs + 1 /\ chat[p] \in Chats
    BY <1>0, <1>4 DEF BeginRun, Runs, IWorking, Up
  <2>2. log' \in [Runs -> LogFile \cup {NoLog}]
    BY <1>0, <1>4, <2>1, NewLog DEF BeginRun, TypeOK
  <2>3. queue' \in [Runs -> Seq({"event", "end"})]
    <3>1. <<"event">> \in Seq({"event", "end"})
      OBVIOUS
    <3>. QED BY <1>0, <1>4, <2>1, <3>1, QueueTyped DEF BeginRun
  <2>4. current' \in [Procs -> 0..runs'] /\ found' \in [Procs -> 0..runs'] /\ runs' \in 0..MaxRuns
    BY <1>0, <1>4, <2>1 DEF BeginRun, TypeOK
  <2>. QED BY <1>0, <1>4, <2>1, <2>2, <2>3, <2>4 DEF TypeOK, BeginRun
<1>5. ASSUME NEW p \in Procs, BeginRunUnlogged(p) PROVE TypeOK'
  BY <1>0, <1>5 DEF TypeOK, BeginRunUnlogged, Fault
<1>6. ASSUME NEW p \in Procs, Touch(p) PROVE TypeOK'
  <2>0. /\ current[p] \in Runs \/ state[p] # "run"
        /\ state[p] = "run" => home[p] \in Chats
    BY <1>0 DEF TypeOK, IWorking, Working, Up, Runs
  <2>1. CASE WriteFile(p)
    <3>1. loose[current[p]] + 1 \in Nat
      BY <1>0, <2>0, <2>1 DEF TypeOK, WriteFile
    <3>2. loose' \in [Runs -> Nat]
      BY <1>0, <2>1, <3>1 DEF TypeOK, WriteFile
    <3>. QED BY <1>0, <2>1, <3>2 DEF TypeOK, WriteFile
  <2>2. CASE Push(p)
    <3>1. journal' \in [Procs -> SUBSET Runs]
      BY <1>0, <2>0, <2>2 DEF TypeOK, Push
    <3>. QED BY <1>0, <2>2, <3>1 DEF TypeOK, Push
  <2>3. CASE Save(p)
    <3>1. /\ changed' \subseteq Runs /\ saved' \subseteq Runs \X Chats
          /\ loose' \in [Runs -> Nat]
      BY <1>0, <2>0, <2>3 DEF TypeOK, Save
    <3>. QED BY <1>0, <2>3, <3>1 DEF TypeOK, Save
  <2>4. CASE SaveFails(p)
    BY <1>0, <2>4 DEF TypeOK, SaveFails, Fault
  <2>5. CASE \E r \in Runs, c \in Chats : Prune(p, r, c)
    BY <1>0, <2>5 DEF TypeOK, Prune, Fault
  <2>. QED BY <1>6, <2>1, <2>2, <2>3, <2>4, <2>5 DEF Touch
<1>7. ASSUME NEW p \in Procs, EndRun(p) PROVE TypeOK'
  <2>1. current[p] \in Runs
    BY <1>0, <1>7 DEF EndRun, IWorking, Working, TypeOK, Runs
  <2>2. queue' \in [Runs -> Seq({"event", "end"})]
    BY <1>0, <1>7, <2>1, QueueTyped DEF EndRun, TypeOK
  <2>. QED BY <1>0, <1>7, <2>2 DEF TypeOK, EndRun
<1>8. ASSUME NEW p \in Procs, AppendLine(p) PROVE TypeOK'
  <2>1. current[p] \in Runs /\ HasLog(current[p])
    BY <1>0, <1>8 DEF AppendLine, IWorking, IBegun, TypeOK, Runs
  <2>2. queue' \in [Runs -> Seq({"event", "end"})]
    BY <1>0, <1>8, <2>1, QueueTyped DEF AppendLine, TypeOK
  <2>3. log' \in [Runs -> LogFile \cup {NoLog}]
    BY <1>0, <1>8, <2>1, LogAppended DEF TypeOK, AppendLine, LogStep
  <2>. QED BY <1>0, <1>8, <2>2, <2>3 DEF TypeOK, AppendLine
<1>9. ASSUME NEW p \in Procs, AppendFails(p) PROVE TypeOK'
  <2>1. current[p] \in Runs
    BY <1>0, <1>9 DEF AppendFails, IWorking, TypeOK, Runs
  <2>2. faults' \in 0..MaxFaults
    BY <1>0, <1>9 DEF AppendFails, Fault
  <2>3. CASE state[p] = "run"
    BY <1>0, <1>9, <2>2, <2>3, Vanished DEF TypeOK, AppendFails
  <2>4. CASE state[p] = "closing"
    <3>1. queue' \in [Runs -> Seq({"event", "end"})]
      <4>1. <<>> \in Seq({"event", "end"})
        OBVIOUS
      <4>. QED BY <1>0, <1>9, <2>1, <2>4, <4>1, QueueTyped DEF AppendFails
    <3>. QED BY <1>0, <1>9, <2>2, <2>4, <3>1 DEF TypeOK, AppendFails
  <2>. QED BY <1>9, <2>3, <2>4 DEF AppendFails
<1>10. ASSUME NEW p \in Procs, Closed(p) PROVE TypeOK'
  BY <1>0, <1>10 DEF TypeOK, Closed
<1>11. ASSUME NEW p \in Procs, UndoOwn(p) PROVE TypeOK'
  <2>1. loose' \in [Runs -> Nat] /\ journal' \in [Procs -> SUBSET Runs]
    BY <1>0, <1>11 DEF TypeOK, UndoOwn
  <2>. QED BY <1>0, <1>11, <2>1 DEF TypeOK, UndoOwn
<1>12. ASSUME NEW p \in Procs, Find(p) PROVE TypeOK'
  <2>1. LogsOf(chat[p]) \in SUBSET (1..runs)
    BY <1>0 DEF LogsOf, IBegun, HasLog, Runs
  <2>2. found'[p] \in 1..runs /\ found' = [found EXCEPT ![p] = found'[p]]
    BY <1>0, <1>12, <2>1, MaxIsMember DEF Find, TypeOK
  <2>. QED BY <1>0, <1>12, <2>2 DEF TypeOK, Find
<1>13. ASSUME NEW p \in Procs, Later(p) PROVE TypeOK'
  BY <1>0, <1>13 DEF TypeOK, Later
<1>14. ASSUME NEW p \in Procs, Keep(p) \/ TakeBack(p) PROVE TypeOK'
  <2>1. found[p] \in Runs /\ HasLog(found[p])
    BY <1>0, <1>14 DEF Keep, TakeBack, IInv, IFound, TypeOK, Runs
  <2>2. log' \in [Runs -> LogFile \cup {NoLog}]
    BY <1>0, <1>14, <2>1, LogMarked DEF Keep, TakeBack, LogStep
  <2>3. changed' \subseteq Runs /\ saved' \subseteq Runs \X Chats
    BY <1>0, <1>14 DEF TypeOK, Keep, TakeBack
  <2>4. /\ state' = [state EXCEPT ![p] = "idle"] /\ found' = [found EXCEPT ![p] = 0]
        /\ UNCHANGED <<chat, home, journal, current, queue, changes, runs, faults>>
    BY <1>14 DEF Keep, TakeBack
  <2>. QED BY <1>0, <2>2, <2>3, <2>4 DEF TypeOK
<1>15. ASSUME NEW p \in Procs, TakeBackDenied(p) PROVE TypeOK'
  <2>1. found[p] \in Runs /\ found[p] \in 0..runs
    BY <1>0, <1>15 DEF TypeOK, TakeBackDenied, Runs
  <2>2. /\ journal' \in [Procs -> SUBSET Runs] /\ hydrated' \in [Procs -> 0..runs]
        /\ faults' \in 0..MaxFaults
    BY <1>0, <1>15, <2>1 DEF TypeOK, TakeBackDenied, Fault
  <2>. QED BY <1>0, <1>15, <2>2 DEF TypeOK, TakeBackDenied
<1>. QED BY <1>1, <1>2, <1>3, <1>4, <1>5, <1>6, <1>7, <1>8, <1>9, <1>10, <1>11,
            <1>12, <1>13, <1>14, <1>15 DEF Next, Touch

LEMMA Numbers ==
    ASSUME IInv, NEW p \in Procs
    PROVE  /\ Working(p) => current[p] \in Runs
           /\ state[p] = "asked" => found[p] \in 1..runs /\ found[p] \in Runs
<1>1. runs \in Nat /\ runs <= MaxRuns /\ MaxRuns \in Nat /\ found[p] \in 0..runs
  BY InterruptedRunsAssumption DEF IInv, TypeOK
<1>2. (state[p] = "asked") = (found[p] # 0)
  BY DEF IInv, TypeOK
<1>3. Working(p) => current[p] \in 1..runs
  BY DEF IInv, IWorking
<1>. QED BY <1>1, <1>2, <1>3 DEF Runs

LEMMA CrashStep ==
    ASSUME IInv, NEW p \in Procs, NEW torn \in BOOLEAN, Crash(p, torn)
    PROVE  /\ current[p] \in Runs /\ Vanish(p) /\ LogStep({}) /\ Working(p)
           /\ "torn" \notin kinds' => log' = log
           /\ kinds \subseteq kinds' /\ kinds' \subseteq kinds \cup {"torn"}
<1>1. TypeOK /\ current[p] \in Runs /\ Working(p) /\ Vanish(p)
  BY Numbers DEF IInv, Crash
<1>2. kinds \subseteq kinds' /\ kinds' \subseteq kinds \cup {"torn"}
  BY DEF Crash
<1>3. CASE torn
  <2>1. queue[current[p]] # <<>> /\ log' = [log EXCEPT ![current[p]].torn = TRUE]
        /\ "torn" \in kinds'
    BY <1>3 DEF Crash
  <2>2. HasLog(current[p])
    BY <1>1, <2>1 DEF IInv, IBegun
  <2>. QED BY <1>1, <1>2, <2>1, <2>2, LogTorn
<1>4. CASE ~torn
  <2>1. log' = log
    BY <1>4 DEF Crash
  <2>. QED BY <1>1, <1>2, <2>1, LogUnchanged
<1>. QED BY <1>3, <1>4

LEMMA AppendStep ==
    ASSUME IInv, NEW p \in Procs, AppendLine(p)
    PROVE  /\ current[p] \in Runs /\ Working(p) /\ queue[current[p]] # <<>>
           /\ LogStep({current[p]}) /\ (NoneTorn => NoneTorn')
           /\ Head(queue[current[p]]) = "end" => WithEnd(log'[current[p]])
           /\ state[p] = "run" => LogStep({}) /\ AllEvents(Tail(queue[current[p]]))
           /\ Head(queue[current[p]]) # "end" => log' = log
           /\ queue' = [queue EXCEPT ![current[p]] = Tail(queue[current[p]])]
<1>. DEFINE r == current[p]
            s == queue[r]
<1>1. /\ TypeOK /\ r \in Runs /\ Working(p) /\ s # <<>> /\ HasLog(r)
      /\ s \in Seq({"event", "end"})
  BY Numbers DEF IInv, IBegun, TypeOK, AppendLine
<1>2. /\ log' = IF Head(s) = "end" THEN [log EXCEPT ![r].ended = TRUE] ELSE log
      /\ queue' = [queue EXCEPT ![r] = Tail(s)]
  BY DEF AppendLine
<1>3. state[p] = "run" => AllEvents(s)
  BY DEF IInv, IOpen
<1>4. state[p] = "run" => Head(s) # "end" /\ AllEvents(Tail(s))
  BY <1>1, <1>3, Lines
<1>. HIDE DEF r, s
<1>5. CASE Head(s) = "end"
  <2>1. LogStep({r}) /\ (NoneTorn => NoneTorn') /\ WithEnd(log'[r])
    BY <1>1, <1>2, <1>5, LogAppended
  <2>. QED BY <1>1, <1>2, <1>4, <1>5, <2>1 DEF r, s
<1>6. CASE Head(s) # "end"
  <2>1. LogStep({}) /\ (NoneTorn => NoneTorn') /\ log' = log
    BY <1>1, <1>2, <1>6, LogUnchanged
  <2>2. LogStep({r})
    BY <2>1 DEF LogStep
  <2>. QED BY <1>1, <1>2, <1>4, <1>6, <2>1, <2>2 DEF r, s
<1>. QED BY <1>5, <1>6

LEMMA DecideStep ==
    ASSUME IInv, NEW p \in Procs, Keep(p) \/ TakeBack(p)
    PROVE  /\ found[p] \in Runs /\ HasLog(found[p]) /\ log[found[p]].chat = chat[p]
           /\ found[p] \in 1..runs /\ state[p] = "asked"
           /\ LogStep({found[p]}) /\ (NoneTorn => NoneTorn')
           /\ NoneTorn => WithEnd(log'[found[p]])
           /\ state' = [state EXCEPT ![p] = "idle"] /\ decided' = decided \cup {found[p]}
           /\ UNCHANGED <<chat, home, current, queue, runs, over, cut>>
           /\ undone \subseteq undone' /\ undone' \subseteq undone \cup {found[p]}
           /\ changed' \subseteq changed
           /\ kinds \subseteq kinds' /\ kinds' \subseteq kinds \cup {"moved"}
<1>1. /\ TypeOK /\ found[p] \in Runs /\ HasLog(found[p]) /\ log[found[p]].chat = chat[p]
      /\ found[p] \in 1..runs /\ state[p] = "asked" /\ log' = Marked(found[p])
  BY Numbers DEF Keep, TakeBack, IInv, IFound
<1>2. /\ state' = [state EXCEPT ![p] = "idle"] /\ decided' = decided \cup {found[p]}
      /\ UNCHANGED <<chat, home, current, queue, runs, over, cut>>
      /\ undone \subseteq undone' /\ undone' \subseteq undone \cup {found[p]}
      /\ changed' \subseteq changed
      /\ kinds \subseteq kinds' /\ kinds' \subseteq kinds \cup {"moved"}
  BY DEF Keep, TakeBack, Answered, Goto
<1>. QED BY <1>1, <1>2, LogMarked

LEMMA FindStep ==
    ASSUME IInv, NEW p \in Procs, Find(p)
    PROVE  /\ found'[p] \in Runs /\ HasLog(found'[p]) /\ log[found'[p]].chat = chat[p]
           /\ ~WithEnd(log[found'[p]])
           /\ state[p] = "idle" /\ state' = [state EXCEPT ![p] = "asked"]
           /\ found' = [found EXCEPT ![p] = found'[p]]
<1>1. LogsOf(chat[p]) \in SUBSET (1..runs) /\ runs \in Nat
  BY DEF LogsOf, IInv, IBegun, TypeOK, HasLog, Runs
<1>2. Max(LogsOf(chat[p])) \in LogsOf(chat[p]) /\ found'[p] = Max(LogsOf(chat[p]))
  BY <1>1, MaxIsMember DEF Find, IInv, TypeOK
<1>3. ~log[found'[p]].ended
  BY <1>2 DEF Find
<1>. QED BY <1>2, <1>3 DEF Find, Goto, LogsOf, HasLog, WithEnd

\* A number that no run had.
LEMMA BeginStep ==
    ASSUME IInv, NEW p \in Procs, BeginRun(p) \/ BeginRunUnlogged(p)
    PROVE  /\ runs' = runs + 1 /\ runs' \in Runs /\ runs \in Nat /\ chat[p] \in Chats
           /\ log[runs'] = NoLog /\ queue[runs'] = <<>>
           /\ runs' \notin over \cup cut \cup changed \cup decided \cup undone
           /\ state' = [state EXCEPT ![p] = "run"] /\ current' = [current EXCEPT ![p] = runs']
           /\ state[p] = "idle"
           /\ \A r \in Runs : r # runs' => log'[r] = log[r] /\ queue'[r] = queue[r]
           /\ BeginRun(p) => /\ log'[runs'].chat = chat[p] /\ HasLog(runs)'
                             /\ ~WithEnd(log'[runs']) /\ ~IsTorn(log'[runs'])
                             /\ queue'[runs'] = <<"event">>
           /\ BeginRunUnlogged(p) => log' = log /\ queue' = queue
           /\ UNCHANGED <<chat, home, found, over, cut, decided, undone, changed, saved>>
           /\ kinds \subseteq kinds' /\ kinds' \subseteq kinds \cup {"disk"}
<1>1. /\ runs' = runs + 1 /\ runs' \in Runs /\ runs \in Nat /\ chat[p] \in Chats
      /\ state[p] = "idle"
  BY InterruptedRunsAssumption DEF BeginRun, BeginRunUnlogged, IInv, TypeOK, IWorking, Up, Runs
<1>2. log[runs'] = NoLog
  BY <1>1 DEF IInv, IBegun, HasLog
<1>3. queue[runs'] = <<>>
  BY <1>1, <1>2 DEF IInv, IBegun, HasLog
<1>4. runs' \notin over \cup cut \cup changed \cup decided \cup undone
  BY <1>1 DEF IInv, IBegun
<1>5. /\ state' = [state EXCEPT ![p] = "run"] /\ current' = [current EXCEPT ![p] = runs']
      /\ UNCHANGED <<chat, home, found, over, cut, decided, undone, changed, saved>>
      /\ kinds \subseteq kinds' /\ kinds' \subseteq kinds \cup {"disk"}
      /\ BeginRunUnlogged(p) => log' = log /\ queue' = queue
  BY <1>1 DEF BeginRun, BeginRunUnlogged, Goto, fileVars, history
<1>6. CASE BeginRun(p)
  <2>. DEFINE l == [chat |-> chat[p], ended |-> FALSE, torn |-> FALSE]
  <2>1. log' = [log EXCEPT ![runs'] = l] /\ queue' = [queue EXCEPT ![runs'] = <<"event">>]
    BY <1>1, <1>6 DEF BeginRun
  <2>2. l # NoLog /\ l.chat = chat[p] /\ ~WithEnd(l) /\ ~IsTorn(l)
    BY <1>1, NewLog
  <2>. HIDE DEF l
  <2>3. /\ log'[runs'] = l /\ queue'[runs'] = <<"event">>
        /\ \A r \in Runs : r # runs' => log'[r] = log[r] /\ queue'[r] = queue[r]
    BY <1>1, <2>1 DEF IInv, TypeOK
  <2>4. HasLog(runs)'
    BY <2>2, <2>3 DEF HasLog
  <2>5. ~BeginRunUnlogged(p) \/ (log' = log /\ queue' = queue)
    BY <1>5
  <2>. QED BY <1>1, <1>2, <1>3, <1>4, <1>5, <2>2, <2>3, <2>4
<1>7. CASE ~BeginRun(p)
  BY <1>1, <1>2, <1>3, <1>4, <1>5, <1>7
<1>. QED BY <1>6, <1>7

-----------------------------------------------------------------------------
(* What a step leaves alone *)

\* The other instances.
Others(p) ==
    \A q \in Procs \ {p} :
        /\ state'[q] = state[q] /\ chat'[q] = chat[q] /\ home'[q] = home[q]
        /\ current'[q] = current[q] /\ found'[q] = found[q]

\* p begins no run, and asks no question.
NoBeginning(p) ==
    /\ Working(p)' => /\ Working(p) /\ cut' = cut
                      /\ current'[p] = current[p] /\ chat'[p] = chat[p]
    /\ state'[p] = "run" => state[p] = "run" /\ AllEvents(queue'[current[p]])

NoQuestion(p) ==
    state'[p] = "asked" => state[p] = "asked" /\ found'[p] = found[p] /\ chat'[p] = chat[p]

Located(p) == Up(p)' => chat'[p] \in Chats /\ home'[p] \in Chats

\* The run p works on, and the run it asks about.
Own(p)   == IF Working(p) THEN {current[p]} ELSE {}
Asked(p) == IF state[p] = "asked" THEN {found[p]} ELSE {}

\* Only these two get anything new.
OwnData(p) ==
    /\ runs' = runs
    /\ over \subseteq over' /\ over' \subseteq over \cup Own(p)
    /\ cut \subseteq cut' /\ cut' \subseteq cut \cup (IF state[p] = "run" THEN Own(p) ELSE {})
    /\ changed' \subseteq changed \cup Own(p)
    /\ decided \subseteq decided' /\ decided' \subseteq decided \cup Asked(p)
    /\ undone \subseteq undone' /\ undone' \subseteq undone \cup Asked(p)
    /\ \A r \in Runs \ Own(p) : queue'[r] = queue[r]
    /\ \A r \in Runs : queue'[r] # <<>> => HasLog(r)

OwnLog(p) ==
    \/ LogStep({}) \/ (state[p] = "closing" /\ LogStep(Own(p)))
    \/ LogStep(Asked(p)) /\ decided' = decided \cup Asked(p)

Quiet(p) == Others(p) /\ NoBeginning(p) /\ NoQuestion(p) /\ Located(p) /\ OwnData(p) /\ OwnLog(p)

\* Every step but the beginning of a run and a question.
QuietStep(p) ==
    \/ \E c \in Chats : Start(p, c) \/ SwitchChat(p, c)
    \/ Quit(p) \/ \E torn \in BOOLEAN : Crash(p, torn)
    \/ Touch(p) \/ EndRun(p) \/ AppendLine(p) \/ AppendFails(p) \/ Closed(p) \/ UndoOwn(p)
    \/ Later(p) \/ TakeBackDenied(p) \/ Keep(p) \/ TakeBack(p)

LEMMA QuietSteps ==
    ASSUME IInv, NEW p \in Procs, QuietStep(p)
    PROVE  Quiet(p)
<1>0. TypeOK /\ IWorking /\ IFound /\ IBegun /\ IOpen
  BY DEF IInv
<1>1. ASSUME NEW c \in Chats, Start(p, c) PROVE Quiet(p)
  <2>1. Others(p) /\ NoBeginning(p) /\ NoQuestion(p) /\ Located(p)
    BY <1>0, <1>1 DEF TypeOK, Start, Goto, Others, NoBeginning, NoQuestion, Located, Working
  <2>2. OwnData(p)
    BY <1>0, <1>1 DEF Start, OwnData, fileVars, IBegun
  <2>3. OwnLog(p)
    BY <1>0, <1>1, LogUnchanged DEF OwnLog, Start, fileVars
  <2>. QED BY <2>1, <2>2, <2>3 DEF Quiet
<1>2. ASSUME NEW c \in Chats, SwitchChat(p, c) PROVE Quiet(p)
  <2>1. Others(p) /\ NoBeginning(p) /\ NoQuestion(p) /\ Located(p)
    BY <1>0, <1>2 DEF TypeOK, SwitchChat, Others, NoBeginning, NoQuestion, Located, Working, IWorking, Up
  <2>2. OwnData(p)
    BY <1>0, <1>2 DEF SwitchChat, OwnData, fileVars, IBegun
  <2>3. OwnLog(p)
    BY <1>0, <1>2, LogUnchanged DEF OwnLog, SwitchChat, fileVars
  <2>. QED BY <2>1, <2>2, <2>3 DEF Quiet
<1>3. ASSUME Vanish(p), UNCHANGED <<over, changed, decided, undone, runs>>, LogStep({})
      PROVE  Quiet(p)
  <2>1. Others(p) /\ NoBeginning(p) /\ NoQuestion(p) /\ Located(p)
    BY <1>0, <1>3, Vanished DEF Others, NoBeginning, NoQuestion, Located, Working, Up
  <2>2. cut \subseteq cut' /\ cut' \subseteq cut \cup (IF state[p] = "run" THEN Own(p) ELSE {})
    BY <1>3 DEF Vanish, Own, Working
  <2>3. /\ \A r \in Runs \ Own(p) : queue'[r] = queue[r]
        /\ \A r \in Runs : queue'[r] # <<>> => HasLog(r)
    BY <1>0, <1>3, Vanished DEF Own, IBegun
  <2>4. OwnData(p)
    BY <1>3, <2>2, <2>3 DEF OwnData
  <2>5. OwnLog(p)
    BY <1>3 DEF OwnLog
  <2>. QED BY <2>1, <2>4, <2>5 DEF Quiet
<1>4. ASSUME Quit(p) \/ \E torn \in BOOLEAN : Crash(p, torn) PROVE Quiet(p)
  <2>1. LogStep({})
    BY <1>0, <1>4, CrashStep, LogUnchanged DEF Quit
  <2>2. Vanish(p) /\ UNCHANGED <<over, changed, decided, undone, runs>>
    BY <1>4 DEF Quit, Crash
  <2>. QED BY <1>3, <2>1, <2>2
<1>5. ASSUME Touch(p) PROVE Quiet(p)
  <2>1. Others(p) /\ NoQuestion(p) /\ Located(p)
    BY <1>0, <1>5, TouchStep DEF Others, NoQuestion, Located, IWorking, Up
  <2>2. NoBeginning(p)
    BY <1>0, <1>5, TouchStep DEF NoBeginning, Working, IOpen
  <2>3. OwnData(p)
    BY <1>0, <1>5, TouchStep DEF OwnData, IBegun, Own, Working
  <2>4. OwnLog(p)
    BY <1>0, <1>5, TouchStep, LogUnchanged DEF OwnLog
  <2>. QED BY <2>1, <2>2, <2>3, <2>4 DEF Quiet
<1>6. ASSUME EndRun(p) PROVE Quiet(p)
  <2>1. Others(p) /\ NoQuestion(p) /\ Located(p) /\ NoBeginning(p)
    BY <1>0, <1>6 DEF TypeOK, EndRun, Goto, Others, NoBeginning, NoQuestion, Located, Working, IWorking, Up, history
  <2>2. /\ \A r \in Runs \ Own(p) : queue'[r] = queue[r]
        /\ \A r \in Runs : queue'[r] # <<>> => HasLog(r)
    BY <1>0, <1>6 DEF TypeOK, EndRun, Own, Working, IBegun, HasLog
  <2>3. OwnData(p)
    BY <1>6, <2>2 DEF EndRun, OwnData, history
  <2>4. OwnLog(p)
    BY <1>0, <1>6, LogUnchanged DEF OwnLog, EndRun
  <2>. QED BY <2>1, <2>3, <2>4 DEF Quiet
<1>7. ASSUME AppendLine(p) PROVE Quiet(p)
  <2>1. Others(p) /\ NoQuestion(p) /\ Located(p)
    BY <1>0, <1>7 DEF AppendLine, procVars, Others, NoQuestion, Located, IWorking, Up
  <2>2. NoBeginning(p)
    BY <1>0, <1>7, AppendStep DEF TypeOK, AppendLine, procVars, history, NoBeginning, Working
  <2>3. /\ \A r \in Runs \ Own(p) : queue'[r] = queue[r]
        /\ \A r \in Runs : queue'[r] # <<>> => HasLog(r)
    BY <1>0, <1>7, AppendStep DEF TypeOK, Own, IBegun
  <2>4. OwnData(p)
    BY <1>7, <2>3 DEF AppendLine, OwnData, history
  <2>5. OwnLog(p)
    BY <1>7, AppendStep DEF OwnLog, Own, Working
  <2>. QED BY <2>1, <2>2, <2>4, <2>5 DEF Quiet
<1>8. ASSUME AppendFails(p) PROVE Quiet(p)
  <2>1. LogStep({}) /\ UNCHANGED <<changed, decided, undone, runs>>
    BY <1>0, <1>8, LogUnchanged DEF AppendFails
  <2>2. CASE Vanish(p) /\ UNCHANGED over
    BY <1>3, <2>1, <2>2
  <2>3. CASE ~(Vanish(p) /\ UNCHANGED over)
    <3>1. /\ state[p] = "closing" /\ state' = [state EXCEPT ![p] = "idle"]
          /\ queue' = [queue EXCEPT ![current[p]] = <<>>]
          /\ over' = over \cup {current[p]}
          /\ UNCHANGED <<chat, home, journal, current, found, cut>>
      BY <1>8, <2>3 DEF AppendFails, Goto
    <3>2. Others(p) /\ NoQuestion(p) /\ Located(p) /\ NoBeginning(p)
      BY <1>0, <3>1 DEF TypeOK, Others, NoBeginning, NoQuestion, Located, Working, IWorking, Up
    <3>3. /\ \A r \in Runs \ Own(p) : queue'[r] = queue[r]
          /\ \A r \in Runs : queue'[r] # <<>> => HasLog(r)
      BY <1>0, <3>1 DEF TypeOK, Own, Working, IBegun
    <3>4. OwnData(p)
      BY <2>1, <3>1, <3>3 DEF OwnData, Own, Working
    <3>5. OwnLog(p)
      BY <2>1 DEF OwnLog
    <3>. QED BY <3>2, <3>4, <3>5 DEF Quiet
  <2>. QED BY <2>2, <2>3
<1>9. ASSUME Closed(p) PROVE Quiet(p)
  <2>1. Others(p) /\ NoQuestion(p) /\ Located(p) /\ NoBeginning(p)
    BY <1>0, <1>9 DEF TypeOK, Closed, Goto, Others, NoBeginning, NoQuestion, Located, Working, IWorking, Up
  <2>2. OwnData(p)
    BY <1>0, <1>9 DEF Closed, OwnData, fileVars, IBegun, Own, Working
  <2>3. OwnLog(p)
    BY <1>0, <1>9, LogUnchanged DEF OwnLog, Closed, fileVars
  <2>. QED BY <2>1, <2>2, <2>3 DEF Quiet
<1>10. ASSUME UndoOwn(p) PROVE Quiet(p)
  <2>1. Others(p) /\ NoQuestion(p) /\ Located(p) /\ NoBeginning(p)
    BY <1>0, <1>10 DEF UndoOwn, Others, NoBeginning, NoQuestion, Located, Working, IWorking, Up
  <2>2. OwnData(p)
    BY <1>0, <1>10 DEF UndoOwn, OwnData, IBegun, history
  <2>3. OwnLog(p)
    BY <1>0, <1>10, LogUnchanged DEF OwnLog, UndoOwn
  <2>. QED BY <2>1, <2>2, <2>3 DEF Quiet
<1>11. ASSUME Later(p) \/ TakeBackDenied(p) PROVE Quiet(p)
  <2>1. /\ state' = [state EXCEPT ![p] = "idle"] /\ found' = [found EXCEPT ![p] = 0]
        /\ UNCHANGED <<chat, home, current, fileVars, runs, over, cut, decided, undone>>
        /\ state[p] = "asked"
    BY <1>11 DEF Later, TakeBackDenied, Answered, Goto, history
  <2>2. Others(p) /\ NoQuestion(p) /\ Located(p) /\ NoBeginning(p)
    BY <1>0, <2>1 DEF TypeOK, Others, NoBeginning, NoQuestion, Located, Working, IWorking, Up
  <2>3. OwnData(p)
    BY <1>0, <2>1 DEF OwnData, fileVars, IBegun
  <2>4. OwnLog(p)
    BY <1>0, <2>1, LogUnchanged DEF OwnLog, fileVars
  <2>. QED BY <2>2, <2>3, <2>4 DEF Quiet
<1>12. ASSUME Keep(p) \/ TakeBack(p) PROVE Quiet(p)
  <2>0. /\ found' = [found EXCEPT ![p] = 0] /\ state' = [state EXCEPT ![p] = "idle"]
        /\ UNCHANGED <<chat, home, current>> /\ state[p] = "asked"
    BY <1>12 DEF Keep, TakeBack, Answered, Goto
  <2>1. Others(p) /\ NoQuestion(p) /\ Located(p) /\ NoBeginning(p)
    BY <1>0, <2>0 DEF TypeOK, Others, NoBeginning, NoQuestion, Located, Working, IWorking, Up
  <2>2. OwnData(p)
    BY <1>0, <1>12, DecideStep DEF OwnData, IBegun, Asked
  <2>3. OwnLog(p)
    BY <1>12, DecideStep DEF OwnLog, Asked
  <2>. QED BY <2>1, <2>2, <2>3 DEF Quiet
<1>. QED BY <1>1, <1>2, <1>4, <1>5, <1>6, <1>7, <1>8, <1>9, <1>10, <1>11, <1>12 DEF QuietStep

\* The invariants about runs and their logs, by the kind of step.
LEMMA QuietKeeps ==
    ASSUME IInv, NEW p \in Procs, Quiet(p)
    PROVE  IBegun' /\ IWorking' /\ IFound' /\ IOpen'
<1>0. /\ TypeOK /\ IWorking /\ IFound /\ IBegun /\ IOpen /\ runs \in Nat
      /\ Others(p) /\ NoBeginning(p) /\ NoQuestion(p) /\ Located(p) /\ OwnData(p) /\ OwnLog(p)
  BY DEF IInv, Quiet, TypeOK
<1>1. \A r \in Runs : /\ (log'[r] # NoLog) <=> (log[r] # NoLog)
                      /\ log'[r].chat = log[r].chat
  BY <1>0 DEF OwnLog, LogStep
<1>2. \A r \in Runs : WithEnd(log'[r]) =>
          WithEnd(log[r]) \/ r \in decided' \/ (state[p] = "closing" /\ r = current[p])
  BY <1>0 DEF OwnLog, LogStep, Own
<1>3. Own(p) \subseteq 1..runs /\ Asked(p) \subseteq 1..runs /\ runs' = runs
  BY <1>0, Numbers DEF Own, Asked, IWorking, OwnData
<1>4. IBegun'
  BY <1>0, <1>1, <1>3 DEF IBegun, OwnData, HasLog
<1>5. ASSUME NEW q \in Procs
      PROVE  /\ Up(q)' => chat'[q] \in Chats /\ home'[q] \in Chats
             /\ Working(q)' => /\ Working(q) /\ current'[q] = current[q] /\ chat'[q] = chat[q]
                               /\ current[q] \notin cut'
             /\ state'[q] = "asked" => /\ state[q] = "asked" /\ found'[q] = found[q]
                                       /\ chat'[q] = chat[q]
             /\ state'[q] = "run" => state[q] = "run" /\ AllEvents(queue'[current[q]])
  <2>1. CASE q = p
    BY <1>0, <2>1 DEF Located, NoBeginning, NoQuestion, IWorking
  <2>2. CASE q # p
    <3>1. /\ state'[q] = state[q] /\ chat'[q] = chat[q] /\ home'[q] = home[q]
          /\ current'[q] = current[q] /\ found'[q] = found[q]
      BY <1>0, <2>2 DEF Others
    <3>2. Working(q) => current[q] \in Runs /\ current[q] \notin cut /\ current[q] \notin Own(p)
      BY <1>0, <2>2, Numbers DEF IWorking, Own
    <3>3. Working(q) => current[q] \notin cut' /\ queue'[current[q]] = queue[current[q]]
      BY <1>0, <3>2 DEF OwnData
    <3>. QED BY <1>0, <3>1, <3>3 DEF Working, Up, IWorking, IOpen
  <2>. QED BY <2>1, <2>2
<1>6. IWorking'
  <2>1. \A q \in Procs : Working(q)' => current'[q] \in Runs /\ current'[q] \in 1..runs'
    BY <1>0, <1>3, <1>5, Numbers DEF IWorking
  <2>. QED BY <1>0, <1>1, <1>5, <2>1 DEF IWorking, HasLog
<1>7. IFound'
  BY <1>0, <1>1, <1>5, Numbers DEF IFound, HasLog
<1>8. IOpen'
  <2>1. ASSUME NEW q \in Procs, state'[q] = "run", WithEnd(log'[current'[q]])
        PROVE  current'[q] \in decided'
    <3>1. state[q] = "run" /\ current'[q] = current[q] /\ Working(q) /\ current[q] \in Runs
      BY <1>5, <2>1, Numbers DEF Working
    <3>2. ~(state[p] = "closing" /\ current[q] = current[p])
      BY <1>0, <3>1 DEF IWorking, Working
    <3>3. WithEnd(log[current[q]]) \/ current[q] \in decided'
      BY <1>2, <2>1, <3>1, <3>2
    <3>. QED BY <1>0, <3>1, <3>3 DEF IOpen, OwnData
  <2>2. ASSUME NEW r \in cut', WithEnd(log'[r])
        PROVE  r \in decided'
    <3>1. r \in Runs
      BY <1>4, <1>0, <1>3, InterruptedRunsAssumption DEF IBegun, Runs, TypeOK
    <3>2. r \in cut \/ (state[p] = "run" /\ r = current[p])
      BY <1>0 DEF OwnData, Own
    <3>3. ~(state[p] = "closing" /\ r = current[p])
      BY <1>0, <3>2 DEF IWorking, Working
    <3>4. WithEnd(log[r]) \/ r \in decided'
      BY <1>2, <2>2, <3>1, <3>3
    <3>. QED BY <1>0, <3>2, <3>4 DEF IOpen, OwnData
  <2>. QED BY <1>5, <2>1, <2>2 DEF IOpen, Working
<1>. QED BY <1>4, <1>6, <1>7, <1>8

LEMMA BeginKeeps ==
    ASSUME IInv, NEW p \in Procs, BeginRun(p) \/ BeginRunUnlogged(p)
    PROVE  IBegun' /\ IWorking' /\ IFound' /\ IOpen'
<1>. DEFINE n == runs'
<1>0. /\ TypeOK /\ IWorking /\ IFound /\ IBegun /\ IOpen
  BY DEF IInv
<1>1. /\ runs' = runs + 1 /\ runs' \in Runs /\ runs \in Nat /\ chat[p] \in Chats
      /\ log[runs'] = NoLog /\ queue[runs'] = <<>>
      /\ runs' \notin cut \cup decided
      /\ state' = [state EXCEPT ![p] = "run"] /\ current' = [current EXCEPT ![p] = runs']
      /\ \A r \in Runs : r # runs' => log'[r] = log[r] /\ queue'[r] = queue[r]
      /\ UNCHANGED <<chat, home, found, over, cut, decided, undone, changed>>
      /\ state[p] = "idle"
  BY BeginStep
<1>2. /\ log'[runs'] # NoLog => log'[runs'].chat = chat[p]
      /\ ~WithEnd(log'[runs']) /\ AllEvents(queue'[runs'])
      /\ queue'[runs'] # <<>> => log'[runs'] # NoLog
  <2>1. CASE BeginRun(p)
    <3>1. AllEvents(<<"event">>)
      BY DEF AllEvents
    <3>. QED BY <2>1, <3>1, BeginStep DEF HasLog
  <2>2. CASE ~BeginRun(p)
    <3>1. AllEvents(<<>>)
      BY DEF AllEvents
    <3>2. log' = log /\ queue' = queue
      BY <2>2, BeginStep
    <3>. QED BY <1>1, <3>1, <3>2 DEF WithEnd
  <2>. QED BY <2>1, <2>2
<1>3. IBegun'
  <2>1. \A r \in Runs : /\ log'[r] # NoLog => r <= runs'
                        /\ queue'[r] # <<>> => log'[r] # NoLog
    BY <1>0, <1>1, <1>2 DEF IBegun, HasLog, Runs
  <2>2. 1..runs \subseteq 1..runs'
    BY <1>1
  <2>. QED BY <1>0, <1>1, <2>1, <2>2 DEF IBegun, HasLog
<1>4. ASSUME NEW q \in Procs, q # p
      PROVE  /\ state'[q] = state[q] /\ current'[q] = current[q]
             /\ Working(q) => /\ current[q] # runs' /\ current[q] \in Runs
                              /\ current[q] \in 1..runs'
  BY <1>0, <1>1, <1>4, Numbers DEF TypeOK, IWorking
<1>5. state'[p] = "run" /\ current'[p] = runs'
  BY <1>0, <1>1 DEF TypeOK
<1>6. IWorking'
  <2>1. ASSUME NEW q \in Procs
        PROVE  /\ Up(q)' => chat'[q] \in Chats /\ home'[q] \in Chats
               /\ Working(q)' =>
                    /\ current'[q] \in 1..runs' /\ current'[q] \notin cut'
                    /\ HasLog(current[q])' => log'[current'[q]].chat = chat'[q]
    <3>1. CASE q = p
      BY <1>0, <1>1, <1>2, <1>5, <3>1 DEF IWorking, Up, HasLog
    <3>2. CASE q # p
      BY <1>0, <1>1, <1>4, <3>2 DEF IWorking, Up, Working, HasLog
    <3>. QED BY <3>1, <3>2
  <2>2. ASSUME NEW q \in Procs, NEW q2 \in Procs, Working(q)', Working(q2)', current'[q] = current'[q2]
        PROVE  q = q2
    BY <1>0, <1>4, <1>5, <2>2 DEF IWorking, Working
  <2>. QED BY <2>1, <2>2 DEF IWorking
<1>7. IFound'
  BY <1>0, <1>1, <1>4, <1>5, Numbers DEF IFound, HasLog
<1>8. IOpen'
  <2>1. ASSUME NEW q \in Procs, state'[q] = "run"
        PROVE  /\ WithEnd(log'[current'[q]]) => current'[q] \in decided'
               /\ AllEvents(queue'[current'[q]])
    <3>1. CASE q = p
      BY <1>2, <1>5, <3>1
    <3>2. CASE q # p
      BY <1>0, <1>1, <1>4, <2>1, <3>2 DEF IOpen, Working
    <3>. QED BY <3>1, <3>2
  <2>2. ASSUME NEW r \in cut', WithEnd(log'[r])
        PROVE  r \in decided'
    <3>1. r \in Runs /\ r # runs' /\ r \in cut
      BY <1>0, <1>1, InterruptedRunsAssumption DEF IBegun, Runs, TypeOK
    <3>. QED BY <1>0, <1>1, <2>2, <3>1 DEF IOpen
  <2>. QED BY <2>1, <2>2 DEF IOpen
<1>. QED BY <1>3, <1>6, <1>7, <1>8

LEMMA FindKeeps ==
    ASSUME IInv, NEW p \in Procs, Find(p)
    PROVE  IBegun' /\ IWorking' /\ IFound' /\ IOpen'
<1>0. TypeOK /\ IWorking /\ IFound /\ IBegun /\ IOpen
  BY DEF IInv
<1>1. UNCHANGED <<chat, home, current, log, queue, changed, runs, over, cut, decided, undone>>
  BY DEF Find, fileVars, history
<1>2. state[p] = "idle" /\ state' = [state EXCEPT ![p] = "asked"]
      /\ HasLog(found'[p]) /\ log[found'[p]].chat = chat[p]
      /\ found' = [found EXCEPT ![p] = found'[p]]
  BY FindStep
<1>3. state'[p] = "asked" /\ \A q \in Procs : q # p => state'[q] = state[q] /\ found'[q] = found[q]
  BY <1>0, <1>2 DEF TypeOK
<1>4. IBegun'
  BY <1>0, <1>1 DEF IBegun, HasLog
<1>5. IWorking'
  BY <1>0, <1>1, <1>2, <1>3 DEF IWorking, Working, Up, HasLog
<1>6. IFound'
  BY <1>0, <1>1, <1>2, <1>3 DEF IFound, HasLog
<1>7. IOpen'
  BY <1>0, <1>1, <1>3 DEF IOpen
<1>. QED BY <1>4, <1>5, <1>6, <1>7

\* Every step is one of the three.
LEMMA Kinds ==
    ASSUME IInv, Next
    PROVE  \E p \in Procs : \/ QuietStep(p) /\ Quiet(p)
                            \/ BeginRun(p) \/ BeginRunUnlogged(p) \/ Find(p)
<1>1. \E p \in Procs : QuietStep(p) \/ BeginRun(p) \/ BeginRunUnlogged(p) \/ Find(p)
  BY DEF Next, QuietStep, Touch
<1>. QED BY <1>1, QuietSteps

\* What went wrong is not forgotten.
LEMMA KindsGrow == ASSUME IInv, Next PROVE kinds \subseteq kinds'
<1>1. ASSUME NEW p \in Procs, QuietStep(p) PROVE kinds \subseteq kinds'
  <2>1. CASE Keep(p) \/ TakeBack(p)
    BY <2>1, DecideStep
  <2>2. CASE ~(Keep(p) \/ TakeBack(p))
    BY <1>1, <2>2, TouchStep DEF QuietStep, Start, SwitchChat, Quit, Crash, EndRun, AppendLine,
                      AppendFails, Closed, UndoOwn, Later, TakeBackDenied, history
  <2>. QED BY <2>1, <2>2
<1>2. ASSUME NEW p \in Procs, BeginRun(p) \/ BeginRunUnlogged(p) PROVE kinds \subseteq kinds'
  BY <1>2, BeginStep
<1>3. ASSUME NEW p \in Procs, Find(p) PROVE kinds \subseteq kinds'
  BY <1>3 DEF Find, history
<1>. QED BY <1>1, <1>2, <1>3, Kinds

\* Checkpoints: at home, they lie where the logs do.
LEMMA StepSaved == ASSUME IInv, Next PROVE ISaved'
<1>. SUFFICES ASSUME kinds' \cap {"moved", "pruned"} = {},
                     NEW r \in changed', HasLog(r)'
              PROVE  <<r, log'[r].chat>> \in saved'
  BY DEF ISaved
<1>0. /\ TypeOK /\ IWorking /\ IFound /\ IBegun /\ runs \in Nat
      /\ \A s \in changed : HasLog(s) => <<s, log[s].chat>> \in saved
  BY KindsGrow DEF IInv, ISaved, TypeOK
<1>1. ASSUME NEW p \in Procs, QuietStep(p), Quiet(p) PROVE <<r, log'[r].chat>> \in saved'
  <2>1. r \in Runs
    <3>1. IBegun' /\ runs' = runs
      BY <1>1, QuietKeeps DEF Quiet, OwnData
    <3>. QED BY <1>0, <3>1, InterruptedRunsAssumption DEF IBegun, Runs, TypeOK
  <2>2. HasLog(r) /\ log'[r].chat = log[r].chat
    BY <1>1, <2>1 DEF Quiet, OwnLog, LogStep, HasLog
  <2>3. CASE Touch(p)
    <3>1. CASE Save(p)
      <4>1. saved' = saved \cup {<<current[p], home[p]>>} /\ changed' = changed \cup {current[p]}
            /\ Working(p) /\ home[p] = chat[p]
        BY <3>1 DEF Save, Working, Away
      <4>. QED BY <1>0, <2>2, <4>1 DEF IWorking
    <3>2. CASE \E d \in Runs, c \in Chats : Prune(p, d, c)
      BY <3>2 DEF Prune
    <3>3. CASE WriteFile(p) \/ Push(p) \/ SaveFails(p)
      <4>1. changed' = changed /\ saved' = saved
        BY <3>3 DEF WriteFile, Push, SaveFails, fileVars
      <4>. QED BY <1>0, <2>2, <4>1
    <3>. QED BY <2>3, <3>1, <3>2, <3>3 DEF Touch
  <2>4. CASE UndoOwn(p)
    <3>1. PICK s : /\ changed' = changed \ {s} /\ saved' = saved \ {<<s, home[p]>>}
      BY <2>4 DEF UndoOwn
    <3>. QED BY <1>0, <2>2, <3>1
  <2>5. CASE TakeBack(p)
    <3>1. /\ saved' = saved \ {<<found[p], home[p]>>} /\ home[p] = chat[p]
          /\ changed' = IF HasCheckpoint(p) THEN changed \ {found[p]} ELSE changed
          /\ state[p] = "asked"
      BY <2>5 DEF TakeBack, Away
    <3>2. r \in changed /\ <<r, log[r].chat>> \in saved
      BY <1>0, <2>2, <3>1
    <3>3. r # found[p]
      BY <1>0, <2>2, <3>1, <3>2 DEF IFound, HasCheckpoint
    <3>. QED BY <2>2, <3>1, <3>2, <3>3
  <2>6. CASE ~(Touch(p) \/ UndoOwn(p) \/ TakeBack(p))
    <3>1. changed' = changed /\ saved' = saved
      BY <1>1, <2>6 DEF QuietStep, Start, SwitchChat, Quit, Crash, EndRun, AppendLine,
                        AppendFails, Closed, Later, TakeBackDenied, Keep, fileVars
    <3>. QED BY <1>0, <2>2, <3>1
  <2>. QED BY <2>3, <2>4, <2>5, <2>6
<1>2. ASSUME NEW p \in Procs, BeginRun(p) \/ BeginRunUnlogged(p)
      PROVE  <<r, log'[r].chat>> \in saved'
  <2>1. r \in changed /\ r # runs' /\ r \in Runs /\ saved' = saved
    BY <1>0, <1>2, BeginStep, InterruptedRunsAssumption DEF IBegun, Runs, TypeOK
  <2>2. log'[r] = log[r]
    BY <1>2, <2>1, BeginStep
  <2>. QED BY <1>0, <2>1, <2>2 DEF HasLog
<1>3. ASSUME NEW p \in Procs, Find(p) PROVE <<r, log'[r].chat>> \in saved'
  BY <1>0, <1>3 DEF Find, fileVars, HasLog
<1>. QED BY <1>1, <1>2, <1>3, Kinds

\* Chats of their own.
LEMMA StepAlone == ASSUME IInv, Next PROVE IAlone'
<1>. SUFFICES ASSUME "shared" \notin kinds'
              PROVE  /\ \A p, q \in Procs : Up(p)' /\ Up(q)' /\ chat'[p] = chat'[q] => p = q
                     /\ \A p \in Procs : Working(p)' => current'[p] \notin undone'
  BY DEF IAlone
<1>0. /\ TypeOK /\ IWorking /\ IFound /\ IBegun
      /\ \A p, q \in Procs : Up(p) /\ Up(q) /\ chat[p] = chat[q] => p = q
      /\ \A p \in Procs : Working(p) => current[p] \notin undone
  BY KindsGrow DEF IInv, IAlone
<1>1. ASSUME NEW p \in Procs, QuietStep(p), Quiet(p)
      PROVE  /\ \A q \in Procs : q # p /\ Up(p)' /\ Up(q)' => chat'[p] # chat'[q]
             /\ \A q \in Procs : Working(q)' => current'[q] \notin undone'
  <2>1. \A q \in Procs : q # p => state'[q] = state[q] /\ chat'[q] = chat[q] /\ current'[q] = current[q]
    BY <1>1 DEF Quiet, Others
  <2>2. Up(p)' => \/ Up(p) /\ chat'[p] = chat[p]
                  \/ \A q \in Procs : q # p /\ Up(q) => chat[q] # chat'[p]
    <3>1. ASSUME NEW c \in Chats, Start(p, c) \/ SwitchChat(p, c)
          PROVE  \A q \in Procs : q # p /\ Up(q) => chat[q] # chat'[p]
      BY <1>0, <3>1 DEF Start, SwitchChat, Noting, Shares, Up, TypeOK
    <3>2. CASE ~\E c \in Chats : Start(p, c) \/ SwitchChat(p, c)
      <4>1. Vanish(p) \/ (state[p] # "down" /\ chat' = chat)
        BY <1>1, <3>2, TouchStep DEF QuietStep, Quit, Crash, EndRun, AppendLine, Working, procVars,
                          AppendFails, Closed, UndoOwn, Later, TakeBackDenied, Keep, TakeBack
      <4>. QED BY <1>0, <4>1, Vanished DEF Up
    <3>. QED BY <3>1, <3>2
  <2>3. ASSUME NEW q \in Procs, Working(q)' PROVE current'[q] \notin undone'
    <3>1. Working(q) /\ current'[q] = current[q]
      BY <1>1, <2>1, <2>3 DEF Quiet, NoBeginning, Working
    <3>2. CASE state[p] = "asked" /\ current[q] = found[p]
      <4>1. HasLog(found[p]) /\ log[found[p]].chat = chat[p] /\ chat[q] = chat[p]
        BY <1>0, <3>1, <3>2 DEF IFound, IWorking
      <4>. QED BY <1>0, <3>1, <3>2, <4>1 DEF Up, Working
    <3>3. CASE ~(state[p] = "asked" /\ current[q] = found[p])
      BY <1>0, <1>1, <3>1, <3>3 DEF Quiet, OwnData, Asked
    <3>. QED BY <3>2, <3>3
  <2>. QED BY <1>0, <2>1, <2>2, <2>3 DEF Up
<1>2. ASSUME NEW p \in Procs, BeginRun(p) \/ BeginRunUnlogged(p)
      PROVE  /\ \A q \in Procs : q # p /\ Up(p)' /\ Up(q)' => chat'[p] # chat'[q]
             /\ \A q \in Procs : Working(q)' => current'[q] \notin undone'
  <2>1. /\ state' = [state EXCEPT ![p] = "run"] /\ current' = [current EXCEPT ![p] = runs']
        /\ chat' = chat /\ undone' = undone /\ state[p] = "idle" /\ runs' \notin undone
    BY <1>2, BeginStep
  <2>. QED BY <1>0, <2>1 DEF TypeOK, Up, Working
<1>3. ASSUME NEW p \in Procs, Find(p)
      PROVE  /\ \A q \in Procs : q # p /\ Up(p)' /\ Up(q)' => chat'[p] # chat'[q]
             /\ \A q \in Procs : Working(q)' => current'[q] \notin undone'
  <2>1. /\ state' = [state EXCEPT ![p] = "asked"] /\ state[p] = "idle"
        /\ current' = current /\ chat' = chat /\ undone' = undone
    BY <1>3 DEF Find, Goto, history
  <2>. QED BY <1>0, <2>1 DEF TypeOK, Up, Working
<1>4. PICK p \in Procs :
        /\ \A q \in Procs : q # p /\ Up(p)' /\ Up(q)' => chat'[p] # chat'[q]
        /\ \A q \in Procs : Working(q)' => current'[q] \notin undone'
        /\ \A q \in Procs : q # p => chat'[q] = chat[q] /\ state'[q] = state[q]
  <2>1. ASSUME NEW p \in Procs, QuietStep(p), Quiet(p)
        PROVE  \A q \in Procs : q # p => chat'[q] = chat[q] /\ state'[q] = state[q]
    BY <2>1 DEF Quiet, Others
  <2>2. ASSUME NEW p \in Procs, BeginRun(p) \/ BeginRunUnlogged(p) \/ Find(p)
        PROVE  \A q \in Procs : q # p => chat'[q] = chat[q] /\ state'[q] = state[q]
    BY <1>0, <2>2 DEF BeginRun, BeginRunUnlogged, Find, Goto, TypeOK
  <2>. QED BY <1>1, <1>2, <1>3, <2>1, <2>2, Kinds
<1>. QED BY <1>0, <1>4 DEF Up

\* Taken back is gone.
LEMMA StepGone == ASSUME IInv, Next PROVE IGone'
<1>. SUFFICES ASSUME kinds' \cap {"moved", "shared", "pruned"} = {},
                     NEW r \in undone', r \in changed'
              PROVE  FALSE
  BY DEF IGone
<1>0. /\ TypeOK /\ IFound /\ undone \cap changed = {}
      /\ \A p \in Procs : Working(p) => current[p] \notin undone
      /\ \A s \in changed : HasLog(s) => <<s, log[s].chat>> \in saved
  BY KindsGrow DEF IInv, IGone, IAlone, ISaved
<1>1. ASSUME NEW p \in Procs, QuietStep(p) PROVE FALSE
  <2>1. CASE Touch(p)
    BY <1>0, <2>1, TouchStep DEF Working
  <2>2. CASE TakeBack(p)
    <3>1. /\ changed' = IF HasCheckpoint(p) THEN changed \ {found[p]} ELSE changed
          /\ undone' = undone \cup {found[p]} /\ home[p] = chat[p] /\ state[p] = "asked"
      BY <2>2 DEF TakeBack, Away
    <3>. QED BY <1>0, <3>1 DEF IFound, HasCheckpoint
  <2>3. CASE ~(Touch(p) \/ TakeBack(p))
    <3>1. undone' = undone /\ changed' \subseteq changed
      BY <1>1, <2>3 DEF QuietStep, Start, SwitchChat, Quit, Crash, EndRun, AppendLine, UndoOwn,
                        AppendFails, Closed, Later, TakeBackDenied, Keep, fileVars, history
    <3>. QED BY <1>0, <3>1
  <2>. QED BY <2>1, <2>2, <2>3
<1>2. ASSUME NEW p \in Procs, BeginRun(p) \/ BeginRunUnlogged(p) \/ Find(p) PROVE FALSE
  <2>1. undone' = undone /\ changed' = changed
    BY <1>2, BeginStep DEF Find, fileVars, history
  <2>. QED BY <1>0, <2>1
<1>. QED BY <1>1, <1>2, Kinds

\* Changes that are not saved.
LEMMA StepLoose == ASSUME IInv, Next PROVE ILoose'
<1>0. /\ TypeOK /\ IWorking /\ runs \in Nat /\ kinds \subseteq kinds'
      /\ \A r \in Runs : r > runs => loose[r] = 0
      /\ "disk" \notin kinds =>
            /\ \A r \in Runs : loose[r] <= 1
            /\ \A p \in Procs : state[p] = "run" /\ writing[p] = "no" => loose[current[p]] = 0
  BY KindsGrow DEF IInv, ILoose, TypeOK
<1>1. ASSUME NEW p \in Procs, QuietStep(p), Quiet(p) PROVE ILoose'
  <2>0. runs' = runs /\ \A q \in Procs : Working(q) => current[q] \in Runs /\ current[q] <= runs
    BY <1>0, <1>1, Numbers DEF Quiet, OwnData, IWorking
  <2>1. CASE WriteFile(p)
    <3>1. /\ state' = state /\ current' = current /\ writing' = [writing EXCEPT ![p] = "wrote"]
          /\ loose' = [loose EXCEPT ![current[p]] = @ + 1] /\ state[p] = "run" /\ writing[p] = "no"
          /\ kinds' = kinds
      BY <2>1 DEF WriteFile, procVars, history
    <3>2. /\ \A r \in Runs : r # current[p] => loose'[r] = loose[r]
          /\ loose'[current[p]] = loose[current[p]] + 1 /\ current[p] \in Runs /\ current[p] <= runs
      BY <1>0, <2>0, <3>1 DEF TypeOK, Working
    <3>3. \A r \in Runs : r > runs' => loose'[r] = 0
      BY <1>0, <2>0, <3>2 DEF Runs
    <3>4. ASSUME "disk" \notin kinds'
          PROVE  /\ \A r \in Runs : loose'[r] <= 1
                 /\ \A q \in Procs : state'[q] = "run" /\ writing'[q] = "no" => loose'[current'[q]] = 0
      <4>1. loose[current[p]] = 0 /\ \A r \in Runs : loose'[r] <= 1
        BY <1>0, <3>1, <3>2, <3>4
      <4>2. ASSUME NEW q \in Procs, state'[q] = "run", writing'[q] = "no"
            PROVE  loose'[current'[q]] = 0
        <5>1. q # p /\ state[q] = "run" /\ writing[q] = "no" /\ current[q] \in Runs
          BY <1>0, <2>0, <3>1, <4>2 DEF TypeOK, Working
        <5>2. current[q] # current[p]
          BY <1>0, <3>1, <5>1 DEF IWorking, Working
        <5>. QED BY <1>0, <3>1, <3>2, <3>4, <5>1, <5>2
      <4>. QED BY <4>1, <4>2
    <3>. QED BY <3>3, <3>4 DEF ILoose
  <2>2. CASE Save(p) \/ UndoOwn(p)
    <3>1. /\ state' = state /\ current' = current
          /\ \A q \in Procs : q # p => writing'[q] = writing[q]
          /\ \A r \in Runs : loose'[r] = loose[r] \/ loose'[r] = 0
          /\ state[p] = "run" => loose'[current[p]] = 0
      <4>1. CASE Save(p)
        BY <1>0, <2>0, <4>1 DEF Save, TypeOK, procVars, Working
      <4>2. CASE UndoOwn(p)
        BY <1>0, <4>2 DEF UndoOwn, TypeOK
      <4>. QED BY <2>2, <4>1, <4>2
    <3>2. \A r \in Runs : loose[r] \in Nat /\ (r > runs' => loose'[r] = 0)
      BY <1>0, <2>0, <3>1 DEF TypeOK
    <3>3. ASSUME "disk" \notin kinds' PROVE \A r \in Runs : loose'[r] <= 1
      BY <1>0, <3>1, <3>2, <3>3
    <3>4. ASSUME "disk" \notin kinds', NEW q \in Procs, state'[q] = "run", writing'[q] = "no"
          PROVE  loose'[current'[q]] = 0
      <4>1. CASE q = p
        BY <3>1, <3>4, <4>1
      <4>2. CASE q # p
        <5>1. current[q] \in Runs /\ loose[current[q]] = 0
          BY <1>0, <2>0, <3>1, <3>4, <4>2 DEF Working
        <5>. QED BY <3>1, <5>1
      <4>. QED BY <4>1, <4>2
    <3>. QED BY <3>2, <3>3, <3>4 DEF ILoose
  <2>3. CASE ~(WriteFile(p) \/ Save(p) \/ UndoOwn(p))
    <3>1. loose' = loose
      <4>1. CASE Touch(p)
        BY <2>3, <4>1 DEF Touch, Push, SaveFails, Prune, changes
      <4>2. CASE ~Touch(p)
        BY <1>1, <2>3, <4>2 DEF QuietStep, Start, SwitchChat, Quit, Crash, EndRun, AppendLine,
              AppendFails, Closed, Later, TakeBackDenied, Keep, TakeBack, changes
      <4>. QED BY <4>1, <4>2
    <3>2. "disk" \in kinds' \/ \A q \in Procs :
              state'[q] = "run" => /\ state[q] = "run" /\ current'[q] = current[q]
                                   /\ writing'[q] = "no" => writing[q] = "no"
      <4>1. \A q \in Procs : state'[q] = "run" => state[q] = "run" /\ current'[q] = current[q]
        BY <1>1 DEF Quiet, NoBeginning, Others, Working
      <4>2. \/ "disk" \in kinds' \/ state'[p] # "run"
            \/ writing'[p] = "no" => writing[p] = "no"
        <5>1. CASE Touch(p)
          BY <1>0, <2>3, <5>1 DEF Touch, Push, SaveFails, Prune, changes, TypeOK
        <5>2. CASE ~Touch(p)
          BY <1>0, <1>1, <2>3, <5>2, Vanished DEF QuietStep, Start, SwitchChat, Quit, Crash, EndRun,
             AppendLine, AppendFails, Closed, Later, TakeBackDenied, Keep, TakeBack, changes, TypeOK
        <5>. QED BY <5>1, <5>2
      <4>3. \A q \in Procs : q # p => writing'[q] = writing[q]
        <5>1. CASE Touch(p)
          BY <1>0, <2>3, <5>1 DEF Touch, Push, SaveFails, Prune, changes, TypeOK
        <5>2. CASE ~Touch(p)
          BY <1>0, <1>1, <2>3, <5>2 DEF QuietStep, Start, SwitchChat, Quit, Crash, EndRun, AppendLine,
             AppendFails, Closed, Later, TakeBackDenied, Keep, TakeBack, changes, TypeOK, Vanish
        <5>. QED BY <5>1, <5>2
      <4>. QED BY <4>1, <4>2, <4>3
    <3>. QED BY <1>0, <2>0, <3>1, <3>2 DEF ILoose
  <2>. QED BY <2>1, <2>2, <2>3
<1>2. ASSUME NEW p \in Procs, BeginRun(p) \/ BeginRunUnlogged(p) PROVE ILoose'
  <2>1. /\ state' = [state EXCEPT ![p] = "run"] /\ current' = [current EXCEPT ![p] = runs']
        /\ runs' = runs + 1 /\ runs' \in Runs
    BY <1>2, BeginStep
  <2>2. loose' = loose /\ writing' = writing
    BY <1>2 DEF BeginRun, BeginRunUnlogged, changes
  <2>3. \A q \in Procs : q # p => state'[q] = state[q] /\ current'[q] = current[q]
    BY <1>0, <2>1 DEF TypeOK
  <2>4. current'[p] = runs' /\ loose[runs'] = 0
    BY <1>0, <2>1 DEF TypeOK
  <2>5. \A r \in Runs : r > runs' => loose'[r] = 0
    BY <1>0, <2>1, <2>2 DEF Runs
  <2>. QED BY <1>0, <2>2, <2>3, <2>4, <2>5 DEF ILoose
<1>3. ASSUME NEW p \in Procs, Find(p) PROVE ILoose'
  BY <1>0, <1>3 DEF Find, changes, ILoose, TypeOK, Goto
<1>. QED BY <1>1, <1>2, <1>3, Kinds

\* The end of the log.
LEMMA StepOver == ASSUME IInv, Next PROVE IOver'
<1>. SUFFICES ASSUME "disk" \notin kinds'
              PROVE  /\ \A r \in over' : HasLog(r)' => WithEnd(log'[r])
                     /\ \A p \in Procs :
                           state'[p] = "closing" /\ log'[current'[p]] # NoLog =>
                               WithEnd(log'[current'[p]]) \/ EndsIn(queue'[current'[p]])
  BY DEF IOver, HasLog
<1>0. /\ TypeOK /\ IBegun /\ IWorking /\ IOpen /\ runs \in Nat
      /\ \A r \in over : HasLog(r) => WithEnd(log[r])
      /\ \A p \in Procs :
            state[p] = "closing" /\ HasLog(current[p]) =>
                WithEnd(log[current[p]]) \/ EndsIn(queue[current[p]])
  BY KindsGrow DEF IInv, IOver, TypeOK
<1>1. over \subseteq Runs
  BY <1>0, InterruptedRunsAssumption DEF IBegun, Runs, TypeOK
<1>2. ASSUME NEW p \in Procs, QuietStep(p), Quiet(p)
      PROVE  /\ \A r \in over' : HasLog(r)' => WithEnd(log'[r])
             /\ \A q \in Procs :
                   state'[q] = "closing" /\ log'[current'[q]] # NoLog =>
                       WithEnd(log'[current'[q]]) \/ EndsIn(queue'[current'[q]])
  <2>1. \A r \in Runs : /\ (log'[r] # NoLog) <=> (log[r] # NoLog)
                        /\ WithEnd(log[r]) => WithEnd(log'[r])
    BY <1>2 DEF Quiet, OwnLog, LogStep
  <2>2. over' = over \/ /\ state[p] = "closing" /\ queue[current[p]] = <<>>
                        /\ over' = over \cup {current[p]}
    BY <1>2, TouchStep DEF QuietStep, Start, SwitchChat, Quit, Crash, EndRun, AppendLine, UndoOwn,
                AppendFails, Closed, Later, TakeBackDenied, Keep, TakeBack, history
  <2>3. ASSUME NEW r \in over', HasLog(r)' PROVE WithEnd(log'[r])
    <3>1. CASE r \in over
      BY <1>0, <1>1, <2>1, <2>3, <3>1 DEF HasLog
    <3>2. CASE r \notin over
      <4>1. state[p] = "closing" /\ queue[r] = <<>> /\ r = current[p] /\ r \in Runs
        BY <2>2, <3>2, Numbers DEF Working
      <4>2. ~EndsIn(queue[r])
        BY <4>1 DEF EndsIn
      <4>. QED BY <1>0, <2>1, <2>3, <4>1, <4>2 DEF HasLog
    <3>. QED BY <3>1, <3>2
  <2>4. ASSUME NEW q \in Procs, state'[q] = "closing", log'[current'[q]] # NoLog
        PROVE  WithEnd(log'[current'[q]]) \/ EndsIn(queue'[current'[q]])
    <3>1. Working(q) /\ current'[q] = current[q] /\ current[q] \in Runs /\ HasLog(current[q])
      <4>1. Working(q) /\ current'[q] = current[q]
        BY <1>2, <2>4 DEF Quiet, NoBeginning, Others, Working
      <4>. QED BY <2>1, <2>4, <4>1, Numbers DEF HasLog
    <3>2. CASE q # p
      <4>1. state[q] = "closing" /\ current[q] \notin Own(p)
        BY <1>0, <1>2, <2>4, <3>1, <3>2 DEF Quiet, Others, IWorking, Own
      <4>2. queue'[current[q]] = queue[current[q]]
        BY <1>2, <3>1, <4>1 DEF Quiet, OwnData
      <4>. QED BY <1>0, <2>1, <3>1, <4>1, <4>2
    <3>3. CASE q = p /\ EndRun(p)
      <4>1. queue' = [queue EXCEPT ![current[p]] = Append(queue[current[p]], "end")] /\ state[p] = "run"
        BY <3>1, <3>3 DEF EndRun, HasLog
      <4>2. AllEvents(queue[current[p]]) /\ queue[current[p]] \in Seq({"event", "end"})
        BY <1>0, <3>1, <3>3, <4>1 DEF IOpen, TypeOK
      <4>3. queue'[current[p]] = Append(queue[current[p]], "end")
        BY <1>0, <3>1, <3>3, <4>1 DEF TypeOK
      <4>4. EndsIn(queue'[current[p]])
        BY <4>2, <4>3, Lines
      <4>. QED BY <3>1, <3>3, <4>4
    <3>4. CASE q = p /\ AppendLine(p)
      <4>0. /\ queue[current[p]] \in Seq({"event", "end"}) /\ state' = state
            /\ queue'[current[p]] = Tail(queue[current[p]])
        BY <1>0, <3>1, <3>4, AppendStep DEF TypeOK, AppendLine, procVars
      <4>1. CASE Head(queue[current[p]]) = "end"
        BY <3>1, <3>4, <4>1, AppendStep
      <4>2. CASE Head(queue[current[p]]) # "end"
        <5>1. EndsIn(queue[current[p]]) => EndsIn(queue'[current[p]])
          BY <4>0, <4>2, Lines
        <5>. QED BY <1>0, <2>1, <2>4, <3>1, <3>4, <4>0, <5>1
      <4>. QED BY <4>1, <4>2
    <3>6. CASE q = p /\ Touch(p)
      BY <1>0, <2>4, <3>1, <3>6, TouchStep
    <3>5. CASE q = p /\ ~EndRun(p) /\ ~AppendLine(p) /\ ~Touch(p)
      <4>1. ~(state'[p] = "closing")
        BY <1>0, <1>2, <3>5, Vanished DEF QuietStep, Start, SwitchChat, Quit, Crash, UndoOwn,
              AppendFails, Closed, Later, TakeBackDenied, Keep, TakeBack, Goto, Answered, TypeOK
      <4>. QED BY <2>4, <3>5, <4>1
    <3>. QED BY <3>2, <3>3, <3>4, <3>5, <3>6
  <2>. QED BY <2>3, <2>4
<1>3. ASSUME NEW p \in Procs, BeginRun(p) \/ BeginRunUnlogged(p)
      PROVE  /\ \A r \in over' : HasLog(r)' => WithEnd(log'[r])
             /\ \A q \in Procs :
                   state'[q] = "closing" /\ log'[current'[q]] # NoLog =>
                       WithEnd(log'[current'[q]]) \/ EndsIn(queue'[current'[q]])
  <2>1. /\ state' = [state EXCEPT ![p] = "run"] /\ current' = [current EXCEPT ![p] = runs']
        /\ over' = over /\ runs' \notin over /\ runs' = runs + 1
        /\ \A r \in Runs : r # runs' => log'[r] = log[r] /\ queue'[r] = queue[r]
    BY <1>3, BeginStep
  <2>2. \A q \in Procs : state'[q] = "closing" => /\ state[q] = "closing" /\ current'[q] = current[q]
                                                  /\ current[q] \in Runs /\ current[q] # runs'
    BY <1>0, <2>1, Numbers DEF TypeOK, IWorking, Working
  <2>. QED BY <1>0, <1>1, <2>1, <2>2 DEF HasLog
<1>4. ASSUME NEW p \in Procs, Find(p)
      PROVE  /\ \A r \in over' : HasLog(r)' => WithEnd(log'[r])
             /\ \A q \in Procs :
                   state'[q] = "closing" /\ log'[current'[q]] # NoLog =>
                       WithEnd(log'[current'[q]]) \/ EndsIn(queue'[current'[q]])
  BY <1>0, <1>4 DEF Find, fileVars, history, HasLog, TypeOK, Goto
<1>. QED BY <1>2, <1>3, <1>4, Kinds

\* Decisions are written down.
LEMMA StepDecided == ASSUME IInv, Next PROVE IDecided'
<1>. SUFFICES ASSUME "torn" \notin kinds'
              PROVE  NoneTorn' /\ \A r \in decided' : WithEnd(log'[r])
  BY DEF IDecided, NoneTorn
<1>0. TypeOK /\ IBegun /\ NoneTorn /\ \A r \in decided : WithEnd(log[r])
  BY KindsGrow DEF IInv, IDecided, NoneTorn
<1>1. decided \subseteq Runs
  BY <1>0, InterruptedRunsAssumption DEF IBegun, Runs, TypeOK
<1>2. ASSUME NEW p \in Procs, QuietStep(p), Quiet(p)
      PROVE  NoneTorn' /\ \A r \in decided' : WithEnd(log'[r])
  <2>1. CASE Keep(p) \/ TakeBack(p)
    BY <1>0, <1>1, <2>1, DecideStep DEF LogStep
  <2>2. CASE ~(Keep(p) \/ TakeBack(p))
    <3>1. decided' = decided
      BY <1>2, <2>2, TouchStep DEF QuietStep, Start, SwitchChat, Quit, Crash, EndRun, AppendLine,
              UndoOwn, AppendFails, Closed, Later, TakeBackDenied, history
    <3>2. \A r \in Runs : WithEnd(log[r]) => WithEnd(log'[r])
      BY <1>2 DEF Quiet, OwnLog, LogStep
    <3>3. CASE AppendLine(p)
      BY <1>0, <1>1, <3>1, <3>2, <3>3, AppendStep
    <3>4. CASE ~AppendLine(p)
      <4>1. log' = log
        BY <1>2, <2>2, <3>4, CrashStep, TouchStep DEF QuietStep, Start, SwitchChat, Quit, EndRun,
              UndoOwn, AppendFails, Closed, Later, TakeBackDenied, fileVars
      <4>. QED BY <1>0, <1>1, <3>1, <3>2, <4>1, LogUnchanged
    <3>. QED BY <3>3, <3>4
  <2>. QED BY <2>1, <2>2
<1>3. ASSUME NEW p \in Procs, BeginRun(p) \/ BeginRunUnlogged(p)
      PROVE  NoneTorn' /\ \A r \in decided' : WithEnd(log'[r])
  <2>1. /\ decided' = decided /\ runs' \notin decided /\ log[runs'] = NoLog
        /\ \A r \in Runs : r # runs' => log'[r] = log[r]
        /\ ~IsTorn(log'[runs'])
    BY <1>3, BeginStep DEF IsTorn
  <2>. QED BY <1>0, <1>1, <2>1 DEF NoneTorn
<1>4. ASSUME NEW p \in Procs, Find(p)
      PROVE  NoneTorn' /\ \A r \in decided' : WithEnd(log'[r])
  BY <1>0, <1>4 DEF Find, fileVars, history, NoneTorn
<1>. QED BY <1>2, <1>3, <1>4, Kinds

LEMMA StepInv ==
    ASSUME IInv, [Next]_vars
    PROVE  IInv'
<1>1. CASE Next
  <2>1. IBegun' /\ IWorking' /\ IFound' /\ IOpen'
    BY <1>1, Kinds, QuietKeeps, BeginKeeps, FindKeeps
  <2>. QED BY <1>1, <2>1, StepType, StepSaved, StepAlone, StepGone, StepOver, StepDecided, StepLoose DEF IInv
<1>2. CASE UNCHANGED vars
  <2>. USE DEF vars, procVars, fileVars, changes, history
  <2>1. TypeOK' /\ IBegun' /\ IWorking' /\ IFound' /\ IOpen'
    BY <1>2 DEF IInv, TypeOK, IBegun, IWorking, IFound, IOpen, HasLog, Working, Up
  <2>2. ISaved' /\ IAlone' /\ IGone' /\ IOver' /\ IDecided' /\ ILoose'
    BY <1>2 DEF IInv, ISaved, IAlone, IGone, IOver, IDecided, ILoose, HasLog, Working, Up
  <2>. QED BY <2>1, <2>2 DEF IInv
<1>. QED BY <1>1, <1>2

THEOREM InvariantHolds == Spec => []IInv
<1>1. Init => IInv
  BY InitInv
<1>2. IInv /\ [Next]_vars => IInv'
  BY StepInv
<1>. QED BY <1>1, <1>2, PTL DEF Spec

-----------------------------------------------------------------------------
(* What the user is promised *)

LEMMA KeptFromInv == IInv => CutRunsAreKept
<1>. SUFFICES ASSUME IInv PROVE CutRunsAreKept
  OBVIOUS
<1>0. /\ IOpen /\ ISaved /\ IGone /\ cut \subseteq Runs /\ undone \subseteq Runs
      /\ "disk" \notin kinds => \A r \in Runs : loose[r] <= 1
  BY InterruptedRunsAssumption DEF IInv, IBegun, ILoose, TypeOK, Runs
<1>1. CutRunsCanBeReported
  <2>. SUFFICES ASSUME NEW r \in cut \ decided, log[r] # NoLog PROVE ~log[r].ended
    BY DEF CutRunsCanBeReported
  <2>1. ~WithEnd(log[r])
    BY <1>0 DEF IOpen
  <2>. QED BY <2>1, Zenon DEF WithEnd
<1>2. CutRunsCanBeTakenBackAtHome
  BY <1>0 DEF ISaved, HasLog, CutRunsCanBeTakenBackAtHome, CutRunsCanBeTakenBack
<1>3. TakenBackIsGone
  BY <1>0 DEF IGone, TakenBackIsGone
<1>. QED BY <1>1, <1>2, <1>3 DEF CutRunsAreKept

\* For any number of instances, chats, runs, crashes and disk errors, a run that was cut
\* off, and that nobody has decided about, has a log without an end, so that
\* findInterruptedRun reports it; at home the checkpoint of its saved changes lies where
\* hydrateRun looks, unless it was pruned; a run that was taken back has left none of them
\* in the files; and while checkpoints can be written, at most one change is not saved.
THEOREM CutRunsAreAlwaysKept == Spec => []CutRunsAreKept
BY InvariantHolds, KeptFromInv, PTL

\* Only Find reports a run.
LEMMA ReportIsFind ==
    ASSUME IInv, Next, NEW p \in Procs, NEW r \in Runs, Reported(p, r)
    PROVE  Find(p) /\ r = found'[p]
<1>1. state[p] = "idle" /\ state'[p] = "asked" /\ found'[p] = r
  BY DEF Reported
<1>2. ASSUME NEW q \in Procs, QuietStep(q), Quiet(q) PROVE FALSE
  BY <1>1, <1>2 DEF Quiet, Others, NoQuestion
<1>3. ASSUME NEW q \in Procs, BeginRun(q) \/ BeginRunUnlogged(q) PROVE FALSE
  <2>1. state' = [state EXCEPT ![q] = "run"]
    BY <1>3, BeginStep
  <2>. QED BY <1>1, <2>1 DEF IInv, TypeOK
<1>4. ASSUME NEW q \in Procs, Find(q) PROVE q = p
  <2>1. state' = [state EXCEPT ![q] = "asked"]
    BY <1>4, FindStep
  <2>. QED BY <1>1, <2>1 DEF IInv, TypeOK
<1>. QED BY <1>1, <1>2, <1>3, <1>4, Kinds

LEMMA ReportStep ==
    ASSUME IInv, Next, NEW p \in Procs, NEW r \in Runs, Reported(p, r)
    PROVE  /\ "disk" \notin kinds => r \notin over
           /\ "shared" \notin kinds => \A q \in Procs : Working(q) => current[q] # r
           /\ "torn" \notin kinds => r \notin decided
<1>1. /\ HasLog(r) /\ log[r].chat = chat[p] /\ ~WithEnd(log[r]) /\ state[p] = "idle"
  BY ReportIsFind, FindStep
<1>2. "disk" \notin kinds => r \notin over
  BY <1>1 DEF IInv, IOver
<1>3. "torn" \notin kinds => r \notin decided
  BY <1>1 DEF IInv, IDecided
<1>4. ASSUME "shared" \notin kinds, NEW q \in Procs, Working(q), current[q] = r PROVE FALSE
  <2>1. chat[q] = chat[p]
    BY <1>1, <1>4 DEF IInv, IWorking
  <2>. QED BY <1>1, <1>4, <2>1 DEF IInv, IAlone, Up, Working
<1>. QED BY <1>2, <1>3, <1>4

\* The question at the start is about a run that really was interrupted: never about one
\* that came to its end on a disk that works, nor about one that goes on where no chat is
\* shared; and where no line is torn it is asked about a run once.
THEOREM ReportsAreAlwaysRight == Spec => ReportsAreRight
<1>1. IInv /\ [Next]_vars =>
        [\A p \in Procs, r \in Runs :
            /\ Reported(p, r) /\ "disk" \notin kinds => r \notin over
            /\ Reported(p, r) /\ "shared" \notin kinds =>
                  \A q \in Procs : Working(q) => current[q] # r]_vars
  BY ReportStep
<1>2. IInv /\ [Next]_vars =>
        [\A p \in Procs, r \in Runs :
            Reported(p, r) /\ "torn" \notin kinds => r \notin decided]_vars
  BY ReportStep
<1>3. Spec => OnlyInterruptedRunsAreReported
  BY <1>1, InvariantHolds, PTL DEF Spec, OnlyInterruptedRunsAreReported
<1>4. Spec => DecidedOnce
  BY <1>2, InvariantHolds, PTL DEF Spec, DecidedOnce
<1>. QED BY <1>3, <1>4 DEF ReportsAreRight
=============================================================================
