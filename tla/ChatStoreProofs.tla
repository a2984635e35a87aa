-------------------------- MODULE ChatStoreProofs --------------------------
(***************************************************************************)
(* What holds of ChatStore for every number of instances, every amount and *)
(* every limit.  Type correctness holds whatever goes wrong; most theorems *)
(* are about the store while it is Calm: no lock has been taken for        *)
(* abandoned too early, no instance has died, no write has failed, nobody  *)
(* else has touched the file.  A calm state has a calm past, so an         *)
(* invariant of the calm steps holds in every calm state.  The last part   *)
(* is about what survives accidents.                                       *)
(***************************************************************************)
EXTENDS ChatStore, TLAPS

-----------------------------------------------------------------------------
(* The operators on chats *)

\* slice(-n) invents no turn.
LEMMA NewestSubset == ASSUME NEW S, NEW n PROVE Newest(S, n) \subseteq S
BY DEF Newest

\* A chat with another time of change is a chat.
LEMMA TouchType == ASSUME NEW d \in Chat, NEW n \in Nat PROVE [d EXCEPT !.at = n] \in Chat
BY DEF Chat

\* Amounts stay natural because the merge stops at zero.
LEMMA MergeAmountType ==
    ASSUME NEW b \in Nat, NEW m \in Nat, NEW t \in Nat
    PROVE  MergeAmount(b, m, t) \in Nat
BY DEF MergeAmount, Later

\* Merging adds exactly what was booked since the base.
LEMMA MergeAmountExact ==
    ASSUME NEW b \in Nat, NEW n \in Nat, NEW t \in Nat
    PROVE  MergeAmount(b, b + n, t) = t + n
BY DEF MergeAmount, Later

\* A three-way merge of chats is a chat.
LEMMA MergeSessionsType ==
    ASSUME NEW b \in Chat, NEW m \in Chat, NEW t \in Chat
    PROVE  MergeSessions(b, m, t) \in Chat
<1>1. Later(m.rev, t.rev) \in Nat /\ Later(m.at, t.at) \in Nat
  BY DEF Chat, Later
<1>2. MergeAmount(b.cost, m.cost, t.cost) \in Nat
      /\ MergeAmount(b.spend, m.spend, t.spend) \in Nat
  BY MergeAmountType DEF Chat
<1>3. MergeTurns(b.turns, m.turns, t.turns) \subseteq Nat
  <2>1. MergeTurns(b.turns, m.turns, t.turns) \subseteq AllTurns(b.turns, m.turns, t.turns)
    BY NewestSubset DEF MergeTurns
  <2>2. AllTurns(b.turns, m.turns, t.turns) \subseteq Nat
    BY DEF AllTurns, Chat
  <2> QED BY <2>1, <2>2
<1> QED BY <1>1, <1>2, <1>3 DEF MergeSessions, Chat

\* What a save is about to write is a chat, whatever the file is.
LEMMA MergedType ==
    ASSUME NEW p \in Procs, base[p] \in Chat, data[p] \in Chat,
           NEW f \in Chat \cup {Missing, Damaged}
    PROVE  Merged(p, f) \in Chat
<1> DEFINE m == IF IsReadable(f) /\ ~SameFingerprint(f, base[p])
                THEN MergeSessions(base[p], data[p], f) ELSE data[p]
           r == IF IsReadable(f) THEN f.rev ELSE 0
<1>1. IsReadable(f) => f \in Chat
  BY DEF IsReadable
<1>2. m \in Chat
  BY <1>1, MergeSessionsType
<1>3. r \in Nat
  BY <1>1 DEF Chat
<1>4. Later(m.rev, r) + 1 \in Nat
  BY <1>2, <1>3 DEF Later, Chat
<1>5. Merged(p, f) = [m EXCEPT !.rev = Later(m.rev, r) + 1]
  BY DEF Merged
<1> HIDE DEF m, r
<1> QED BY <1>2, <1>4, <1>5 DEF Chat

-----------------------------------------------------------------------------
(* Type correctness *)

\* An operation keeps the types of what Change touches.
LEMMA ChangeType ==
    ASSUME TypeOK, NEW p \in Procs, NEW d \in Chat, Change(p, d)
    PROVE  /\ file' \in Chat \cup {Missing, Damaged} /\ aside' \in Nat
           /\ lock' \in LockFile \cup {NoLock} /\ pc' \in [Procs -> States]
           /\ data' \in [Procs -> Chat] /\ base' \in [Procs -> Chat]
           /\ clock' \in Nat /\ booked' \in Nat /\ saved' \subseteq Nat
           /\ removed' \in [Procs -> SUBSET Nat]
<1>1. [d EXCEPT !.at = clock + 1] \in Chat
  <2>1. clock + 1 \in Nat
    BY DEF TypeOK
  <2> QED BY <2>1, TouchType
<1>2. data' \in [Procs -> Chat]
  BY <1>1 DEF TypeOK, Change
<1>3. data[p].turns \ d.turns \subseteq Nat
  BY DEF TypeOK, Chat
<1>4. removed' \in [Procs -> SUBSET Nat]
  BY <1>3 DEF TypeOK, Change
<1>5. pc' \in [Procs -> States]
  BY DEF TypeOK, Change, Goto, States, SaveStates
<1> QED BY <1>2, <1>4, <1>5 DEF TypeOK, Change

\* The operations keep the types.
LEMMA OperationType ==
    ASSUME TypeOK, NEW p \in Procs, Operation(p)
    PROVE  TypeOK'
<1> USE ConstantsAssumption
<1>0. data[p] \in Chat
  BY DEF TypeOK
<1>1. ASSUME NEW compress \in BOOLEAN, NEW amount \in Amounts,
             FinishRun(p, compress, amount)
      PROVE  TypeOK'
  <2> DEFINE kept == IF compress THEN Newest(data[p].turns, KeepRecent) ELSE data[p].turns
             turns == Newest(kept \cup {clock + 1}, MaxTurns)
             cost == data[p].cost + amount
             spend == data[p].spend + amount
  <2>1. kept \subseteq Nat
    BY <1>0, NewestSubset DEF Chat
  <2>2. turns \subseteq Nat
    BY <2>1, NewestSubset DEF TypeOK
  <2>3. cost \in Nat /\ spend \in Nat
    BY <1>0 DEF Chat
  <2>4. Change(p, [data[p] EXCEPT !.turns = turns, !.cost = cost, !.spend = spend])
    BY <1>1 DEF FinishRun
  <2>5. pending' \in [Procs -> Nat] /\ showing' = showing
        /\ faults' = faults /\ kinds' = kinds
    BY <1>1 DEF FinishRun, Book, TypeOK
  <2> HIDE DEF turns, cost, spend
  <2>6. [data[p] EXCEPT !.turns = turns, !.cost = cost, !.spend = spend] \in Chat
    BY <1>0, <2>2, <2>3 DEF Chat
  <2> QED BY <2>4, <2>5, <2>6, ChangeType DEF TypeOK
<1>2. ASSUME NEW amount \in Amounts, BookCost(p, amount)
      PROVE  TypeOK'
  <2> DEFINE cost == data[p].cost + amount
             spend == data[p].spend + amount
  <2>1. cost \in Nat /\ spend \in Nat
    BY <1>0 DEF Chat
  <2>2. Change(p, [data[p] EXCEPT !.cost = cost, !.spend = spend])
    BY <1>2 DEF BookCost
  <2>3. pending' \in [Procs -> Nat] /\ showing' = showing
        /\ faults' = faults /\ kinds' = kinds
    BY <1>2 DEF BookCost, Book, TypeOK
  <2> HIDE DEF cost, spend
  <2>4. [data[p] EXCEPT !.cost = cost, !.spend = spend] \in Chat
    BY <1>0, <2>1 DEF Chat
  <2> QED BY <2>2, <2>3, <2>4, ChangeType DEF TypeOK
<1>3. CASE Clear(p)
  <2>1. [data[p] EXCEPT !.turns = {}, !.cost = 0] \in Chat
    BY <1>0 DEF Chat
  <2> QED BY <1>3, <2>1, ChangeType DEF Clear, TypeOK
<1>4. CASE Leave(p)
  <2>1. Change(p, data[p]) /\ pending' = pending /\ faults' = faults + 1
        /\ showing' \subseteq Procs /\ kinds' \subseteq Faults
    BY <1>4 DEF Leave, LeaveChat, Fault, TypeOK
  <2> QED BY <1>0, <2>1, ChangeType DEF TypeOK
<1>5. CASE OpenChat(p)
  <2>1. file \in Chat
    BY <1>5 DEF OpenChat, IsReadable, TypeOK
  <2>2. [file EXCEPT !.at = clock + 1] \in Chat
    <3>1. clock + 1 \in Nat
      BY DEF TypeOK
    <3> QED BY <2>1, <3>1, TouchType
  <2>3. data' \in [Procs -> Chat] /\ base' \in [Procs -> Chat] /\ clock' \in Nat
    BY <1>5, <2>1, <2>2 DEF OpenChat, TypeOK
  <2>4. pc' \in [Procs -> States] /\ showing' \subseteq Procs /\ faults' \in Nat
        /\ kinds' \subseteq Faults
    BY <1>5 DEF OpenChat, TypeOK, Goto, States, SaveStates, Fault
  <2>5. pending' \in [Procs -> Nat]
    BY <1>5 DEF OpenChat, TypeOK
  <2> QED BY <1>5, <2>3, <2>4, <2>5 DEF OpenChat, TypeOK
<1>6. CASE DeleteFile(p)
  <2>1. pc' \in [Procs -> States]
    BY <1>6 DEF DeleteFile, TypeOK, Goto, States
  <2> QED BY <1>6, <2>1 DEF DeleteFile, TypeOK, Fault, mem, historyVars
<1> QED BY <1>1, <1>2, <1>3, <1>4, <1>5, <1>6 DEF Operation

\* The steps of a save keep the types.
LEMMA SaveStepType ==
    ASSUME TypeOK, NEW p \in Procs, SaveStep(p)
    PROVE  TypeOK'
<1> USE DEF Goto, mem, historyVars
<1>1. CASE DeleteLock(p)
  <2>1. [data[p] EXCEPT !.at = clock + 1] \in Chat
    <3>1. clock + 1 \in Nat /\ data[p] \in Chat
      BY DEF TypeOK
    <3> QED BY <3>1, TouchType
  <2>2. data' \in [Procs -> Chat]
    BY <1>1, <2>1 DEF DeleteLock, TypeOK
  <2>3. pc' \in [Procs -> States]
    BY <1>1 DEF DeleteLock, TypeOK, States, SaveStates
  <2>4. showing' \subseteq Procs /\ clock' \in Nat
    BY <1>1 DEF DeleteLock, TypeOK
  <2> QED BY <1>1, <2>2, <2>3, <2>4 DEF DeleteLock, TypeOK
<1>2. CASE OpenLock(p)
  <2>1. pc' \in [Procs -> States]
    BY <1>2 DEF OpenLock, TypeOK, States, SaveStates
  <2>2. lock' \in LockFile \cup {NoLock}
    BY <1>2 DEF OpenLock, TypeOK, LockOf, LockFile
  <2> QED BY <1>2, <2>1, <2>2 DEF OpenLock, TypeOK
<1>3. CASE WriteLockInfo(p)
  <2>1. pc' \in [Procs -> States]
    BY <1>3 DEF WriteLockInfo, TypeOK, States, SaveStates
  <2> QED BY <1>3, <2>1 DEF WriteLockInfo, TypeOK, LockFile
<1>4. CASE ProbeLock(p)
  <2>1. pc' \in [Procs -> States]
    BY <1>4 DEF ProbeLock, TypeOK, States, SaveStates
  <2> QED BY <1>4, <2>1 DEF ProbeLock, TypeOK
<1>5. CASE StealLock(p)
  <2>1. pc' \in [Procs -> States]
    BY <1>5 DEF StealLock, TypeOK, States, SaveStates
  <2> QED BY <1>5, <2>1 DEF StealLock, TypeOK
<1>6. CASE ReadForeign(p)
  <2>1. pc' \in [Procs -> States]
    BY <1>6 DEF ReadForeign, TypeOK, States, SaveStates
  <2>2. Merged(p, file) \in Chat
    BY MergedType DEF TypeOK
  <2>3. data' \in [Procs -> Chat]
    BY <1>6, <2>2 DEF ReadForeign, TypeOK
  <2>4. IsReadable(file) =>
            Trimmed(base[p].turns, data[p].turns, file.turns) \subseteq Nat
    BY DEF TypeOK, IsReadable, Trimmed, AllTurns, Chat
  <2>5. removed' \in [Procs -> SUBSET Nat]
    BY <1>6, <2>4 DEF ReadForeign, TypeOK
  <2> QED BY <1>6, <2>1, <2>3, <2>5 DEF ReadForeign, TypeOK
<1>7. CASE MoveAside(p)
  <2>1. pc' \in [Procs -> States]
    BY <1>7 DEF MoveAside, TypeOK, States, SaveStates
  <2> QED BY <1>7, <2>1 DEF MoveAside, TypeOK
<1>8. CASE WriteFile(p)
  <2>1. pc' \in [Procs -> States]
    BY <1>8 DEF WriteFile, TypeOK, States, SaveStates
  <2>2. file' \in Chat /\ base' \in [Procs -> Chat] /\ saved' \subseteq Nat
    BY <1>8 DEF WriteFile, TypeOK, Chat
  <2>3. booked' \in Nat /\ pending' \in [Procs -> Nat]
    BY <1>8 DEF WriteFile, TypeOK
  <2> QED BY <1>8, <2>1, <2>2, <2>3 DEF WriteFile, TypeOK
<1>9. CASE DropLock(p)
  <2>1. pc' \in [Procs -> States]
    BY <1>9 DEF DropLock, TypeOK, States, SaveStates
  <2> QED BY <1>9, <2>1 DEF DropLock, TypeOK
<1> QED BY <1>1, <1>2, <1>3, <1>4, <1>5, <1>6, <1>7, <1>8, <1>9 DEF SaveStep

\* Accidents keep the types.
LEMMA MisfortuneType ==
    ASSUME TypeOK, (\E p \in Procs : Misfortune(p)) \/ Damage
    PROVE  TypeOK'
<1> USE DEF Goto, mem, historyVars, Fault
<1>1. ASSUME NEW p \in Procs, ProbeTooSoonOrTooLate(p) PROVE TypeOK'
  BY <1>1 DEF ProbeTooSoonOrTooLate, TypeOK, States, SaveStates
<1>2. ASSUME NEW p \in Procs, GiveUp(p) PROVE TypeOK'
  BY <1>2 DEF GiveUp, TypeOK, States, SaveStates
<1>3. ASSUME NEW p \in Procs, WriteFails(p) PROVE TypeOK'
  <2>1. pc' \in [Procs -> States]
    BY <1>3 DEF WriteFails, TypeOK, States, SaveStates
  <2>2. faults \in Nat /\ faults' = faults + 1 /\ kinds' \subseteq Faults
    BY <1>3 DEF WriteFails, TypeOK
  <2> QED BY <1>3, <2>1, <2>2 DEF WriteFails, TypeOK
<1>4. ASSUME NEW p \in Procs, Crash(p) PROVE TypeOK'
  <2>1. lock' \in LockFile \cup {NoLock}
    BY <1>4 DEF Crash, TypeOK, LockFile
  <2> QED BY <1>4, <2>1 DEF Crash, TypeOK, States
<1>5. CASE Damage
  BY <1>5 DEF Damage, TypeOK
<1> QED BY <1>1, <1>2, <1>3, <1>4, <1>5 DEF Misfortune

\* Every step keeps the types.
LEMMA TypeStep == ASSUME TypeOK, Next PROVE TypeOK'
<1>1. ASSUME NEW p \in Procs, Operation(p) PROVE TypeOK'
  BY <1>1, OperationType
<1>2. ASSUME NEW p \in Procs, SaveStep(p) PROVE TypeOK'
  BY <1>2, SaveStepType
<1>3. CASE (\E p \in Procs : Misfortune(p)) \/ Damage
  BY <1>3, MisfortuneType
<1> QED BY <1>1, <1>2, <1>3 DEF Next

\* Every reachable state is well typed, whatever goes wrong.
THEOREM TypeCorrect == Spec => []TypeOK
<1>1. Init => TypeOK
  <2> SUFFICES ASSUME Init PROVE TypeOK
    OBVIOUS
  <2>1. EmptyChat \in Chat
    BY DEF EmptyChat, Chat
  <2> QED BY <2>1 DEF Init, TypeOK, States
<1>2. TypeOK /\ [Next]_vars => TypeOK'
  BY TypeStep DEF vars, mem, historyVars, TypeOK
<1> QED BY <1>1, <1>2, PTL DEF Spec
-----------------------------------------------------------------------------
(* The calm store: inductive invariant *)

\* The lock exists exactly while its owner is inside acquireChatLock's
\* protection, and nobody is about to unlink somebody else's.
LockInv ==
    /\ \A p \in Procs : pc[p] \in {"idle", "left", "open", "probe"} \cup (Holding \ {"aside"})
    /\ \A p \in Procs : pc[p] \in Holding => lock # NoLock /\ lock.owner = p
    /\ lock # NoLock => pc[lock.owner] \in Holding /\ lock.state # "abandoned"

\* #base is a past content of the file, and the revision tells which.
BaseInv ==
    /\ file \in Chat
    /\ \A p \in Procs : base[p].rev <= file.rev
    /\ \A p \in Procs : base[p].rev = file.rev => base[p] = file

\* What an instance has booked and not saved is the distance of its spend from
\* its base and, once it has merged, from the file.
LedgerInv ==
    /\ file.spend = booked
    /\ \A p \in Procs : pc[p] # "write" => data[p].spend = base[p].spend + pending[p]
    /\ \A p \in Procs : pc[p] = "write" => data[p].spend = file.spend + pending[p]
    /\ \A p \in Procs : pc[p] \in {"idle", "left", "drop"} => pending[p] = 0

IsRemoved(t) == \E p \in Procs : t \in removed[p]

\* An exchange is missing from memory or about to be overwritten only if some
\* instance has removed it.
TurnInv ==
    /\ \A t \in saved : t \in file.turns \/ IsRemoved(t)
    /\ \A p \in Procs : \A t \in base[p].turns : t \in data[p].turns \/ IsRemoved(t)
    /\ \A p \in Procs : pc[p] = "write" =>
          /\ data[p].rev > file.rev
          /\ \A t \in file.turns : t \in data[p].turns \/ IsRemoved(t)

IInv == TypeOK /\ LockInv /\ BaseInv /\ LedgerInv /\ TurnInv

\* The steps of a calm store, the operations in one shape: d is the
\* changed chat, n what the operation costs.
Operate(p, d, n) ==
    /\ pc[p] = "idle"
    /\ Change(p, d)
    /\ d \in Chat /\ n \in Nat
    /\ d.spend = data[p].spend + n
    /\ pending' = [pending EXCEPT ![p] = @ + n]

CalmStep(p) ==
    \/ \E d \in Chat, n \in Nat : Operate(p, d, n)
    \/ OpenChat(p) \/ OpenLock(p) \/ WriteLockInfo(p) \/ ProbeLock(p)
    \/ ReadForeign(p) \/ WriteFile(p) \/ DropLock(p)

-----------------------------------------------------------------------------
(* Which steps are possible *)

\* The four operations on the chat change it as Operate says.
LEMMA OperationsOperate ==
    ASSUME TypeOK, NEW p \in Procs,
           \/ \E compress \in BOOLEAN, amount \in Amounts : FinishRun(p, compress, amount)
           \/ \E amount \in Amounts : BookCost(p, amount)
           \/ Clear(p) \/ Leave(p)
    PROVE  \E d \in Chat, n \in Nat : Operate(p, d, n)
<1> USE ConstantsAssumption
<1>0. data[p] \in Chat /\ pending \in [Procs -> Nat]
  BY DEF TypeOK
<1>1. ASSUME NEW compress \in BOOLEAN, NEW amount \in Amounts,
             FinishRun(p, compress, amount)
      PROVE  \E d \in Chat, n \in Nat : Operate(p, d, n)
  <2> DEFINE kept == IF compress THEN Newest(data[p].turns, KeepRecent) ELSE data[p].turns
             turns == Newest(kept \cup {clock + 1}, MaxTurns)
             cost == data[p].cost + amount
             spend == data[p].spend + amount
             d == [data[p] EXCEPT !.turns = turns, !.cost = cost, !.spend = spend]
  <2>1. kept \subseteq Nat
    BY <1>0, NewestSubset DEF Chat
  <2>2. turns \subseteq Nat
    BY <2>1, NewestSubset DEF TypeOK
  <2>3. cost \in Nat /\ spend \in Nat /\ amount \in Nat
    BY <1>0 DEF Chat
  <2>4. pc[p] = "idle" /\ Change(p, d) /\ Book(p, amount)
    BY <1>1 DEF FinishRun
  <2>5. spend = data[p].spend + amount
    OBVIOUS
  <2> HIDE DEF turns, cost, spend
  <2>6. d \in Chat /\ d.spend = spend
    BY <1>0, <2>2, <2>3 DEF Chat
  <2> HIDE DEF d
  <2>7. Operate(p, d, amount)
    BY <2>3, <2>4, <2>5, <2>6 DEF Operate, Book
  <2> QED BY <2>3, <2>6, <2>7
<1>2. ASSUME NEW amount \in Amounts, BookCost(p, amount)
      PROVE  \E d \in Chat, n \in Nat : Operate(p, d, n)
  <2> DEFINE cost == data[p].cost + amount
             spend == data[p].spend + amount
             d == [data[p] EXCEPT !.cost = cost, !.spend = spend]
  <2>1. cost \in Nat /\ spend \in Nat /\ amount \in Nat
    BY <1>0 DEF Chat
  <2>2. pc[p] = "idle" /\ Change(p, d) /\ Book(p, amount)
    BY <1>2 DEF BookCost
  <2>3. spend = data[p].spend + amount
    OBVIOUS
  <2> HIDE DEF cost, spend
  <2>4. d \in Chat /\ d.spend = spend
    BY <1>0, <2>1 DEF Chat
  <2> HIDE DEF d
  <2>5. Operate(p, d, amount)
    BY <2>1, <2>2, <2>3, <2>4 DEF Operate, Book
  <2> QED BY <2>1, <2>4, <2>5
<1>3. pending = [pending EXCEPT ![p] = @ + 0]
  BY <1>0
<1>4. CASE Clear(p)
  <2> DEFINE d == [data[p] EXCEPT !.turns = {}, !.cost = 0]
  <2>1. d \in Chat /\ d.spend = data[p].spend /\ data[p].spend \in Nat
    BY <1>0 DEF Chat
  <2>2. pc[p] = "idle" /\ Change(p, d) /\ pending' = pending
    BY <1>4 DEF Clear
  <2> HIDE DEF d
  <2>3. Operate(p, d, 0)
    BY <1>3, <2>1, <2>2 DEF Operate
  <2> QED BY <2>1, <2>3
<1>5. CASE Leave(p)
  <2>1. data[p].spend \in Nat
    BY <1>0 DEF Chat
  <2>2. pc[p] = "idle" /\ Change(p, data[p]) /\ pending' = pending
    BY <1>5 DEF Leave, LeaveChat
  <2>3. Operate(p, data[p], 0)
    BY <1>0, <1>3, <2>1, <2>2 DEF Operate
  <2> QED BY <1>0, <2>3
<1> QED BY <1>1, <1>2, <1>4, <1>5

\* No step makes a fault undone.
LEMMA FaultsStay == ASSUME Next PROVE kinds \subseteq kinds'
<1> USE DEF Fault
<1>1. ASSUME NEW p \in Procs, Operation(p) PROVE kinds \subseteq kinds'
  BY <1>1 DEF Operation, FinishRun, BookCost, Clear, Leave, OpenChat, DeleteFile
<1>2. ASSUME NEW p \in Procs, SaveStep(p) PROVE kinds \subseteq kinds'
  BY <1>2 DEF SaveStep, DeleteLock, OpenLock, WriteLockInfo, ProbeLock, StealLock,
              ReadForeign, MoveAside, WriteFile, DropLock
<1>3. ASSUME NEW p \in Procs, Misfortune(p) PROVE kinds \subseteq kinds'
  BY <1>3 DEF Misfortune, ProbeTooSoonOrTooLate, GiveUp, WriteFails, Crash
<1>4. CASE Damage
  BY <1>4 DEF Damage
<1> QED BY <1>1, <1>2, <1>3, <1>4 DEF Next

\* Every step that leaves the store calm is one of CalmStep.
LEMMA CalmNext ==
    ASSUME Calm', IInv, Next
    PROVE  \E p \in Procs : CalmStep(p)
<1>0. /\ ~Fault("slow") /\ ~Fault("crash") /\ ~Fault("delete")
      /\ ~Fault("writeError") /\ ~Fault("damage")
  BY DEF Calm, Fault
<1>1. ASSUME NEW p \in Procs, Operation(p) PROVE CalmStep(p)
  <2>1. ~DeleteFile(p)
    BY <1>0 DEF DeleteFile
  <2>2. CASE OpenChat(p)
    BY <2>2 DEF CalmStep
  <2>3. CASE ~OpenChat(p)
    <3>1. \/ \E compress \in BOOLEAN, amount \in Amounts : FinishRun(p, compress, amount)
          \/ \E amount \in Amounts : BookCost(p, amount)
          \/ Clear(p) \/ Leave(p)
      BY <1>1, <2>1, <2>3 DEF Operation
    <3>2. TypeOK
      BY DEF IInv
    <3> QED BY <3>1, <3>2, OperationsOperate DEF CalmStep
  <2> QED BY <2>2, <2>3
<1>2. ASSUME NEW p \in Procs, SaveStep(p) PROVE CalmStep(p)
  <2>1. pc[p] \notin {"unlock", "steal", "aside"}
    BY DEF IInv, LockInv, Holding
  <2> QED BY <1>2, <2>1 DEF SaveStep, CalmStep, DeleteLock, StealLock, MoveAside
<1>3. ASSUME NEW p \in Procs PROVE ~Misfortune(p)
  BY <1>0 DEF Misfortune, ProbeTooSoonOrTooLate, GiveUp, WriteFails, Crash
<1>4. ~Damage
  BY <1>0 DEF Damage
<1> QED BY <1>1, <1>2, <1>3, <1>4 DEF Next

-----------------------------------------------------------------------------
(* The lock *)

\* A step of p moves the lock and p together.
LEMMA LockStep ==
    ASSUME IInv, NEW p \in Procs, CalmStep(p)
    PROVE  LockInv'
<1> USE DEF IInv, LockInv, Holding, Goto
<1>0. pc \in [Procs -> States] /\ lock \in LockFile \cup {NoLock}
  BY DEF TypeOK
<1>1. ASSUME NEW d \in Chat, NEW n \in Nat, Operate(p, d, n) PROVE LockInv'
  BY <1>0, <1>1 DEF Operate, Change
<1>2. CASE OpenChat(p)
  <2>1. pc[p] = "left" /\ lock' = lock /\ pc' = [pc EXCEPT ![p] = "open"]
    BY <1>0, <1>2 DEF OpenChat
  <2> QED BY <1>0, <2>1
<1>3. CASE OpenLock(p)
  <2>1. CASE lock = NoLock
    <3>1. lock' = LockOf(p) /\ pc' = [pc EXCEPT ![p] = "info"]
      BY <1>3, <2>1 DEF OpenLock
    <3>2. \A q \in Procs : pc[q] \notin Holding
      BY <2>1
    <3>3. lock' # NoLock /\ lock'.owner = p /\ lock'.state = "empty"
      BY <3>1, SentinelAssumption DEF LockOf, LockFile
    <3> QED BY <1>0, <3>1, <3>2, <3>3
  <2>2. CASE lock # NoLock
    <3>1. pc[p] = "open" /\ lock' = lock /\ pc' = [pc EXCEPT ![p] = "probe"]
      BY <1>3, <2>2 DEF OpenLock
    <3> QED BY <1>0, <3>1
  <2> QED BY <2>1, <2>2
<1>4. CASE WriteLockInfo(p)
  <2>1. lock # NoLock /\ lock.owner = p /\ pc' = [pc EXCEPT ![p] = "read"]
    BY <1>4 DEF WriteLockInfo
  <2>2. lock' = [lock EXCEPT !.state = "filled"] /\ lock \in LockFile
    BY <1>0, <1>4, <2>1 DEF WriteLockInfo
  <2>3. lock' \in LockFile /\ lock'.owner = p /\ lock'.state = "filled"
    BY <2>1, <2>2 DEF LockFile
  <2>4. lock' # NoLock
    BY <2>3, SentinelAssumption
  <2> QED BY <1>0, <2>1, <2>3, <2>4
<1>5. CASE ProbeLock(p)
  <2>1. pc[p] = "probe" /\ lock' = lock /\ pc' = [pc EXCEPT ![p] = "open"]
    BY <1>5 DEF ProbeLock, OwnerGone
  <2> QED BY <1>0, <2>1
<1>6. CASE ReadForeign(p)
  <2>1. file # Damaged
    BY SentinelAssumption DEF BaseInv
  <2>2. pc' = [pc EXCEPT ![p] = "write"] /\ lock' = lock /\ pc[p] = "read"
    BY <1>6, <2>1 DEF ReadForeign
  <2> QED BY <1>0, <2>2
<1>7. CASE WriteFile(p)
  BY <1>0, <1>7 DEF WriteFile
<1>8. CASE DropLock(p)
  <2>1. \A q \in Procs : q # p => pc[q] \notin Holding
    BY <1>8 DEF DropLock
  <2>2. lock' = NoLock /\ pc' = [pc EXCEPT ![p] = IF p \in showing THEN "idle" ELSE "left"]
    BY <1>8 DEF DropLock
  <2> QED BY <1>0, <2>1, <2>2
<1> QED BY <1>1, <1>2, <1>3, <1>4, <1>5, <1>6, <1>7, <1>8 DEF CalmStep

-----------------------------------------------------------------------------
(* What a save is about to write *)

\* Merging keeps every exchange of both sides that nobody removed and that the
\* limit does not cut off.
LEMMA MergeKeeps ==
    ASSUME NEW b, NEW m, NEW t, NEW x \in m \cup t, x \notin Trimmed(b, m, t),
           x \in b => x \in m
    PROVE  x \in MergeTurns(b, m, t)
<1>1. x \in AllTurns(b, m, t)
  BY DEF AllTurns
<1> QED BY <1>1 DEF Trimmed, MergeTurns

\* As long as the bases are what BaseInv says, the merge result is newer than
\* the file and lacks only what was removed.
LEMMA MergedTurns ==
    ASSUME TypeOK, BaseInv, TurnInv, NEW p \in Procs
    PROVE  LET m == Merged(p, file)
           IN  /\ m \in Chat
               /\ m.rev > file.rev
               /\ \A t \in file.turns \cup data[p].turns :
                     \/ t \in m.turns
                     \/ IsRemoved(t)
                     \/ t \in Trimmed(base[p].turns, data[p].turns, file.turns)
<1> DEFINE same == SameFingerprint(file, base[p])
           merged == MergeSessions(base[p], data[p], file)
           m == IF same THEN data[p] ELSE merged
           r == Later(m.rev, file.rev) + 1
<1>1. file \in Chat /\ base[p] \in Chat /\ data[p] \in Chat
  BY DEF TypeOK, BaseInv
<1>2. IsReadable(file)
  BY <1>1, SentinelAssumption DEF IsReadable
<1>3. Merged(p, file) = [m EXCEPT !.rev = r]
  BY <1>2 DEF Merged
<1>4. m \in Chat
  BY <1>1, MergeSessionsType
<1>5. same => base[p] = file
  <2>1. same => base[p].rev = file.rev
    BY DEF SameFingerprint
  <2> QED BY <2>1 DEF BaseInv
<1>6. ASSUME NEW t \in file.turns \cup data[p].turns,
              ~IsRemoved(t),
              t \notin Trimmed(base[p].turns, data[p].turns, file.turns)
       PROVE  t \in m.turns
  <2>1. t \in base[p].turns => t \in data[p].turns
    BY <1>6 DEF TurnInv
  <2>2. CASE same
    BY <1>5, <2>1, <2>2
  <2>3. CASE ~same
    <3>1. merged.turns = MergeTurns(base[p].turns, data[p].turns, file.turns)
      BY DEF MergeSessions
    <3> QED BY <1>6, <2>1, <2>3, <3>1, MergeKeeps
  <2> QED BY <2>2, <2>3
<1>7. r \in Nat /\ r > file.rev
  BY <1>1, <1>4 DEF Later, Chat
<1> HIDE DEF m, r
<1>8. /\ Merged(p, file) \in Chat /\ Merged(p, file).rev = r
      /\ Merged(p, file).turns = m.turns
  BY <1>3, <1>4, <1>7 DEF Chat
<1> QED BY <1>6, <1>7, <1>8

\* What a save is about to write carries one's own spend, or the file's and what is pending.
LEMMA MergedSpend ==
    ASSUME TypeOK, NEW p \in Procs, data[p].spend = base[p].spend + pending[p]
    PROVE  /\ \/ Merged(p, file).spend = data[p].spend
              \/ IsReadable(file) /\ Merged(p, file).spend = file.spend + pending[p]
           /\ IsReadable(file) /\ ~SameFingerprint(file, base[p])
                 => Merged(p, file).spend = file.spend + pending[p]
<1> DEFINE foreign == IsReadable(file) /\ ~SameFingerprint(file, base[p])
           merged == MergeSessions(base[p], data[p], file)
           m == IF foreign THEN merged ELSE data[p]
           r == Later(m.rev, IF IsReadable(file) THEN file.rev ELSE 0) + 1
<1>1. base[p] \in Chat /\ data[p] \in Chat /\ pending[p] \in Nat
  BY DEF TypeOK
<1>2. IsReadable(file) => file \in Chat
  BY DEF TypeOK, IsReadable
<1>3. Merged(p, file) = [m EXCEPT !.rev = r]
  BY DEF Merged
<1>4. IsReadable(file) => merged \in Chat /\ merged.spend = file.spend + pending[p]
  <2> SUFFICES ASSUME IsReadable(file)
               PROVE  merged \in Chat /\ merged.spend = file.spend + pending[p]
    OBVIOUS
  <2>1. merged.spend = MergeAmount(base[p].spend, data[p].spend, file.spend)
    BY DEF MergeSessions
  <2>2. base[p].spend \in Nat /\ data[p].spend \in Nat /\ file.spend \in Nat
    BY <1>1, <1>2 DEF Chat
  <2>3. merged \in Chat
    BY <1>1, <1>2, MergeSessionsType
  <2> HIDE DEF merged
  <2>4. merged.spend = file.spend + pending[p]
    BY <1>1, <2>1, <2>2, MergeAmountExact
  <2> QED BY <2>3, <2>4
<1>5. /\ m \in Chat
      /\ foreign => m = merged
      /\ ~foreign => m = data[p]
  BY <1>1, <1>4
<1> HIDE DEF m, r
<1>6. Merged(p, file).spend = m.spend
  BY <1>3, <1>5 DEF Chat
<1> QED BY <1>4, <1>5, <1>6

\* In a calm store it is the latter: data that equals base in all but what is pending
\* is the file, if the file is base.
LEMMA MergedFacts ==
    ASSUME IInv, NEW p \in Procs, pc[p] = "read"
    PROVE  Merged(p, file).spend = file.spend + pending[p]
<1>1. file \in Chat /\ base[p] \in Chat /\ data[p] \in Chat /\ pending[p] \in Nat
  BY DEF IInv, TypeOK, BaseInv
<1>2. data[p].spend = base[p].spend + pending[p]
  BY DEF IInv, LedgerInv
<1>3. CASE SameFingerprint(file, base[p])
  <2>1. base[p] = file
    BY <1>3 DEF IInv, BaseInv, SameFingerprint
  <2>2. IsReadable(file)
    BY <1>1, SentinelAssumption DEF IsReadable
  <2> DEFINE r == Later(data[p].rev, file.rev) + 1
  <2>3. Merged(p, file) = [data[p] EXCEPT !.rev = r]
    BY <1>3, <2>2 DEF Merged
  <2> HIDE DEF r
  <2>4. Merged(p, file).spend = data[p].spend
    BY <1>1, <2>3 DEF Chat
  <2> QED BY <1>2, <2>1, <2>4
<1>4. CASE ~SameFingerprint(file, base[p])
  BY <1>1, <1>2, <1>4, MergedSpend, SentinelAssumption DEF IInv, IsReadable
<1> QED BY <1>3, <1>4

-----------------------------------------------------------------------------
(* The other parts of the invariant *)

\* While p writes nobody else does.
LEMMA OneWriter ==
    ASSUME IInv, NEW p \in Procs, NEW q \in Procs, pc[p] = "write", pc[q] = "write"
    PROVE  p = q
BY DEF IInv, LockInv, Holding

\* The file stays a chat whose revision bounds every base.
LEMMA BaseStep ==
    ASSUME IInv, NEW p \in Procs, CalmStep(p)
    PROVE  BaseInv'
<1> USE DEF IInv
<1>0. BaseInv /\ base \in [Procs -> Chat] /\ data[p] \in Chat
  BY DEF TypeOK
<1>1. ASSUME NEW d \in Chat, NEW n \in Nat, Operate(p, d, n) PROVE BaseInv'
  BY <1>0, <1>1 DEF Operate, Change, BaseInv
<1>2. CASE OpenChat(p)
  <2>1. file' = file /\ base' = [base EXCEPT ![p] = file]
    BY <1>2 DEF OpenChat
  <2>2. file.rev \in Nat
    BY <1>0 DEF BaseInv, Chat
  <2> QED BY <1>0, <2>1, <2>2 DEF BaseInv
<1>3. CASE WriteFile(p)
  <2>1. file' = data[p] /\ base' = [base EXCEPT ![p] = data[p]]
    BY <1>3 DEF WriteFile
  <2>2. data[p].rev > file.rev
    BY <1>3 DEF WriteFile, TurnInv
  <2>3. data[p].rev \in Nat /\ file.rev \in Nat /\ \A q \in Procs : base[q].rev \in Nat
    BY <1>0 DEF BaseInv, Chat
  <2> QED BY <1>0, <2>1, <2>2, <2>3 DEF BaseInv
<1>4. ASSUME file' = file, base' = base PROVE BaseInv'
  BY <1>0, <1>4 DEF BaseInv
<1> QED BY <1>1, <1>2, <1>3, <1>4 DEF CalmStep, OpenLock, WriteLockInfo, ProbeLock,
           ReadForeign, DropLock, mem

\* The ledger stays exact.
LEMMA LedgerStep ==
    ASSUME IInv, NEW p \in Procs, CalmStep(p)
    PROVE  LedgerInv'
<1> USE DEF IInv, LedgerInv, Goto
<1>0. /\ pc \in [Procs -> States] /\ pending \in [Procs -> Nat]
      /\ data \in [Procs -> Chat] /\ base \in [Procs -> Chat] /\ file \in Chat
  BY DEF TypeOK, BaseInv
<1>a. /\ file.spend \in Nat /\ booked \in Nat
      /\ \A q \in Procs : data[q].spend \in Nat /\ base[q].spend \in Nat
  BY <1>0 DEF Chat, TypeOK
<1>1. ASSUME NEW d \in Chat, NEW n \in Nat, Operate(p, d, n) PROVE LedgerInv'
  <2> DEFINE e == [d EXCEPT !.at = clock + 1]
  <2>1. e.spend = data[p].spend + n
    BY <1>1 DEF Operate, Chat
  <2>2. /\ pc[p] = "idle" /\ pc' = [pc EXCEPT ![p] = "open"]
        /\ data' = [data EXCEPT ![p] = e] /\ pending' = [pending EXCEPT ![p] = @ + n]
        /\ file' = file /\ base' = base /\ booked' = booked
    BY <1>1 DEF Operate, Change
  <2> HIDE DEF e
  <2> QED BY <1>0, <1>a, <2>1, <2>2
<1>2. CASE OpenChat(p)
  <2>1. /\ file' = file /\ booked' = booked /\ pending' = [pending EXCEPT ![p] = 0]
        /\ base' = [base EXCEPT ![p] = file]
    BY <1>2 DEF OpenChat
  <2>2. pc[p] = "left" /\ pc' = [pc EXCEPT ![p] = "open"]
    BY <1>2 DEF OpenChat, LockInv, Holding
  <2>3. data' = [data EXCEPT ![p] = [file EXCEPT !.at = clock + 1]]
    BY <1>2, <2>2 DEF OpenChat
  <2>4. data'[p].spend = file.spend
    BY <1>0, <2>3 DEF Chat
  <2>5. \A q \in Procs : q # p => data'[q] = data[q]
    BY <1>0, <2>3
  <2>6. pending'[p] = 0 /\ \A q \in Procs : q # p => pending'[q] = pending[q]
    BY <1>0, <2>1
  <2> QED BY <1>0, <1>a, <2>1, <2>2, <2>4, <2>5, <2>6
<1>3. CASE ReadForeign(p)
  <2>1. /\ file' = file /\ booked' = booked /\ pending' = pending /\ base' = base
        /\ data' = [data EXCEPT ![p] = Merged(p, file)] /\ pc[p] = "read"
    BY <1>3 DEF ReadForeign
  <2>2. pc' = [pc EXCEPT ![p] = "write"]
    BY <1>0, <1>3, SentinelAssumption DEF ReadForeign
  <2>3. Merged(p, file).spend = file.spend + pending[p]
    BY <2>1, MergedFacts
  <2> QED BY <1>0, <2>1, <2>2, <2>3
<1>4. CASE WriteFile(p)
  <2>1. /\ file' = data[p] /\ booked' = booked + pending[p] /\ data' = data
        /\ base' = [base EXCEPT ![p] = data[p]] /\ pending' = [pending EXCEPT ![p] = 0]
        /\ pc[p] = "write" /\ pc' = [pc EXCEPT ![p] = "drop"]
    BY <1>4 DEF WriteFile
  <2>2. data[p].spend = file.spend + pending[p]
    BY <2>1
  <2>3. \A q \in Procs : q # p => pc[q] # "write"
    BY <2>1, OneWriter
  <2> QED BY <1>0, <1>a, <2>1, <2>2, <2>3
<1>5. ASSUME UNCHANGED <<file, data, base, booked, pending>>, OpenLock(p) \/ WriteLockInfo(p)
             \/ ProbeLock(p) \/ DropLock(p)
      PROVE  LedgerInv'
  <2>1. \A q \in Procs : pc'[q] = "write" <=> pc[q] = "write"
    BY <1>0, <1>5 DEF OpenLock, WriteLockInfo, ProbeLock, DropLock
  <2>2. \A q \in Procs : pc'[q] \in {"idle", "left", "drop"}
                            => pc[q] \in {"idle", "left", "drop"}
    BY <1>0, <1>5 DEF OpenLock, WriteLockInfo, ProbeLock, DropLock
  <2> QED BY <1>5, <2>1, <2>2
<1> QED BY <1>1, <1>2, <1>3, <1>4, <1>5 DEF CalmStep, OpenLock, WriteLockInfo,
           ProbeLock, DropLock, mem, historyVars

\* An operation drops an exchange only by noting it.
LEMMA TurnOperate ==
    ASSUME TypeOK, BaseInv, TurnInv, NEW p \in Procs, NEW d \in Chat, NEW n \in Nat,
           Operate(p, d, n)
    PROVE  TurnInv'
<1> USE DEF Goto
<1>0. /\ pc \in [Procs -> States] /\ removed \in [Procs -> SUBSET Nat]
      /\ data \in [Procs -> Chat] /\ base \in [Procs -> Chat] /\ file \in Chat
  BY DEF TypeOK, BaseInv
<1> DEFINE e == [d EXCEPT !.at = clock + 1]
<1>1. e.turns = d.turns
  BY DEF Chat
<1>2. /\ pc[p] = "idle" /\ pc' = [pc EXCEPT ![p] = "open"]
      /\ data' = [data EXCEPT ![p] = e]
      /\ removed' = [removed EXCEPT ![p] = @ \cup (data[p].turns \ d.turns)]
      /\ file' = file /\ base' = base /\ saved' = saved
  BY DEF Operate, Change
<1> HIDE DEF e
<1>3. \A t : IsRemoved(t) => IsRemoved(t)'
  BY <1>0, <1>2 DEF IsRemoved
<1>4. \A t \in data[p].turns : t \in data'[p].turns \/ IsRemoved(t)'
  BY <1>0, <1>1, <1>2 DEF IsRemoved
<1>5. \A q \in Procs : q # p => data'[q] = data[q] /\ pc'[q] = pc[q]
  BY <1>0, <1>2
<1>6. pc'[p] # "write"
  BY <1>0, <1>2
<1> QED BY <1>2, <1>3, <1>4, <1>5, <1>6 DEF TurnInv

\* A merge drops nothing but what the limit cuts off.
LEMMA TurnRead ==
    ASSUME TypeOK, BaseInv, TurnInv, NEW p \in Procs, ReadForeign(p)
    PROVE  TurnInv'
<1> USE DEF Goto
<1>0. /\ pc \in [Procs -> States] /\ removed \in [Procs -> SUBSET Nat]
      /\ data \in [Procs -> Chat] /\ base \in [Procs -> Chat] /\ file \in Chat
  BY DEF TypeOK, BaseInv
<1> DEFINE cut == Trimmed(base[p].turns, data[p].turns, file.turns)
           m == Merged(p, file)
<1>1. /\ file' = file /\ saved' = saved /\ base' = base
      /\ data' = [data EXCEPT ![p] = m] /\ pc[p] = "read"
  BY DEF ReadForeign
<1>2. pc' = [pc EXCEPT ![p] = "write"]
      /\ removed' = [removed EXCEPT ![p] = @ \cup cut]
  BY <1>0, SentinelAssumption DEF ReadForeign, IsReadable
<1>3. /\ m.rev > file.rev
      /\ \A t \in file.turns \cup data[p].turns :
            t \in m.turns \/ IsRemoved(t) \/ t \in cut
  BY <1>1, MergedTurns
<1> HIDE DEF cut, m
<1>4. \A t : IsRemoved(t) \/ t \in cut => IsRemoved(t)'
  BY <1>0, <1>2 DEF IsRemoved
<1>5. data'[p] = m
  BY <1>0, <1>1
<1>6. \A q \in Procs : q # p => data'[q] = data[q] /\ pc'[q] = pc[q]
  BY <1>0, <1>1, <1>2
<1> QED BY <1>1, <1>3, <1>4, <1>5, <1>6 DEF TurnInv

\* No exchange gets lost.
LEMMA TurnStep ==
    ASSUME IInv, NEW p \in Procs, CalmStep(p)
    PROVE  TurnInv'
<1> USE DEF IInv, Goto
<1>0. /\ pc \in [Procs -> States] /\ removed \in [Procs -> SUBSET Nat]
      /\ data \in [Procs -> Chat] /\ base \in [Procs -> Chat] /\ file \in Chat
  BY DEF TypeOK, BaseInv
<1>1. ASSUME NEW d \in Chat, NEW n \in Nat, Operate(p, d, n) PROVE TurnInv'
  BY <1>1, TurnOperate
<1>2. CASE OpenChat(p)
  <2>1. /\ file' = file /\ saved' = saved /\ removed' = removed
        /\ base' = [base EXCEPT ![p] = file]
    BY <1>2 DEF OpenChat
  <2>2. pc[p] = "left" /\ pc' = [pc EXCEPT ![p] = "open"]
    BY <1>2 DEF OpenChat, LockInv, Holding
  <2>3. data' = [data EXCEPT ![p] = [file EXCEPT !.at = clock + 1]]
    BY <1>2, <2>2 DEF OpenChat
  <2>4. data'[p].turns = file.turns /\ base'[p] = file /\ pc'[p] # "write"
    BY <1>0, <2>1, <2>2, <2>3 DEF Chat
  <2>5. \A q \in Procs : q # p => data'[q] = data[q] /\ pc'[q] = pc[q] /\ base'[q] = base[q]
    BY <1>0, <2>1, <2>2, <2>3
  <2>6. \A t : IsRemoved(t)' <=> IsRemoved(t)
    BY <2>1 DEF IsRemoved
  <2> QED BY <2>1, <2>4, <2>5, <2>6 DEF TurnInv
<1>3. CASE ReadForeign(p)
  BY <1>3, TurnRead
<1>4. CASE WriteFile(p)
  <2>1. /\ file' = data[p] /\ data' = data /\ saved' = saved \cup data[p].turns
        /\ base' = [base EXCEPT ![p] = data[p]] /\ removed' = removed
        /\ pc[p] = "write" /\ pc' = [pc EXCEPT ![p] = "drop"]
    BY <1>4 DEF WriteFile
  <2>2. \A q \in Procs : pc'[q] # "write"
    BY <1>0, <2>1, OneWriter
  <2>3. \A t : IsRemoved(t)' <=> IsRemoved(t)
    BY <2>1 DEF IsRemoved
  <2>4. \A t \in saved' : t \in file'.turns \/ IsRemoved(t)
    BY <2>1 DEF TurnInv
  <2>5. \A q \in Procs : \A t \in base'[q].turns : t \in data'[q].turns \/ IsRemoved(t)
    BY <1>0, <2>1 DEF TurnInv
  <2> QED BY <2>2, <2>3, <2>4, <2>5 DEF TurnInv
<1>5. ASSUME UNCHANGED <<file, data, base, saved, removed>>, OpenLock(p) \/ WriteLockInfo(p)
             \/ ProbeLock(p) \/ DropLock(p)
      PROVE  TurnInv'
  <2>1. \A q \in Procs : pc'[q] = "write" <=> pc[q] = "write"
    BY <1>0, <1>5 DEF OpenLock, WriteLockInfo, ProbeLock, DropLock
  <2>2. \A t : IsRemoved(t)' <=> IsRemoved(t)
    BY <1>5 DEF IsRemoved
  <2> QED BY <1>5, <2>1, <2>2 DEF TurnInv
<1> QED BY <1>1, <1>2, <1>3, <1>4, <1>5 DEF CalmStep, OpenLock, WriteLockInfo,
           ProbeLock, DropLock, mem, historyVars

-----------------------------------------------------------------------------
(* The theorems *)

\* Every calm state satisfies the invariant.
THEOREM Inductive == Spec => [](Calm => IInv)
<1>1. Init => IInv
  <2> SUFFICES ASSUME Init PROVE IInv
    OBVIOUS
  <2>1. EmptyChat \in Chat /\ EmptyChat.spend = 0 /\ EmptyChat.turns = {} /\ EmptyChat.rev = 1
    BY DEF EmptyChat, Chat
  <2>2. TypeOK
    BY <2>1 DEF Init, TypeOK, States
  <2>3. LockInv
    BY DEF Init, LockInv, Holding
  <2>4. BaseInv
    BY <2>1 DEF Init, BaseInv
  <2>5. LedgerInv
    BY <2>1 DEF Init, LedgerInv
  <2>6. TurnInv
    BY <2>1 DEF Init, TurnInv
  <2> QED BY <2>2, <2>3, <2>4, <2>5, <2>6 DEF IInv
<1>2. (Calm => IInv) /\ [Next]_vars => (Calm => IInv)'
  <2> SUFFICES ASSUME Calm => IInv, [Next]_vars, Calm' PROVE IInv'
    OBVIOUS
  <2>1. CASE Next
    <3>1. IInv
      BY <2>1, FaultsStay DEF Calm
    <3>2. TypeOK'
      BY <2>1, <3>1, TypeStep DEF IInv
    <3>3. PICK p \in Procs : CalmStep(p)
      BY <2>1, <3>1, CalmNext
    <3> QED BY <3>1, <3>2, <3>3, LockStep, BaseStep, LedgerStep, TurnStep DEF IInv
  <2>2. CASE UNCHANGED vars
    <3>1. Calm
      BY <2>2 DEF Calm, vars
    <3> QED BY <2>2, <3>1 DEF vars, mem, historyVars, IInv, TypeOK, LockInv, BaseInv,
                LedgerInv, TurnInv, IsRemoved
  <2> QED BY <2>1, <2>2
<1> QED BY <1>1, <1>2, PTL DEF Spec

\* One instance at a time is in the protected part of save().
THEOREM Exclusive == Spec => []MutualExclusion
<1>1. (Calm => IInv) => MutualExclusion
  BY DEF IInv, LockInv, MutualExclusion
<1> QED BY <1>1, Inductive, PTL

\* No exchange that a save has written disappears unless it was removed.
THEOREM TurnsKept == Spec => []NoTurnLost
<1>1. (Calm => IInv) => NoTurnLost
  BY DEF IInv, TurnInv, IsRemoved, NoTurnLost
<1> QED BY <1>1, Inductive, PTL

\* The daily spend on disk is what was booked, however saves interleave.
THEOREM Accounted == Spec => []LedgerExact
<1>1. (Calm => IInv) => LedgerExact
  BY DEF IInv, LedgerInv, LedgerExact
<1> QED BY <1>1, Inductive, PTL

\* A merge is skipped only when there is nothing to merge.
THEOREM Faithful == Spec => []FingerprintFaithful
<1>1. (Calm => IInv) => FingerprintFaithful
  BY DEF IInv, BaseInv, SameFingerprint, FingerprintFaithful
<1> QED BY <1>1, Inductive, PTL

\* Every new content of the file has a higher revision than the one before.
THEOREM Monotone == Spec => RevisionGrows
<1>1. (Calm => IInv) /\ [Next]_vars
        => [Calm' /\ IsReadable(file) /\ IsReadable(file') /\ file' # file
              => file'.rev > file.rev]_vars
  <2> SUFFICES ASSUME Calm => IInv, Next, Calm', file' # file PROVE file'.rev > file.rev
    BY DEF vars
  <2>1. IInv
    BY FaultsStay DEF Calm
  <2>2. PICK p \in Procs : CalmStep(p)
    BY <2>1, CalmNext
  <2>3. WriteFile(p)
    BY <2>2 DEF CalmStep, Operate, Change, OpenChat, OpenLock, WriteLockInfo,
                ProbeLock, ReadForeign, DropLock
  <2> QED BY <2>1, <2>3 DEF WriteFile, IInv, TurnInv
<1> QED BY <1>1, Inductive, PTL DEF Spec, RevisionGrows

\* What a save decides by is true of the file, for any number of instances (save, #writeNow).
THEOREM Sound == Spec => SavesAreSound
BY Exclusive, Faithful, Monotone, PTL DEF SavesAreSound

-----------------------------------------------------------------------------
(* Accidents: the ledger *)

\* Whatever happened, short of a failed write, no amount is on its way into the
\* file that the file or booked already has: what an instance holds over its
\* base is pending, and its base was in the file.
AtMostBooked ==
    "writeError" \notin kinds =>
        /\ IsReadable(file) => file.spend <= booked
        /\ \A p \in Procs : pc[p] # "dead" =>
              /\ base[p].spend <= booked
              /\ pc[p] # "write" => data[p].spend = base[p].spend + pending[p]
              /\ pc[p] = "write" => data[p].spend <= booked + pending[p]

\* The operations.
LEMMA BookedOperation ==
    ASSUME TypeOK, AtMostBooked, NEW p \in Procs, Operation(p)
    PROVE  AtMostBooked'
<1> USE DEF AtMostBooked, Goto
<1>0. /\ pc \in [Procs -> States] /\ pending \in [Procs -> Nat]
      /\ data \in [Procs -> Chat] /\ base \in [Procs -> Chat]
  BY DEF TypeOK
<1>a. /\ booked \in Nat
      /\ \A q \in Procs : data[q].spend \in Nat /\ base[q].spend \in Nat
  BY <1>0 DEF Chat, TypeOK
<1>b. kinds \subseteq kinds'
  BY FaultsStay DEF Next
<1>1. CASE \E d \in Chat, n \in Nat : Operate(p, d, n)
  <2> PICK d \in Chat, n \in Nat : Operate(p, d, n)
    BY <1>1
  <2> DEFINE e == [d EXCEPT !.at = clock + 1]
  <2>1. e.spend = data[p].spend + n
    BY DEF Operate, Chat
  <2>2. /\ pc[p] = "idle" /\ pc' = [pc EXCEPT ![p] = "open"]
        /\ data' = [data EXCEPT ![p] = e] /\ pending' = [pending EXCEPT ![p] = @ + n]
        /\ file' = file /\ base' = base /\ booked' = booked
    BY DEF Operate, Change
  <2> HIDE DEF e
  <2>3. ASSUME "writeError" \notin kinds', NEW q \in Procs, pc'[q] # "dead"
        PROVE  /\ base'[q].spend <= booked'
               /\ pc'[q] # "write" => data'[q].spend = base'[q].spend + pending'[q]
               /\ pc'[q] = "write" => data'[q].spend <= booked' + pending'[q]
    <3>1. CASE q = p
      BY <1>0, <1>a, <1>b, <2>1, <2>2, <2>3, <3>1
    <3>2. CASE q # p
      BY <1>0, <1>b, <2>2, <2>3, <3>2
    <3> QED BY <3>1, <3>2
  <2> QED BY <1>b, <2>2, <2>3
<1>2. CASE OpenChat(p)
  <2>1. /\ file' = file /\ booked' = booked /\ pending' = [pending EXCEPT ![p] = 0]
        /\ base' = [base EXCEPT ![p] = file] /\ IsReadable(file)
    BY <1>2 DEF OpenChat
  <2>2. file \in Chat /\ file.spend \in Nat
    BY <2>1 DEF TypeOK, IsReadable, Chat
  <2>3. /\ data'[p].spend = file.spend
        /\ \A q \in Procs : q # p => data'[q] = data[q] /\ pc'[q] = pc[q]
        /\ pc'[p] # "write"
    <3>1. CASE pc[p] = "left"
      <4>1. data' = [data EXCEPT ![p] = [file EXCEPT !.at = clock + 1]]
            /\ pc' = [pc EXCEPT ![p] = "open"]
        BY <1>2, <3>1 DEF OpenChat
      <4>2. [file EXCEPT !.at = clock + 1].spend = file.spend
        BY <2>2 DEF Chat
      <4> QED BY <1>0, <4>1, <4>2
    <3>2. CASE pc[p] # "left"
      <4>1. data' = [data EXCEPT ![p] = file] /\ pc' = [pc EXCEPT ![p] = "idle"]
        BY <1>2, <3>2 DEF OpenChat
      <4> QED BY <1>0, <4>1
    <3> QED BY <3>1, <3>2
  <2>4. ASSUME "writeError" \notin kinds', NEW q \in Procs, pc'[q] # "dead"
        PROVE  /\ base'[q].spend <= booked'
               /\ pc'[q] # "write" => data'[q].spend = base'[q].spend + pending'[q]
               /\ pc'[q] = "write" => data'[q].spend <= booked' + pending'[q]
    <3>1. CASE q = p
      BY <1>0, <1>a, <1>b, <2>1, <2>2, <2>3, <2>4, <3>1
    <3>2. CASE q # p
      BY <1>0, <1>b, <2>1, <2>3, <2>4, <3>2
    <3> QED BY <3>1, <3>2
  <2> QED BY <1>b, <2>1, <2>4
<1>3. CASE DeleteFile(p)
  <2>1. /\ file' = Missing /\ pc[p] \notin {"dead", "write"}
        /\ pc' = [pc EXCEPT ![p] = "unlock"]
        /\ UNCHANGED <<data, base, pending, booked>>
    BY <1>3 DEF DeleteFile, mem, historyVars
  <2>2. \A q \in Procs : /\ pc'[q] = "dead" <=> pc[q] = "dead"
                         /\ pc'[q] = "write" <=> pc[q] = "write"
    BY <1>0, <2>1
  <2> QED BY <1>b, <2>1, <2>2 DEF IsReadable
<1> QED BY <1>1, <1>2, <1>3, OperationsOperate DEF Operation

\* The steps of a save.
LEMMA BookedSave ==
    ASSUME TypeOK, AtMostBooked, NEW p \in Procs, SaveStep(p)
    PROVE  AtMostBooked'
<1> USE DEF AtMostBooked, Goto
<1>0. /\ pc \in [Procs -> States] /\ pending \in [Procs -> Nat]
      /\ data \in [Procs -> Chat] /\ base \in [Procs -> Chat]
  BY DEF TypeOK
<1>a. /\ booked \in Nat
      /\ \A q \in Procs : data[q].spend \in Nat /\ base[q].spend \in Nat
  BY <1>0 DEF Chat, TypeOK
<1>b. kinds \subseteq kinds'
  BY FaultsStay DEF Next
<1>1. CASE DeleteLock(p)
  <2>1. /\ UNCHANGED <<file, base, booked, pending>> /\ pc[p] = "unlock"
        /\ data'[p].spend = data[p].spend
        /\ \A q \in Procs : q # p => data'[q] = data[q] /\ pc'[q] = pc[q]
        /\ pc'[p] # "write"
    <3>1. CASE p \in showing
      <4>1. data' = [data EXCEPT ![p] = [data[p] EXCEPT !.at = clock + 1]]
            /\ pc' = [pc EXCEPT ![p] = "open"] /\ UNCHANGED <<file, base, booked, pending>>
            /\ pc[p] = "unlock"
        BY <1>1, <3>1 DEF DeleteLock, historyVars
      <4>2. [data[p] EXCEPT !.at = clock + 1].spend = data[p].spend
        BY <1>0 DEF Chat
      <4> QED BY <1>0, <4>1, <4>2
    <3>2. CASE p \notin showing
      BY <1>0, <1>1, <3>2 DEF DeleteLock, historyVars
    <3> QED BY <3>1, <3>2
  <2>2. ASSUME "writeError" \notin kinds', NEW q \in Procs, pc'[q] # "dead"
        PROVE  /\ base'[q].spend <= booked'
               /\ pc'[q] # "write" => data'[q].spend = base'[q].spend + pending'[q]
               /\ pc'[q] = "write" => data'[q].spend <= booked' + pending'[q]
    <3>1. CASE q = p
      BY <1>b, <2>1, <2>2, <3>1
    <3>2. CASE q # p
      BY <1>b, <2>1, <2>2, <3>2
    <3> QED BY <3>1, <3>2
  <2> QED BY <1>b, <2>1, <2>2
<1>2. CASE ReadForeign(p)
  <2>1. /\ UNCHANGED <<file, base, booked, pending>> /\ pc[p] = "read"
        /\ data'[p] = Merged(p, file)
        /\ \A q \in Procs : q # p => data'[q] = data[q] /\ pc'[q] = pc[q]
        /\ pc'[p] = IF file = Damaged THEN "aside" ELSE "write"
    BY <1>0, <1>2 DEF ReadForeign
  <2>2. "writeError" \notin kinds => data[p].spend = base[p].spend + pending[p]
    BY <2>1
  <2>3. "writeError" \notin kinds =>
            \/ Merged(p, file).spend = data[p].spend
            \/ IsReadable(file) /\ Merged(p, file).spend = file.spend + pending[p]
    BY <2>2, MergedSpend
  <2>4. file = Damaged => ~IsReadable(file)
    BY DEF IsReadable
  <2>5. IsReadable(file) => file.spend \in Nat
    BY DEF IsReadable, TypeOK, Chat
  <2>6. ASSUME "writeError" \notin kinds', NEW q \in Procs, pc'[q] # "dead"
        PROVE  /\ base'[q].spend <= booked'
               /\ pc'[q] # "write" => data'[q].spend = base'[q].spend + pending'[q]
               /\ pc'[q] = "write" => data'[q].spend <= booked' + pending'[q]
    <3>1. CASE q = p
      <4>1. base[p].spend <= booked /\ base[p].spend \in Nat /\ pending[p] \in Nat /\ booked \in Nat
        BY <1>0, <1>a, <1>b, <2>1, <2>6
      <4>2. IsReadable(file) => file.spend <= booked
        BY <1>b, <2>6
      <4>3. CASE Merged(p, file).spend = data[p].spend
        BY <1>b, <2>1, <2>2, <2>6, <3>1, <4>1, <4>3
      <4>4. CASE IsReadable(file) /\ Merged(p, file).spend = file.spend + pending[p]
        BY <2>1, <2>4, <2>5, <3>1, <4>1, <4>2, <4>4
      <4> QED BY <1>b, <2>3, <2>6, <4>3, <4>4
    <3>2. CASE q # p
      BY <1>b, <2>1, <2>6, <3>2
    <3> QED BY <3>1, <3>2
  <2> QED BY <1>b, <2>1, <2>6
<1>3. CASE WriteFile(p)
  <2>1. /\ file' = data[p] /\ booked' = booked + pending[p] /\ data' = data
        /\ base' = [base EXCEPT ![p] = data[p]] /\ pending' = [pending EXCEPT ![p] = 0]
        /\ pc[p] = "write" /\ pc' = [pc EXCEPT ![p] = "drop"]
    BY <1>3 DEF WriteFile
  <2>2. "writeError" \notin kinds => data[p].spend <= booked + pending[p]
    BY <2>1
  <2>3. pending[p] \in Nat
    BY <1>0
  <2>4. ASSUME "writeError" \notin kinds', NEW q \in Procs, pc'[q] # "dead"
        PROVE  /\ base'[q].spend <= booked'
               /\ pc'[q] # "write" => data'[q].spend = base'[q].spend + pending'[q]
               /\ pc'[q] = "write" => data'[q].spend <= booked' + pending'[q]
    <3>1. CASE q = p
      BY <1>0, <1>a, <1>b, <2>1, <2>2, <2>4, <3>1
    <3>2. CASE q # p
      <4>1. /\ pc'[q] = pc[q] /\ pending'[q] = pending[q] /\ pending[q] \in Nat
            /\ base'[q] = base[q] /\ data'[q] = data[q]
        BY <1>0, <2>1, <3>2
      <4>2. "writeError" \notin kinds /\ pc[q] # "dead"
        BY <1>b, <2>4, <4>1
      <4> QED BY <1>a, <2>1, <2>3, <4>1, <4>2
    <3> QED BY <3>1, <3>2
  <2> QED BY <1>b, <2>1, <2>2, <2>4
<1>4. CASE MoveAside(p)
  <2>1. /\ UNCHANGED <<data, base, booked, pending>> /\ pc[p] = "aside"
        /\ \/ pc' = [pc EXCEPT ![p] = "drop"] /\ file' = file
           \/ pc' = [pc EXCEPT ![p] = "write"] /\ file' = Missing
    BY <1>4 DEF MoveAside, mem, historyVars
  <2>2. ASSUME "writeError" \notin kinds', NEW q \in Procs, pc'[q] # "dead"
        PROVE  /\ base'[q].spend <= booked'
               /\ pc'[q] # "write" => data'[q].spend = base'[q].spend + pending'[q]
               /\ pc'[q] = "write" => data'[q].spend <= booked' + pending'[q]
    <3>1. CASE q = p
      BY <1>0, <1>a, <1>b, <2>1, <2>2, <3>1
    <3>2. CASE q # p
      BY <1>0, <1>b, <2>1, <2>2, <3>2
    <3> QED BY <3>1, <3>2
  <2> QED BY <1>b, <2>1, <2>2 DEF IsReadable
<1>5. ASSUME OpenLock(p) \/ WriteLockInfo(p) \/ ProbeLock(p) \/ StealLock(p) \/ DropLock(p)
      PROVE  AtMostBooked'
  <2>1. UNCHANGED <<file, data, base, booked, pending>>
    BY <1>5 DEF OpenLock, WriteLockInfo, ProbeLock, StealLock, DropLock, mem, historyVars
  <2>2. \A q \in Procs : /\ pc'[q] = "dead" <=> pc[q] = "dead"
                         /\ pc'[q] = "write" <=> pc[q] = "write"
    BY <1>0, <1>5 DEF OpenLock, WriteLockInfo, ProbeLock, StealLock, DropLock
  <2> QED BY <1>b, <2>1, <2>2
<1> QED BY <1>1, <1>2, <1>3, <1>4, <1>5 DEF SaveStep

\* The accidents, but for the failed write.
LEMMA BookedAccident ==
    ASSUME TypeOK, AtMostBooked, (\E p \in Procs : Misfortune(p)) \/ Damage
    PROVE  AtMostBooked'
<1> USE DEF AtMostBooked, Goto
<1>0. pc \in [Procs -> States] /\ pending \in [Procs -> Nat]
  BY DEF TypeOK
<1>b. kinds \subseteq kinds'
  BY FaultsStay DEF Next
<1>1. ASSUME NEW p \in Procs, ProbeTooSoonOrTooLate(p) \/ GiveUp(p) PROVE AtMostBooked'
  <2>1. UNCHANGED <<file, data, base, booked, pending>>
    BY <1>1 DEF ProbeTooSoonOrTooLate, GiveUp, mem, historyVars
  <2>2. \A q \in Procs : /\ pc'[q] = "dead" <=> pc[q] = "dead"
                         /\ pc'[q] = "write" <=> pc[q] = "write"
    BY <1>0, <1>1 DEF ProbeTooSoonOrTooLate, GiveUp
  <2> QED BY <1>b, <2>1, <2>2
<1>2. ASSUME NEW p \in Procs, WriteFails(p) PROVE AtMostBooked'
  <2>1. "writeError" \in kinds'
    BY <1>2 DEF WriteFails, Fault
  <2> QED BY <2>1
<1>3. ASSUME NEW p \in Procs, Crash(p) PROVE AtMostBooked'
  <2>1. /\ UNCHANGED <<file, data, base, booked>> /\ pc' = [pc EXCEPT ![p] = "dead"]
        /\ pending' = [pending EXCEPT ![p] = 0]
    BY <1>3 DEF Crash
  <2>2. \A q \in Procs : pc'[q] # "dead" => pc'[q] = pc[q] /\ pending'[q] = pending[q]
    BY <1>0, <2>1
  <2> QED BY <1>b, <2>1, <2>2
<1>4. CASE Damage
  <2>1. UNCHANGED <<pc, data, base, booked, pending>> /\ file' = Damaged
    BY <1>4 DEF Damage, mem, historyVars
  <2> QED BY <1>b, <2>1 DEF IsReadable
<1> QED BY <1>1, <1>2, <1>3, <1>4 DEF Misfortune

\* Nothing is booked twice, whatever happens short of a failed write.
THEOREM BookedOnce == Spec => []NothingBookedTwiceUnlessWriteFails
<1>1. Init => AtMostBooked
  <2>1. EmptyChat.spend = 0
    BY DEF EmptyChat
  <2> QED BY <2>1 DEF Init, AtMostBooked
<1>2. TypeOK /\ AtMostBooked /\ [Next]_vars => AtMostBooked'
  <2> SUFFICES ASSUME TypeOK, AtMostBooked, [Next]_vars PROVE AtMostBooked'
    OBVIOUS
  <2>1. ASSUME NEW p \in Procs, Operation(p) PROVE AtMostBooked'
    BY <2>1, BookedOperation
  <2>2. ASSUME NEW p \in Procs, SaveStep(p) PROVE AtMostBooked'
    BY <2>2, BookedSave
  <2>3. CASE (\E p \in Procs : Misfortune(p)) \/ Damage
    BY <2>3, BookedAccident
  <2>4. CASE UNCHANGED vars
    BY <2>4 DEF vars, mem, historyVars, AtMostBooked
  <2> QED BY <2>1, <2>2, <2>3, <2>4 DEF Next
<1>3. AtMostBooked => NothingBookedTwiceUnlessWriteFails
  BY DEF AtMostBooked, NothingBookedTwiceUnlessWriteFails
<1> QED BY <1>1, <1>2, <1>3, TypeCorrect, PTL DEF Spec

-----------------------------------------------------------------------------
(* One crash: the exchanges *)

\* Until somebody writes after the crash, the file and what the instances know
\* of it are what they were while the store was calm.
AsBefore ==
    /\ BaseInv /\ TurnInv
    /\ \A p \in Procs : pc[p] # "aside"

\* From then on every exchange is in the memory of an instance that runs.
InMemory ==
    \A t \in saved : IsRemoved(t) \/ \E p \in Procs : pc[p] # "dead" /\ t \in data[p].turns

\* All that run show the chat: nobody has gone away with an exchange.
AllHere == \A p \in Procs : pc[p] \notin {"left", "unlock"} /\ (pc[p] = "dead" \/ p \in showing)

CrashInv ==
    /\ faults = 0 => kinds = {}
    /\ OneCrash => AllHere /\ (AsBefore \/ InMemory)

\* Before the crash the store is calm.
LEMMA CrashStep ==
    ASSUME TypeOK, CrashInv, Calm => IInv, NEW c \in Procs, Crash(c), OneCrash'
    PROVE  AllHere' /\ AsBefore'
<1>0. pc \in [Procs -> States]
  BY DEF TypeOK
<1>1. kinds = {} /\ faults = 0
  BY DEF Crash, Fault, OneCrash, TypeOK, CrashInv
<1>2. IInv /\ AllHere
  BY <1>1 DEF Calm, CrashInv, OneCrash
<1>3. /\ UNCHANGED <<file, data, base, saved, removed>> /\ pc' = [pc EXCEPT ![c] = "dead"]
      /\ showing' = showing \ {c}
  BY DEF Crash, Goto
<1>4. \A p \in Procs : pc[p] # "aside"
  BY <1>2 DEF IInv, LockInv, Holding
<1>5. \A p \in Procs : pc'[p] = pc[p] \/ pc'[p] = "dead"
  BY <1>0, <1>3
<1>6. BaseInv' /\ TurnInv'
  BY <1>2, <1>3, <1>5 DEF IInv, BaseInv, TurnInv, IsRemoved
<1>7. AllHere'
  BY <1>0, <1>2, <1>3 DEF AllHere
<1> QED BY <1>4, <1>5, <1>6, <1>7 DEF AsBefore

\* A merge keeps one's own exchanges but for those the limit cuts off.
LEMMA MergedKeepsOwn ==
    ASSUME TypeOK, NEW p \in Procs, NEW t \in data[p].turns
    PROVE  \/ t \in Merged(p, file).turns
           \/ IsReadable(file) /\ t \in Trimmed(base[p].turns, data[p].turns, file.turns)
<1> DEFINE foreign == IsReadable(file) /\ ~SameFingerprint(file, base[p])
           merged == MergeSessions(base[p], data[p], file)
           m == IF foreign THEN merged ELSE data[p]
           r == Later(m.rev, IF IsReadable(file) THEN file.rev ELSE 0) + 1
<1>1. base[p] \in Chat /\ data[p] \in Chat /\ (IsReadable(file) => file \in Chat)
  BY DEF TypeOK, IsReadable
<1>2. m \in Chat
  BY <1>1, MergeSessionsType
<1>3. foreign => merged.turns = MergeTurns(base[p].turns, data[p].turns, file.turns)
  BY DEF MergeSessions
<1>4. t \in m.turns \/ (foreign /\ t \in Trimmed(base[p].turns, data[p].turns, file.turns))
  BY <1>3, MergeKeeps
<1>5. Merged(p, file) = [m EXCEPT !.rev = r]
  BY DEF Merged
<1> HIDE DEF m, r
<1>6. Merged(p, file).turns = m.turns
  BY <1>2, <1>5 DEF Chat
<1> QED BY <1>4, <1>6

\* What an operation or a merge takes from an instance's memory is removed, so InMemory stays.
LEMMA MemoryKept ==
    ASSUME TypeOK, InMemory, NEW p \in Procs, UNCHANGED saved, pc'[p] # "dead",
           \A q \in Procs : q # p => data'[q] = data[q] /\ pc'[q] = pc[q],
           \A t : IsRemoved(t) => IsRemoved(t)',
           \A t \in data[p].turns : t \in data'[p].turns \/ IsRemoved(t)'
    PROVE  InMemory'
<1> SUFFICES ASSUME NEW t \in saved, ~IsRemoved(t)'
             PROVE  \E q \in Procs : pc'[q] # "dead" /\ t \in data'[q].turns
  BY DEF InMemory
<1>1. PICK q \in Procs : pc[q] # "dead" /\ t \in data[q].turns
  BY DEF InMemory
<1> QED BY <1>1

\* An operation while one instance may be dead.
LEMMA OperateSurvives ==
    ASSUME TypeOK, AllHere, AsBefore \/ InMemory, NEW p \in Procs,
           NEW d \in Chat, NEW n \in Nat, Operate(p, d, n), UNCHANGED showing
    PROVE  AllHere' /\ (AsBefore' \/ InMemory')
<1>0. /\ pc \in [Procs -> States] /\ removed \in [Procs -> SUBSET Nat]
      /\ data \in [Procs -> Chat]
  BY DEF TypeOK
<1> DEFINE e == [d EXCEPT !.at = clock + 1]
<1>1. e.turns = d.turns
  BY DEF Chat
<1>2. /\ pc[p] = "idle" /\ pc' = [pc EXCEPT ![p] = "open"]
      /\ data' = [data EXCEPT ![p] = e]
      /\ removed' = [removed EXCEPT ![p] = @ \cup (data[p].turns \ d.turns)]
      /\ file' = file /\ base' = base /\ saved' = saved
  BY DEF Operate, Change, Goto
<1> HIDE DEF e
<1>3. AllHere'
  BY <1>0, <1>2 DEF AllHere
<1>4. CASE AsBefore
  <2>1. TurnInv'
    BY <1>4, TurnOperate DEF AsBefore
  <2>2. BaseInv'
    BY <1>2, <1>4 DEF AsBefore, BaseInv
  <2> QED BY <1>0, <1>2, <1>3, <1>4, <2>1, <2>2 DEF AsBefore
<1>5. CASE InMemory
  <2>1. \A t : IsRemoved(t) => IsRemoved(t)'
    BY <1>0, <1>2 DEF IsRemoved
  <2>2. \A t \in data[p].turns : t \in data'[p].turns \/ IsRemoved(t)'
    BY <1>0, <1>1, <1>2 DEF IsRemoved
  <2>3. pc'[p] # "dead" /\ \A q \in Procs : q # p => data'[q] = data[q] /\ pc'[q] = pc[q]
    BY <1>0, <1>2
  <2>4. InMemory'
    BY <1>2, <1>5, <2>1, <2>2, <2>3, MemoryKept
  <2> QED BY <1>3, <2>4
<1> QED BY <1>4, <1>5

\* A save while one instance may be dead: the first write after the crash moves what the file
\* held into the writer's memory.
LEMMA SaveSurvives ==
    ASSUME TypeOK, AllHere, AsBefore \/ InMemory, NEW p \in Procs, SaveStep(p)
    PROVE  AllHere' /\ (AsBefore' \/ InMemory')
<1> USE DEF Goto
<1>0. /\ pc \in [Procs -> States] /\ removed \in [Procs -> SUBSET Nat]
      /\ data \in [Procs -> Chat]
  BY DEF TypeOK
<1>a. ~DeleteLock(p)
  BY DEF DeleteLock, AllHere
<1>b. /\ UNCHANGED showing /\ pc[p] # "dead"
      /\ \A q \in Procs : q # p => pc'[q] = pc[q]
      /\ pc'[p] \notin {"left", "unlock", "dead"}
  <2>1. pc[p] # "dead" => p \in showing
    BY DEF AllHere
  <2> QED BY <1>0, <1>a, <2>1 DEF SaveStep, OpenLock, WriteLockInfo, ProbeLock, StealLock,
             ReadForeign, MoveAside, WriteFile, DropLock, mem
<1>1. AllHere'
  BY <1>b DEF AllHere
<1>2. CASE ReadForeign(p)
  <2> DEFINE cut == Trimmed(base[p].turns, data[p].turns, file.turns)
             m == Merged(p, file)
  <2>1. /\ UNCHANGED <<file, base, saved>> /\ data' = [data EXCEPT ![p] = m]
        /\ removed' = IF IsReadable(file) THEN [removed EXCEPT ![p] = @ \cup cut] ELSE removed
        /\ pc' = [pc EXCEPT ![p] = IF file = Damaged THEN "aside" ELSE "write"]
    BY <1>2 DEF ReadForeign
  <2>2. CASE AsBefore
    <3>1. TurnInv'
      BY <1>2, <2>2, TurnRead DEF AsBefore
    <3>2. BaseInv'
      BY <2>1, <2>2 DEF AsBefore, BaseInv
    <3>3. file # Damaged
      BY <2>2, SentinelAssumption DEF AsBefore, BaseInv
    <3>4. \A q \in Procs : pc'[q] # "aside"
      BY <1>0, <2>1, <2>2, <3>3 DEF AsBefore
    <3> QED BY <1>1, <3>1, <3>2, <3>4 DEF AsBefore
  <2>3. CASE InMemory
    <3>1. \A t : IsRemoved(t) => IsRemoved(t)'
      BY <1>0, <2>1 DEF IsRemoved
    <3>2. \A t \in data[p].turns : t \in m.turns \/ (IsReadable(file) /\ t \in cut)
      BY MergedKeepsOwn
    <3> HIDE DEF m, cut
    <3>3. \A t \in data[p].turns : t \in data'[p].turns \/ IsRemoved(t)'
      BY <1>0, <2>1, <3>2 DEF IsRemoved
    <3>4. \A q \in Procs : q # p => data'[q] = data[q]
      BY <1>0, <2>1
    <3>5. UNCHANGED saved
      BY <2>1
    <3>6. InMemory'
      BY <1>b, <2>3, <3>1, <3>3, <3>4, <3>5, MemoryKept
    <3> QED BY <1>1, <3>6
  <2> QED BY <2>2, <2>3
<1>3. CASE WriteFile(p)
  <2>1. /\ UNCHANGED <<data, removed>> /\ saved' = saved \cup data[p].turns /\ pc[p] = "write"
    BY <1>3 DEF WriteFile
  <2>2. \A q \in Procs : pc[q] # "dead" => pc'[q] # "dead"
    BY <1>b
  <2>3. \A t : IsRemoved(t)' <=> IsRemoved(t)
    BY <2>1 DEF IsRemoved
  <2>4. ASSUME NEW t \in saved
        PROVE  IsRemoved(t) \/ \E q \in Procs : pc[q] # "dead" /\ t \in data[q].turns
    <3>1. CASE AsBefore
      BY <2>1, <2>4, <3>1 DEF AsBefore, TurnInv
    <3>2. CASE InMemory
      BY <2>4, <3>2 DEF InMemory
    <3> QED BY <3>1, <3>2
  <2>5. InMemory'
    BY <1>b, <2>1, <2>2, <2>3, <2>4 DEF InMemory
  <2> QED BY <1>1, <2>5
<1>4. CASE MoveAside(p)
  <2>1. UNCHANGED <<data, saved, removed>> /\ pc[p] = "aside"
    BY <1>4 DEF MoveAside, mem, historyVars
  <2>2. InMemory
    BY <2>1 DEF AsBefore
  <2>3. InMemory'
    BY <1>b, <2>1, <2>2 DEF InMemory, IsRemoved
  <2> QED BY <1>1, <2>3
<1>5. ASSUME OpenLock(p) \/ WriteLockInfo(p) \/ ProbeLock(p) \/ StealLock(p) \/ DropLock(p)
      PROVE  AsBefore' \/ InMemory'
  <2>1. UNCHANGED <<file, data, base, saved, removed>>
    BY <1>5 DEF OpenLock, WriteLockInfo, ProbeLock, StealLock, DropLock, mem, historyVars
  <2>2. pc'[p] \notin {"write", "aside"}
    BY <1>0, <1>5 DEF OpenLock, WriteLockInfo, ProbeLock, StealLock, DropLock
  <2>3. InMemory => InMemory'
    BY <1>b, <2>1 DEF InMemory, IsRemoved
  <2>4. AsBefore => AsBefore'
    BY <1>b, <2>1, <2>2 DEF AsBefore, BaseInv, TurnInv, IsRemoved
  <2> QED BY <2>3, <2>4
<1> QED BY <1>a, <1>1, <1>2, <1>3, <1>4, <1>5 DEF SaveStep

\* No step reaches one crash at most but the crash, an operation in the chat, or a save.
LEMMA CrashInvStep ==
    ASSUME TypeOK, CrashInv, Calm => IInv, Next
    PROVE  CrashInv'
<1>0. faults \in Nat
  BY DEF TypeOK
<1>1. \/ UNCHANGED <<faults, kinds>>
      \/ \E k \in FaultKinds : faults' = faults + 1 /\ kinds' = kinds \cup {k}
  <2> USE DEF Fault, FaultKinds
  <2>1. ASSUME NEW p \in Procs, Operation(p)
        PROVE  \/ UNCHANGED <<faults, kinds>>
               \/ \E k \in FaultKinds : faults' = faults + 1 /\ kinds' = kinds \cup {k}
    BY <2>1 DEF Operation, FinishRun, BookCost, Clear, Leave, OpenChat, DeleteFile
  <2>2. ASSUME NEW p \in Procs, SaveStep(p) PROVE UNCHANGED <<faults, kinds>>
    BY <2>2 DEF SaveStep, DeleteLock, OpenLock, WriteLockInfo, ProbeLock, StealLock,
                ReadForeign, MoveAside, WriteFile, DropLock
  <2>3. ASSUME NEW p \in Procs, Misfortune(p)
        PROVE  \E k \in FaultKinds : faults' = faults + 1 /\ kinds' = kinds \cup {k}
    BY <2>3 DEF Misfortune, ProbeTooSoonOrTooLate, GiveUp, WriteFails, Crash
  <2>4. CASE Damage
    BY <2>4 DEF Damage
  <2> QED BY <2>1, <2>2, <2>3, <2>4 DEF Next
<1>2. faults' = 0 => kinds' = {}
  BY <1>0, <1>1 DEF CrashInv
<1>3. ASSUME OneCrash' PROVE OneCrash
  <2>1. CASE UNCHANGED <<faults, kinds>>
    BY <1>3, <2>1 DEF OneCrash
  <2>2. ASSUME NEW k \in FaultKinds, faults' = faults + 1, kinds' = kinds \cup {k} PROVE OneCrash
    <3>1. faults <= 1
      BY <1>0, <1>3, <2>2 DEF OneCrash
    <3>2. kinds \subseteq {"crash"}
      BY <1>3, <2>2 DEF OneCrash
    <3> QED BY <3>1, <3>2 DEF OneCrash
  <2> QED BY <1>1, <2>1, <2>2
<1>4. ASSUME OneCrash' PROVE AllHere' /\ (AsBefore' \/ InMemory')
  <2>0. AllHere /\ (AsBefore \/ InMemory)
    BY <1>3, <1>4 DEF CrashInv
  <2>a. /\ ~Fault("slow") /\ ~Fault("switch") /\ ~Fault("delete")
        /\ ~Fault("writeError") /\ ~Fault("damage")
    BY <1>4 DEF OneCrash, Fault
  <2>1. ASSUME NEW p \in Procs, Operation(p) PROVE AllHere' /\ (AsBefore' \/ InMemory')
    <3>1. ~Leave(p) /\ ~OpenChat(p) /\ ~DeleteFile(p)
      BY <2>a DEF Leave, OpenChat, DeleteFile
    <3>2. UNCHANGED showing
      BY <2>1, <3>1 DEF Operation, FinishRun, BookCost, Clear
    <3>3. \E d \in Chat, n \in Nat : Operate(p, d, n)
      BY <2>1, <3>1, OperationsOperate DEF Operation
    <3> QED BY <2>0, <3>2, <3>3, OperateSurvives
  <2>2. ASSUME NEW p \in Procs, SaveStep(p) PROVE AllHere' /\ (AsBefore' \/ InMemory')
    BY <2>0, <2>2, SaveSurvives
  <2>3. ASSUME NEW p \in Procs, Misfortune(p) PROVE AllHere' /\ (AsBefore' \/ InMemory')
    <3>1. Crash(p)
      BY <2>a, <2>3 DEF Misfortune, ProbeTooSoonOrTooLate, GiveUp, WriteFails
    <3> QED BY <1>4, <3>1, CrashStep
  <2>4. ~Damage
    BY <2>a DEF Damage
  <2> QED BY <2>1, <2>2, <2>3, <2>4 DEF Next
<1> QED BY <1>2, <1>4 DEF CrashInv

\* However many instances there are: after one crash no exchange that a save has written is
\* gone from the file and from every running instance.
THEOREM NotForgotten == Spec => []NoTurnForgotten
<1>1. Init => CrashInv
  <2> SUFFICES ASSUME Init PROVE CrashInv
    OBVIOUS
  <2>1. AllHere /\ InMemory
    BY DEF Init, AllHere, InMemory
  <2> QED BY <2>1 DEF Init, CrashInv
<1>2. TypeOK /\ (Calm => IInv) /\ CrashInv /\ [Next]_vars => CrashInv'
  <2> SUFFICES ASSUME TypeOK, Calm => IInv, CrashInv, [Next]_vars PROVE CrashInv'
    OBVIOUS
  <2>1. CASE Next
    BY <2>1, CrashInvStep
  <2>2. CASE UNCHANGED vars
    BY <2>2 DEF vars, mem, historyVars, CrashInv, OneCrash, AllHere, AsBefore, InMemory,
                BaseInv, TurnInv, IsRemoved
  <2> QED BY <2>1, <2>2
<1>3. TypeOK /\ CrashInv => NoTurnForgotten
  <2> SUFFICES ASSUME TypeOK, CrashInv, OneCrash, NEW t \in saved, ~IsRemoved(t)
               PROVE  \/ IsReadable(file) /\ t \in file.turns
                      \/ \E p \in Procs : pc[p] \notin {"left", "dead"} /\ t \in data[p].turns
    BY DEF NoTurnForgotten, IsRemoved
  <2>1. CASE AsBefore
    BY <2>1, SentinelAssumption DEF AsBefore, TurnInv, BaseInv, IsReadable
  <2>2. CASE InMemory
    BY <2>2 DEF InMemory, CrashInv, AllHere
  <2> QED BY <2>1, <2>2 DEF CrashInv
<1> QED BY <1>1, <1>2, <1>3, TypeCorrect, Inductive, PTL DEF Spec

\* What is left of the promises after accidents, for any number of instances: nothing is booked
\* twice, and no saved exchange forgotten.
THEOREM Survived == Spec => []AccidentsAreSurvived
BY BookedOnce, NotForgotten, PTL DEF AccidentsAreSurvived
=============================================================================
