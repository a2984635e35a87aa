---------------------- MODULE ConversationMemoryProofs ----------------------
(***************************************************************************)
(* What holds of ConversationMemory for every number of instances, runs    *)
(* and restarts: states of failed runs reach neither the state file nor    *)
(* another instance, unless a lock is unlinked under a live owner a commit *)
(* replaces no state it has not seen, and an instance alone with its chat  *)
(* remembers nothing that was cut from its transcript.                     *)
(***************************************************************************)
EXTENDS ConversationMemory, TLAPS, FiniteSetTheorems

-----------------------------------------------------------------------------
(* The inductive invariant *)

InCommit(p) == pc[p] \in {"read", "write", "release"}

DiskRev == IF disk = NoState THEN 0 ELSE disk.rev

\* A run has a store, a commit has something to commit.
ReadyInv ==
    \A p \in Procs :
        /\ pc[p] # "idle" => store[p] # NoState
        /\ pc[p] \in {"read", "write"} => buffer[p] # NoState

\* Exchanges are numbered as they end.
TimeInv ==
    /\ chat \subseteq 1..ended /\ finished \subseteq 1..ended
    /\ \A p \in Procs : turns[p] \subseteq 1..ended /\ base[p] \subseteq 1..ended

\* Only the buffer of a run in progress speaks of an exchange that has not
\* ended well, and only of its own.
FinishedInv ==
    /\ disk # NoState => disk.mem \subseteq finished
    /\ \A p \in Procs :
        /\ store[p] # NoState => store[p].mem \subseteq finished
        /\ seen[p] # NoState => seen[p].mem \subseteq finished
        /\ buffer[p] # NoState =>
             buffer[p] \subseteq finished \cup (IF pc[p] = "run" THEN {0} ELSE {})

\* As long as no lock was unlinked under a live owner: one commit at a time, what
\* it has read is what it replaces, and no store is ahead of the file.
CommitInv ==
    ~robbed =>
        \A p \in Procs :
            /\ InCommit(p) => lock = p
            /\ pc[p] = "write" => seen[p] = disk
            /\ store[p] # NoState => store[p].baseRev <= DiskRev

IInv == TypeOK /\ ReadyInv /\ TimeInv /\ FinishedInv /\ CommitInv

-----------------------------------------------------------------------------
(* The operators on stores and transcripts *)

\* reset() keeps a store a store and forgets its memory only.
LEMMA ResetStore ==
    ASSUME NEW s \in Store \cup {NoState}
    PROVE  /\ Reset(s) \in Store \cup {NoState}
           /\ Reset(s) = NoState <=> s = NoState
           /\ s # NoState => Reset(s).mem = {} /\ Reset(s).baseRev = s.baseRev
<1>1. CASE s = NoState
  BY <1>1 DEF Reset
<1>2. CASE s # NoState
  <2>1. Reset(s) \in Store /\ Reset(s).mem = {} /\ Reset(s).baseRev = s.baseRev
    BY <1>2 DEF Reset, Store
  <2> QED BY <2>1, <1>2, SentinelAssumption
<1> QED BY <1>1, <1>2

\* open() starts from the revision of the file, with its memory or with none.
LEMMA OpenedStore ==
    ASSUME disk \in StateFile \cup {NoState}
    PROVE  /\ Opened \in Store /\ Opened # NoState
           /\ Opened.baseRev = DiskRev
           /\ Opened.mem = {} \/ (disk # NoState /\ Opened.mem = disk.mem)
<1> DEFINE u == Usable(disk, Cardinality(chat))
<1>1. u \in BOOLEAN /\ (u => disk # NoState)
  BY DEF Usable
<1>2. DiskRev \in Nat
  BY DEF DiskRev, StateFile
<1>3. (IF u THEN disk.mem ELSE {}) \in SUBSET Exchanges
  BY <1>1 DEF StateFile
<1>4. Opened = [baseRev |-> DiskRev, mem |-> IF u THEN disk.mem ELSE {}, usable |-> u]
  BY DEF Opened, DiskRev
<1> HIDE DEF u
<1>5. Opened \in Store
  BY <1>1, <1>2, <1>3, <1>4 DEF Store
<1>6. Opened.baseRev = DiskRev /\ Opened.mem = IF u THEN disk.mem ELSE {}
  BY <1>4
<1> QED BY <1>1, <1>5, <1>6, SentinelAssumption

\* What the SDK is given at the start of a run are exchanges of the store.
LEMMA LoadedSubset == ASSUME NEW s \in Store PROVE Loaded(s) \subseteq s.mem
BY DEF Loaded

\* slice invents no exchange.
LEMMA SliceSubset == ASSUME NEW S, NEW n PROVE Newest(S, n) \subseteq S /\ Oldest(S, n) \subseteq S
BY DEF Newest, Oldest

\* The turns of a chat are finitely many.
LEMMA CountType ==
    ASSUME ended \in Nat, NEW S \in SUBSET (1..ended)
    PROVE  IsFiniteSet(S) /\ Cardinality(S) \in Nat
<1>1. IsFiniteSet(1..ended)
  BY FS_Interval
<1> QED BY <1>1, FS_Subset, FS_CardinalityType

\* Saving the chat keeps the copies sets of exchanges, none of them of a later time.
LEMMA SaveType ==
    ASSUME IInv, NEW p \in Procs, NEW n \in Nat, ended <= n, NEW t \in SUBSET (1..n), SaveChat(p, t)
    PROVE  /\ chat' \subseteq 1..n /\ chat' \subseteq Exchanges
           /\ turns' \in [Procs -> SUBSET Exchanges] /\ base' \in [Procs -> SUBSET Exchanges]
           /\ \A q \in Procs : turns'[q] \subseteq 1..n /\ base'[q] \subseteq 1..n
           /\ trimmed' \subseteq Exchanges
<1> DEFINE own    == Newest(t, MaxTurns)
           all    == own \cup (chat \ (base[p] \cup own))
           merged == Newest(all, MaxTurns)
<1>1. ended \in Nat
  BY DEF IInv, TypeOK
<1>2. 1..ended \subseteq 1..n /\ 1..n \subseteq Exchanges
  BY <1>1 DEF Exchanges
<1>3. own \subseteq t /\ merged \subseteq all
  BY SliceSubset
<1>4. chat \subseteq 1..n /\ \A q \in Procs : turns[q] \subseteq 1..n /\ base[q] \subseteq 1..n
  BY <1>2 DEF IInv, TimeInv
<1>5. /\ chat' = merged /\ turns' = [turns EXCEPT ![p] = merged]
      /\ base' = [base EXCEPT ![p] = merged] /\ trimmed' = trimmed \cup ((t \cup all) \ merged)
  BY DEF SaveChat
<1> HIDE DEF own, merged
<1>6. all \subseteq 1..n
  BY <1>3, <1>4
<1>7. merged \subseteq 1..n /\ merged \subseteq Exchanges
  BY <1>2, <1>3, <1>6
<1> HIDE DEF all
<1>8. (t \cup all) \ merged \subseteq Exchanges
  BY <1>2, <1>6
<1>9. turns \in [Procs -> SUBSET Exchanges] /\ base \in [Procs -> SUBSET Exchanges]
      /\ trimmed \subseteq Exchanges
  BY DEF IInv, TypeOK
<1> QED BY <1>4, <1>5, <1>7, <1>8, <1>9

\* So does adding an exchange; its number is new.
LEMMA AddType ==
    ASSUME IInv, NEW p \in Procs, NEW kept \in SUBSET (1..ended), AddExchange(p, kept)
    PROVE  /\ ended' = ended + 1 /\ ended' \in Nat /\ ended' \in Exchanges
           /\ 1..ended \subseteq 1..ended' /\ ended' \in 1..ended' /\ ended' \notin 1..ended
           /\ chat' \subseteq 1..ended' /\ chat' \subseteq Exchanges
           /\ turns' \in [Procs -> SUBSET Exchanges] /\ base' \in [Procs -> SUBSET Exchanges]
           /\ \A q \in Procs : turns'[q] \subseteq 1..ended' /\ base'[q] \subseteq 1..ended'
           /\ trimmed' \subseteq Exchanges /\ regrown' \in BOOLEAN
<1>1. ended \in Nat /\ regrown \in BOOLEAN
  BY DEF IInv, TypeOK
<1> DEFINE n == ended + 1
<1>2. /\ n = ended + 1 /\ n \in Nat /\ ended <= n /\ n \in Exchanges
      /\ 1..ended \subseteq 1..n /\ n \in 1..n /\ n \notin 1..ended
  BY <1>1 DEF Exchanges
<1>3. ended' = n /\ SaveChat(p, kept \cup {n}) /\ regrown' \in BOOLEAN
  BY <1>1 DEF AddExchange
<1> HIDE DEF n
<1>4. kept \cup {n} \in SUBSET (1..n)
  BY <1>2
<1> QED BY <1>2, <1>3, <1>4, SaveType

-----------------------------------------------------------------------------
(* The steps *)

LEMMA StartRunStep ==
    ASSUME IInv, NEW p \in Procs, StartRun(p) PROVE IInv'
<1>1. Opened \in Store /\ Opened # NoState /\ Opened.baseRev = DiskRev
      /\ (Opened.mem = {} \/ (disk # NoState /\ Opened.mem = disk.mem))
  BY OpenedStore DEF IInv, TypeOK
<1> DEFINE s == IF store[p] = NoState THEN Opened ELSE store[p]
<1>2. s \in Store /\ s # NoState
  BY <1>1 DEF IInv, TypeOK
<1>3. s.mem \subseteq finished
  BY <1>1 DEF IInv, FinishedInv
<1>4. store' = [store EXCEPT ![p] = s]
  BY DEF StartRun
<1>5. ~robbed => s.baseRev <= DiskRev
  <2>1. DiskRev \in Nat
    BY DEF IInv, TypeOK, DiskRev, StateFile
  <2> QED BY <1>1, <2>1 DEF IInv, CommitInv
<1> HIDE DEF s
<1>6. recalled' \in BOOLEAN
  BY DEF StartRun, IInv, TypeOK
<1>7. TypeOK'
  BY <1>2, <1>4, <1>6 DEF StartRun, IInv, TypeOK, Goto, chatVars
<1>8. ReadyInv' /\ TimeInv'
  BY <1>2, <1>4 DEF StartRun, IInv, TypeOK, ReadyInv, TimeInv, Goto, chatVars
<1>9. FinishedInv'
  BY <1>2, <1>3, <1>4 DEF StartRun, IInv, TypeOK, FinishedInv, Goto
<1>10. CommitInv'
  BY <1>4, <1>5 DEF StartRun, IInv, TypeOK, CommitInv, InCommit, DiskRev, Goto
<1> QED BY <1>7, <1>8, <1>9, <1>10 DEF IInv

LEMMA SdkSaveStep ==
    ASSUME IInv, NEW p \in Procs, SdkSave(p) PROVE IInv'
<1>1. store[p] \in Store /\ store[p] # NoState
  BY DEF SdkSave, IInv, TypeOK, ReadyInv
<1> DEFINE b == Loaded(store[p]) \cup {0}
<1>2. b \subseteq store[p].mem \cup {0}
  BY <1>1, LoadedSubset
<1>3. store[p].mem \subseteq Nat
  BY <1>1 DEF Store, Exchanges
<1>4. buffer' = [buffer EXCEPT ![p] = b]
  BY DEF SdkSave
<1>5. b \subseteq finished \cup {0}
  BY <1>1, <1>2 DEF IInv, FinishedInv
<1>6. b \in SUBSET Nat
  BY <1>2, <1>3
<1> HIDE DEF b
<1>8. TypeOK'
  BY <1>4, <1>6 DEF SdkSave, IInv, TypeOK, chatVars, past
<1>9. ReadyInv' /\ TimeInv'
  BY <1>4 DEF SdkSave, IInv, TypeOK, ReadyInv, TimeInv, chatVars, past
<1>10. FinishedInv'
  BY <1>4, <1>5 DEF SdkSave, IInv, TypeOK, FinishedInv, past
<1>11. CommitInv'
  BY DEF SdkSave, IInv, CommitInv, InCommit, DiskRev, past
<1> QED BY <1>8, <1>9, <1>10, <1>11 DEF IInv

LEMMA RunSucceedsStep ==
    ASSUME IInv, NEW p \in Procs, NEW compress \in BOOLEAN, RunSucceeds(p, compress)
    PROVE  IInv'
<1> DEFINE kept == IF compress THEN Newest(turns[p], KeepRecent) ELSE turns[p]
           s == IF compress THEN Reset(store[p]) ELSE store[p]
           b == IF compress THEN NoState ELSE (buffer[p] \ {0}) \cup {ended + 1}
<1>1. store[p] \in Store /\ store[p] # NoState /\ buffer[p] \in SUBSET Nat
  BY DEF RunSucceeds, IInv, TypeOK, ReadyInv
<1>2. kept \in SUBSET (1..ended)
  BY SliceSubset DEF IInv, TimeInv
<1>3. /\ ended' = ended + 1 /\ ended' \in Nat /\ ended' \in Exchanges
      /\ 1..ended \subseteq 1..ended' /\ ended' \in 1..ended' /\ ended' \notin 1..ended
      /\ chat' \subseteq 1..ended' /\ chat' \subseteq Exchanges
      /\ turns' \in [Procs -> SUBSET Exchanges] /\ base' \in [Procs -> SUBSET Exchanges]
      /\ \A q \in Procs : turns'[q] \subseteq 1..ended' /\ base'[q] \subseteq 1..ended'
      /\ trimmed' \subseteq Exchanges /\ regrown' \in BOOLEAN
  BY <1>2, AddType DEF RunSucceeds
<1>4. /\ s \in Store \cup {NoState} /\ s # NoState
      /\ s.mem = {} \/ s.mem = store[p].mem
      /\ s.baseRev = store[p].baseRev
  BY <1>1, ResetStore
<1>5. finished' = finished \cup {ended'}
  BY <1>3 DEF RunSucceeds
<1>6. store' = [store EXCEPT ![p] = s] /\ buffer' = [buffer EXCEPT ![p] = b]
  BY DEF RunSucceeds
<1>7. b # NoState => b \subseteq finished'
  BY <1>3, <1>5 DEF RunSucceeds, IInv, FinishedInv
<1>8. b \in {NoState} \cup SUBSET Nat
  BY <1>1, <1>3
<1> HIDE DEF s, b, kept
<1>9. TypeOK'
  <2>1. store' \in [Procs -> Store \cup {NoState}]
    BY <1>4, <1>6 DEF IInv, TypeOK
  <2>2. buffer' \in [Procs -> {NoState} \cup SUBSET Nat]
    BY <1>6, <1>8 DEF IInv, TypeOK
  <2>3. pc' \in [Procs -> {"idle", "run", "commit", "break", "read", "write", "release"}]
    BY DEF RunSucceeds, IInv, TypeOK, Goto
  <2>4. finished' \subseteq Exchanges
    BY <1>3, <1>5 DEF IInv, TypeOK
  <2> QED BY <1>3, <2>1, <2>2, <2>3, <2>4 DEF RunSucceeds, IInv, TypeOK
<1>10. ReadyInv'
  BY <1>4, <1>6 DEF RunSucceeds, IInv, TypeOK, ReadyInv, Goto
<1>11. TimeInv'
  BY <1>3, <1>5 DEF IInv, TimeInv
<1>12. FinishedInv'
  <2>1. disk' # NoState => disk'.mem \subseteq finished'
    BY <1>5 DEF RunSucceeds, IInv, FinishedInv
  <2>2. ASSUME NEW q \in Procs, store'[q] # NoState PROVE store'[q].mem \subseteq finished'
    BY <2>2, <1>1, <1>4, <1>5, <1>6 DEF IInv, TypeOK, FinishedInv
  <2>3. ASSUME NEW q \in Procs, seen'[q] # NoState PROVE seen'[q].mem \subseteq finished'
    BY <2>3, <1>5 DEF RunSucceeds, IInv, FinishedInv
  <2>4. ASSUME NEW q \in Procs, buffer'[q] # NoState
        PROVE  buffer'[q] \subseteq finished' \cup (IF pc'[q] = "run" THEN {0} ELSE {})
    <3>1. CASE q = p
      BY <2>4, <3>1, <1>6, <1>7 DEF IInv, TypeOK
    <3>2. CASE q # p
      BY <2>4, <3>2, <1>5, <1>6 DEF RunSucceeds, IInv, TypeOK, FinishedInv, Goto
    <3> QED BY <3>1, <3>2
  <2> QED BY <2>1, <2>2, <2>3, <2>4 DEF FinishedInv
<1>13. CommitInv'
  BY <1>1, <1>4, <1>6 DEF RunSucceeds, IInv, TypeOK, CommitInv, InCommit, DiskRev, Goto
<1> QED BY <1>9, <1>10, <1>11, <1>12, <1>13 DEF IInv

LEMMA RunFailsStep ==
    ASSUME IInv, NEW p \in Procs, NEW text \in BOOLEAN, RunFails(p, text)
    PROVE  IInv'
<1>1. turns[p] \in SUBSET (1..ended) /\ ended \in Nat
  BY DEF IInv, TypeOK, TimeInv
<1>2. /\ ended' \in Nat /\ 1..ended \subseteq 1..ended'
      /\ chat' \subseteq 1..ended' /\ chat' \subseteq Exchanges
      /\ turns' \in [Procs -> SUBSET Exchanges] /\ base' \in [Procs -> SUBSET Exchanges]
      /\ \A q \in Procs : turns'[q] \subseteq 1..ended' /\ base'[q] \subseteq 1..ended'
      /\ trimmed' \subseteq Exchanges /\ regrown' \in BOOLEAN
  <2>1. CASE text
    <3>1. AddExchange(p, turns[p])
      BY <2>1 DEF RunFails
    <3> QED BY <3>1, <1>1, AddType
  <2>2. CASE ~text
    <3>1. ended' = ended /\ regrown' = regrown /\ SaveChat(p, turns[p])
      BY <2>2 DEF RunFails
    <3>2. ended <= ended
      BY <1>1
    <3> QED BY <3>1, <3>2, <1>1, SaveType DEF IInv, TypeOK
  <2> QED BY <2>1, <2>2
<1>3. TypeOK'
  BY <1>2 DEF RunFails, IInv, TypeOK, Goto, past
<1>4. ReadyInv'
  BY DEF RunFails, IInv, TypeOK, ReadyInv, Goto, past
<1>5. TimeInv'
  BY <1>2 DEF RunFails, IInv, TimeInv, past
<1>6. FinishedInv'
  BY DEF RunFails, IInv, TypeOK, FinishedInv, Goto, past
<1>7. CommitInv'
  BY DEF RunFails, IInv, TypeOK, CommitInv, InCommit, DiskRev, Goto, past
<1> QED BY <1>3, <1>4, <1>5, <1>6, <1>7 DEF IInv

\* The steps of a commit that neither read nor write the file.
LEMMA QuietStep ==
    ASSUME IInv, NEW p \in Procs,
           \/ SkipCommit(p) \/ TakeLock(p) \/ DeadlineOverDead(p) \/ DeadlineOverSlow(p)
           \/ BreakLock(p) \/ CommitFails(p)
    PROVE  IInv'
<1>1. TimeInv'
  BY DEF SkipCommit, TakeLock, DeadlineOverDead, DeadlineOverSlow, BreakLock, CommitFails,
         IInv, TimeInv, chatVars, past
<1>2. CASE SkipCommit(p)
  BY <1>1, <1>2 DEF SkipCommit, IInv, TypeOK, ReadyInv, FinishedInv, CommitInv, InCommit, DiskRev,
              Goto, chatVars, past
<1>3. CASE TakeLock(p)
  <2>1. \A q \in Procs : ~robbed => ~InCommit(q)
    BY <1>3, SentinelAssumption DEF TakeLock, LockFree, IInv, CommitInv
  <2>2. TypeOK' /\ ReadyInv' /\ FinishedInv'
    BY <1>3 DEF TakeLock, IInv, TypeOK, ReadyInv, FinishedInv, Goto, chatVars, past
  <2>3. CommitInv'
    BY <1>3, <2>1 DEF TakeLock, IInv, TypeOK, CommitInv, InCommit, DiskRev, Goto, past
  <2> QED BY <1>1, <2>2, <2>3 DEF IInv
<1>4. CASE DeadlineOverDead(p) \/ DeadlineOverSlow(p)
  <2>1. /\ pc[p] = "commit" /\ pc' = [pc EXCEPT ![p] = "break"]
        /\ UNCHANGED <<chatVars, disk, sidecars, lock, store, buffer, seen, finished, users,
                       recalled, robbed>>
    BY <1>4 DEF DeadlineOverDead, DeadlineOverSlow, Goto, past
  <2> QED BY <1>1, <2>1 DEF IInv, TypeOK, ReadyInv, FinishedInv, CommitInv, InCommit, DiskRev,
                            chatVars
<1>5. CASE BreakLock(p)
  <2>1. robbed \/ lock \in Procs <=> robbed'
    BY <1>5 DEF BreakLock, IInv, TypeOK
  <2>2. \A q \in Procs : ~robbed' => ~InCommit(q)
    BY <2>1 DEF IInv, CommitInv
  <2>3. TypeOK' /\ ReadyInv' /\ FinishedInv'
    BY <1>5 DEF BreakLock, IInv, TypeOK, ReadyInv, FinishedInv, Goto, chatVars, past
  <2>4. CommitInv'
    BY <1>5, <2>1, <2>2 DEF BreakLock, IInv, TypeOK, CommitInv, InCommit, DiskRev, Goto, past
  <2> QED BY <1>1, <2>3, <2>4 DEF IInv
<1>6. CASE CommitFails(p)
  <2>1. /\ \/ pc[p] = "commit" /\ pc' = [pc EXCEPT ![p] = "idle"]
           \/ pc[p] = "write" /\ pc' = [pc EXCEPT ![p] = "release"]
        /\ buffer' = [buffer EXCEPT ![p] = NoState]
        /\ UNCHANGED <<chatVars, disk, sidecars, lock, store, seen, finished, users, recalled,
                       robbed>>
    BY <1>6 DEF CommitFails, Goto
  <2>2. TypeOK' /\ ReadyInv'
    BY <2>1 DEF IInv, TypeOK, ReadyInv, chatVars
  <2>3. FinishedInv' /\ CommitInv'
    BY <2>1 DEF IInv, TypeOK, FinishedInv, CommitInv, InCommit, DiskRev
  <2> QED BY <1>1, <2>2, <2>3 DEF IInv
<1> QED BY <1>2, <1>3, <1>4, <1>5, <1>6

LEMMA ReadDiskStep ==
    ASSUME IInv, NEW p \in Procs, ReadDisk(p) PROVE IInv'
<1>1. TypeOK'
  BY DEF ReadDisk, IInv, TypeOK, Goto, chatVars, past
<1>2. ReadyInv' /\ TimeInv'
  BY DEF ReadDisk, IInv, TypeOK, ReadyInv, TimeInv, Goto, chatVars, past
<1>3. FinishedInv'
  BY DEF ReadDisk, IInv, TypeOK, FinishedInv, Goto, past
<1>4. CommitInv'
  BY DEF ReadDisk, IInv, TypeOK, CommitInv, InCommit, DiskRev, Goto, past
<1> QED BY <1>1, <1>2, <1>3, <1>4 DEF IInv

LEMMA ReleaseStep ==
    ASSUME IInv, NEW p \in Procs, Release(p) PROVE IInv'
<1>1. TypeOK'
  BY DEF Release, IInv, TypeOK, Goto, chatVars, past
<1>2. ReadyInv' /\ TimeInv'
  BY DEF Release, IInv, TypeOK, ReadyInv, TimeInv, Goto, chatVars, past
<1>3. FinishedInv'
  BY DEF Release, IInv, TypeOK, FinishedInv, Goto, past
<1>4. CommitInv'
  <2>1. ASSUME ~robbed, NEW q \in Procs, q # p PROVE ~InCommit(q)
    BY <2>1 DEF Release, IInv, CommitInv, InCommit
  <2> QED BY <2>1 DEF Release, IInv, TypeOK, CommitInv, InCommit, DiskRev, Goto, past
<1> QED BY <1>1, <1>2, <1>3, <1>4 DEF IInv

\* What the commit that is about to write has in its hands.
LEMMA WritingFacts ==
    ASSUME IInv, NEW p \in Procs, pc[p] = "write"
    PROVE  /\ store[p] \in Store /\ store[p].baseRev \in Nat
           /\ seen[p] \in StateFile \cup {NoState} /\ SeenRev(p) \in Nat
           /\ buffer[p] \in SUBSET finished /\ buffer[p] \in SUBSET Exchanges
           /\ ~robbed => seen[p] = disk /\ SeenRev(p) = DiskRev
<1>1. store[p] \in Store /\ seen[p] \in StateFile \cup {NoState}
  BY DEF IInv, TypeOK, ReadyInv
<1>2. store[p].baseRev \in Nat /\ SeenRev(p) \in Nat
  BY <1>1 DEF Store, StateFile, SeenRev
<1>3. buffer[p] \in SUBSET finished /\ buffer[p] \in SUBSET Exchanges
  BY DEF IInv, TypeOK, ReadyInv, FinishedInv
<1>4. ~robbed => seen[p] = disk /\ SeenRev(p) = DiskRev
  BY DEF IInv, CommitInv, SeenRev, DiskRev
<1> QED BY <1>1, <1>2, <1>3, <1>4

LEMMA WriteConflictStep ==
    ASSUME IInv, NEW p \in Procs, WriteConflict(p) PROVE IInv'
<1>1. /\ store[p].baseRev \in Nat /\ seen[p] \in StateFile \cup {NoState}
      /\ ~robbed => seen[p] = disk
  BY WritingFacts DEF WriteConflict
<1>2. seen[p] \in StateFile /\ seen[p] # NoState
  BY <1>1 DEF WriteConflict, Conflict, SeenRev
<1> DEFINE s == [baseRev |-> seen[p].rev, mem |-> seen[p].mem, usable |-> TRUE]
<1>3. s \in Store /\ s.mem = seen[p].mem /\ s.baseRev = seen[p].rev
  BY <1>2 DEF StateFile, Store
<1>4. s # NoState
  BY <1>3, SentinelAssumption
<1>5. store' = [store EXCEPT ![p] = s]
  BY DEF WriteConflict
<1>6. seen[p].mem \subseteq finished
  BY <1>2 DEF IInv, FinishedInv
<1>7. ~robbed => s.baseRev = DiskRev
  BY <1>1, <1>2, <1>3 DEF DiskRev
<1>8. DiskRev \in Nat
  BY DEF IInv, TypeOK, DiskRev, StateFile
<1> HIDE DEF s
<1>9. TypeOK'
  <2>1. store' \in [Procs -> Store \cup {NoState}]
    BY <1>3, <1>5 DEF IInv, TypeOK
  <2>2. /\ buffer' \in [Procs -> {NoState} \cup SUBSET Nat]
        /\ pc' \in [Procs -> {"idle", "run", "commit", "break", "read", "write", "release"}]
    BY DEF WriteConflict, IInv, TypeOK, Goto
  <2>3. sidecars' \in Nat
    BY DEF WriteConflict, IInv, TypeOK
  <2> QED BY <2>1, <2>2, <2>3 DEF WriteConflict, IInv, TypeOK, chatVars, past
<1>10. ReadyInv' /\ TimeInv'
  BY <1>4, <1>5 DEF WriteConflict, IInv, TypeOK, ReadyInv, TimeInv, Goto, chatVars, past
<1>11. FinishedInv'
  BY <1>3, <1>5, <1>6 DEF WriteConflict, IInv, TypeOK, FinishedInv, Goto, past
<1>12. CommitInv'
  BY <1>5, <1>7, <1>8 DEF WriteConflict, IInv, TypeOK, CommitInv, InCommit, DiskRev, Goto, past
<1> QED BY <1>9, <1>10, <1>11, <1>12 DEF IInv

LEMMA WriteStateStep ==
    ASSUME IInv, NEW p \in Procs, WriteState(p) PROVE IInv'
<1>1. /\ SeenRev(p) \in Nat
      /\ buffer[p] \in SUBSET finished /\ buffer[p] \in SUBSET Exchanges
      /\ ~robbed => SeenRev(p) = DiskRev
  BY WritingFacts DEF WriteState
<1> DEFINE n == SeenRev(p) + 1
           f == [rev |-> n, count |-> Cardinality(turns[p]), mem |-> buffer[p]]
           s == [baseRev |-> n, mem |-> buffer[p], usable |-> TRUE]
<1>2. n \in Nat /\ (~robbed => n = DiskRev + 1)
  BY <1>1
<1>3. disk' = f /\ store' = [store EXCEPT ![p] = s]
  BY DEF WriteState
<1> HIDE DEF n
<1>4. Cardinality(turns[p]) \in Nat
  BY CountType DEF IInv, TypeOK, TimeInv
<1>5. f \in StateFile /\ f.rev = n /\ f.mem = buffer[p]
  BY <1>1, <1>2, <1>4 DEF StateFile
<1>6. s \in Store /\ s.baseRev = n /\ s.mem = buffer[p]
  BY <1>1, <1>2 DEF Store
<1> HIDE DEF f, s
<1>7. f # NoState /\ s # NoState
  BY <1>5, <1>6, SentinelAssumption
<1>8. DiskRev' = n
  BY <1>3, <1>5, <1>7 DEF DiskRev
<1>9. TypeOK'
  <2>1. disk' \in StateFile \cup {NoState} /\ store' \in [Procs -> Store \cup {NoState}]
    BY <1>3, <1>5, <1>6 DEF IInv, TypeOK
  <2> QED BY <2>1 DEF WriteState, IInv, TypeOK, Goto, chatVars, past
<1>10. ReadyInv' /\ TimeInv'
  BY <1>3, <1>7 DEF WriteState, IInv, TypeOK, ReadyInv, TimeInv, Goto, past
<1>11. FinishedInv'
  BY <1>1, <1>3, <1>5, <1>6 DEF WriteState, IInv, TypeOK, FinishedInv, Goto, past
<1>12. CommitInv'
  <2> SUFFICES ASSUME ~robbed, NEW q \in Procs
               PROVE  /\ InCommit(q)' => lock' = q
                      /\ pc'[q] = "write" => seen'[q] = disk'
                      /\ store'[q] # NoState => store'[q].baseRev <= DiskRev'
    BY DEF WriteState, CommitInv, past
  <2>1. InCommit(q)' => lock' = q
    BY DEF WriteState, IInv, TypeOK, CommitInv, InCommit, Goto
  <2>2. pc'[q] # "write"
    BY DEF WriteState, IInv, TypeOK, CommitInv, InCommit, Goto
  <2>3. store'[q] # NoState => store'[q].baseRev <= n
    <3>1. CASE q = p
      BY <3>1, <1>2, <1>3, <1>6 DEF IInv, TypeOK
    <3>2. CASE q # p
      <4>1. store'[q] = store[q]
        BY <3>2, <1>3 DEF IInv, TypeOK
      <4>2. ASSUME store[q] # NoState PROVE store[q].baseRev \in Nat /\ store[q].baseRev <= DiskRev
        BY <4>2 DEF IInv, TypeOK, CommitInv, Store
      <4>3. DiskRev \in Nat
        BY DEF IInv, TypeOK, DiskRev, StateFile
      <4> QED BY <4>1, <4>2, <4>3, <1>2
    <3> QED BY <3>1, <3>2
  <2> QED BY <2>1, <2>2, <2>3, <1>8
<1> QED BY <1>9, <1>10, <1>11, <1>12 DEF IInv

LEMMA RewindStep ==
    ASSUME IInv, NEW p \in Procs, NEW n, Rewind(p, n) PROVE IInv'
<1> DEFINE s == Reset(store[p])
<1>1. /\ s \in Store \cup {NoState}
      /\ s # NoState => store[p] # NoState /\ s.mem = {} /\ s.baseRev = store[p].baseRev
  BY ResetStore DEF IInv, TypeOK
<1>2. Oldest(turns[p], n) \in SUBSET (1..ended) /\ ended \in Nat /\ ended <= ended
  BY SliceSubset DEF IInv, TypeOK, TimeInv
<1>3. /\ chat' \subseteq 1..ended /\ chat' \subseteq Exchanges
      /\ turns' \in [Procs -> SUBSET Exchanges] /\ base' \in [Procs -> SUBSET Exchanges]
      /\ \A q \in Procs : turns'[q] \subseteq 1..ended /\ base'[q] \subseteq 1..ended
      /\ trimmed' \subseteq Exchanges
  BY <1>2, SaveType DEF Rewind
<1>4. store' = [store EXCEPT ![p] = s]
  BY DEF Rewind
<1> HIDE DEF s
<1>5. TypeOK'
  <2>1. store' \in [Procs -> Store \cup {NoState}]
    BY <1>1, <1>4 DEF IInv, TypeOK
  <2>2. buffer' \in [Procs -> {NoState} \cup SUBSET Nat]
    BY DEF Rewind, IInv, TypeOK
  <2> QED BY <1>3, <2>1, <2>2 DEF Rewind, IInv, TypeOK
<1>6. ReadyInv' /\ TimeInv'
  BY <1>3, <1>4 DEF Rewind, IInv, TypeOK, ReadyInv, TimeInv
<1>7. FinishedInv'
  BY <1>1, <1>4 DEF Rewind, IInv, TypeOK, FinishedInv
<1>8. CommitInv'
  BY <1>1, <1>4 DEF Rewind, IInv, TypeOK, CommitInv, InCommit, DiskRev
<1> QED BY <1>5, <1>6, <1>7, <1>8 DEF IInv

LEMMA RestartStep ==
    ASSUME IInv, NEW p \in Procs, Restart(p) PROVE IInv'
<1>1. chat' = chat /\ chat \subseteq Exchanges /\ robbed' = robbed
  BY DEF Restart, IInv, TypeOK
<1>2. TypeOK'
  BY <1>1 DEF Restart, IInv, TypeOK, Goto
<1>3. ReadyInv' /\ TimeInv'
  BY DEF Restart, IInv, TypeOK, ReadyInv, TimeInv, Goto
<1>4. FinishedInv'
  BY DEF Restart, IInv, TypeOK, FinishedInv, Goto
<1>5. CommitInv'
  BY <1>1 DEF Restart, IInv, TypeOK, CommitInv, InCommit, DiskRev, Goto
<1> QED BY <1>2, <1>3, <1>4, <1>5 DEF IInv

-----------------------------------------------------------------------------
(* The theorems *)

\* Every reachable state satisfies the invariant.
THEOREM Inductive == Spec => []IInv
<1>1. Init => IInv
  <2> SUFFICES ASSUME Init PROVE IInv
    OBVIOUS
  <2>1. TypeOK /\ TimeInv
    BY DEF Init, TypeOK, TimeInv
  <2>2. ReadyInv /\ FinishedInv /\ CommitInv
    BY DEF Init, ReadyInv, FinishedInv, CommitInv, InCommit
  <2> QED BY <2>1, <2>2 DEF IInv
<1>2. IInv /\ [Next]_vars => IInv'
  <2> SUFFICES ASSUME IInv, [Next]_vars PROVE IInv'
    OBVIOUS
  <2>1. CASE UNCHANGED vars
    BY <2>1 DEF vars, chatVars, past, IInv, TypeOK, ReadyInv, TimeInv, FinishedInv, CommitInv,
                InCommit, DiskRev
  <2>2. CASE Next
    BY <2>2, StartRunStep, SdkSaveStep, RunSucceedsStep, RunFailsStep, QuietStep, ReadDiskStep,
       WriteConflictStep, WriteStateStep, ReleaseStep, RewindStep, RestartStep
       DEF Next, CommitStep
  <2> QED BY <2>1, <2>2
<1> QED BY <1>1, <1>2, PTL DEF Spec

\* Every reachable state is well typed.
THEOREM TypeCorrect == Spec => []TypeOK
<1>1. IInv => TypeOK
  BY DEF IInv
<1> QED BY <1>1, Inductive, PTL

\* No state of a run that failed or was cancelled is in the state file.
THEOREM NoBrokenHistory == Spec => []OnlyFinishedRuns
<1>1. IInv => OnlyFinishedRuns
  BY DEF IInv, FinishedInv, OnlyFinishedRuns
<1> QED BY <1>1, Inductive, PTL

\* A commit replaces only the state its own memory comes from.
THEOREM NothingClobbered == Spec => NoStateClobbered
<1>1. IInv /\ [Next]_vars
        => [\A p \in Procs : ~robbed /\ pc[p] = "write" /\ pc'[p] = "release"
                  /\ disk' # disk
              => store[p].baseRev = (IF disk = NoState THEN 0 ELSE disk.rev)]_vars
  <2> SUFFICES ASSUME IInv, Next, NEW p \in Procs, ~robbed, pc[p] = "write",
                      disk' # disk
               PROVE  store[p].baseRev = DiskRev
    BY DEF vars, DiskRev
  <2>1. PICK q \in Procs : WriteState(q)
    BY DEF Next, CommitStep, StartRun, SdkSave, RunSucceeds, RunFails, SkipCommit, TakeLock,
           DeadlineOverDead, DeadlineOverSlow, BreakLock, CommitFails, ReadDisk, WriteConflict, Release, Rewind, Restart
  <2>2. q = p
    BY <2>1 DEF WriteState, IInv, CommitInv, InCommit
  <2>3. store[p].baseRev \in Nat /\ DiskRev \in Nat /\ SeenRev(p) = DiskRev
    BY WritingFacts
  <2>4. store[p].baseRev <= DiskRev
    BY DEF IInv, ReadyInv, CommitInv
  <2> QED BY <2>1, <2>2, <2>3, <2>4 DEF WriteState, Conflict
<1> QED BY <1>1, Inductive, PTL DEF Spec, NoStateClobbered

-----------------------------------------------------------------------------
(* An instance that stays alone with its chat *)

\* Unless turns were added since a cut the state file does not know of: what it remembers is in
\* the oldest turns, as many as it counts, or was trimmed; or the count gives it away.
DiskFits ==
    disk # NoState /\ ~regrown =>
        \/ disk.mem \subseteq Oldest(chat, disk.count) \cup trimmed
        \/ Outdated(chat, trimmed) /\ disk.count > Cardinality(chat)

\* What it has in hand is what lies on disk, and its memory is within its transcript.
Own(p) ==
    /\ turns[p] = chat /\ base[p] = chat
    /\ pc[p] = "write" => seen[p] = disk
    /\ pc[p] \in {"idle", "release"} => buffer[p] = NoState
    /\ store[p] # NoState => store[p].baseRev = DiskRev
    /\ ~recalled =>
         /\ DiskFits
         /\ store[p] # NoState => Loaded(store[p]) \subseteq chat \cup trimmed
         /\ buffer[p] # NoState =>
              buffer[p] \subseteq chat \cup trimmed \cup (IF pc[p] = "run" THEN {0} ELSE {})

\* Whoever has not run or edited anything has nothing in hand.
Idle(p) == pc[p] = "idle" /\ store[p] = NoState /\ buffer[p] = NoState

AloneInv ==
    /\ IsFiniteSet(users)
    /\ \A p \in Procs : /\ p \notin users => Idle(p)
                        /\ users \subseteq {p} => Own(p)

\* A turn among the n oldest stays there when turns are removed or later ones added.
LEMMA OldestStays ==
    ASSUME NEW S, IsFiniteSet(S), S \subseteq Nat, NEW T, T \subseteq Nat, NEW n \in Nat,
           \A u \in T : u \in S \/ \A m \in S : m < u
    PROVE  \A m \in Oldest(S, n) \cap T : m \in Oldest(T, n)
<1> SUFFICES ASSUME NEW m \in Oldest(S, n), m \in T PROVE m \in Oldest(T, n)
  OBVIOUS
<1> DEFINE A == {u \in S : u < m}
           B == {u \in T : u < m}
<1>1. m \in S /\ m \in Nat /\ Cardinality(A) < n
  BY DEF Oldest
<1>2. B \subseteq A
  <2>1. ASSUME NEW u \in T, u < m PROVE u \in S
    <3>1. u \in Nat /\ ~(m < u)
      BY <1>1, <2>1
    <3> QED BY <1>1, <3>1
  <2> QED BY <2>1
<1>3. IsFiniteSet(A)
  BY FS_Subset
<1>4. Cardinality(A) \in Nat /\ Cardinality(B) \in Nat /\ Cardinality(B) <= Cardinality(A)
  BY <1>2, <1>3, FS_Subset, FS_CardinalityType
<1> HIDE DEF A
<1>5. Cardinality(B) < n
  BY <1>1, <1>4
<1> QED BY <1>5 DEF Oldest

\* All the turns are the oldest ones.
LEMMA OldestAll ==
    ASSUME NEW S, IsFiniteSet(S), S \subseteq Nat PROVE S \subseteq Oldest(S, Cardinality(S))
<1> SUFFICES ASSUME NEW m \in S PROVE Cardinality({u \in S : u < m}) < Cardinality(S)
  BY DEF Oldest
<1> DEFINE A == {u \in S : u < m}
<1>1. A \subseteq S /\ A # S
  OBVIOUS
<1> HIDE DEF A
<1>2. /\ IsFiniteSet(A) /\ Cardinality(A) <= Cardinality(S) /\ Cardinality(A) # Cardinality(S)
      /\ Cardinality(A) \in Nat /\ Cardinality(S) \in Nat
  BY <1>1, FS_Subset, FS_CardinalityType
<1>3. Cardinality(A) < Cardinality(S)
  BY <1>2
<1> QED BY <1>3 DEF A

\* slice(0, n) leaves out only what is later than everything it keeps.
LEMMA OldestIsInitial ==
    ASSUME NEW S, IsFiniteSet(S), S \subseteq Nat, NEW n \in Nat
    PROVE  \A m \in S \ Oldest(S, n) : \A u \in Oldest(S, n) : u < m
<1> SUFFICES ASSUME NEW m \in S, m \notin Oldest(S, n), NEW u \in Oldest(S, n), ~(u < m)
             PROVE  FALSE
  OBVIOUS
<1> DEFINE A == {v \in S : v < u}
           B == {v \in S : v < m}
<1>1. u \in S /\ u \in Nat /\ m \in Nat /\ m <= u
  BY DEF Oldest
<1>2. B \subseteq A
  <2>1. ASSUME NEW v \in S, v < m PROVE v < u
    <3>1. v \in Nat
      OBVIOUS
    <3> QED BY <1>1, <2>1, <3>1
  <2> QED BY <2>1
<1>3. IsFiniteSet(A)
  BY FS_Subset
<1>4. Cardinality(A) \in Nat /\ Cardinality(B) \in Nat /\ Cardinality(B) <= Cardinality(A)
  BY <1>2, <1>3, FS_Subset, FS_CardinalityType
<1>5. Cardinality(A) < n
  BY DEF Oldest
<1>6. ~(Cardinality(B) < n)
  BY DEF Oldest
<1> HIDE DEF A, B
<1> QED BY <1>4, <1>5, <1>6

\* What the two lemmas below need of an instance's copy.
LEMMA ChatFacts ==
    ASSUME IInv
    PROVE  /\ ended \in Nat /\ chat \subseteq 1..ended /\ chat \subseteq Nat
           /\ IsFiniteSet(chat) /\ Cardinality(chat) \in Nat
           /\ disk # NoState => disk.count \in Nat /\ disk.mem \subseteq 1..ended
<1>1. ended \in Nat /\ chat \subseteq 1..ended
  BY DEF IInv, TypeOK, TimeInv
<1>2. disk # NoState => disk.count \in Nat /\ disk.mem \subseteq 1..ended
  BY DEF IInv, TypeOK, TimeInv, FinishedInv, StateFile
<1> QED BY <1>1, <1>2, CountType

\* The turns after some point are cut, others may be trimmed.
LEMMA FitsAfterCut ==
    ASSUME IInv, DiskFits, NEW t, t \subseteq chat, \A m \in chat \ t : \A u \in t : u < m,
           chat' \subseteq t, chat' \cup trimmed' = t \cup trimmed, trimmed \subseteq trimmed',
           disk' = disk, regrown' = regrown
    PROVE  DiskFits'
<1> SUFFICES ASSUME disk # NoState, ~regrown
             PROVE  \/ disk.mem \subseteq Oldest(chat', disk.count) \cup trimmed'
                    \/ Outdated(chat, trimmed)' /\ disk.count > Cardinality(chat')
  BY DEF DiskFits
<1> DEFINE c == disk.count
<1>1. /\ chat \subseteq Nat /\ IsFiniteSet(chat) /\ Cardinality(chat) \in Nat /\ c \in Nat
  BY ChatFacts
<1>2. IsFiniteSet(chat') /\ Cardinality(chat') \in Nat /\ Cardinality(chat') <= Cardinality(chat)
  BY <1>1, FS_Subset, FS_CardinalityType
<1> HIDE DEF c
<1>3. CASE disk.mem \subseteq Oldest(chat, c) \cup trimmed /\ disk.mem \subseteq t \cup trimmed
  <2>1. \A m \in Oldest(chat, c) \cap chat' : m \in Oldest(chat', c)
    BY <1>1, OldestStays
  <2>2. disk.mem \subseteq Oldest(chat', c) \cup trimmed'
    BY <1>3, <2>1
  <2> QED BY <2>2 DEF c
<1>4. CASE disk.mem \subseteq Oldest(chat, c) \cup trimmed /\ ~(disk.mem \subseteq t \cup trimmed)
  <2>1. PICK m \in disk.mem : m \notin t \cup trimmed
    BY <1>4
  <2> DEFINE A == {u \in chat : u < m}
  <2>2. m \in chat /\ Cardinality(A) < c
    BY <1>4, <2>1 DEF Oldest
  <2>3. chat' \subseteq A
    BY <2>1, <2>2
  <2>4. IsFiniteSet(A)
    BY <1>1, FS_Subset
  <2> HIDE DEF A
  <2>5. Cardinality(chat') <= Cardinality(A) /\ Cardinality(A) \in Nat
    BY <2>3, <2>4, FS_Subset, FS_CardinalityType
  <2>6. c > Cardinality(chat')
    BY <1>1, <1>2, <2>2, <2>5
  <2>7. Outdated(chat, trimmed)'
    BY <2>1 DEF Outdated
  <2> QED BY <2>6, <2>7 DEF c
<1>5. CASE Outdated(chat, trimmed) /\ c > Cardinality(chat)
  <2>1. Outdated(chat, trimmed)'
    BY <1>5 DEF Outdated
  <2>2. c > Cardinality(chat')
    BY <1>1, <1>2, <1>5
  <2> QED BY <2>1, <2>2 DEF c
<1> QED BY <1>3, <1>4, <1>5 DEF DiskFits, c

\* An exchange is added to what is kept.
LEMMA FitsAfterAdding ==
    ASSUME IInv, DiskFits, NEW kept, kept \subseteq chat,
           chat' \subseteq kept \cup {ended + 1},
           chat' \cup trimmed' = kept \cup {ended + 1} \cup trimmed, trimmed \subseteq trimmed',
           disk' = disk, regrown' = (regrown \/ Outdated(chat', trimmed'))
    PROVE  DiskFits'
<1> SUFFICES ASSUME disk # NoState, ~regrown'
             PROVE  disk.mem \subseteq Oldest(chat', disk.count) \cup trimmed'
  BY DEF DiskFits
<1> DEFINE c == disk.count
           x == ended + 1
<1>1. /\ chat \subseteq Nat /\ IsFiniteSet(chat) /\ c \in Nat
      /\ x \in Nat /\ x \notin disk.mem /\ \A m \in chat : m < x
  BY ChatFacts
<1>2. ~regrown /\ disk.mem \subseteq chat' \cup trimmed'
  BY DEF Outdated
<1> HIDE DEF c
<1>3. disk.mem \subseteq chat \cup trimmed
  BY <1>1, <1>2
<1>4. disk.mem \subseteq Oldest(chat, c) \cup trimmed
  BY <1>2, <1>3 DEF DiskFits, Outdated, c
<1>5. \A m \in Oldest(chat, c) \cap chat' : m \in Oldest(chat', c)
  <2>1. chat' \subseteq Nat
    BY <1>1
  <2>2. \A u \in chat' : u \in chat \/ \A m \in chat : m < u
    BY <1>1
  <2> HIDE DEF x
  <2> QED BY <1>1, <2>1, <2>2, OldestStays
<1> QED BY <1>2, <1>4, <1>5 DEF c

\* Enough for a step of p, who has run or edited something by then.
LEMMA AloneSuffices ==
    ASSUME AloneInv, NEW p \in Procs,
           users' = users \/ users' = users \cup {p}, p \in users',
           \A q \in Procs \ {p} :
               pc'[q] = pc[q] /\ store'[q] = store[q] /\ buffer'[q] = buffer[q],
           users \subseteq {p} /\ Own(p) => Own(p)'
    PROVE  AloneInv'
<1>1. IsFiniteSet(users')
  BY FS_AddElement DEF AloneInv
<1>2. ASSUME NEW q \in Procs
      PROVE  (q \notin users' => Idle(q)') /\ (users' \subseteq {q} => Own(q)')
  <2>1. CASE q = p
    BY <2>1 DEF AloneInv
  <2>2. CASE q # p
    <3>1. q \notin users' => Idle(q)
      BY DEF AloneInv
    <3> QED BY <2>2, <3>1 DEF Idle
  <2> QED BY <2>1, <2>2
<1> QED BY <1>1, <1>2 DEF AloneInv

\* Who is busy has run something.
LEMMA BusyIsUser == ASSUME AloneInv, NEW p \in Procs, pc[p] # "idle" PROVE p \in users
BY DEF AloneInv, Idle

\* Saving the chat that nobody else writes makes the turns the chat, but for what is trimmed.
LEMMA SaveAlone ==
    ASSUME TypeOK, NEW p \in Procs, NEW t, SaveChat(p, t), Own(p)
    PROVE  /\ turns'[p] = chat' /\ base'[p] = chat'
           /\ chat' \subseteq t /\ chat' \cup trimmed' = t \cup trimmed /\ trimmed \subseteq trimmed'
<1> DEFINE own    == Newest(t, MaxTurns)
           all    == own \cup (chat \ (base[p] \cup own))
           merged == Newest(all, MaxTurns)
<1>1. all = own
  BY DEF Own
<1>2. own \subseteq t /\ merged \subseteq all
  BY SliceSubset
<1>3. /\ chat' = merged /\ turns' = [turns EXCEPT ![p] = merged]
      /\ base' = [base EXCEPT ![p] = merged] /\ trimmed' = trimmed \cup ((t \cup all) \ merged)
  BY DEF SaveChat
<1> HIDE DEF own, all, merged
<1> QED BY <1>1, <1>2, <1>3 DEF TypeOK

LEMMA StartRunAlone ==
    ASSUME IInv, AloneInv, NEW p \in Procs, StartRun(p) PROVE AloneInv'
<1>1. ASSUME Own(p) PROVE Own(p)'
  <2>1. /\ store'[p] = (IF store[p] = NoState THEN Opened ELSE store[p])
        /\ pc'[p] = "run" /\ buffer[p] = NoState /\ buffer' = buffer
        /\ UNCHANGED <<chat, turns, base, trimmed, regrown, disk>>
    BY <1>1 DEF StartRun, IInv, TypeOK, Own, Goto, chatVars
  <2>2. recalled' = (recalled \/ (store[p] = NoState /\ regrown))
    BY DEF StartRun
  <2>3. DiskFits' <=> DiskFits
    BY <2>1 DEF DiskFits, Outdated
  <2>4. Opened.baseRev = DiskRev
    BY OpenedStore DEF IInv, TypeOK
  <2>5. ASSUME store[p] = NoState, ~recalled'
        PROVE  Loaded(Opened) \subseteq chat \cup trimmed
    <3>1. CASE Usable(disk, Cardinality(chat))
      <4>1. disk # NoState /\ ~(disk.count > Cardinality(chat)) /\ Loaded(Opened) = disk.mem
        <5>1. disk # NoState /\ disk.count <= Cardinality(chat)
          BY <3>1 DEF Usable
        <5>2. disk.count \in Nat /\ Cardinality(chat) \in Nat
          BY <5>1, ChatFacts
        <5>3. Loaded(Opened) = disk.mem
          BY <3>1 DEF Opened, Loaded
        <5> QED BY <5>1, <5>2, <5>3
      <4>2. disk.mem \subseteq Oldest(chat, disk.count) \cup trimmed
        BY <1>1, <2>2, <2>5, <4>1 DEF Own, DiskFits
      <4> QED BY <4>1, <4>2, SliceSubset
    <3>2. CASE ~Usable(disk, Cardinality(chat))
      BY <3>2 DEF Opened, Loaded
    <3> QED BY <3>1, <3>2
  <2> QED BY <1>1, <2>1, <2>2, <2>3, <2>4, <2>5 DEF Own, DiskRev
<1> QED BY <1>1, AloneSuffices DEF StartRun, IInv, TypeOK, Goto

LEMMA SdkSaveAlone ==
    ASSUME IInv, AloneInv, NEW p \in Procs, SdkSave(p) PROVE AloneInv'
<1>1. ASSUME Own(p) PROVE Own(p)'
  <2>1. /\ pc[p] = "run" /\ store[p] # NoState
        /\ buffer'[p] = Loaded(store[p]) \cup {0}
        /\ UNCHANGED <<chat, turns, base, trimmed, regrown, disk, seen, store, pc, recalled>>
    BY DEF SdkSave, IInv, TypeOK, ReadyInv, chatVars, past
  <2>2. DiskFits' <=> DiskFits
    BY <2>1 DEF DiskFits, Outdated
  <2> QED BY <1>1, <2>1, <2>2 DEF Own, DiskRev
<1> QED BY <1>1, AloneSuffices, BusyIsUser DEF SdkSave, IInv, TypeOK, past

\* What the lone instance has after adding an exchange.
LEMMA AddAlone ==
    ASSUME IInv, NEW p \in Procs, Own(p), NEW kept, kept \subseteq turns[p],
           AddExchange(p, kept), disk' = disk
    PROVE  /\ turns'[p] = chat' /\ base'[p] = chat'
           /\ chat' \cup trimmed' = kept \cup {ended + 1} \cup trimmed
           /\ ~recalled => DiskFits'
<1>1. SaveChat(p, kept \cup {ended + 1}) /\ regrown' = (regrown \/ Outdated(chat', trimmed'))
  BY DEF AddExchange
<1>2. /\ turns'[p] = chat' /\ base'[p] = chat' /\ chat' \subseteq kept \cup {ended + 1}
      /\ chat' \cup trimmed' = kept \cup {ended + 1} \cup trimmed /\ trimmed \subseteq trimmed'
  BY <1>1, SaveAlone DEF IInv
<1>3. kept \subseteq chat
  BY DEF Own
<1>4. ~recalled => DiskFits
  BY DEF Own
<1> QED BY <1>1, <1>2, <1>3, <1>4, FitsAfterAdding

LEMMA RunSucceedsAlone ==
    ASSUME IInv, AloneInv, NEW p \in Procs, NEW compress \in BOOLEAN, RunSucceeds(p, compress)
    PROVE  AloneInv'
<1> DEFINE kept == IF compress THEN Newest(turns[p], KeepRecent) ELSE turns[p]
<1>1. ASSUME Own(p) PROVE Own(p)'
  <2>1. /\ turns'[p] = chat' /\ base'[p] = chat'
        /\ chat' \cup trimmed' = kept \cup {ended + 1} \cup trimmed
        /\ ~recalled => DiskFits'
    <3>1. kept \subseteq turns[p]
      BY SliceSubset
    <3> QED BY <1>1, <3>1, AddAlone DEF RunSucceeds
  <2>2. store[p] \in Store /\ store[p] # NoState
    BY DEF RunSucceeds, IInv, TypeOK, ReadyInv
  <2>3. /\ pc[p] = "run" /\ pc'[p] = "commit" /\ disk' = disk /\ recalled' = recalled
        /\ store'[p] = IF compress THEN Reset(store[p]) ELSE store[p]
        /\ buffer[p] # NoState
        /\ buffer'[p] = IF compress THEN NoState ELSE (buffer[p] \ {0}) \cup {ended + 1}
    BY DEF RunSucceeds, IInv, TypeOK, Goto
  <2>4. CASE compress
    <3>1. /\ Reset(store[p]) # NoState /\ Reset(store[p]).baseRev = store[p].baseRev
          /\ Loaded(Reset(store[p])) = {}
      <4>1. Loaded(Reset(store[p])) = {}
        BY <2>2 DEF Reset, Store, Loaded
      <4> QED BY <2>2, <4>1, ResetStore
    <3> QED BY <1>1, <2>1, <2>2, <2>3, <2>4, <3>1 DEF Own, DiskRev
  <2>5. CASE ~compress
    <3>1. chat' \cup trimmed' = chat \cup {ended + 1} \cup trimmed
      BY <1>1, <2>1, <2>5 DEF Own
    <3>2. ~recalled => buffer[p] \ {0} \subseteq chat \cup trimmed
      BY <1>1, <2>3 DEF Own
    <3> QED BY <1>1, <2>1, <2>2, <2>3, <2>5, <3>1, <3>2 DEF Own, DiskRev
  <2> QED BY <2>4, <2>5
<1> QED BY <1>1, AloneSuffices, BusyIsUser DEF RunSucceeds, IInv, TypeOK, Goto

LEMMA RunFailsAlone ==
    ASSUME IInv, AloneInv, NEW p \in Procs, NEW text \in BOOLEAN, RunFails(p, text)
    PROVE  AloneInv'
<1>1. ASSUME Own(p) PROVE Own(p)'
  <2>1. /\ pc'[p] = "idle" /\ UNCHANGED <<disk, store, recalled>> /\ buffer'[p] = NoState
    BY DEF RunFails, IInv, TypeOK, Goto, past
  <2>2. /\ turns'[p] = chat' /\ base'[p] = chat'
        /\ ~recalled => DiskFits'
        /\ chat \cup trimmed \subseteq chat' \cup trimmed'
    <3>1. CASE text
      <4>1. AddExchange(p, turns[p]) /\ turns[p] \subseteq turns[p]
        BY <3>1 DEF RunFails
      <4>2. turns[p] = chat
        BY <1>1 DEF Own
      <4> QED BY <1>1, <2>1, <4>1, <4>2, AddAlone
    <3>2. CASE ~text
      <4>1. SaveChat(p, chat) /\ regrown' = regrown
        BY <1>1, <3>2 DEF RunFails, Own
      <4>2. /\ turns'[p] = chat' /\ base'[p] = chat' /\ chat' \subseteq chat
            /\ chat' \cup trimmed' = chat \cup trimmed /\ trimmed \subseteq trimmed'
        BY <1>1, <4>1, SaveAlone DEF IInv
      <4>3. ~recalled => DiskFits
        BY <1>1 DEF Own
      <4>4. \A m \in chat \ chat : \A u \in chat : u < m
        OBVIOUS
      <4> QED BY <2>1, <4>1, <4>2, <4>3, <4>4, FitsAfterCut
    <3> QED BY <3>1, <3>2
  <2> QED BY <1>1, <2>1, <2>2 DEF Own, DiskRev
<1> QED BY <1>1, AloneSuffices, BusyIsUser DEF RunFails, IInv, TypeOK, Goto, past

LEMMA QuietAlone ==
    ASSUME IInv, AloneInv, NEW p \in Procs,
           \/ SkipCommit(p) \/ TakeLock(p) \/ DeadlineOverDead(p) \/ DeadlineOverSlow(p)
           \/ BreakLock(p) \/ ReadDisk(p) \/ Release(p) \/ CommitFails(p)
    PROVE  AloneInv'
<1>0. /\ pc \in [Procs -> {"idle", "run", "commit", "break", "read", "write", "release"}]
      /\ buffer \in [Procs -> {NoState} \cup SUBSET Nat]
  BY DEF IInv, TypeOK
<1>1. UNCHANGED <<chat, turns, base, trimmed, regrown, disk, store, users, recalled>>
  BY DEF SkipCommit, TakeLock, DeadlineOverDead, DeadlineOverSlow, BreakLock, ReadDisk, Release,
         CommitFails, chatVars, past
<1>2. \A q \in Procs \ {p} : pc'[q] = pc[q] /\ buffer'[q] = buffer[q]
  BY <1>0 DEF SkipCommit, TakeLock, DeadlineOverDead, DeadlineOverSlow, BreakLock, ReadDisk,
              Release, CommitFails, Goto
<1>3. /\ pc[p] \in {"commit", "break", "read", "write", "release"}
      /\ buffer'[p] = buffer[p] \/ buffer'[p] = NoState
      /\ \/ pc'[p] \in {"commit", "break", "read"}
         \/ pc'[p] = "write" /\ seen'[p] = disk
         \/ pc'[p] \in {"idle", "release"} /\ (buffer'[p] = NoState \/ pc[p] = "release")
  <2>1. CASE \/ SkipCommit(p) \/ TakeLock(p) \/ DeadlineOverDead(p) \/ DeadlineOverSlow(p)
             \/ BreakLock(p) \/ Release(p)
    BY <1>0, <2>1 DEF SkipCommit, TakeLock, DeadlineOverDead, DeadlineOverSlow, BreakLock, Release,
                      Goto
  <2>2. CASE ReadDisk(p)
    BY <1>0, <2>2 DEF ReadDisk, Goto, IInv, TypeOK
  <2>3. CASE CommitFails(p)
    BY <1>0, <2>3 DEF CommitFails, Goto
  <2> QED BY <2>1, <2>2, <2>3
<1>4. ASSUME Own(p) PROVE Own(p)'
  <2>1. DiskFits' <=> DiskFits
    BY <1>1 DEF DiskFits, Outdated
  <2> QED BY <1>1, <1>3, <1>4, <2>1 DEF Own, DiskRev
<1> QED BY <1>1, <1>2, <1>3, <1>4, AloneSuffices, BusyIsUser

\* Nobody else writes the file, so the memory has not been overtaken.
LEMMA WriteAlone ==
    ASSUME IInv, AloneInv, NEW p \in Procs, WriteConflict(p) \/ WriteState(p) PROVE AloneInv'
<1>1. ASSUME Own(p) PROVE Own(p)'
  <2>1. /\ pc[p] = "write" /\ store[p] # NoState /\ buffer[p] # NoState
        /\ SeenRev(p) = DiskRev /\ store[p].baseRev = DiskRev /\ DiskRev \in Nat
    BY <1>1 DEF WriteConflict, WriteState, IInv, ReadyInv, TypeOK, StateFile, Own, SeenRev, DiskRev
  <2>2. WriteState(p)
    BY <2>1 DEF WriteConflict, Conflict
  <2> DEFINE n == SeenRev(p) + 1
             f == [rev |-> n, count |-> Cardinality(turns[p]), mem |-> buffer[p]]
             s == [baseRev |-> n, mem |-> buffer[p], usable |-> TRUE]
  <2>3. /\ disk' = f /\ store'[p] = s /\ buffer'[p] = NoState /\ pc'[p] = "release"
        /\ UNCHANGED <<chat, turns, base, trimmed, recalled>>
    BY <2>2 DEF WriteState, IInv, TypeOK, Goto, past
  <2>4. n \in Nat
    BY <2>1
  <2> HIDE DEF n
  <2>5. f.rev = n /\ f.mem = buffer[p] /\ f.count = Cardinality(chat)
        /\ s.baseRev = n /\ Loaded(s) = buffer[p]
    BY <1>1 DEF Loaded, Own
  <2>6. f # NoState /\ s # NoState
    <3>1. /\ buffer[p] \in SUBSET Exchanges /\ Cardinality(turns[p]) \in Nat
      BY <2>1, CountType, WritingFacts DEF IInv, TypeOK, TimeInv
    <3>2. f \in StateFile /\ s \in Store
      BY <2>4, <3>1 DEF StateFile, Store
    <3> QED BY <3>2, SentinelAssumption
  <2> HIDE DEF f, s
  <2>7. DiskRev' = n
    BY <2>3, <2>5, <2>6 DEF DiskRev
  <2>8. ~recalled => buffer[p] \subseteq chat \cup trimmed
    BY <1>1, <2>1 DEF Own
  <2>9. chat \subseteq Oldest(chat, Cardinality(chat))
    BY ChatFacts, OldestAll
  <2>10. ~recalled => DiskFits'
    BY <2>3, <2>5, <2>8, <2>9 DEF DiskFits
  <2> QED BY <1>1, <2>3, <2>5, <2>6, <2>7, <2>8, <2>10 DEF Own
<1>2. /\ users' = users /\ pc[p] # "idle"
      /\ \A q \in Procs \ {p} :
             pc'[q] = pc[q] /\ store'[q] = store[q] /\ buffer'[q] = buffer[q]
  BY DEF WriteConflict, WriteState, IInv, TypeOK, Goto, past
<1> QED BY <1>1, <1>2, AloneSuffices, BusyIsUser

LEMMA RewindAlone ==
    ASSUME IInv, AloneInv, NEW p \in Procs, NEW n \in Nat, Rewind(p, n) PROVE AloneInv'
<1>1. ASSUME Own(p) PROVE Own(p)'
  <2> DEFINE t == Oldest(chat, n)
  <2>1. SaveChat(p, t)
    BY <1>1 DEF Rewind, Own
  <2>2. /\ pc[p] = "idle" /\ pc' = pc /\ buffer'[p] = NoState
        /\ UNCHANGED <<disk, regrown, recalled>>
        /\ store'[p] = Reset(store[p]) /\ store[p] \in Store \cup {NoState}
    BY <1>1 DEF Rewind, IInv, TypeOK, Own
  <2>3. /\ Reset(store[p]) = NoState <=> store[p] = NoState
        /\ store[p] # NoState => /\ Reset(store[p]).baseRev = store[p].baseRev
                                 /\ Loaded(Reset(store[p])) = {}
    BY <2>2, ResetStore DEF Reset, Store, Loaded
  <2>4. t \subseteq chat /\ \A m \in chat \ t : \A u \in t : u < m
    BY SliceSubset, ChatFacts, OldestIsInitial
  <2> HIDE DEF t
  <2>5. /\ turns'[p] = chat' /\ base'[p] = chat' /\ chat' \subseteq t
        /\ chat' \cup trimmed' = t \cup trimmed /\ trimmed \subseteq trimmed'
    BY <1>1, <2>1, SaveAlone DEF IInv
  <2>6. ~recalled => DiskFits
    BY <1>1 DEF Own
  <2>7. ~recalled => DiskFits'
    BY <2>2, <2>4, <2>5, <2>6, FitsAfterCut
  <2> QED BY <1>1, <2>2, <2>3, <2>5, <2>7 DEF Own, DiskRev
<1> QED BY <1>1, AloneSuffices DEF Rewind, IInv, TypeOK

\* The next process takes the chat as it lies on disk and has nothing else in hand.
LEMMA RestartAlone == ASSUME IInv, AloneInv, NEW p \in Procs, Restart(p) PROVE AloneInv'
<1>1. /\ UNCHANGED <<chat, trimmed, regrown, disk, users, recalled>>
      /\ turns' = [turns EXCEPT ![p] = chat] /\ base' = [base EXCEPT ![p] = chat]
      /\ store' = [store EXCEPT ![p] = NoState] /\ buffer' = [buffer EXCEPT ![p] = NoState]
      /\ seen' = [seen EXCEPT ![p] = NoState] /\ pc' = [pc EXCEPT ![p] = "idle"]
  BY DEF Restart, Goto
<1>2. DiskFits' <=> DiskFits
  BY <1>1 DEF DiskFits, Outdated
<1>3. ASSUME NEW q \in Procs, Idle(q) PROVE Idle(q)'
  BY <1>1, <1>3 DEF Idle, IInv, TypeOK
<1>4. ASSUME NEW q \in Procs, Own(q) PROVE Own(q)'
  <2>1. CASE q = p
    BY <1>1, <1>2, <1>4, <2>1 DEF Own, IInv, TypeOK
  <2>2. CASE q # p
    BY <1>1, <1>2, <1>4, <2>2 DEF Own, IInv, TypeOK, DiskRev
  <2> QED BY <2>1, <2>2
<1> QED BY <1>1, <1>3, <1>4 DEF AloneInv

\* However often the chat is cleared, rolled back and compressed and the process started again:
\* the model is given nothing to remember but exchanges of runs that ended well, and an instance
\* that stays alone nothing that was cut from its transcript, as long as no state file older
\* than a cut was opened after turns were added.
THEOREM MemoryIsKept == Spec => []MemoryFollowsTranscript
<1>1. Init => AloneInv
  BY FS_EmptySet DEF Init, AloneInv, Own, Idle, DiskFits
<1>2. IInv /\ AloneInv /\ [Next]_vars => AloneInv'
  <2> SUFFICES ASSUME IInv, AloneInv, [Next]_vars PROVE AloneInv'
    OBVIOUS
  <2>1. CASE UNCHANGED vars
    BY <2>1 DEF vars, chatVars, past, AloneInv, Own, Idle, DiskRev, DiskFits, Outdated
  <2>2. CASE Next
    <3>1. 0..MaxRuns \subseteq Nat
      BY ConversationAssumption
    <3> QED BY <2>2, <3>1, StartRunAlone, SdkSaveAlone, RunSucceedsAlone, RunFailsAlone, QuietAlone,
               WriteAlone, RewindAlone, RestartAlone DEF Next, CommitStep
  <2> QED BY <2>1, <2>2
<1>3. IInv /\ AloneInv => MemoryFollowsTranscript
  <2> SUFFICES ASSUME IInv, AloneInv PROVE MemoryFollowsTranscript
    OBVIOUS
  <2>1. OnlyFinishedRuns
    BY DEF IInv, FinishedInv, OnlyFinishedRuns
  <2>2. ASSUME Cardinality(users) <= 1, ~recalled, NEW p \in Procs, store[p] # NoState
        PROVE  Loaded(store[p]) \subseteq turns[p] \cup trimmed
    <3>1. p \in users
      BY <2>2 DEF AloneInv, Idle
    <3>2. users \subseteq {p}
      <4> SUFFICES ASSUME NEW q \in users, q # p PROVE FALSE
        OBVIOUS
      <4>1. {p, q} \subseteq users /\ Cardinality({p, q}) = 2
        <5>1. Cardinality({p}) = 1 /\ IsFiniteSet({p})
          BY FS_Singleton
        <5>2. Cardinality({p} \cup {q}) = 2
          BY <5>1, FS_AddElement
        <5>3. {p} \cup {q} = {p, q}
          OBVIOUS
        <5> QED BY <3>1, <5>2, <5>3
      <4>2. Cardinality({p, q}) <= Cardinality(users) /\ Cardinality(users) \in Nat
        BY <4>1, FS_Subset, FS_CardinalityType DEF AloneInv
      <4> QED BY <2>2, <4>1, <4>2
    <3> QED BY <2>2, <3>2 DEF AloneInv, Own
  <2> QED BY <2>1, <2>2 DEF MemoryFollowsTranscript, MemoryWithinTranscriptWhileAlone
<1> QED BY <1>1, <1>2, <1>3, Inductive, PTL DEF Spec

=============================================================================
