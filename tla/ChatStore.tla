----------------------------- MODULE ChatStore -----------------------------
(***************************************************************************)
(* One chat file and the orcode instances that have it open (session.ts).  *)
(*                                                                         *)
(* Every instance keeps the chat in memory (`data`) together with the last *)
(* state it knows to be on disk (`base`).  An operation changes `data` and *)
(* then saves: take the advisory lock file next to the chat, read the      *)
(* chat, merge three ways, replace it atomically, drop the lock.  Every    *)
(* await of that path is a step of its own here, because each is a point   *)
(* where another process runs.                                             *)
(*                                                                         *)
(* Data abstraction.  A user turn and the assistant turn pushed with it    *)
(* are one exchange, named by the clock value (createdAt) of its creation; *)
(* the sorted turn list is therefore a set of numbers.  The three cost     *)
(* columns behave alike and are one (`cost`); `spend` is dailySpendUsd of  *)
(* one day.  Money is a natural number of units.                           *)
(***************************************************************************)
EXTENDS Integers, FiniteSets

CONSTANTS
    Procs,       \* the orcode instances that may open this chat
    Amounts,     \* the amounts one model call may cost
    MaxTurns,    \* MAX_TURNS, in exchanges
    KeepRecent,  \* what compactTurns keeps, in exchanges
    MaxClock,    \* bound: operations in a behaviour
    NoLock, Missing, Damaged,  \* no lock file; no chat file; one nobody can read
    Faults,      \* what may go wrong, or happen rarely, in a behaviour
    MaxFaults    \* bound: how often that happens in all

\* "slow":        a lock file is read before its writer has filled it in, or a
\*                holder outlives LOCK_WAIT_MS or LOCK_STALE_MS
\* "crash":       a process ends without finishing its save
\* "writeError": writeFileAtomicSecure throws (disk full, no permission)
\* "damage":      something else leaves the file unreadable
\* "switch":      an instance moves to another chat, or comes back
\* "delete":      /chat delete
FaultKinds == {"slow", "crash", "writeError", "damage", "switch", "delete"}

ASSUME ConstantsAssumption ==
    /\ Amounts \subseteq Nat
    /\ MaxTurns \in Nat /\ KeepRecent \in Nat
    /\ MaxClock \in Nat /\ MaxFaults \in Nat
    /\ Faults \subseteq FaultKinds

VARIABLES
    file,     \* the chat file: a chat, Missing or Damaged
    aside,    \* number of .konflikt files
    lock,     \* the lock file: NoLock, or whose it is and what can be read
    pc,       \* where each instance is in its save
    data,     \* #data of each instance
    base,     \* #base of each instance
    showing,  \* the instances that show this chat (the others show another)
    clock,    \* wall clock, advanced by every operation
    faults,   \* number of faults so far
    kinds     \* their kinds

\* History of what the instances did; no step reads it.
VARIABLES
    pending,  \* units an instance has booked in memory and not yet saved
    booked,   \* units whose save has completed
    saved,    \* exchanges some completed save contained
    removed   \* per instance, exchanges dropped by /clear, compaction, MAX_TURNS

mem         == <<data, base, showing>>
historyVars == <<pending, booked, saved, removed>>
vars == <<file, aside, lock, pc, mem, clock, faults, kinds, historyVars>>

-----------------------------------------------------------------------------
(* Values *)

Chat == [rev: Nat, turns: SUBSET Nat, cost: Nat, spend: Nat, at: Nat]

\* A lock file: who created it, and whether it is still empty, holds its
\* writer's LockInfo, or belongs to a process that no longer runs.
LockFile == [owner: Procs, state: {"empty", "filled", "abandoned"}]
LockOf(p) == [owner |-> p, state |-> "empty"]

ASSUME SentinelAssumption ==
    /\ NoLock \notin LockFile
    /\ Missing \notin Chat /\ Damaged \notin Chat
    /\ Missing # Damaged

\* The states of an instance.  "open" .. "drop" are one save; "dead" is a
\* process that does not run, "left" one that runs but shows another chat.
SaveStates == {"open", "info", "probe", "steal", "read", "aside", "write", "drop"}
States     == {"idle", "unlock", "left", "dead"} \cup SaveStates

\* The states in which acquireChatLock has returned or is about to.
Holding == {"info", "read", "aside", "write", "drop"}

EmptyChat == [rev |-> 1, turns |-> {}, cost |-> 0, spend |-> 0, at |-> 0]

IsReadable(f) == f \notin {Missing, Damaged}

Later(s, t) == IF s >= t THEN s ELSE t

-----------------------------------------------------------------------------
(* Pure operations on chats *)

\* slice(-n) of a turn list sorted by createdAt.
Newest(S, n) == {t \in S : Cardinality({u \in S : u > t}) < n}

\* Turns the other side has and neither base nor mine knows are added.
AllTurns(b, m, t) == m \cup (t \ (b \cup m))

\* MUTANT of MergeTurns: only one's own turns are written.
MergeTurnsMine(b, m, t) == Newest(m, MaxTurns)

MergeTurns(b, m, t) == Newest(AllTurns(b, m, t), MaxTurns)

\* What the limit cuts off in a merge.
Trimmed(b, m, t) == AllTurns(b, m, t) \ Newest(AllTurns(b, m, t), MaxTurns)

\* Own delta on top of what is on disk, never below zero.
MergeAmount(b, m, t) == Later(0, t + (m - b))

\* Three-way merge: base, mine, theirs.
MergeSessions(b, m, t) ==
    [rev   |-> Later(m.rev, t.rev),
     turns |-> MergeTurns(b.turns, m.turns, t.turns),
     cost  |-> MergeAmount(b.cost, m.cost, t.cost),
     spend |-> MergeAmount(b.spend, m.spend, t.spend),
     at    |-> Later(m.at, t.at)]

\* What fingerprint() compares; the columns this model has not are left out.
SameFingerprint(c, d) ==
    /\ c.rev = d.rev
    /\ Cardinality(c.turns) = Cardinality(d.turns)
    /\ c.cost = d.cost
    /\ c.at = d.at

-----------------------------------------------------------------------------
(* Operations: change the chat in memory, then save *)

Goto(p, state) == pc' = [pc EXCEPT ![p] = state]

Fault(kind) ==
    /\ kind \in Faults /\ faults < MaxFaults
    /\ faults' = faults + 1 /\ kinds' = kinds \cup {kind}

\* The operation sets updatedAt and goes on into save().
Change(p, d) ==
    /\ clock < MaxClock
    /\ clock' = clock + 1
    /\ data' = [data EXCEPT ![p] = [d EXCEPT !.at = clock + 1]]
    /\ removed' = [removed EXCEPT ![p] = @ \cup (data[p].turns \ d.turns)]
    /\ Goto(p, "open")
    /\ UNCHANGED <<file, aside, lock, base, booked, saved>>

Book(p, amount) == pending' = [pending EXCEPT ![p] = @ + amount]

\* The end of a run: cost, compaction of the old turns if the run was
\* compressed, the new exchange; one save.
FinishRun(p, compress, amount) ==
    LET d    == data[p]
        kept == IF compress THEN Newest(d.turns, KeepRecent) ELSE d.turns
    IN  /\ pc[p] = "idle"
        /\ Change(p, [d EXCEPT !.turns = Newest(kept \cup {clock + 1}, MaxTurns),
                               !.cost = @ + amount,
                               !.spend = @ + amount])
        /\ Book(p, amount)
        /\ UNCHANGED <<showing, faults, kinds>>

\* A cost saved on its own: compressor, voice, panel, a run without text.
BookCost(p, amount) ==
    /\ pc[p] = "idle"
    /\ Change(p, [data[p] EXCEPT !.cost = @ + amount, !.spend = @ + amount])
    /\ Book(p, amount)
    /\ UNCHANGED <<showing, faults, kinds>>

\* MUTANT of Clear: the budget counter is reset with the chat.
ClearAll(p) ==
    /\ pc[p] = "idle"
    /\ Change(p, [data[p] EXCEPT !.turns = {}, !.cost = 0, !.spend = 0])
    /\ UNCHANGED <<showing, faults, kinds, pending>>

\* /clear keeps the revision and the daily spend.
Clear(p) ==
    /\ pc[p] = "idle"
    /\ Change(p, [data[p] EXCEPT !.turns = {}, !.cost = 0])
    /\ UNCHANGED <<showing, faults, kinds, pending>>

\* replaceSession: the preferences are saved into the chat being left.
LeaveChat(p) ==
    /\ Change(p, data[p])
    /\ showing' = showing \ {p}
    /\ UNCHANGED pending

Leave(p) ==
    /\ pc[p] = "idle"
    /\ Fault("switch")
    /\ LeaveChat(p)

\* openById; a switch then saves the preferences, a start of orcode does not.
\* What was booked in memory and never saved is gone.
OpenChat(p) ==
    /\ pc[p] \in {"left", "dead"}
    /\ IsReadable(file)
    /\ Fault("switch")
    /\ base' = [base EXCEPT ![p] = file]
    /\ showing' = showing \cup {p}
    /\ IF pc[p] = "left"
       THEN /\ clock < MaxClock
            /\ clock' = clock + 1
            /\ data' = [data EXCEPT ![p] = [file EXCEPT !.at = clock + 1]]
            /\ Goto(p, "open")
       ELSE /\ data' = [data EXCEPT ![p] = file]
            /\ Goto(p, "idle")
            /\ UNCHANGED clock
    /\ pending' = [pending EXCEPT ![p] = 0]
    /\ UNCHANGED <<file, aside, lock, booked, saved, removed>>

\* SessionStore.remove, first the chat file and then its lock ...
DeleteFile(p) ==
    /\ pc[p] \in {"idle", "left"}
    /\ file # Missing
    /\ Fault("delete")
    /\ file' = Missing
    /\ Goto(p, "unlock")
    /\ UNCHANGED <<aside, lock, mem, clock, historyVars>>

\* ... after which an instance that shows the chat switches to a new one.
DeleteLock(p) ==
    /\ pc[p] = "unlock"
    /\ UNCHANGED <<faults, kinds>>
    /\ IF p \in showing
       THEN /\ clock' = clock + 1
            /\ data' = [data EXCEPT ![p].at = clock + 1]
            /\ showing' = showing \ {p}
            /\ Goto(p, "open")
       ELSE /\ Goto(p, "left")
            /\ UNCHANGED <<data, showing, clock>>
    /\ lock' = NoLock
    /\ UNCHANGED <<file, aside, base, historyVars>>

-----------------------------------------------------------------------------
(* save(): acquireChatLock, #writeNow, release *)

\* open(lockPath, "wx") creates an empty lock file, or fails with EEXIST.
OpenLock(p) ==
    /\ pc[p] = "open"
    /\ IF lock = NoLock
       THEN lock' = LockOf(p) /\ Goto(p, "info")
       ELSE Goto(p, "probe") /\ UNCHANGED lock
    /\ UNCHANGED <<file, aside, mem, clock, faults, kinds, historyVars>>

\* The LockInfo goes to the file that was opened, unlinked or not.
WriteLockInfo(p) ==
    /\ pc[p] = "info"
    /\ lock' = IF lock # NoLock /\ lock.owner = p
               THEN [lock EXCEPT !.state = "filled"] ELSE lock
    /\ Goto(p, "read")
    /\ UNCHANGED <<file, aside, mem, clock, faults, kinds, historyVars>>

\* MUTANT of OwnerGone: a lock whose file exists is respected for good.
OwnerNeverGone(l) == FALSE

\* MUTANT of OwnerGone: a pid of another process counts as not running.
OwnerAlwaysGone(l) == TRUE

\* An owner that does not run, or one that died before it wrote the LockInfo.
OwnerGone(l) == l.state = "abandoned"

\* removeStaleLock reads the lock: it has vanished, its owner is gone ...
ProbeLock(p) ==
    /\ pc[p] = "probe"
    /\ IF lock = NoLock
       THEN Goto(p, "open")
       ELSE IF OwnerGone(lock) THEN Goto(p, "steal")
            ELSE lock.state = "filled" /\ Goto(p, "open")
    /\ UNCHANGED <<file, aside, lock, mem, clock, faults, kinds, historyVars>>

\* ... or it cannot be parsed yet, is too old, or the wait is over.
ProbeTooSoonOrTooLate(p) ==
    /\ pc[p] = "probe"
    /\ lock # NoLock
    /\ Fault("slow")
    /\ Goto(p, "steal")
    /\ UNCHANGED <<file, aside, lock, mem, clock, historyVars>>

\* LOCK_MAX_ATTEMPTS are used up: save() throws.
GiveUp(p) ==
    /\ pc[p] = "open"
    /\ Fault("slow")
    /\ Goto(p, IF p \in showing THEN "idle" ELSE "left")
    /\ UNCHANGED <<file, aside, lock, mem, clock, historyVars>>

\* unlink(lockPath), whoever's file is there by now.
StealLock(p) ==
    /\ pc[p] = "steal"
    /\ lock' = NoLock
    /\ Goto(p, "open")
    /\ UNCHANGED <<file, aside, mem, clock, faults, kinds, historyVars>>

\* The chat to be written, given what readForeign found.
Merged(p, f) ==
    LET m == IF IsReadable(f) /\ ~SameFingerprint(f, base[p])
             THEN MergeSessions(base[p], data[p], f) ELSE data[p]
        foreignRev == IF IsReadable(f) THEN f.rev ELSE 0
    IN  [m EXCEPT !.rev = Later(@, foreignRev) + 1]

ReadForeign(p) ==
    /\ pc[p] = "read"
    /\ data' = [data EXCEPT ![p] = Merged(p, file)]
    /\ removed' = IF IsReadable(file)
                  THEN [removed EXCEPT ![p] = @ \cup
                          Trimmed(base[p].turns, data[p].turns, file.turns)]
                  ELSE removed
    /\ Goto(p, IF file = Damaged THEN "aside" ELSE "write")
    /\ UNCHANGED <<file, aside, lock, base, showing, clock, faults, kinds,
                   pending, booked, saved>>

\* An unreadable file is renamed, never overwritten; a rename that finds no
\* file throws.
MoveAside(p) ==
    /\ pc[p] = "aside"
    /\ IF file = Missing
       THEN Goto(p, "drop") /\ UNCHANGED <<file, aside>>
       ELSE file' = Missing /\ aside' = aside + 1 /\ Goto(p, "write")
    /\ UNCHANGED <<lock, mem, clock, faults, kinds, historyVars>>

\* MUTANT of WriteFile: #base stays what it was when the chat was opened.
WriteFileKeepBase(p) ==
    /\ pc[p] = "write"
    /\ file' = data[p]
    /\ booked' = booked + pending[p]
    /\ pending' = [pending EXCEPT ![p] = 0]
    /\ saved' = saved \cup data[p].turns
    /\ Goto(p, "drop")
    /\ UNCHANGED <<aside, lock, mem, clock, faults, kinds, removed>>

\* writeFileAtomicSecure replaces the file; then #base = #data.
WriteFile(p) ==
    /\ pc[p] = "write"
    /\ file' = data[p]
    /\ base' = [base EXCEPT ![p] = data[p]]
    /\ booked' = booked + pending[p]
    /\ pending' = [pending EXCEPT ![p] = 0]
    /\ saved' = saved \cup data[p].turns
    /\ Goto(p, "drop")
    /\ UNCHANGED <<aside, lock, data, showing, clock, faults, kinds, removed>>

\* The temporary file cannot be written or renamed: save() throws.
WriteFails(p) ==
    /\ pc[p] = "write"
    /\ Fault("writeError")
    /\ Goto(p, "drop")
    /\ UNCHANGED <<file, aside, lock, mem, clock, historyVars>>

\* release(): unlink(lockPath), whoever's file is there by now.
DropLock(p) ==
    /\ pc[p] = "drop"
    /\ lock' = NoLock
    /\ Goto(p, IF p \in showing THEN "idle" ELSE "left")
    /\ UNCHANGED <<file, aside, mem, clock, faults, kinds, historyVars>>

-----------------------------------------------------------------------------
(* The environment *)

Crash(p) ==
    /\ pc[p] # "dead"
    /\ Fault("crash")
    /\ Goto(p, "dead")
    /\ lock' = IF lock # NoLock /\ lock.owner = p
               THEN [lock EXCEPT !.state = "abandoned"] ELSE lock
    /\ showing' = showing \ {p}
    /\ pending' = [pending EXCEPT ![p] = 0]
    /\ UNCHANGED <<file, aside, data, base, clock, booked, saved, removed>>

Damage ==
    /\ IsReadable(file)
    /\ Fault("damage")
    /\ file' = Damaged
    /\ UNCHANGED <<aside, lock, pc, mem, clock, historyVars>>

-----------------------------------------------------------------------------
Init ==
    /\ file = EmptyChat
    /\ aside = 0
    /\ lock = NoLock
    /\ pc = [p \in Procs |-> "idle"]
    /\ data = [p \in Procs |-> EmptyChat]
    /\ base = [p \in Procs |-> EmptyChat]
    /\ showing = Procs
    /\ clock = 0
    /\ faults = 0 /\ kinds = {}
    /\ pending = [p \in Procs |-> 0]
    /\ booked = 0
    /\ saved = {}
    /\ removed = [p \in Procs |-> {}]

Operation(p) ==
    \/ \E compress \in BOOLEAN, amount \in Amounts : FinishRun(p, compress, amount)
    \/ \E amount \in Amounts : BookCost(p, amount)
    \/ Clear(p)
    \/ Leave(p)
    \/ OpenChat(p)
    \/ DeleteFile(p)

\* The steps a started operation goes through on its own.
SaveStep(p) ==
    \/ DeleteLock(p)
    \/ OpenLock(p)
    \/ WriteLockInfo(p)
    \/ ProbeLock(p)
    \/ StealLock(p)
    \/ ReadForeign(p)
    \/ MoveAside(p)
    \/ WriteFile(p)
    \/ DropLock(p)

Misfortune(p) ==
    \/ ProbeTooSoonOrTooLate(p)
    \/ GiveUp(p)
    \/ WriteFails(p)
    \/ Crash(p)

Next ==
    \/ \E p \in Procs : Operation(p) \/ SaveStep(p) \/ Misfortune(p)
    \/ Damage

Spec == Init /\ [][Next]_vars

\* A process that runs takes its next step: nothing in save() waits for a user.
FairSpec == Spec /\ \A p \in Procs : WF_vars(SaveStep(p))

-----------------------------------------------------------------------------
(* Properties *)

TypeOK ==
    /\ file \in Chat \cup {Missing, Damaged}
    /\ aside \in Nat
    /\ lock \in LockFile \cup {NoLock}
    /\ pc \in [Procs -> States]
    /\ data \in [Procs -> Chat]
    /\ base \in [Procs -> Chat]
    /\ showing \subseteq Procs
    /\ clock \in Nat /\ faults \in Nat /\ kinds \subseteq Faults
    /\ pending \in [Procs -> Nat]
    /\ booked \in Nat
    /\ saved \subseteq Nat
    /\ removed \in [Procs -> SUBSET Nat]

\* Nothing worse has happened than instances moving between chats.
Calm == kinds \subseteq {"switch"}

\* save() may merge or not, but never on stale knowledge: as long as nobody is
\* suspended or dies, one instance at a time is between acquireChatLock and
\* its release().  (LOCK_STALE_MS, the wait and the removal of dead owners'
\* locks are the ways round it.)
MutualExclusion ==
    Calm => \A p, q \in Procs : pc[p] \in Holding /\ pc[q] \in Holding => p = q

\* B14: an exchange that some save has written stays in the file until an
\* instance drops it on purpose, however the instances' saves interleave.
NoTurnLost ==
    Calm /\ IsReadable(file) =>
        saved \ UNION {removed[p] : p \in Procs} \subseteq file.turns

\* Nothing worse than one crash.
OneCrash == kinds \subseteq {"crash"} /\ faults <= 1

\* The same across a crash, which may leave a lock that two instances then
\* both remove, so that the later save overwrites the earlier one: no saved
\* exchange is gone from the disk AND from every instance that runs, and a later
\* save merges it back in.  (The instance whose save was overwritten must not
\* be the next to crash.)
NoTurnForgotten ==
    OneCrash =>
        saved \ UNION {removed[p] : p \in Procs} \subseteq
            (IF IsReadable(file) THEN file.turns ELSE {})
                \cup UNION {data[p].turns : p \in {q \in Procs : pc[q] \notin {"left", "dead"}}}

\* The daily spend on disk, which the daily budget reads, is exactly what was
\* booked: merging adds each instance's own delta once, /clear takes nothing
\* away.
LedgerExact == Calm /\ IsReadable(file) => file.spend = booked

\* One half of it, which survives stolen locks, crashes, deletions and damage:
\* nothing is counted twice, so the daily limit never refuses unspent money.
\* Only a failed write breaks it: the next save merges the same foreign amount again.
NothingBookedTwiceUnlessWriteFails ==
    "writeError" \notin kinds /\ IsReadable(file) => file.spend <= booked

\* The merge is skipped when the file has base's fingerprint; then the file is
\* base, column for column.
FingerprintFaithful ==
    \A p \in Procs :
        Calm /\ pc[p] = "read" /\ IsReadable(file) /\ SameFingerprint(file, base[p])
            => file = base[p]

\* The revision is never reused: a new content has a higher one.
RevisionGrows ==
    [][Calm' /\ IsReadable(file) /\ IsReadable(file') /\ file' # file
        => file'.rev > file.rev]_vars

\* Every save of an instance that keeps running comes to an end: no lock that
\* somebody left behind blocks the chat for good.
SaveCompletes ==
    \A p \in Procs : pc[p] \in SaveStates ~> pc[p] \in {"idle", "left", "dead"}

\* A save goes by what is true of the file: one instance at a time decides, whether to merge is
\* decided rightly, and the revision that tells it is never used again.  (save, #writeNow)
SavesAreSound == [](MutualExclusion /\ FingerprintFaithful) /\ RevisionGrows

\* What remains of that when processes die and locks are broken: no amount is booked twice,
\* and no saved exchange forgotten.
AccidentsAreSurvived == NothingBookedTwiceUnlessWriteFails /\ NoTurnForgotten
=============================================================================
