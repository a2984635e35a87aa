-------------------------- MODULE ConversationMemory --------------------------
(***************************************************************************)
(* The model's memory of a chat (conversation.ts) and the run that feeds   *)
(* it (agent.ts).                                                          *)
(*                                                                         *)
(* Next to the chat file lies a state file with the SDK's conversation     *)
(* state.  During a run the SDK saves into a buffer; a successful run      *)
(* commits the buffer, any other run discards it.  A state is opaque to    *)
(* orcode; here it is the set of exchanges it was built from.              *)
(*                                                                         *)
(* Saving the chat is one step, a three-way merge: ChatStore has its       *)
(* interleavings.  An exchange, a turn of the user and the answer, gets    *)
(* its number when the run adds the two turns, so that numbers are in the  *)
(* order of createdAt; 0 is the exchange of the run in progress.           *)
(***************************************************************************)
EXTENDS Integers, FiniteSets

CONSTANTS
    Procs,       \* the orcode instances that have this chat open
    MaxTurns,    \* MAX_TURNS, in exchanges
    KeepRecent,  \* what compactTurns keeps, in exchanges
    NoState,     \* no state file; an empty buffer; no ConversationStore yet
    NoLock,
    MaxRuns,     \* bound: runs in a behaviour
    MaxEdits,    \* bound: /clear and /checkpoint restore
    Faults,      \* what may go wrong
    MaxFaults    \* bound: how often in all

\* "restart": an instance ends, anywhere, and is started again
\* "slow":    LOCK_WAIT_MS passes while a live instance has the lock
\* "disk":    taking the lock or writing the file fails
ASSUME ConversationAssumption ==
    /\ MaxTurns \in Nat /\ KeepRecent \in Nat
    /\ MaxRuns \in Nat /\ MaxEdits \in Nat /\ MaxFaults \in Nat
    /\ Faults \subseteq {"restart", "slow", "disk"}

VARIABLES
    chat,      \* exchanges in the chat file
    turns,     \* exchanges in each instance's #data
    base,      \* and in its #base
    disk,      \* the state file: NoState or a StateFile
    sidecars,  \* .konflikt files next to it
    lock,      \* owner of the state file's lock, NoLock, or "nobody"
    store,     \* each instance's ConversationStore: NoState until opened
    buffer,    \* its buffer
    seen,      \* what its commit has read from disk
    pc,        \* where it is in a run
    ended,     \* exchanges so far
    runs, edits, faults

\* History; no step reads it.
VARIABLES
    finished,  \* exchanges of runs that ended well
    users,     \* instances that have run or edited anything
    trimmed,   \* exchanges that fell out of a transcript for MAX_TURNS alone
    regrown,   \* turns were added since the transcript lost what the state file knows
    recalled,  \* and then a process took that state file for current
    robbed     \* a lock was unlinked under a live owner

chatVars == <<chat, turns, base, ended, trimmed, regrown>>
past     == <<runs, edits, faults, finished, users, recalled>>
vars == <<chatVars, disk, sidecars, lock, store, buffer, seen, pc, past, robbed>>

-----------------------------------------------------------------------------
Exchanges == Nat \ {0}

\* turnCount counts exchanges, like everything here.
StateFile == [rev: Nat, count: Nat, mem: SUBSET Exchanges]
Store     == [baseRev: Nat, mem: SUBSET Exchanges, usable: BOOLEAN]

\* The sentinels are no values of the program.
ASSUME SentinelAssumption ==
    /\ NoState \notin StateFile \cup Store
    /\ NoLock \notin Procs \cup {"nobody"} /\ "nobody" \notin Procs

Goto(p, state) == pc' = [pc EXCEPT ![p] = state]

Fault(kind) ==
    /\ kind \in Faults /\ faults < MaxFaults
    /\ faults' = faults + 1

\* slice(-n), slice(0, n) of the turns in order of time.
Newest(S, n) == {t \in S : Cardinality({u \in S : u > t}) < n}
Oldest(S, n) == {t \in S : Cardinality({u \in S : u < t}) < n}

\* addTurn, where t is not empty, and session.save(), each with its cut to MAX_TURNS.
SaveChat(p, t) ==
    LET own    == Newest(t, MaxTurns)
        all    == own \cup (chat \ (base[p] \cup own))
        merged == Newest(all, MaxTurns)
    IN  /\ chat' = merged
        /\ turns' = [turns EXCEPT ![p] = merged]
        /\ base' = [base EXCEPT ![p] = merged]
        /\ trimmed' = trimmed \cup ((t \cup all) \ merged)

\* The state file speaks of what was cut from transcript c, not trimmed.
Outdated(c, cut) == disk # NoState /\ ~(disk.mem \subseteq c \cup cut)

\* The run's two turns are added to kept ones.
AddExchange(p, kept) ==
    /\ SaveChat(p, kept \cup {ended + 1})
    /\ ended' = ended + 1
    /\ regrown' = (regrown \/ Outdated(chat', trimmed'))

\* MUTANT of Usable: any state file is current.
UsableAlways(f, count) == f # NoState

\* K7c: a state committed when the chat had more turns than now is absent.
Usable(f, count) == f # NoState /\ f.count <= count

\* ConversationStore.open
Opened ==
    [baseRev |-> IF disk = NoState THEN 0 ELSE disk.rev,
     mem     |-> IF Usable(disk, Cardinality(chat)) THEN disk.mem ELSE {},
     usable  |-> Usable(disk, Cardinality(chat))]

\* ConversationStore.reset; the state file is left alone.
Reset(s) == IF s = NoState THEN s ELSE [s EXCEPT !.mem = {}, !.usable = FALSE]

\* What load() gives the SDK at the start of a run.
Loaded(s) == IF s.usable THEN s.mem ELSE {}

-----------------------------------------------------------------------------
(* A run: #conversationFor, callModel, then the epilogue *)

StartRun(p) ==
    /\ pc[p] = "idle" /\ runs < MaxRuns
    /\ runs' = runs + 1
    /\ store' = [store EXCEPT ![p] = IF @ = NoState THEN Opened ELSE @]
    /\ Goto(p, "run")
    /\ users' = users \cup {p}
    /\ recalled' = (recalled \/ (store[p] = NoState /\ regrown))
    /\ UNCHANGED <<chatVars, disk, sidecars, lock, buffer, seen, edits, faults, finished, robbed>>

\* StateAccessor.save, several times in a run, also in one that fails later.
SdkSave(p) ==
    /\ pc[p] = "run"
    /\ buffer' = [buffer EXCEPT ![p] = Loaded(store[p]) \cup {0}]
    /\ UNCHANGED <<chatVars, disk, sidecars, lock, store, seen, pc, past, robbed>>

\* The run ended well: its turns are saved, and memory starts anew if the
\* context was compressed.
RunSucceeds(p, compress) ==
    /\ pc[p] = "run" /\ buffer[p] # NoState
    /\ AddExchange(p, IF compress THEN Newest(turns[p], KeepRecent) ELSE turns[p])
    /\ store'  = [store  EXCEPT ![p] = IF compress THEN Reset(@) ELSE @]
    /\ buffer' = [buffer EXCEPT ![p] =
                    IF compress THEN NoState ELSE (@ \ {0}) \cup {ended + 1}]
    /\ finished' = finished \cup {ended + 1}
    /\ Goto(p, "commit")
    /\ UNCHANGED <<disk, sidecars, lock, seen, runs, edits, faults, users, recalled, robbed>>

\* It failed or was cancelled: a fragment of text is kept, the buffer is not.
RunFails(p, text) ==
    /\ pc[p] = "run"
    /\ \/ text /\ AddExchange(p, turns[p])
       \/ ~text /\ SaveChat(p, turns[p]) /\ UNCHANGED <<ended, regrown>>
    /\ buffer' = [buffer EXCEPT ![p] = NoState]
    /\ Goto(p, "idle")
    /\ UNCHANGED <<disk, sidecars, lock, store, seen, past, robbed>>

-----------------------------------------------------------------------------
(* commit() *)

\* An empty buffer (after a compression) commits nothing.
SkipCommit(p) ==
    /\ pc[p] = "commit" /\ buffer[p] = NoState
    /\ Goto(p, "idle")
    /\ UNCHANGED <<chatVars, disk, sidecars, lock, store, buffer, seen, past, robbed>>

\* MUTANT of LockFree: the lock is not respected.
LockAlwaysFree == TRUE

LockFree == lock = NoLock

TakeLock(p) ==
    /\ pc[p] = "commit" /\ buffer[p] # NoState
    /\ LockFree
    /\ lock' = p
    /\ Goto(p, "read")
    /\ UNCHANGED <<chatVars, disk, sidecars, store, buffer, seen, past, robbed>>

\* The open(wx) has failed and the deadline is over: the lock will be unlinked,
\* whether its owner was gone ...
DeadlineOverDead(p) ==
    /\ pc[p] = "commit" /\ buffer[p] # NoState
    /\ lock = "nobody"
    /\ Goto(p, "break")
    /\ UNCHANGED <<chatVars, disk, sidecars, lock, store, buffer, seen, past, robbed>>

\* ... or only slow.
DeadlineOverSlow(p) ==
    /\ pc[p] = "commit" /\ buffer[p] # NoState
    /\ lock \in Procs
    /\ Fault("slow")
    /\ Goto(p, "break")
    /\ UNCHANGED <<chatVars, disk, sidecars, lock, store, buffer, seen, runs, edits,
                   finished, users, recalled, robbed>>

\* MUTANT of BreakLock: the lock that was waited for too long is left alone.
LeaveLock(p) ==
    /\ pc[p] = "break"
    /\ Goto(p, "commit")
    /\ UNCHANGED <<chatVars, disk, sidecars, lock, store, buffer, seen, past, robbed>>

\* By then it may be the lock of another, who has broken the first one already.
BreakLock(p) ==
    /\ pc[p] = "break"
    /\ lock' = NoLock
    /\ robbed' = (robbed \/ lock \in Procs)
    /\ Goto(p, "commit")
    /\ UNCHANGED <<chatVars, disk, sidecars, store, buffer, seen, past>>

\* Another error of open(wx), or an error of the write: the buffer was emptied before.
CommitFails(p) ==
    /\ pc[p] \in {"commit", "write"} /\ buffer[p] # NoState
    /\ Fault("disk")
    /\ buffer' = [buffer EXCEPT ![p] = NoState]
    /\ Goto(p, IF pc[p] = "commit" THEN "idle" ELSE "release")
    /\ UNCHANGED <<chatVars, disk, sidecars, lock, store, seen, runs, edits, finished, users,
                   recalled, robbed>>

ReadDisk(p) ==
    /\ pc[p] = "read"
    /\ seen' = [seen EXCEPT ![p] = disk]
    /\ Goto(p, "write")
    /\ UNCHANGED <<chatVars, disk, sidecars, lock, store, buffer, past, robbed>>

SeenRev(p) == IF seen[p] = NoState THEN 0 ELSE seen[p].rev

\* Somebody committed since this store last read the file.
Conflict(p) == SeenRev(p) > store[p].baseRev

\* Never clobber a newer state: put one's own aside and adopt the other.
WriteConflict(p) ==
    /\ pc[p] = "write" /\ Conflict(p)
    /\ sidecars' = sidecars + 1
    /\ store' = [store EXCEPT ![p] =
                   [baseRev |-> seen[p].rev, mem |-> seen[p].mem, usable |-> TRUE]]
    /\ buffer' = [buffer EXCEPT ![p] = NoState]
    /\ Goto(p, "release")
    /\ UNCHANGED <<chatVars, disk, lock, seen, past, robbed>>

WriteState(p) ==
    /\ pc[p] = "write" /\ ~Conflict(p)
    /\ disk' = [rev |-> SeenRev(p) + 1, count |-> Cardinality(turns[p]), mem |-> buffer[p]]
    /\ store' = [store EXCEPT ![p] =
                   [baseRev |-> SeenRev(p) + 1, mem |-> buffer[p], usable |-> TRUE]]
    /\ buffer' = [buffer EXCEPT ![p] = NoState]
    /\ regrown' = FALSE
    /\ Goto(p, "release")
    /\ UNCHANGED <<chat, turns, base, ended, trimmed, sidecars, lock, seen, past, robbed>>

\* unlink(lockPath), whoever's lock it is by now.
Release(p) ==
    /\ pc[p] = "release"
    /\ lock' = NoLock
    /\ seen' = [seen EXCEPT ![p] = NoState]
    /\ Goto(p, "idle")
    /\ UNCHANGED <<chatVars, disk, sidecars, store, buffer, past, robbed>>

-----------------------------------------------------------------------------
(* What changes the transcript between runs, and restarts *)

\* /clear, or /checkpoint restore back to n exchanges.
Rewind(p, n) ==
    /\ pc[p] = "idle" /\ edits < MaxEdits
    /\ edits' = edits + 1
    /\ SaveChat(p, Oldest(turns[p], n))
    /\ store'  = [store EXCEPT ![p] = Reset(@)]
    /\ buffer' = [buffer EXCEPT ![p] = IF store[p] = NoState THEN @ ELSE NoState]
    /\ users' = users \cup {p}
    /\ UNCHANGED <<ended, regrown, disk, sidecars, lock, seen, pc, runs, faults, finished,
                   recalled, robbed>>

\* The process ends, and the next one opens the chat.
Restart(p) ==
    /\ Fault("restart")
    /\ turns' = [turns EXCEPT ![p] = chat]
    /\ base' = [base EXCEPT ![p] = chat]
    /\ store' = [store EXCEPT ![p] = NoState]
    /\ buffer' = [buffer EXCEPT ![p] = NoState]
    /\ seen' = [seen EXCEPT ![p] = NoState]
    /\ lock' = IF lock = p THEN "nobody" ELSE lock
    /\ Goto(p, "idle")
    /\ UNCHANGED <<chat, ended, trimmed, regrown, disk, sidecars, runs, edits, finished, users,
                   recalled, robbed>>

-----------------------------------------------------------------------------
Init ==
    /\ chat = {} /\ turns = [p \in Procs |-> {}] /\ base = [p \in Procs |-> {}]
    /\ disk = NoState /\ sidecars = 0 /\ lock = NoLock
    /\ store = [p \in Procs |-> NoState]
    /\ buffer = [p \in Procs |-> NoState]
    /\ seen = [p \in Procs |-> NoState]
    /\ pc = [p \in Procs |-> "idle"]
    /\ ended = 0 /\ runs = 0 /\ edits = 0 /\ faults = 0
    /\ finished = {} /\ users = {} /\ trimmed = {}
    /\ regrown = FALSE /\ recalled = FALSE /\ robbed = FALSE

\* The steps of a commit, which nothing outside holds up.
CommitStep(p) ==
    \/ SkipCommit(p) \/ TakeLock(p) \/ DeadlineOverDead(p) \/ BreakLock(p) \/ ReadDisk(p)
    \/ WriteConflict(p) \/ WriteState(p) \/ Release(p)

Next ==
    \E p \in Procs :
        \/ StartRun(p)
        \/ SdkSave(p)
        \/ \E compress \in BOOLEAN : RunSucceeds(p, compress)
        \/ \E text \in BOOLEAN : RunFails(p, text)
        \/ CommitStep(p)
        \/ DeadlineOverSlow(p) \/ CommitFails(p)
        \/ \E n \in 0..MaxRuns : Rewind(p, n)
        \/ Restart(p)

Spec == Init /\ [][Next]_vars

FairSpec == Spec /\ \A p \in Procs : WF_vars(CommitStep(p))

-----------------------------------------------------------------------------
(* Properties *)

TypeOK ==
    /\ chat \subseteq Exchanges
    /\ turns \in [Procs -> SUBSET Exchanges] /\ base \in [Procs -> SUBSET Exchanges]
    /\ disk \in StateFile \cup {NoState}
    /\ sidecars \in Nat
    /\ lock \in Procs \cup {NoLock, "nobody"}
    /\ store \in [Procs -> Store \cup {NoState}]
    /\ buffer \in [Procs -> {NoState} \cup SUBSET Nat]
    /\ seen \in [Procs -> StateFile \cup {NoState}]
    /\ pc \in [Procs -> {"idle", "run", "commit", "break", "read", "write", "release"}]
    /\ ended \in Nat
    /\ finished \subseteq Exchanges /\ users \subseteq Procs /\ trimmed \subseteq Exchanges
    /\ regrown \in BOOLEAN /\ recalled \in BOOLEAN /\ robbed \in BOOLEAN

\* K7b: a run that was cancelled or failed never reaches the state file, so no
\* tool call without its result is ever resumed, by this instance or another.
OnlyFinishedRuns == disk # NoState => disk.mem \subseteq finished

\* K7c: what the model is given to remember at the start of a run is still in the transcript, or
\* fell out of it for MAX_TURNS: /clear, a rollback and a compression all reach the memory.
\* True of an instance alone with its chat, however often it ends, anywhere, and is started
\* again, until a process opens the chat after turns were added since such a cut: the turn
\* count does not show then that the state file is older than the cut.
MemoryWithinTranscriptWhileAlone ==
    Cardinality(users) <= 1 /\ ~recalled =>
        \A p \in Procs : store[p] # NoState => Loaded(store[p]) \subseteq turns[p] \cup trimmed

\* What the model is given to remember: runs that ended well, and nothing that was cut from the
\* transcript of an instance that stays alone.
MemoryFollowsTranscript == OnlyFinishedRuns /\ MemoryWithinTranscriptWhileAlone

\* K7a: a commit replaces the state its own memory comes from, never one that another instance
\* has committed since, wherever instances end and restart and writes fail.  It is no longer so
\* once a lock was unlinked under a live owner: a slow one, or one that took the lock after
\* another waiter for the same dead lock had broken it.
NoStateClobbered ==
    [][\A p \in Procs : ~robbed /\ pc[p] = "write" /\ pc'[p] = "release" /\ disk' # disk
        => store[p].baseRev = (IF disk = NoState THEN 0 ELSE disk.rev)]_vars

\* Every commit ends, although the lock may belong to a process that is gone.
CommitEnds ==
    \A p \in Procs :
        pc[p] \in {"commit", "break", "read", "write", "release"} ~> pc[p] = "idle"
=============================================================================
