----------------------------- MODULE ChangeJournal -----------------------------
(***************************************************************************)
(* The tools that change files, the journal of what they changed, and undo *)
(* (workspace.ts, read-registry.ts, resume.ts).                            *)
(*                                                                         *)
(* A tool call reads the file, compares it with what the agent has read,   *)
(* asks for permission, writes, and records the change; other calls of the *)
(* same round, other programs and the end of the process may come between  *)
(* any two of these steps.  Undo walks a run's changes backwards, asking   *)
(* before each.                                                            *)
(*                                                                         *)
(* Texts stand for the contents of files.  Two entries of a run for one    *)
(* file have different times (hydrateRun takes equal ones for the same).   *)
(***************************************************************************)
EXTENDS Naturals, Sequences, SequencesExt

CONSTANTS
    Files,
    Texts,
    Absent,       \* no such file
    Untouched,    \* history: the run has not written this file
    Calls,        \* tool calls the SDK may execute at the same time
    NoCall, NoUndo, NoCheckpoint,
    MaxRuns,      \* bound: agent runs
    MaxCalls,     \* bound: changing tool calls in a behaviour
    Faults,       \* what may go wrong
    MaxFaults     \* bound: how often in all

\* "edit":  another program changes a file, between two calls
\* "race":  it does so while a call or an undo is under way
\* "deny":  the user refuses
\* "crash": the process ends
\* "disk":  a file of the workspace or a checkpoint cannot be written or removed
\* "prune": another instance starts and finds a checkpoint too old or too big
ASSUME JournalAssumption ==
    /\ MaxRuns \in Nat /\ MaxCalls \in Nat /\ MaxFaults \in Nat
    /\ Faults \subseteq {"edit", "race", "deny", "crash", "disk", "prune"}
    /\ Untouched \notin Texts \cup {Absent}

VARIABLES
    file,         \* the workspace
    noted,        \* ReadRegistry: what check() would say of each file
    call,         \* the tool calls in progress
    entries,      \* #entries
    checkpoint,   \* checkpoints/<chat>/<run>.json
    undo,         \* undoLastRun in progress
    run,          \* number of the current or last run
    running,
    interrupted,  \* the run findInterruptedRun reports, or 0
    calls, faults

\* History; no step reads it.
VARIABLES
    origin,       \* per run and file: the text before the run's first write
    overlapped,   \* two calls were in progress at once
    contended,    \* the runs and files for which two calls were
    behind,       \* the runs whose checkpoint was pruned, or its last write failed
    kinds         \* kinds of faults so far

hist == <<origin, overlapped, contended, behind>>
past == <<run, running, interrupted, calls, faults, kinds>>
vars == <<file, noted, call, entries, checkpoint, undo, past, hist>>

-----------------------------------------------------------------------------
Runs     == 1..MaxRuns
Contents == Texts \cup {Absent}
Entry    == [file: Files, before: Contents, after: Texts, run: Runs]
Call     == [pc: {"check", "ask", "write", "record", "persist"}, entry: Entry,
             snapshot: Seq(Entry)]
Undo     == [pc: {"check", "ask", "write"}, run: Runs, todo: Seq(Entry),
             restored: SUBSET Files, skipped: SUBSET Files]

ASSUME NothingAssumption ==
    NoCall \notin Call /\ NoUndo \notin Undo /\ NoCheckpoint \notin Seq(Entry)

Fault(kind) ==
    /\ kind \in Faults /\ faults < MaxFaults
    /\ faults' = faults + 1 /\ kinds' = kinds \cup {kind}

\* The entries of a list that belong to one of these runs.
OfRuns(list, runs) ==
    LET kept[i \in 0..Len(list)] ==
            IF i = 0 THEN <<>>
            ELSE IF list[i].run \in runs THEN Append(kept[i - 1], list[i])
            ELSE kept[i - 1]
    IN  kept[Len(list)]

OfRun(r) == OfRuns(entries, {r})

Fresh(f) == IF noted[f] = "fresh" THEN "stale" ELSE noted[f]

\* The file gets a new content, and a new mtime with it.
Put(f, text) ==
    /\ file' = [file EXCEPT ![f] = text]
    /\ noted' = [noted EXCEPT ![f] = Fresh(f)]

NoCallOpen == \A c \in Calls : call[c] = NoCall
Idle       == ~running /\ undo = NoUndo

-----------------------------------------------------------------------------
(* Runs and reads *)

\* A new run supersedes an interrupted one: only the newest log is considered.
StartRun ==
    /\ Idle /\ run < MaxRuns
    /\ run' = run + 1 /\ running' = TRUE /\ interrupted' = 0
    /\ UNCHANGED <<file, noted, call, entries, checkpoint, undo, calls, faults, kinds, hist>>

EndRun ==
    /\ running /\ NoCallOpen
    /\ running' = FALSE
    /\ UNCHANGED <<file, noted, call, entries, checkpoint, undo, run, interrupted, calls,
                   faults, kinds, hist>>

\* read_file
ReadFile(f) ==
    /\ running /\ file[f] # Absent
    /\ noted' = [noted EXCEPT ![f] = "fresh"]
    /\ UNCHANGED <<file, call, entries, checkpoint, undo, past, hist>>

-----------------------------------------------------------------------------
(* write_file and replace_text *)

SetCall(c, value) == call' = [call EXCEPT ![c] = value]

Begin(c, f, text) ==
    /\ running /\ call[c] = NoCall /\ calls < MaxCalls
    /\ calls' = calls + 1
    /\ SetCall(c, [pc |-> "check", snapshot |-> <<>>,
                   entry |-> [file |-> f, before |-> file[f], after |-> text, run |-> run]])
    /\ overlapped' = (overlapped \/ ~NoCallOpen)
    /\ contended' = IF \E d \in Calls : call[d] # NoCall /\ call[d].entry.file = f
                    THEN contended \cup {<<run, f>>} ELSE contended
    /\ UNCHANGED <<file, noted, entries, checkpoint, undo, run, running, interrupted, faults,
                   kinds, origin, behind>>

\* readOptional: the file need not exist.
WriteFile(c, f, text) == Begin(c, f, text)

\* replace_text makes the new text from the one it has read.
ReplaceText(c, f, text) == file[f] \in Texts \ {text} /\ Begin(c, f, text)

\* check(): what the agent noted is what is there now, and what the call read.
Stale(e) ==
    \/ noted[e.file] = "stale"
    \/ noted[e.file] = "fresh" /\ file[e.file] # e.before

\* assertNotStale, where there was a file; its stat() fails when there is none now.
CheckFresh(c) ==
    /\ call[c] # NoCall /\ call[c].pc = "check"
    /\ LET e == call[c].entry
           fails == e.before # Absent /\ (file[e.file] = Absent \/ Stale(e))
       IN  SetCall(c, IF fails THEN NoCall ELSE [call[c] EXCEPT !.pc = "ask"])
    /\ UNCHANGED <<file, noted, entries, checkpoint, undo, past, hist>>

\* approvals.authorize
Allowed(c) ==
    /\ call[c] # NoCall /\ call[c].pc = "ask"
    /\ SetCall(c, [call[c] EXCEPT !.pc = "write"])
    /\ UNCHANGED <<file, noted, entries, checkpoint, undo, past, hist>>

Denied(c) ==
    /\ call[c] # NoCall /\ call[c].pc = "ask"
    /\ Fault("deny")
    /\ SetCall(c, NoCall)
    /\ UNCHANGED <<file, noted, entries, checkpoint, undo, run, running, interrupted, calls, hist>>

\* atomicWrite: whatever is there by now.
Write(c) ==
    /\ call[c] # NoCall /\ call[c].pc = "write"
    /\ LET e == call[c].entry
       IN  /\ Put(e.file, e.after)
           /\ origin' = [origin EXCEPT ![e.run][e.file] =
                            IF @ = Untouched THEN file[e.file] ELSE @]
    /\ SetCall(c, [call[c] EXCEPT !.pc = "record"])
    /\ UNCHANGED <<entries, checkpoint, undo, past, overlapped, contended, behind>>

\* Nothing is written, and the call ends with the error.
WriteFails(c) ==
    /\ call[c] # NoCall /\ call[c].pc = "write"
    /\ Fault("disk")
    /\ SetCall(c, NoCall)
    /\ UNCHANGED <<file, noted, entries, checkpoint, undo, run, running, interrupted, calls, hist>>

\* MUTANT of Pushed: the newest change comes first.
PushedInFront(e) == <<e>> \o entries

Pushed(e) == Append(entries, e)

\* forget(), record(): the entry is pushed and the run's entries are taken for
\* the file that is written next.
Record(c) ==
    /\ call[c] # NoCall /\ call[c].pc = "record"
    /\ LET e == call[c].entry
           pushed == Pushed(e)
       IN  /\ noted' = [noted EXCEPT ![e.file] = "unknown"]
           /\ entries' = pushed
           /\ SetCall(c, [call[c] EXCEPT !.pc = "persist",
                                       !.snapshot = OfRuns(pushed, {e.run})])
    /\ UNCHANGED <<file, checkpoint, undo, past, hist>>

\* MUTANT of Saved: the entry just pushed is missing.
SavedTooEarly(snapshot) == Front(snapshot)

Saved(snapshot) == snapshot

\* writeFileAtomicSecure renames the finished file into place.
Persist(c) ==
    /\ call[c] # NoCall /\ call[c].pc = "persist"
    /\ checkpoint' = [checkpoint EXCEPT ![call[c].entry.run] = Saved(call[c].snapshot)]
    /\ SetCall(c, NoCall)
    /\ behind' = behind \ {call[c].entry.run}
    /\ UNCHANGED <<file, noted, entries, undo, past, origin, overlapped, contended>>

\* The entry stays in the journal, the call ends with the error.
PersistFails(c) ==
    /\ call[c] # NoCall /\ call[c].pc = "persist"
    /\ Fault("disk")
    /\ SetCall(c, NoCall)
    /\ behind' = behind \cup {call[c].entry.run}
    /\ UNCHANGED <<file, noted, entries, checkpoint, undo, run, running, interrupted, calls,
                   origin, overlapped, contended>>

\* pruneCheckpoints, when an instance starts: what is too old, and the oldest of a chat that
\* has too much, whoever may still need it.
Prune(r) ==
    /\ checkpoint[r] # NoCheckpoint
    /\ Fault("prune")
    /\ checkpoint' = [checkpoint EXCEPT ![r] = NoCheckpoint]
    /\ behind' = behind \cup {r}
    /\ UNCHANGED <<file, noted, call, entries, undo, run, running, interrupted, calls,
                   origin, overlapped, contended>>

-----------------------------------------------------------------------------
(* undoLastRun *)

UndoOf(r, list) == [pc |-> "check", run |-> r, todo |-> list, restored |-> {}, skipped |-> {}]

\* /undo
UndoLastRun ==
    /\ Idle /\ entries # <<>>
    /\ LET r == Last(entries).run IN undo' = UndoOf(r, OfRun(r))
    /\ UNCHANGED <<file, noted, call, entries, checkpoint, past, hist>>

\* /resume undo, and the same choice at startup: the entries come from disk.
\* Without a checkpoint there is nothing to undo and the run counts as reviewed.
ResumeUndo ==
    /\ Idle /\ interrupted # 0 /\ entries = <<>>
    /\ IF checkpoint[interrupted] = NoCheckpoint
       THEN interrupted' = 0 /\ UNCHANGED <<entries, undo>>
       ELSE /\ entries' = checkpoint[interrupted]
            /\ undo' = UndoOf(interrupted, checkpoint[interrupted])
            /\ UNCHANGED interrupted
    /\ UNCHANGED <<file, noted, call, checkpoint, run, running, calls, faults, kinds, hist>>

Undoing(pc) == undo # NoUndo /\ undo.todo # <<>> /\ undo.pc = pc

\* The file still holds what the run wrote.
Unchanged(e) == file[e.file] = e.after

UndoCheck ==
    /\ Undoing("check")
    /\ LET e == Last(undo.todo)
       IN  undo' = IF Unchanged(e) THEN [undo EXCEPT !.pc = "ask"]
                   ELSE [undo EXCEPT !.todo = Front(@), !.skipped = @ \cup {e.file}]
    /\ UNCHANGED <<file, noted, call, entries, checkpoint, past, hist>>

UndoAllowed ==
    /\ Undoing("ask")
    /\ undo' = [undo EXCEPT !.pc = "write"]
    /\ UNCHANGED <<file, noted, call, entries, checkpoint, past, hist>>

\* PermissionDeniedError leaves the loop; what was restored stays restored and
\* the entries stay in the journal.
UndoDenied ==
    /\ Undoing("ask")
    /\ Fault("deny")
    /\ undo' = NoUndo
    /\ UNCHANGED <<file, noted, call, entries, checkpoint, run, running, interrupted, calls, hist>>

\* unlink() of a file that is gone throws; everything else is replaced.
UndoWrite ==
    /\ Undoing("write")
    /\ LET e == Last(undo.todo)
       IN  IF e.before = Absent /\ file[e.file] = Absent
           THEN undo' = NoUndo /\ UNCHANGED <<file, noted>>
           ELSE /\ Put(e.file, e.before)
                /\ undo' = [undo EXCEPT !.pc = "check", !.todo = Front(@),
                                        !.restored = @ \cup {e.file}]
    /\ UNCHANGED <<call, entries, checkpoint, past, hist>>

\* atomicWrite or unlink throws, which leaves the loop like a refusal.
UndoWriteFails ==
    /\ Undoing("write")
    /\ Fault("disk")
    /\ undo' = NoUndo
    /\ UNCHANGED <<file, noted, call, entries, checkpoint, run, running, interrupted, calls, hist>>

\* The run leaves the journal, its checkpoint is deleted if it can be, an interrupted run
\* is marked reviewed.
UndoFinish ==
    /\ undo # NoUndo /\ undo.todo = <<>>
    /\ entries' = OfRuns(entries, Runs \ {undo.run})
    /\ \/ /\ checkpoint' = [checkpoint EXCEPT ![undo.run] = NoCheckpoint]
          /\ UNCHANGED <<faults, kinds>>
       \/ /\ Fault("disk") /\ UNCHANGED checkpoint
    /\ interrupted' = IF interrupted = undo.run THEN 0 ELSE interrupted
    /\ undo' = NoUndo
    /\ UNCHANGED <<file, noted, call, run, running, calls, hist>>

\* What undoLastRun({dryRun: true}) reports as skipped: every entry is
\* compared with the file as it is now.
DryRunSkipped(list) == {list[i].file : i \in {j \in DOMAIN list : ~Unchanged(list[j])}}

-----------------------------------------------------------------------------
(* Other programs, and the end of the process *)

Quiet == NoCallOpen /\ undo = NoUndo

External(f, content) ==
    /\ file[f] # content
    /\ IF Quiet THEN Fault("edit") ELSE Fault("race")
    /\ Put(f, content)
    /\ UNCHANGED <<call, entries, checkpoint, undo, run, running, interrupted, calls, hist>>

\* The next process starts with an empty journal and an empty registry.
Crash ==
    /\ Fault("crash")
    /\ noted' = [f \in Files |-> "unknown"]
    /\ call' = [c \in Calls |-> NoCall]
    /\ entries' = <<>> /\ undo' = NoUndo /\ running' = FALSE
    /\ interrupted' = IF running THEN run ELSE interrupted
    /\ UNCHANGED <<file, checkpoint, run, calls, hist>>

-----------------------------------------------------------------------------
Init ==
    /\ file \in [Files -> Contents]
    /\ noted = [f \in Files |-> "unknown"]
    /\ call = [c \in Calls |-> NoCall]
    /\ entries = <<>>
    /\ checkpoint = [r \in Runs |-> NoCheckpoint]
    /\ undo = NoUndo
    /\ run = 0 /\ running = FALSE /\ interrupted = 0
    /\ calls = 0 /\ faults = 0
    /\ origin = [r \in Runs |-> [f \in Files |-> Untouched]]
    /\ overlapped = FALSE /\ contended = {} /\ behind = {} /\ kinds = {}

CallStep(c) ==
    \/ \E f \in Files, text \in Texts : WriteFile(c, f, text) \/ ReplaceText(c, f, text)
    \/ CheckFresh(c) \/ Allowed(c) \/ Denied(c) \/ Write(c) \/ WriteFails(c)
    \/ Record(c) \/ Persist(c) \/ PersistFails(c)

UndoStep ==
    \/ UndoLastRun \/ ResumeUndo \/ UndoCheck \/ UndoAllowed \/ UndoDenied
    \/ UndoWrite \/ UndoWriteFails \/ UndoFinish

Next ==
    \/ StartRun \/ EndRun
    \/ \E f \in Files : ReadFile(f)
    \/ \E c \in Calls : CallStep(c)
    \/ UndoStep
    \/ \E f \in Files, content \in Contents : External(f, content)
    \/ Crash
    \/ \E r \in Runs : Prune(r)

Spec == Init /\ [][Next]_vars

-----------------------------------------------------------------------------
(* Properties *)

TypeOK ==
    /\ file \in [Files -> Contents]
    /\ noted \in [Files -> {"unknown", "fresh", "stale"}]
    /\ \A c \in Calls : call[c] = NoCall \/ call[c] \in Call
    /\ entries \in Seq(Entry)
    /\ \A r \in Runs : checkpoint[r] = NoCheckpoint \/ checkpoint[r] \in Seq(Entry)
    /\ undo = NoUndo \/ undo \in Undo
    /\ run \in 0..MaxRuns /\ running \in BOOLEAN /\ interrupted \in 0..MaxRuns

\* A file that undo restored and never skipped holds what it held before the
\* run touched it for the first time, however many writes, refusals, earlier
\* undos and restarts lie in between, and however the calls of a round
\* interleave.  (Not so when a file changes during a call or an undo, nor for a
\* file that two calls of one round write: they may be recorded in another order
\* than they wrote.)
UndoReturnsToStart ==
    [][\A f \in Files :
        /\ undo # NoUndo /\ undo.todo = <<>> /\ undo' = NoUndo
        /\ f \in undo.restored \ undo.skipped
        /\ "race" \notin kinds /\ <<undo.run, f>> \notin contended
        => file[f] = origin[undo.run][f]]_vars

\* The checkpoint on disk has every entry of a run once its calls have ended,
\* so that a crash costs no entry of a call that was answered: also those of a
\* call whose checkpoint could not be written, as soon as a later one could.
\* (Calls of one round that overlap can persist in the wrong order.)
CheckpointKeepsUp ==
    NoCallOpen /\ ~overlapped =>
        \A r \in Runs \ behind : OfRun(r) # <<>> => checkpoint[r] = OfRun(r)

\* Of the files an interrupted run wrote, all but the one it was writing when
\* the process ended can be taken back, unless its checkpoint was pruned or the
\* last write of it failed.
AtMostOneUnrecorded ==
    interrupted \notin behind \cup {0} /\ Quiet /\ ~overlapped =>
        LET covered == IF checkpoint[interrupted] = NoCheckpoint THEN {}
                       ELSE {checkpoint[interrupted][i].file : i \in DOMAIN checkpoint[interrupted]}
        IN  \A f, g \in Files :
              {f, g} \cap covered = {} /\ origin[interrupted][f] # Untouched
                /\ origin[interrupted][g] # Untouched => f = g

\* The same as long as no file changes between the comparison and the write,
\* that is while the approval is open: changes made after the run, between two
\* undos or before a restart are all spared.
UndoSparesEarlierChanges ==
    [][undo # NoUndo /\ undo.pc = "write" /\ file' # file /\ undo' # undo /\ undo' # NoUndo
            /\ "race" \notin kinds
        => file[Last(undo.todo).file] = Last(undo.todo).after]_vars

\* What undoing a list of entries now would leave alone: the files and what is
\* skipped after its last i entries.
WouldSkip(list) ==
    LET undone[i \in 0..Len(list)] ==
            IF i = 0 THEN [now |-> file, skip |-> {}]
            ELSE LET e == list[Len(list) + 1 - i]
                     s == undone[i - 1]
                 IN  IF s.now[e.file] = e.after
                     THEN [now |-> [s.now EXCEPT ![e.file] = e.before], skip |-> s.skip]
                     ELSE [now |-> s.now, skip |-> s.skip \cup {e.file}]
    IN  undone[Len(list)].skip

\* What undoLastRun would act on.
NextUndo == IF entries = <<>> THEN <<>> ELSE OfRun(Last(entries).run)

WrittenOnce(list) == \A i, j \in DOMAIN list : list[i].file = list[j].file => i = j

\* For a run that wrote no file twice the preview of an undo is what the undo does.
DryRunHonestForSingleWrites ==
    Idle /\ WrittenOnce(NextUndo) => DryRunSkipped(NextUndo) = WouldSkip(NextUndo)

\* The journal tells the truth to whoever reads it next: the process after a crash, and the
\* user who asks what an undo would do (record, persistRun, the dry run of undoLastRun).
JournalIsHonest == CheckpointKeepsUp /\ AtMostOneUnrecorded /\ DryRunHonestForSingleWrites

\* What an undo leaves in the files is what the run found there or somebody wrote since
\* (undoLastRun).
UndoIsRight == UndoReturnsToStart /\ UndoSparesEarlierChanges
=============================================================================
