---------------------------- MODULE InterruptedRuns ----------------------------
(***************************************************************************)
(* The log a run leaves behind (runlog.ts), and what the next start makes  *)
(* of a log without an end (resume.ts, cli.ts, commands.ts).               *)
(*                                                                         *)
(* write() queues a line; the lines reach the file one after the other in  *)
(* the background, and close() waits for them.  A run whose log has no     *)
(* run-end is reported; the user discards it, resumes it, has its changes  *)
(* taken back, or decides later.  Its checkpoint lies under the chat the   *)
(* instance was started with, its log under the chat it is in.             *)
(*                                                                         *)
(* Run ids are in order of time.  The changes of a run come one after      *)
(* another here, each written to the file, pushed and saved, and those     *)
(* that were saved are one thing; ChangeJournal has the files, changes     *)
(* that overlap, the steps of undo and what it skips.                      *)
(***************************************************************************)
EXTENDS Naturals, Sequences, FiniteSets, FiniteSetsExt

CONSTANTS
    Procs,      \* orcode instances of one user, in one workspace
    Chats,
    NoLog, NoChat,
    MaxRuns,    \* bound: runs in a behaviour
    Faults,     \* what may go wrong
    MaxFaults   \* bound: how often in all

\* "crash": an instance ends in the middle of something
\* "disk":  the log cannot be opened, or a line or a checkpoint not be written
\* "deny":  the user refuses the undo
\* "prune": a checkpoint is deleted for its age, or for its chat's size
ASSUME InterruptedRunsAssumption ==
    /\ MaxRuns \in Nat /\ MaxFaults \in Nat
    /\ Faults \subseteq {"crash", "disk", "deny", "prune"}
    /\ NoChat \notin Chats

VARIABLES
    state,     \* each instance: "down", "idle", "asked", "run" or "closing"
    chat,      \* the chat it is in
    home,      \* the chat its agent, and so its journal, was made for
    journal,   \* the runs its journal has entries of
    current,   \* the run it is working on, or worked on last
    found,     \* the interrupted run it asks about
    log,       \* runs/<chat>/<run>.ndjson
    queue,     \* lines of the run that are not in the file yet
    saved,     \* <<run, chat>>: checkpoints/<chat>/<run>.json
    changed,   \* runs whose changes, those that were saved, are in the files
    runs, faults
VARIABLES
    writing,   \* how far its tool is: "no" change, or one "wrote" or "pushed"
    hydrated,  \* the run that its journal read from a checkpoint
    loose      \* each run: changes that are in the files and were not saved

\* History; no step reads it.
VARIABLES
    over,      \* runs that came to their end, log closed
    cut,       \* runs that an instance was working on when it ended
    decided,   \* runs the user has decided about
    undone,    \* and chose to take back
    kinds

procVars == <<state, chat, home, journal, current, found>>
fileVars == <<log, queue, saved, changed>>
changes  == <<writing, hydrated, loose>>
history  == <<over, cut, decided, undone, kinds>>
vars == <<procVars, fileVars, changes, runs, faults, history>>

-----------------------------------------------------------------------------
Runs    == 1..MaxRuns
LogFile == [chat: Chats, ended: BOOLEAN, torn: BOOLEAN]
ASSUME NoLogAssumption == NoLog \notin LogFile

Fault(kind) == kind \in Faults /\ faults < MaxFaults /\ faults' = faults + 1

Working(p) == state[p] \in {"run", "closing"}
Goto(p, s) == state' = [state EXCEPT ![p] = s]

\* Another instance has the same chat open.
Shares(p, c) == \E q \in Procs \ {p} : state[q] # "down" /\ chat[q] = c
Noting(p, c) == IF Shares(p, c) THEN {"shared"} ELSE {}

\* It is not in the chat it was started with.
Away(p) == home[p] # chat[p]

\* The runs of a chat that have a log.
LogsOf(c) == {r \in Runs : log[r] # NoLog /\ log[r].chat = c}

-----------------------------------------------------------------------------
(* Instances and chats *)

Start(p, c) ==
    /\ state[p] = "down"
    /\ Goto(p, "idle")
    /\ chat' = [chat EXCEPT ![p] = c] /\ home' = [home EXCEPT ![p] = c]
    /\ kinds' = kinds \cup Noting(p, c)
    /\ UNCHANGED <<journal, current, found, fileVars, changes, runs, faults, over, cut, decided, undone>>

\* setSession: the agent and its journal stay.
SwitchChat(p, c) ==
    /\ state[p] = "idle" /\ c # chat[p]
    /\ chat' = [chat EXCEPT ![p] = c]
    /\ kinds' = kinds \cup Noting(p, c)
    /\ UNCHANGED <<state, home, journal, current, found, fileVars, changes, runs, faults,
                   over, cut, decided, undone>>

\* What the process knew is gone; a run it was working on is cut.
Vanish(p) ==
    /\ Goto(p, "down")
    /\ chat' = [chat EXCEPT ![p] = NoChat] /\ home' = [home EXCEPT ![p] = NoChat]
    /\ journal' = [journal EXCEPT ![p] = {}]
    /\ current' = [current EXCEPT ![p] = 0] /\ found' = [found EXCEPT ![p] = 0]
    /\ writing' = [writing EXCEPT ![p] = "no"] /\ hydrated' = [hydrated EXCEPT ![p] = 0]
    /\ queue' = [r \in Runs |-> IF Working(p) /\ r = current[p] THEN <<>> ELSE queue[r]]
    /\ cut' = IF state[p] = "run" THEN cut \cup {current[p]} ELSE cut

Quit(p) ==
    /\ state[p] = "idle"
    /\ Vanish(p)
    /\ UNCHANGED <<log, saved, changed, loose, runs, faults, over, decided, undone, kinds>>

\* At any moment of a run, also half way through a line.
Crash(p, torn) ==
    /\ Fault("crash")
    /\ Working(p)
    /\ torn => queue[current[p]] # <<>>
    /\ Vanish(p)
    /\ log' = IF torn THEN [log EXCEPT ![current[p]].torn = TRUE] ELSE log
    /\ kinds' = IF torn THEN kinds \cup {"torn"} ELSE kinds
    /\ UNCHANGED <<saved, changed, loose, runs, over, decided, undone>>

-----------------------------------------------------------------------------
(* A run *)

\* RunLog.open and the run-start line.
BeginRun(p) ==
    /\ state[p] = "idle" /\ runs < MaxRuns
    /\ runs' = runs + 1
    /\ Goto(p, "run")
    /\ current' = [current EXCEPT ![p] = runs + 1]
    /\ log' = [log EXCEPT ![runs + 1] = [chat |-> chat[p], ended |-> FALSE, torn |-> FALSE]]
    /\ queue' = [queue EXCEPT ![runs + 1] = <<"event">>]
    /\ UNCHANGED <<chat, home, journal, found, saved, changed, changes, faults, history>>

\* The log cannot be opened: the run goes on without.
BeginRunUnlogged(p) ==
    /\ Fault("disk")
    /\ state[p] = "idle" /\ runs < MaxRuns
    /\ runs' = runs + 1
    /\ Goto(p, "run")
    /\ current' = [current EXCEPT ![p] = runs + 1]
    /\ kinds' = kinds \cup {"disk"}
    /\ UNCHANGED <<chat, home, journal, found, fileVars, changes, over, cut, decided, undone>>

\* A tool changes a file,
WriteFile(p) ==
    /\ state[p] = "run" /\ writing[p] = "no"
    /\ writing' = [writing EXCEPT ![p] = "wrote"]
    /\ loose' = [loose EXCEPT ![current[p]] = @ + 1]
    /\ UNCHANGED <<procVars, fileVars, hydrated, runs, faults, history>>

\* enters the change in the journal,
Push(p) ==
    /\ state[p] = "run" /\ writing[p] = "wrote"
    /\ writing' = [writing EXCEPT ![p] = "pushed"]
    /\ journal' = [journal EXCEPT ![p] = @ \cup {current[p]}]
    /\ UNCHANGED <<state, chat, home, current, found, fileVars, hydrated, loose, runs,
                   faults, history>>

\* MUTANT of Save: the checkpoint is left for the end of the run.
SaveAtEnd(p) ==
    /\ state[p] = "run" /\ writing[p] = "pushed"
    /\ writing' = [writing EXCEPT ![p] = "no"]
    /\ UNCHANGED <<procVars, fileVars, hydrated, loose, runs, faults, history>>

\* and the checkpoint is written, with all that the journal has of the run.
Save(p) ==
    /\ state[p] = "run" /\ writing[p] = "pushed"
    /\ writing' = [writing EXCEPT ![p] = "no"]
    /\ loose' = [loose EXCEPT ![current[p]] = 0]
    /\ changed' = changed \cup {current[p]}
    /\ saved' = saved \cup {<<current[p], home[p]>>}
    /\ kinds' = IF Away(p) THEN kinds \cup {"moved"} ELSE kinds
    /\ UNCHANGED <<procVars, log, queue, hydrated, runs, faults, over, cut, decided, undone>>

\* Or it cannot be written: the call fails, and the run goes on.
SaveFails(p) ==
    /\ Fault("disk")
    /\ state[p] = "run" /\ writing[p] = "pushed"
    /\ writing' = [writing EXCEPT ![p] = "no"]
    /\ kinds' = kinds \cup {"disk"}
    /\ UNCHANGED <<procVars, fileVars, hydrated, loose, runs, over, cut, decided, undone>>

\* pruneCheckpoints, in the background after the start.
Prune(p, r, c) ==
    /\ Fault("prune")
    /\ state[p] # "down" /\ <<r, c>> \in saved
    /\ saved' = saved \ {<<r, c>>}
    /\ kinds' = kinds \cup {"pruned"}
    /\ UNCHANGED <<procVars, log, queue, changed, changes, runs, over, cut, decided, undone>>

\* The end of run(): a last line, then close().
EndRun(p) ==
    LET r == current[p] IN
    /\ state[p] = "run" /\ writing[p] = "no"
    /\ Goto(p, "closing")
    /\ queue' = IF log[r] = NoLog THEN queue ELSE [queue EXCEPT ![r] = Append(@, "end")]
    /\ UNCHANGED <<chat, home, journal, current, found, log, saved, changed, changes, runs, faults, history>>

\* The next line reaches the file.
AppendLine(p) ==
    LET r == current[p] IN
    /\ Working(p) /\ queue[r] # <<>>
    /\ log' = IF Head(queue[r]) = "end" THEN [log EXCEPT ![r].ended = TRUE] ELSE log
    /\ queue' = [queue EXCEPT ![r] = Tail(@)]
    /\ UNCHANGED <<procVars, saved, changed, changes, runs, faults, history>>

\* It cannot be written.  Only close() handles that; before, the rejection of
\* #chain is unhandled and ends the process.
AppendFails(p) ==
    LET r == current[p] IN
    /\ Fault("disk")
    /\ Working(p) /\ queue[r] # <<>>
    /\ kinds' = kinds \cup {"disk"}
    /\ \/ /\ state[p] = "run"
          /\ Vanish(p)
          /\ UNCHANGED over
       \/ /\ state[p] = "closing"
          /\ Goto(p, "idle")
          /\ queue' = [queue EXCEPT ![r] = <<>>]
          /\ over' = over \cup {r}
          /\ UNCHANGED <<chat, home, journal, current, found, writing, hydrated, cut>>
    /\ UNCHANGED <<log, saved, changed, loose, runs, decided, undone>>

\* MUTANT of Closed: close() does not wait for the queue, which is dropped.
ClosedEarly(p) ==
    /\ state[p] = "closing"
    /\ Goto(p, "idle")
    /\ queue' = [queue EXCEPT ![current[p]] = <<>>]
    /\ over' = over \cup {current[p]}
    /\ UNCHANGED <<chat, home, journal, current, found, log, saved, changed, changes, runs, faults,
                   cut, decided, undone, kinds>>

\* close() has waited for every line.
Closed(p) ==
    /\ state[p] = "closing" /\ queue[current[p]] = <<>>
    /\ Goto(p, "idle")
    /\ over' = over \cup {current[p]}
    /\ UNCHANGED <<chat, home, journal, current, found, fileVars, changes, runs, faults,
                   cut, decided, undone, kinds>>

\* /undo: the last run in the journal, as a whole.
UndoOwn(p) ==
    LET r == Max(journal[p]) IN
    /\ state[p] = "idle" /\ journal[p] # {}
    /\ changed' = changed \ {r}
    /\ loose' = IF r = hydrated[p] THEN loose ELSE [loose EXCEPT ![r] = 0]
    /\ saved' = saved \ {<<r, home[p]>>}
    /\ journal' = [journal EXCEPT ![p] = @ \ {r}]
    /\ UNCHANGED <<state, chat, home, current, found, log, queue, writing, hydrated, runs, faults, history>>

-----------------------------------------------------------------------------
(* An interrupted run *)

\* findInterruptedRun: only the newest log of the chat counts.
Find(p) ==
    /\ state[p] = "idle" /\ LogsOf(chat[p]) # {}
    /\ ~log[Max(LogsOf(chat[p]))].ended
    /\ found' = [found EXCEPT ![p] = Max(LogsOf(chat[p]))]
    /\ Goto(p, "asked")
    /\ UNCHANGED <<chat, home, journal, current, fileVars, changes, runs, faults, history>>

\* markRunReviewed: a run-end is appended; after half a line it is unreadable.
Marked(r) == [log EXCEPT ![r].ended = @ \/ ~log[r].torn, ![r].torn = FALSE]

\* Back to the prompt, with nothing more to ask.
Answered(p) ==
    /\ Goto(p, "idle")
    /\ found' = [found EXCEPT ![p] = 0]

Later(p) ==
    /\ state[p] = "asked"
    /\ Answered(p)
    /\ UNCHANGED <<chat, home, journal, current, fileVars, changes, runs, faults, history>>

\* Resumed or discarded: its changes stay.
Keep(p) ==
    /\ state[p] = "asked"
    /\ Answered(p)
    /\ log' = Marked(found[p])
    /\ decided' = decided \cup {found[p]}
    /\ UNCHANGED <<chat, home, journal, current, queue, saved, changed, changes, runs, faults,
                   over, cut, undone, kinds>>

\* hydrateRun looks where this instance's journal saves.
HasCheckpoint(p) == <<found[p], home[p]>> \in saved

\* undoInterruptedRun, then the mark, whatever was found to take back.  It is
\* refused once this instance has changes of its own.
TakeBack(p) ==
    /\ state[p] = "asked" /\ journal[p] = {}
    /\ Answered(p)
    /\ changed' = IF HasCheckpoint(p) THEN changed \ {found[p]} ELSE changed
    /\ saved' = saved \ {<<found[p], home[p]>>}
    /\ log' = Marked(found[p])
    /\ decided' = decided \cup {found[p]} /\ undone' = undone \cup {found[p]}
    /\ kinds' = IF Away(p) THEN kinds \cup {"moved"} ELSE kinds
    /\ UNCHANGED <<chat, home, journal, current, queue, changes, runs, faults, over, cut>>

\* The user refuses: nothing is marked, and the journal keeps the entries.
TakeBackDenied(p) ==
    /\ Fault("deny")
    /\ state[p] = "asked" /\ journal[p] = {} /\ HasCheckpoint(p)
    /\ Answered(p)
    /\ journal' = [journal EXCEPT ![p] = {found[p]}]
    /\ hydrated' = [hydrated EXCEPT ![p] = found[p]]
    /\ UNCHANGED <<chat, home, current, fileVars, writing, loose, runs, history>>

-----------------------------------------------------------------------------
Init ==
    /\ state = [p \in Procs |-> "down"]
    /\ chat = [p \in Procs |-> NoChat] /\ home = [p \in Procs |-> NoChat]
    /\ journal = [p \in Procs |-> {}]
    /\ current = [p \in Procs |-> 0] /\ found = [p \in Procs |-> 0]
    /\ log = [r \in Runs |-> NoLog]
    /\ queue = [r \in Runs |-> <<>>]
    /\ saved = {} /\ changed = {}
    /\ writing = [p \in Procs |-> "no"] /\ hydrated = [p \in Procs |-> 0]
    /\ loose = [r \in Runs |-> 0]
    /\ runs = 0 /\ faults = 0
    /\ over = {} /\ cut = {} /\ decided = {} /\ undone = {} /\ kinds = {}

Next ==
    \E p \in Procs :
        \/ \E c \in Chats : Start(p, c) \/ SwitchChat(p, c)
        \/ Quit(p)
        \/ \E torn \in BOOLEAN : Crash(p, torn)
        \/ BeginRun(p) \/ BeginRunUnlogged(p)
        \/ WriteFile(p) \/ Push(p) \/ Save(p) \/ SaveFails(p)
        \/ \E r \in Runs, c \in Chats : Prune(p, r, c)
        \/ EndRun(p)
        \/ AppendLine(p) \/ AppendFails(p)
        \/ Closed(p)
        \/ UndoOwn(p)
        \/ Find(p)
        \/ Later(p) \/ Keep(p) \/ TakeBack(p) \/ TakeBackDenied(p)

Spec == Init /\ [][Next]_vars

-----------------------------------------------------------------------------
(* Properties *)

TypeOK ==
    /\ state \in [Procs -> {"down", "idle", "asked", "run", "closing"}]
    /\ chat \in [Procs -> Chats \cup {NoChat}] /\ home \in [Procs -> Chats \cup {NoChat}]
    /\ journal \in [Procs -> SUBSET Runs]
    /\ current \in [Procs -> 0..runs] /\ found \in [Procs -> 0..runs]
    /\ \A p \in Procs : (state[p] = "asked") = (found[p] # 0)
    /\ log \in [Runs -> LogFile \cup {NoLog}]
    /\ queue \in [Runs -> Seq({"event", "end"})]
    /\ saved \subseteq Runs \X Chats /\ changed \subseteq Runs
    /\ writing \in [Procs -> {"no", "wrote", "pushed"}] /\ hydrated \in [Procs -> 0..runs]
    /\ loose \in [Runs -> Nat]
    /\ runs \in 0..MaxRuns /\ faults \in 0..MaxFaults

Reported(p, r) == state[p] = "idle" /\ state'[p] = "asked" /\ found'[p] = r

\* A run is reported only if it was really interrupted: not one whose run() came
\* to its end, and not one that is still going.  It takes a log that could be
\* written, and for the last part no other instance in the same chat.
OnlyInterruptedRunsAreReported ==
    [][\A p \in Procs, r \in Runs :
          /\ Reported(p, r) /\ "disk" \notin kinds => r \notin over
          /\ Reported(p, r) /\ "shared" \notin kinds =>
                \A q \in Procs : Working(q) => current[q] # r]_vars

\* "so findInterruptedRun stops reporting it on the next start": a decision is
\* asked for once, unless the log ends in half a line.
DecidedOnce ==
    [][\A p \in Procs, r \in Runs :
          Reported(p, r) /\ "torn" \notin kinds => r \notin decided]_vars

\* A run that was cut, newest in its chat and not decided about, is there to be
\* reported.
CutRunsCanBeReported ==
    \A r \in cut \ decided :
        log[r] # NoLog /\ r = Max(LogsOf(log[r].chat)) => ~log[r].ended

\* Its saved changes can be taken back by an instance started in its chat, and
\* they are all but the one it was making, where its checkpoints could be
\* written.  "resume.ts correlates the two by this id."
CutRunsCanBeTakenBack ==
    \A r \in cut \ decided :
        /\ r \in changed /\ log[r] # NoLog => <<r, log[r].chat>> \in saved
        /\ "disk" \notin kinds => loose[r] <= 1

\* That is true of runs in the chat their instance was started with, as long as
\* no checkpoint was pruned.
CutRunsCanBeTakenBackAtHome == kinds \cap {"moved", "pruned"} = {} => CutRunsCanBeTakenBack

\* A run that was taken back and reported so has left nothing in the files but
\* the one change it was making when it was cut, unless it ran away from home,
\* went on in another instance, or its checkpoint was pruned or not written.
TakenBackIsGone ==
    kinds \cap {"moved", "shared", "pruned"} = {} =>
        /\ undone \cap changed = {}
        /\ "disk" \notin kinds => \A r \in undone : loose[r] <= 1

\* An interrupted run can be found, taken back, and is then gone (findInterruptedRun,
\* undoInterruptedRun).
CutRunsAreKept == CutRunsCanBeReported /\ CutRunsCanBeTakenBackAtHome /\ TakenBackIsGone

\* The question about an interrupted run is about such a run, and comes once.
ReportsAreRight == OnlyInterruptedRunsAreReported /\ DecidedOnce
=============================================================================
