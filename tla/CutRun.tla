-------------------------------- MODULE CutRun --------------------------------
(***************************************************************************)
(* What is left of a run that was cut, and what the next start says of it: *)
(* the lines of its log that had reached the file, the checkpoint of its   *)
(* changes, the summary made of the one, the drift made of the other, and  *)
(* the undo offered beside them.                                           *)
(***************************************************************************)
EXTENDS Naturals, Sequences, SequencesExt

CONSTANTS Paths,
          MaxCalls,   \* bound: calls of write_file and replace_text in the run
          MaxMishaps  \* bound: checkpoints that cannot be written or are pruned, external edits

VARIABLES calls,     \* the calls begun: file, what it held, the list to save, how far the call is
          lines,     \* the log: lines in the file, and lines queued
          journal,   \* the entries in memory, and those in the checkpoint
          files,     \* the content of each file: the call that wrote it, 0, or "edited"
          report,    \* "running", "down", "reported" or "undone"; what was reported
          mishaps    \* number and kinds; and whether a file was edited since the report
cut == <<calls, lines, journal, files, report, mishaps>>

Original == 0
Edited == MaxCalls + 1
Gone == MaxCalls + 2
NoReport == [is |-> "running", changed |-> {}, unfinished |-> {}, drift |-> {}, restored |-> {}]

CutInit ==
    /\ calls = <<>>
    /\ lines = [inFile |-> <<>>, queued |-> <<>>]
    /\ journal = [entries |-> <<>>, checkpoint |-> <<>>]
    /\ files = [f \in Paths |-> Original]
    /\ report = NoReport
    /\ mishaps = [count |-> 0, since |-> FALSE, kinds |-> {}]

Live == report.is = "running"
Says(kind, c) == lines' = [lines EXCEPT !.queued = Append(@, [is |-> kind, call |-> c])]
Reaches(c, stage) == calls' = [calls EXCEPT ![c].stage = stage]
CallAt(c, stage) == Live /\ c \in DOMAIN calls /\ calls[c].stage = stage
Mishap(kind) ==
    /\ mishaps.count < MaxMishaps
    /\ mishaps' = [mishaps EXCEPT !.count = @ + 1, !.kinds = @ \cup {kind},
                                  !.since = @ \/ report.is = "reported"]

(***************************************************************************)
(* The run.  Calls of one round overlap.                                   *)
(***************************************************************************)
ToolStart(f) ==
    /\ Live /\ Len(calls) < MaxCalls
    /\ calls' = Append(calls, [file |-> f, before |-> Original, list |-> <<>>,
                              stage |-> "started"])
    /\ Says("start", Len(calls'))
    /\ UNCHANGED <<journal, files, report, mishaps>>
\* The file is read; the approval follows.
Reads(c) ==
    /\ CallAt(c, "started")
    /\ calls' = [calls EXCEPT ![c].stage = "read", ![c].before = files[calls[c].file]]
    /\ UNCHANGED <<lines, journal, files, report, mishaps>>
Writes(c) ==
    /\ CallAt(c, "read")
    /\ files' = [files EXCEPT ![calls[c].file] = c]
    /\ Reaches(c, "wrote")
    /\ UNCHANGED <<lines, journal, report, mishaps>>
\* record pushes the entry; the list as it is then is what the call saves, and calls save theirs
\* side by side.
Pushed(c) == Append(journal.entries, [file |-> calls[c].file, before |-> calls[c].before, after |-> c])
Pushes(c, list) ==
    /\ CallAt(c, "wrote")
    /\ journal' = [journal EXCEPT !.entries = Pushed(c)]
    /\ calls' = [calls EXCEPT ![c].stage = "pushed", ![c].list = list]
    /\ UNCHANGED <<lines, files, report, mishaps>>
\* MUTANT: the list to save is taken before the entry is pushed.
PushLate(c) == Pushes(c, journal.entries)
Push(c) == Pushes(c, Pushed(c))
\* The rename of the checkpoint; a call that pushed later may have been here first.
Older(c) == Len(calls[c].list) < Len(journal.checkpoint)
Persist(c) ==
    /\ CallAt(c, "pushed")
    /\ journal' = [journal EXCEPT !.checkpoint = calls[c].list]
    /\ mishaps' = [mishaps EXCEPT !.kinds = IF Older(c) THEN @ \cup {"older"} ELSE @]
    /\ Reaches(c, "recorded")
    /\ UNCHANGED <<lines, files, report>>
\* Where it cannot be written the call fails, with the file written and the entry pushed.
PersistFails(c) ==
    /\ CallAt(c, "pushed") /\ Mishap("unwritable")
    /\ Reaches(c, "failed")
    /\ UNCHANGED <<lines, journal, files, report>>
ToolEnd(c) ==
    /\ CallAt(c, "recorded") /\ Reaches(c, "ended") /\ Says("end", c)
    /\ UNCHANGED <<journal, files, report, mishaps>>
\* After a failed save, or a read, approval or write that fails.
ToolError(c) ==
    /\ CallAt(c, "failed") \/ CallAt(c, "read")
    /\ Reaches(c, "error") /\ Says("error", c)
    /\ UNCHANGED <<journal, files, report, mishaps>>
AppendLine ==
    /\ Live /\ lines.queued # <<>>
    /\ lines' = [inFile |-> Append(lines.inFile, Head(lines.queued)), queued |-> Tail(lines.queued)]
    /\ UNCHANGED <<calls, journal, files, report, mishaps>>
\* The process ends; a line half written is skipped when the log is read.
Dies ==
    /\ Live
    /\ lines' = [lines EXCEPT !.queued = <<>>]
    /\ journal' = [journal EXCEPT !.entries = <<>>]
    /\ report' = [report EXCEPT !.is = "down"]
    /\ UNCHANGED <<calls, files, mishaps>>

\* pruneCheckpoints, at any start of any instance: what is too old or too much.
Prune ==
    /\ journal.checkpoint # <<>> /\ report.is # "undone" /\ Mishap("pruned")
    /\ journal' = [journal EXCEPT !.checkpoint = <<>>]
    /\ UNCHANGED <<calls, lines, files, report>>
Edit(f, how) ==
    /\ report.is # "undone" /\ Mishap("edited")
    /\ files' = [files EXCEPT ![f] = how]
    /\ UNCHANGED <<calls, lines, journal, report>>

(***************************************************************************)
(* The next start: findInterruptedRun, summarizeRun, checkRunFileDrift.    *)
(***************************************************************************)
Said(kind) == {l.call : l \in {x \in ToSet(lines.inFile) : x.is = kind}}
FilesChanged == {calls[c].file : c \in Said("end")}
\* Shown as failed, or as not completed.
Unfinished == (Said("start") \cup Said("error")) \ Said("end")
\* One entry of the list for each entry of the checkpoint.
Status(e) == CASE files[e.file] = e.after -> "matches"
               [] files[e.file] = Gone -> "missing"
               [] OTHER -> "modified-since"
Drift == {[file |-> e.file, status |-> Status(e)] : e \in ToSet(journal.checkpoint)}
Report ==
    /\ report.is = "down"
    /\ report' = [report EXCEPT !.is = "reported", !.changed = FilesChanged,
                                !.unfinished = Unfinished, !.drift = Drift]
    /\ UNCHANGED <<calls, lines, journal, files, mishaps>>

\* undoInterruptedRun: the entries of the checkpoint, the last first; a file that does not hold
\* what the entry wrote is left alone.
Back(s, e) == IF s.files[e.file] = e.after
              THEN [files |-> [s.files EXCEPT ![e.file] = e.before],
                    restored |-> s.restored \cup {e.file}]
              ELSE s
Undone ==
    LET back[i \in 0..Len(journal.checkpoint)] ==
            IF i = 0 THEN [files |-> files, restored |-> {}]
            ELSE Back(back[i - 1], journal.checkpoint[Len(journal.checkpoint) + 1 - i])
    IN  back[Len(journal.checkpoint)]
Undo ==
    /\ report.is = "reported"
    /\ files' = Undone.files
    /\ report' = [report EXCEPT !.is = "undone", !.restored = Undone.restored]
    /\ journal' = [entries |-> <<>>, checkpoint |-> <<>>]
    /\ UNCHANGED <<calls, lines, mishaps>>

CutNext ==
    \/ AppendLine \/ Dies \/ Prune \/ Report \/ Undo
    \/ \E f \in Paths : ToolStart(f) \/ \E how \in {Edited, Gone} : Edit(f, how)
    \/ \E c \in 1..MaxCalls :
          \/ Reads(c) \/ Writes(c) \/ Push(c) \/ Persist(c) \/ PersistFails(c)
          \/ ToolEnd(c) \/ ToolError(c)
CutSpec == CutInit /\ [][CutNext]_cut
-----------------------------------------------------------------------------
(* Properties *)

Kept(c) == calls[c].stage \in {"recorded", "ended"}
InDrift(f) == \E d \in report.drift : d.file = f

\* The report names no file as changed that no call of the run has written and recorded; what
\* a call has written and recorded is named - as changed, or as a call that was not completed,
\* once its first line had reached the log - and it can be taken back whether its lines had
\* reached the log or not, and whichever other call could not save the list; unless the
\* checkpoint was pruned, or calls ran side by side and an older list came to lie over a newer.
\* (RunLog.write, summarizeRun, ChangeJournal.record, checkRunFileDrift)
CutRunIsToldRight ==
    report.is = "reported" =>
        /\ report.changed \subseteq {calls[c].file : c \in {d \in DOMAIN calls : Kept(d)}}
        /\ \A c \in DOMAIN calls : Kept(c) =>
              /\ c \in Said("start") => calls[c].file \in report.changed \/ c \in report.unfinished
              /\ mishaps.kinds \cap {"pruned", "older"} = {} => InDrift(calls[c].file)

\* "ein Zurücknehmen würde diese auslassen": where nothing was edited in between, undo restores
\* exactly the files reported as unchanged, of those the run wrote once.
\* (checkRunFileDrift, undoInterruptedRun)
WrittenOnce(f) == \E c \in DOMAIN calls : {d \in DOMAIN calls : calls[d].file = f} = {c}
DriftTellsWhatUndoSkips ==
    report.is = "undone" /\ ~mishaps.since =>
        \A d \in report.drift :
            WrittenOnce(d.file) => (d.file \in report.restored) = (d.status = "matches")
===============================================================================
