# orcode in TLA+

orcode is a terminal coding agent: it sends a chat to a language model through
OpenRouter, lets the model read and change files and run commands in a
workspace, and keeps chats, costs, run logs, undo data and permissions under
`~/.orcode`. Several instances may run at once, for the same workspace and even
the same chat; nothing but files connects them. This directory has a TLA+ model
of the parts where that is hard, TLC configurations for small instances, and
proofs checked by TLAPS. All paths below are relative to `src/src/`.

## 1. Inventory

### The parts, what they keep, and what makes them correct

| Part | State | Hard | Correct means |
|---|---|---|---|
| **chat store** `session.ts` | per chat the file, its `.lock`, `.konflikt` copies; per instance `#data`, `#base` | concurrent saves, dead or slow lock holders, failing writes, damaged files | saves exclude each other; no exchange and no cost is lost or counted twice; a save ends |
| **old sessions** `session.ts` | the one chat of the former layout and its marker | instances that start together, crash half way, a user who deletes the result | imported once, never lost, not brought back |
| **conversation memory** `conversation.ts` | `.state` file of the chat, its lock, buffer and loaded state | memory that outlives what the transcript shows; two committers, two waiters for one dead lock; restarts | the model remembers nothing that was cut from the transcript and no failed run; no newer state is replaced |
| **change journal** `workspace.ts`, `read-registry.ts` | files, journal entries, checkpoint per run, what the agent has read | other programs write at any time; overlapping calls; refusal, a failing write or death half way | undo gives back what was there and never overwrites somebody else's change |
| **run log, resume** `runlog.ts`, `resume.ts` | one log per run, queue of unwritten lines | death at any line and between a file, its journal entry and its checkpoint; a chat switch between log and checkpoint; pruning | exactly the interrupted runs are reported, once, truly, and can be taken back |
| **approvals, rules** `approval.ts`, `rules.ts`, `tui.ts` | mode, rejection counts, remembered rules, `permissions.json`, the one dialog | parallel calls and one dialog; several instances, one file | a protected path needs its own yes; the rejection limit holds per run; rules persist |
| **agent run** `agent.ts` | step and tool numbering, open tools, stop reasons, spent cost | parallel tools, aborts, streams that break in one of two channels, tools that outlive the run | one honest outcome; events in order; costs booked once |
| **run view** `ui/view-model.ts` | blocks, header, thinking line | events of parallel tools, ids used again | it shows as running what runs |
| **budget** `session.ts`, `agent.ts`, `commands.ts` | the daily spend of every chat | spend and check are not one step; costs of failed calls | every cost is booked once; a limit is missed by no more than runs under way spend |
| **connection** `reconnect.ts`, `openrouter.ts` | attempts and announcements per request | time limit, late answer, abort while waiting, two requests of one kind | bounded attempts and time; announcements match what happens; every request ends |
| **credentials** `credentials.ts`, `cli.ts`, `commands.ts` | the keychain's entry, the key of each instance, cached clients | a key revoked or replaced between check and consequence | a usable key is kept, a rejected one not used, clients follow the key |
| **dashboard and settings** `cli.ts`, `commands.ts`, `reasoning.ts` | model, thinking, mode, images, metadata; the same on disk and per chat | order of commands, failing writes, metadata that arrives late | settings fit the model and the open chat; nothing unsafe without a yes |
| **terminal** `tui.ts`, `command-catalog.ts` | mode, resolvers of dialogs, paste buffer, queue, input line | a question over another, two approvals at once; paste; Ctrl+C anywhere | keys go where the program waits; lines arrive once; a draft is kept |
| **file, search and text tools** `workspace.ts`, `ui/diff-view.ts` | none that outlives a call | cuts at several places, overlapping matches | what is cut is told; the preview is the change |
| **commands, verification, ssh** `workspace.ts`, `verify.ts`, `ssh.ts` | process group, pipes, output buffer, timers | limit, abort, leader and child that die apart | what was shown is the result; a stopped group dies |
| **configuration** `config.ts` | `config.json` and its backup | two programs at once; a broken file | nothing readable or unreadable is lost; what was set is what is loaded |
| **voice** `voice.ts`, `transcribe.ts` | recorder process, phase, limits, temporary directory | three ways to end at the same time | consent, one end, no file left |
| **browser** `browser.ts` | process, socket, pending calls, profile | answer after the limit, a connection that goes | every call settles; process and profile go |
| **images** `attachments.ts` | pending and submitted images | files change between check and read | no message has more, larger or other images than allowed |
| **answer filter** `agent.ts` | held-back text of a stream | markers split over chunks | what is shown is what is kept |
| **compression, panel** `compressor.ts`, `distill.ts`, `panel.ts` | none | partial results, paid and failed | part of agent run, chat store and budget |
| **policy, ignore, secrets, rendering** | none | string edge cases | - |

### How they interact

A run (`OrcodeAgent.run`) opens a run log under the chat the session is in,
loads the conversation memory, streams the answer, and executes tools through
approvals and the change journal. Its epilogue puts the exchange and its cost
into the session, saves the chat, and commits or discards the memory - in this
order, so a crash between the two leaves a memory that is behind the chat,
never one that is ahead. The dashboard reads lines from the terminal and runs
them as commands or as requests, shows the events of a run, and asks the user
for approvals in between. It switches chats by giving the same agent another
session (`setSession`), and takes model, thinking and images along; `/clear`,
`/checkpoint restore` and compression change the session and reset the memory.
At a start, the newest log of the chat without a `run-end` is offered for
resuming or undoing, which reads the checkpoint back into the journal.
Instances meet only in the chat file, the state file, `permissions.json`,
`config.json`, the keychain and the workspace.

`PROJECT.json` lists every component with its status, and under `hazards`
each place where this code is hard to test, with the properties that cover it.

## 2. Modules

| Module | Models | Runs |
|---|---|---|
| `ChatStore` | one chat file and the instances that share it | `store_sharing`, `store_accidents` |
| `ConversationMemory` | the state file and the runs that feed it | `memory_shared` |
| `ChangeJournal` | writing tools, journal, checkpoint, undo, read registry | `journal_work` |
| `InterruptedRuns` | run log and resume, over chats and restarts | `resume_restart` |
| `Approvals` | decision, dialog, rules, rejection limit | `approvals_questions` |
| `RetriedRequest` | the promise of the connection layer, abstractly | `reconnect_requests` |
| `Reconnect` | retries, waits, aborts, the monitor; implements `RetriedRequest` | `reconnect_requests` |
| `ApiKeys` | keychain, keys in force, checks, replacement | `api_keys` |
| `AgentRun` | one run of the agent and its events | `agent_run` |
| `RunView` | `AgentRun` composed with the view model | `agent_run` |
| `TerminalInput` | modes, promises, queue, Ctrl+C, the dashboard's loop | `terminal` |
| `Settings` | model, thinking, mode, images, metadata through all chat commands | `settings` |
| `Recorder`, `Spending`, `BrowserCheck`, `ShellCommand`, `TextChanges`, `AnswerFilter`, `ConfigFile`, `LegacyImport`, `CutRun`, `LineEditor`, `FileAnswers`, `ImageSet` | one small part each | `parts` |
| `ChatStoreProofs`, `ConversationMemoryProofs`, `InterruptedRunsProofs`, `ApprovalsProofs`, `RunViewProofs` | theorems about the module of that name (`RunViewProofs`: `AgentRun` too) | TLAPS |
| `DashboardProofs` | theorems about `Settings` and `TerminalInput` | TLAPS |
| `PartsProofs` | theorems about `Recorder`, `LegacyImport`, `ConfigFile`, `ShellCommand`, `BrowserCheck`, `Spending`, `LineEditor`, `Reconnect`, `ApiKeys` | TLAPS |
| `ListProofs` | theorems about `ChangeJournal`, `CutRun`, `ImageSet`, `FileAnswers` | TLAPS |
| `MC...` | constants, symmetry and bounds of the TLC instances | |

They share conventions. An instance of orcode is an element of `Procs` (or `Programs`,
`Starts`). JavaScript runs one callback at a time, so what lies between two `await`s is
one action, and every `await` is a place where other actors may step in. Things that go
wrong or happen rarely are *faults* of a kind, enabled by a constant and limited in
number; `kinds`, `past` or `mishaps` remembers which happened so that a
property can say under which it holds. Variables headed "history" are read by
properties only. Operators marked `MUTANT` are plausible bugs of the definition below them
or named; each property is violated when the matching mutant replaces the definition.

### ChatStore

`data` and `base` are `#data` and `#base`; `file` is the chat file, `lock` the
lock file with its three readable states (empty, filled in, owner dead). `pc`
walks through `save()`: `open` (`open(..., "wx")`), `info` (write the
LockInfo), `probe` and `steal` (`removeStaleLock`), `read`
(`readForeign` and `mergeSessions`), `aside`, `write`, `drop`. `FinishRun`,
`BookCost`, `Clear`, `Leave`, `OpenChat`, `DeleteFile` are the operations
that end in a save. An exchange (user and assistant turn) is the clock value of
its creation, so a turn list sorted by `createdAt` is a set of numbers and
`slice(-n)` is `Newest`; the cost columns merge alike and are one,
the daily spend is another because `/clear` spares it. One-process queueing
(`enqueueWrite`) is the guard `pc[p] = "idle"`. Time is not modelled:
waiting is stuttering, and that a wait or an age runs out although the holder
lives is the fault `slow`.

### ConversationMemory

An SDK state is the set of exchanges it was built from. `store`, `buffer`,
`seen` are the fields of `ConversationStore` and the result of commit's
read; `pc` is the run (`run`), then the commit (`commit`, `read`, `write`,
`release`), with `break` between the end of the wait for a lock (`DeadlineOverDead`,
`DeadlineOverSlow`) and its `unlink`, where another waiter may have taken the lock anew.
Saving the chat is one atomic merge here; ChatStore has its
interleavings. Adding a turn and merging both cut the transcript to `MAX_TURNS`; what is
cut so is only remembered longer than shown, which the code accepts, and history (`trimmed`)
keeps it apart from what `/clear`, a restore or a compression cut. `Usable` is the
turn-count test of `open()`. `regrown` and `recalled` (history) say when that count cannot
tell any more that the state file is older than a cut, `robbed` that a lock was unlinked
under a live owner. Instances end and restart anywhere, and taking the lock or
writing the file may fail (`CommitFails`).

### ChangeJournal

`call[c]` is one tool call between its awaits: `check`, `ask`, `write`,
`record`, `persist`. `record()` pushes the entry and then writes the list as it was at that
moment; the write may fail (`PersistFails`), and the entry stays for a later write to carry along.
Writes and removals of files fail too (`WriteFails`, `UndoWriteFails`), and any start of another
instance may prune a checkpoint (`Prune`). `behind` (history) has the runs whose last checkpoint
write failed or whose checkpoint was pruned. `undo` is an `undoLastRun` with the entries it has still
to visit. `noted` is what the read registry would say of a file. `External` is
any other program. `origin` (history) keeps what a file held before the run's
first write, which is what undo promises to give back; `contended` has the runs and files for
which two calls were open at once. They may be recorded in another order than they wrote, and undo
goes back in the order of the records. That exception of `UndoReturnsToStart` came out of
its proof: it takes three calls for one file, one more than `journal_work` has open at once
(section 5).

### InterruptedRuns and CutRun

`queue[r]` holds the lines of run r's log that are not in the file: `write()`
appends to it, `AppendLine` moves one into the file in the background,
`Closed` is `close()` having waited for all. `home` is the chat the agent's
journal was made for, `chat` the one its session is in. A change goes through three steps (`writing`): the file
is written, the entry pushed, the checkpoint saved, and a crash may come between any two or the save
fail. What was saved is one thing here (`changed`), and undo of it one step; `loose` counts the changes in
the files that no checkpoint has, and `hydrated` is the run whose entries came from disk. The changes
of a run come one after another here. `CutRun` has the inside of that for a
single run whose calls overlap: a call pushes its entry and takes the list to save with it, and whoever
renames last leaves its own list, possibly an older one (`Older`). It has the lines and
entries that were there when the run was cut, the summary made of the log, the drift made of
the checkpoint, edits before and after the report, checkpoints that cannot be written or
are pruned, and the undo.

### Approvals

`calls` has every tool call with what became of it; `dialog[p]` is the call
that `#confirmResolve` answers. A remembered rule is named by the call
whose answer was remembered; `Covers` says which subjects a rule's subject
matches (the glob and prefix matching of `rules.ts`, given as a relation). Only a request with a
`command` or a `path` has a subject (`subjectOf`), and in this program only those of `ssh_command` have:
"always" and "never" to any other request count for that one call. A request
carries the outcome of `policy.ts` as `risk` and `protected`. `known`, `gone`,
`kept`, `dropped` are history for what "remembered" and "forgotten" mean across instances.

### Reconnect and RetriedRequest

A request is named by the context object its caller made, the key of the monitor's
map. `phase` walks through `fetchWithReconnect`: `begin`, `fly`, `wait`, then an end.
`Policy` is `RETRY_POLICY` in milliseconds; a delay is the backoff or the capped
`Retry-After`, and `spent` adds up what the caller has waited. Model streams are repeated
by the SDK, which calls the monitor from hooks (`openrouter.ts`, `client`): they share the
monitor's actions, but not the loop. `mon` is the monitor's count of attempts, `told` its last
announcement. `RetriedRequest` has what a caller may rely on in four actions; `Outcome` maps
the live phases to "open", and `PromiseKept` is its full specification, liveness included.

### ApiKeys

One keychain entry for all instances, `key[p]` the key in force with its origin, `pc[p]`
the check (`check`, `delete`, `spare`, `validate`, `store`) or the prompt it ends in.
`health` is OpenRouter's opinion of a key and may get worse at any time; `clients[p]` are
the keys of the cached clients. Modes are those of the program: dashboard, plain, batch.

### AgentRun and RunView

`cur` is the closure of `#run`: numbers of steps and tool calls, open calls, observed cost,
stop reason; `old` the closure of the run before, whose hooks may still fire. `sdk` is the
environment: it calls the hooks in the SDK's order, runs the tools of a round in parallel, and
decides which of text and reasoning stream breaks. `told` has the events of a step; `shown`
is the history a reader of the events would have. The steps are the awaits of
`run`: `check` (budget), `compress`, `book`, `input`, `ready`, `stream`, `response`, `save`,
`memory`. A run that compressed its context and succeeded leaves a memory that was reset: the commit finds
nothing and writes no file (`Committed`). `RunView` conjoins each step with `RunViewModel.apply` of the events it tells.

### TerminalInput and LineEditor

`ui` is `TerminalUi`: its one mode, the promises handed out (`pending`), draft, paste
buffer and queue. `prog` is where `runDashboard` waits: for a line, in a command, in a
run. Tools of one round may ask at the same time: the later approval takes the resolver over (`Approval`,
`ui.asked`), and `tools` (history) knows which calls still wait and which were overtaken. A piece of text is the keystroke that made it, so "typed once, arrives once" can
be said. `LineEditor` has the keys of the idle line on a text of a few letters, blanks and
newlines: cursor, words, history and its search, command list, `@` completion, Enter.

### Settings

`config` is the configuration in memory, `disk` the configuration file and the preferences
of each chat file, `chat` the open session, `info` the dashboard's metadata of its model,
`asked` the request of the start that may still be on its way. Each command that opens,
picks, forks, starts or deletes a chat is one action, with the writes that did not happen
(`lost`) chosen in the order the handler makes them.

### The twelve parts

They share no state, so they are one run: `MCParts` picks one `part` at the start and
conjoins its `Init`; every step is a step of that part. Its variables are the first of
`s1` to `s6`, by INSTANCE ... WITH; the properties speak of a part while it is the one.
TLC visits the sum, not the product, of their states.
Where a part has a theorem, its limits, files and texts are constants of `MCParts`, with their named assumptions there.

- `Recorder`: consent, the process, size and time limit, Enter and Escape, transcription and
  the temporary directory, for each recording; `phase` is claimed before the awaits.
- `Spending`: runs, panels and transcriptions paid, booked and saved over days by several
  instances, `/clear`, deletion, exits; and `evaluateBudget` before a run.
- `BrowserCheck`: process, socket with pending calls by number, the inspection that goes on
  behind a limit that has decided; removing the profile may fail, which the code accepts.
- `ShellCommand`: leader and child of a process group, pipes, output limit, live view,
  abort, SIGTERM and SIGKILL; and what `run_command`, `git_diff`, ssh and a verification make of the end.
- `TextChanges`: `replaceLiteral`, and the diff (common ends, table, hunks, headers, cut) as
  algorithms, compared with a longest common subsequence found by trying all. Texts have lines that end in CRLF or
  LF and lines longer than a preview shows: the split at `/\r?\n/` and `oneLineLimited` are modelled by what they drop.
- `AnswerFilter`: the stream filter for suggested replies over all chunkings of short answers,
  compared with a definition on the whole answer.
- `ConfigFile`: load, validation per field, the broken file moved aside, atomic writing, by two programs.
- `LegacyImport`: the import of the old chat, by instances that start at once.
- `CutRun` and `LineEditor`: see above.
- `FileAnswers`: the cuts of `read_file`, `list_files`, `search_files` and what `truncated` says, over all small workspaces.
- `ImageSet`: images inspected, kept, opened, checked (size, then type) and read while files change.

## 3. What the runs check

Every run passes; in each, every property is also violated by the mutant listed for it.

| Run | Instance | Shows |
|---|---|---|
| `store_sharing` | 3 instances, 4 operations, one crash or chat switch | `NoTurnLost`; `LedgerExact`: daily spend on disk is exactly what was booked; `SavesAreSound`: one instance decides at a time, a merge is skipped only if nothing changed, no revision is used twice |
| `store_accidents` | 2 instances, 2 operations, 2 accidents of any kind | `AccidentsAreSurvived`: nothing is booked twice unless a write failed, one crash makes no saved exchange forgotten; `SaveCompletes` (liveness): no lock left behind blocks a chat |
| `memory_shared` | 2 instances, transcripts of 2 exchanges, 3 runs, one `/clear` or restore, 3 of restart, slow holder, disk error | `MemoryFollowsTranscript`: no failed run is committed (`OnlyFinishedRuns`), and what the model is given to remember was never cut from the transcript of an instance alone with its chat, over its restarts, but in the case of section 5; `NoStateClobbered` until a lock is unlinked under a live owner; `CommitEnds` (liveness) |
| `journal_work` | 2 files, 2 texts, 2 parallel calls, 3 writes in 2 runs; 2 of edits, refusals, crashes, disk errors, pruning, or overlapping calls with one crash or disk error | `JournalIsHonest`: the checkpoint keeps up, and catches up after a write that failed; a crash leaves at most one written file unrecorded, the preview is honest for files written once; `UndoIsRight`: undo returns files to their start, unless two calls of a file were open at once, and spares what others changed before it |
| `resume_restart` | 2 instances, 2 chats, 2 runs, 2 of crash, disk error, refusal, or one pruning | `ReportsAreRight`: only interrupted runs are reported, a decision is asked for once; `CutRunsAreKept`: a cut run is there to be reported and, at home, to be taken back, all but the one change it was making; taken back means gone |
| `approvals_questions` | 2 instances, 3 calls, 2 runs, 3 starts, limit 2 | `ProtectedOnlyByYes`; `RulesAreKept`; `QuestionsAreAnswered`: the rejection limit holds and is per run, a lone question keeps its dialog |
| `reconnect_requests` | 2 requests of any kind, the real policy, streams of 3 tries | `AttemptsAreCounted`; `WaitingIsBounded`: time limit, order of announcements, an announced retry happens (liveness); `PromiseKept`: Reconnect implements RetriedRequest |
| `api_keys` | 2 instances, 2 keys, 2 uses, any modes | `KeyInForce`: usable keys stay but in two named cases, rejected ones are not used, clients follow; `CheckEnds` (liveness) |
| `agent_run` | 2 rounds, 1 tool with 2 inputs, 2 parallel calls, one fault | `ResultIsHonest`: outcome, chat and memory agree, costs are booked once; `EventsInOrder`; `ViewFollowsRun`; `AbortedRunEnds` (liveness) |
| `terminal` | 4 texts, 3 Enters, 3 questions, 1 tool that outlives its run | `LinesAreTheUsers`: keys go where the program waits, and of several calls that ask to the last; lines arrive once and in order, secrets are never lines; `UserGetsOut` (liveness) |
| `settings` | 2 models, 2 chats, 1 image, 5 commands or starts, 1 failed write | `SettingsFit`: allow-all only by yes, images only to models that take them, thinking fits; `ChatsKeepTheirSettings` |
| `parts` | the twelve parts, each in an instance of its own (`MCParts`) | one property for each part, below |

| Part | Property |
|---|---|
| `Recorder` | `RecordingsStayPrivate`: sent only after consent, once, never after Escape; at rest no file is left, but in two named cases |
| `Spending` | `SpendingIsBounded`: every cost is booked on one day, once, or under way, but those of failed panel calls, deleted chats and dead processes; a day passes its limit by at most a run of each instance and what is not checked |
| `BrowserCheck` | `InspectionLeavesNothing`: process dead or killed, profile gone unless its removal failed, no call waits on a lost connection unless it was sent later |
| `ShellCommand` | `CommandsAreContained`: shown = kept, cut exactly when told, a cancelled verification has no verdict, a stopped group dies |
| `TextChanges` | `TextChangesAreTrue`: the preview of `write_file` is a minimal account of the change of lines, complete but for what it counts as omitted; it shows none only if line ends alone changed; lines that differ look alike only if both are cut. A replacement is literal, and its approval shows the beginnings of both blocks |
| `AnswerFilter` | `AnswerIsWhatIsLeft`: for every chunking |
| `ConfigFile` | `SettingsSurvive`: with one program at a time a broken file is still somewhere and what was set is loaded |
| `LegacyImport` | `ImportedOnce` |
| `CutRun` | `CutRunIsToldRight`: the report and the undo agree with what was recorded, unless a checkpoint was pruned or an older list landed last |
| `LineEditor` | `DraftIsKept`: what a key may do to the rest of a draft (action property) |
| `FileAnswers` | `CutIsTold`: an answer not marked truncated is complete but for the cuts that `Untold` names |
| `ImageSet` | `ImagesSentAreAllowed` |

A condition inside a property (`"late" \notin kinds`, `~past.raced`, ...) names a case in
which the code does not keep it; section 5 says what happens then.

### Bounds, and why they are enough

Three instances in `store_sharing` let a third act between two that conflict
(two may hold, or think they hold, the lock while the third reads); 4 operations
let one instance save twice around another's save, which every lost-update and
double-count scenario needs. `MaxTurns` 3 is reached, so the trimming of
the merge takes part. `store_accidents` needs two accidents because the bad
cases are pairs (a stolen lock and a crash). Two chats, two runs and two faults
are what "the log here, the checkpoint there" and "reported twice" take. Two
parallel calls and one irregularity at a time are the least that show an overlap or a
race; `OverlapOrFaults` (overlapping calls with at most one crash or failing disk), `PrunedAlone`
and `OneIrregularity` are named CONSTRAINTs of the MC modules, and the theorems hold without them.
In `memory_shared` transcripts of two exchanges are full after two of three runs, so `MAX_TURNS` cuts;
three faults let a holder die and both waiters for its lock go on. Two instances in `store_accidents` do
not show two waiters for one lock of the chat file: that case is the theorem's (`Survived`). Two requests of equal kind are what a monitor keyed by kind instead
of context would confuse; `Policy` has the code's numbers, so attempts and time are not
cut short. Two keys and two instances let one replace the entry the other is deleting.
Two inputs of one tool and two calls give pairs with equal and with different inputs, which
the matching of ends to starts must tell apart. Three questions in the
terminal are a question over a question over an input; five commands in the dashboard are
enough to set, leave, change elsewhere, return and send. In `parts` the texts, trees and
lists are as long as the algorithms' longest pattern plus a neighbour on each
side, which reaches every branch: a marker split at every place, two hunks that merge or do
not, a cut before, at and after a limit. Limits of the code that only count (results, bytes,
tokens) are small constants of the module, so that they are reached.

Symmetry is used only where the instance treats the elements alike, and never
with liveness. Without fairness nothing has to happen, so `CHECK_DEADLOCK FALSE` is
set everywhere: the bounds use up the operations, and an idle orcode may stay
idle. What could really block is checked as liveness instead.

### Fairness

Weak fairness is assumed only of what the event loop or a timer does by itself; nothing is
assumed of users, the network, the SDK or other programs.

- `SaveCompletes`, `CommitEnds`: the steps of an instance inside a save or a commit. The code
  awaits only file operations and timers there; a process that dies is a fault and leaves
  the saving states. A lock held by a live process is waited for as long as it is held.
- `reconnect_requests`: the steps of each request. Every attempt has a time limit and every
  wait a timer, so an answer, an error or a time-out comes.
- `CheckEnds`: the check of an instance, every request of which has a time limit.
- `AbortedRunEnds`: the run's own awaits, and that an aborted stream breaks, which is what
  the abort signal does to its iterators. Tools need not end.
- `UserGetsOut`: the loop of the dashboard goes on, and - as the property's own hypothesis - the user
  keeps pressing Ctrl+C.

## 4. What is proved

TLAPS checks every proof; assumptions are the named ASSUMEs of the modules and, where a
theorem says so, its own hypotheses. Each safety theorem rests on an inductive invariant, checked in
the usual three facts; the temporal step combines them by PTL.

`ChatStoreProofs`, for any set of instances, any amounts, any limits and
any set of faults (`ConstantsAssumption`; `SentinelAssumption`: the sentinels are no chats and no locks):

| Theorem | States |
|---|---|
| `TypeCorrect` | `Spec => []TypeOK` |
| `Inductive` | `Spec => [](Calm => IInv)` |
| `Exclusive`, `Faithful`, `Monotone`, together `Sound` | `Spec => SavesAreSound` |
| `Accounted` | `Spec => []LedgerExact` |
| `TurnsKept` | `Spec => []NoTurnLost` |
| `BookedOnce`, `NotForgotten`, together `Survived` | `Spec => []AccidentsAreSurvived` |

They rest on `Calm => IInv`, with

- `LockInv`: the lock exists exactly while its owner is in the protected part.
  Mutual exclusion alone is not inductive: `DropLock` and `StealLock`
  unlink whatever is there, so one must know whose it is.
- `BaseInv`: `#base` is a past content of the file and its revision tells which.
  This is what makes the fingerprint test sound, and the merge's deltas meaningful.
- `LedgerInv`: what was booked and not saved is the distance of an instance's
  spend from its base, and after the merge from the file.
- `TurnInv`: an exchange is missing from a memory or about to vanish from the
  file only if some instance removed it on purpose.

`Calm` says that nothing but chat switches has gone wrong; kinds of faults only
grow (`FaultsStay`), so a calm state has a calm past. `CalmNext` reduces
the steps possible in a calm state to a few shapes, and `LockStep`, `BaseStep`,
`LedgerStep`, `TurnStep` prove one conjunct each. The arithmetic of the merge
(`MergeAmountExact`) and of the turn sets (`MergeKeeps`) are lemmas of their own.

Accidents need invariants that outlive calm:

- `AtMostBooked`: short of a failed write neither the file nor any base counts more than was booked, and an instance
  is ahead of its base by its own unsaved bookings only, whoever broke whose lock.
- `CrashInv`: after one crash either nobody has written yet, and file, bases and memories are still what they were while
  the store was calm (`AsBefore`), or the first write has taken what the file held into the writer's memory, and every
  exchange is in the memory of an instance that runs (`InMemory`). TLC refuted the statement for two crashes
  of three instances (section 5), which is why `NoTurnForgotten` says one.

`ConversationMemoryProofs`, for any set of instances and any number of runs, edits
and faults (`ConversationAssumption`; `SentinelAssumption`: the sentinels are
no stores, no state files and no instances): `TypeCorrect`, `Inductive`,
`NoBrokenHistory` (`Spec => []OnlyFinishedRuns`), `MemoryIsKept` (`Spec => []MemoryFollowsTranscript`) and
`NothingClobbered` (`Spec => NoStateClobbered`).
`IInv` is `TypeOK` with

- `ReadyInv`: a run has opened its store, a commit has a buffer to write.
- `FinishedInv`: disk, stores and what a commit has read speak of finished runs only; a
  buffer may name one exchange more, that of the run in progress. `OnlyFinishedRuns` alone is
  not inductive: what reaches the disk has gone through buffer and store before.
- `TimeInv`: exchanges are numbered as they end, so that a transcript's newest are those just added.
- `CommitInv`: as long as no lock was unlinked under a live owner (`robbed`), an instance inside a
  commit owns the lock, what it has read is what lies there, and no store is ahead of the
  file. Only all three together make the revision test exclude a newer state.

`MemoryIsKept` adds `AloneInv`: for an instance nobody has joined, base, turns and chat file are one, its store has the
revision of the state file, and whoever never ran has nothing in hand. `DiskFits` in it is what a restart needs: until
turns are added after a cut, what the state file remembers lies in the oldest turns, as many as it counts, or was
trimmed, or its count is above the transcript's and gives it away. Memory within the transcript is not
inductive without them: the memory would be replaced by what another wrote, or by what the next process reads.

`ApprovalsProofs`, for any set of instances, requests, modes, rules and any matching relation
(`ApprovalsAssumption`): `OnlyByYes` (`Spec => []ProtectedOnlyByYes`), `HoldForGood`
(`Spec => []RulesAreKept`) and `EveryQuestionIsAnswered` (`Spec => []QuestionsAreAnswered`).
`IInv` adds to types

- `IDialog`: the dialog belongs to a call of its own instance that waits - else an answer could
  settle a call that was settled before;
- `IDown`: an instance that is down left no call unsettled, so none writes rules after its end;
- `IAnswered`: only answered questions are rules, so a new rule is none that was dropped;
- `IKept`: while the changes of rules neither overlap nor share the file, the file and every
  instance hold what was kept and nothing dropped, and a list on its way to the file is the
  instance's own. `RulesAreKept` speaks of what an instance knows; only with the
  file and the list in between is it inductive.

`QuestionsAreAnswered` counts rejections with `Cardinality`, and rests on `IAsk` besides: the settled rejections of
a run are counted (`ICounted`), an open question leaves room for its own rejection (`ILimit`), and a call on its
way to the rules belongs to the run in progress (`IOwnRun`). The limit alone is not inductive: the check of the
budget and the counting of the answer are steps apart.

`InterruptedRunsProofs`, for any number of programs, chats and runs: `CutRunsAreAlwaysKept`
(`Spec => []CutRunsAreKept`) and `ReportsAreAlwaysRight` (`Spec => ReportsAreRight`), from
`InvariantHolds`. `IInv` has a part for each thing log, checkpoint and programs must agree about: whose run
is going and in which chat (`IWorking`, `IFound`, `IAlone`), which logs may have an end (`IOpen`, `IOver`, `IDecided`),
and where the checkpoint of a change lies (`ISaved`), which changes may have none (`ILoose`) and
what is left of a run that was taken back (`IGone`). The logs lie in sequences with a tail
that may be torn; `Lines` says what appending to one does to its end. The newest log of a chat is a
maximum of a set: that it exists is shown by well-founded descent (`MaxIsMember`).

`PartsProofs`, about seven small modules as the run `parts` composes them:

| Theorem | States | The invariant says |
|---|---|---|
| `Private` | `[]RecordingsStayPrivate` | the recording `runVoiceCapture` waits for has not been sent, and whoever claims its end has it alone; of every other nothing is left but what the property excepts |
| `OnceForAll` | `[]ImportedOnce` | whoever is through has seen or made a marker, and once a chat is deleted nobody is on the way to save it, nor can set out |
| `ChoicesAreKept` | `[]SettingsSurvive` | one program at a time holds what is in the file, and a file under way holds what was asked for |
| `Contained` | `[]CommandsAreContained` | a group that was stopped is dead or has its SIGKILL pending, whoever stopped it |
| `NothingLeft` | `[]InspectionLeavesNothing` | who may still settle a call, and what the end of the inspection has done |
| `SpendingStaysBounded` | `[]SpendingIsBounded` | see below |
| `DraftsAreKept` | `DraftIsKept` | text, cursor and place in the history fit each other |

`SpendingStaysBounded` is for any number of instances, days and panel members and any limits (`BudgetAssumption`:
they are finitely many, a limit is at least a cent as `optionalLimit` has it). `BudgetInv` has, besides
`EveryCostIsBookedOnce`, which is inductive with the rest:

- `FitsAll`: file and session of an instance differ, on each day, by what the step it is in still has to save;
- `UnsavedIsUnchecked`: what no check stood before and no file has yet is counted as unchecked;
- `SessionsAreBounded`: what sessions hold plus the most that the runs under way may cost stays below the limit
  plus one run each. The bound on the spend alone is not inductive: it says nothing of what is booked next.

Sums are folds over finite sets; `SumIs` and `SumChange` say that one value changes the sum by
its difference, and every step is one such change.

`DraftsAreKept`, for any characters, commands, files, history and pasted text, is an action property, shown key
by key: every edit is a `Splice`, which keeps what lies before and behind; and word, line and command ends lie
inside the line the cursor is in, so what a key takes away does. Of the commands that match, the common beginning
has the typed one as its own. `LineAssumption` says that blank, newline and slash are characters and that files,
commands and history are texts.

The same module, for any set of concurrent requests: `Counted` (`Spec => []AttemptsAreCounted`)
and `KeepsPromise` (`Spec => Promise!Safety`), the step refinement: every step of `Reconnect`
is a step of `RetriedRequest` under `Outcome`, or a stutter. `IAttempts` says that a request about to be
sent or waiting may still be sent, one under way or answered has been, and an aborted end was asked for;
`IMon` ties the monitor's count to the attempts of the same request. That requests end is beyond the
prover and is checked by TLC (`PromiseKept`).

And for any set of programs and keys (`KeysAssumption`: the mark for no key is none):
`KeysInForce` (`KeysSpec => []KeyInForce`). `IKeys` adds that what a program was told stays true - a key it was told
is rejected, or whose entry it is about to delete, is revoked, unless the refusal was not about the key - and that
only a check of the plain modes has the rejected key in force while it looks for another.

`ListProofs`, about what is kept in lists and computed from them:

| Theorem | States | For any |
|---|---|---|
| `JournalStaysHonest` | `Spec => []JournalIsHonest` | files, texts, runs, parallel calls, faults |
| `UndoStaysRight` | `Spec => UndoIsRight` | the same |
| `CutRunsAreToldRight` | `PartsSpec => []CutRunIsToldRight` | files, calls, mishaps |
| `OnlyAllowedImages` | `PartsSpec => []ImagesSentAreAllowed` | files, sizes, limits, sends |
| `CutsAreTold` | `PartsSpec => []CutIsTold` | workspaces, files, hits, limits, pages, sizes of an answer |

`JournalInv` (`JournalAssumption`; `NothingAssumption`: the marks for nothing are no calls, undos or lists):

- `JournalRuns`: open calls are of the run that runs, and nothing of a later run is anywhere;
- `JournalOnDisk`: while calls do not overlap, the disk has what the journal has, but for the call about to save it
  and the runs whose checkpoint was pruned or could not be written the last time;
- `JournalIsComplete`: a file that was written is in the journal or about to be recorded, and what such a
  checkpoint lacks is what one call wrote;
- `ListsAreTrue`: in the journal, in every checkpoint, in every list on its way to the disk and in what an undo has
  still before it, the first entry a run has for a file holds in `before` what the run found there - for
  every file that neither a race nor a second open call has touched (`Sure`);
- `CallsAreTrue`, `UndoIsTrue`: what is to be recorded continues its list, and a file that undo is done with is
  back at its start.

That undo goes back through such a list to its beginning needs every prefix of it to be such a list;
the journal's entries alone do not give that. What preview and dry run compute is a recursive function over the
list: `RecursionExists` and `Induction` (stated about a set of numbers, and shown by well-foundedness)
give its values.

`CutInv` says of the log that an end follows its begin and tells of a call that got there (`CutLog`), of
journal and checkpoint that entries are what calls wrote, in their order (`CutJournal`), of every list on its way to the
disk that it is how the journal began and has its own call (`CutLists`: so of two lists the longer has what the shorter has),
that short of pruning and an older list landing last every recorded change is in the checkpoint (`CutSaved`), and that a report in hand is the one of this state
(`CutReported`); `DriftTellsWhatUndoSkips` becomes inductive with them.

`ImagesInv` (`ImagesAssumption`: a size limit allows something) says what a message has been checked for at each
step: its paths are distinct and not too many (`ImagesAreSets`), an open handle is of the file its path named and was
verified, first for its size and then for its type, or its file was written into since (`IsOpened`), the sizes add up to what the limit
was tested for (`IsRead`), and so for what was sent (`IsSent`).

`CutsAreTold` is about one answer each, and so about what is computed: `Those`, `Found` and `RipgrepLines` are
recursive functions on 0..n, with values as above. `IsFound` is the invariant of the built-in search over the files
it has looked at: what it shows are hits, no more than it has counted, which is no more than the limit; and until it
says that it left something out, every hit of those files that it looks into is shown. `RenderIs` says the same of one file and its
budget. Of ripgrep the property says only that nothing is left out of files with no more
hits than the limit. `AnswersAssumption` says that matching lines are lines and that limits are numbers.

`RunViewProofs`, for any number of runs, rounds, tools and parallel calls (`AgentAssumption`):
`ResultsAreHonest` (`Spec => []ResultIsHonest`), `EventsAreInOrder` (`Spec => EventsInOrder`) and, for the
composition with the view, `ViewIsTheRun` (`ViewSpec => []ViewFollowsRun`).

- `IResult`: what was booked and paid in every phase of a run (`IBooked`, `IPaid`) and what the outcome may
  be before it is known (`IOutcome`, `IEarly`); `ResultIsHonest` speaks of runs that have ended only.
- `IEvents`: as long as no call ended that never began, the closure's pending calls are what an observer sees
  open, and the SDK runs as many with each tool and input (`IPending`). Which of two equal calls
  ended the closure cannot know: the proof exchanges one for the other by a bijection, and so only
  numbers agree.
- `IViewed`: the view's blocks that run are those of the pending calls, one each (`Shows`), so that what it
  shows as running has the cardinality of what runs.

`DashboardProofs`, for any models, thinkings, chats and images (`SettingsAssumption`: every model takes the
default thinking, the marks for nothing are nothing else): `NothingRunsUnfit` (`Spec => []SettingsFit`) and
`ChatsAreKept` (`Spec => []ChatsKeepTheirSettings`), from `PartsStayInStep` (`Spec => []ISettings`).
`SettingsFit` speaks of what runs; `ISettings` of every place settings come from:

- `IInfo`: the metadata in hand is of the model in use unless a write of this process failed, so a check
  against it says something;
- `IFits`: every thinking in the configuration, in its file and in every chat's file is one its model lets through;
- `IKept`: the open chat has the settings in effect, and its file has them once the program ended.

The same module, for any number of texts, lines, questions and late tools: `TextArrives`
(`TerminalSpec => []LinesAreTheUsers`). The invariant follows a text from its key to the program:

- `IWaits`: which promises may be open wherever the program stands, and that the mode is that of the open one;
- `IReads`: where a line is waited for, none is queued - else Enter would pass one;
- `ITools`: a call that waits for its approval has the dialog, or another's question came after its own;
- `ILines`: what was sent is what arrived and what is queued, and every text is in the draft, the paste or one line;
- `ISecret`: as long as no tool outlives its run, text of a secret is in the draft only while the secret is asked for.

Only model-checked, with the reason:

- liveness (`CommitEnds`, `CheckEnds`, `AbortedRunEnds`, `UserGetsOut`, the fair half of
  `PromiseKept`): liveness under fairness is out of the prover's reach;
- `TextChangesAreTrue`, `AnswerIsWhatIsLeft`: each compares an algorithm over sequences, a search for
  markers, an edit table, a filter of a stream, with a definition of another shape, over all small inputs. Their
  folds and selections are the library's, and a fact about such an operator for every input needs an induction
  over data whose theorem takes an operator, which no installed prover can instantiate. What
  `ListProofs` does for recursive functions on 0..n would need these algorithms written as such.

## 5. Divergences and observations

Where code and the repository's own words differ, or a property needed a condition.

Of the code and its own claims:

| The repository says | The code does |
|---|---|
| "Costs are added as deltas instead of being replaced" (`session.ts:1268`) | a save that merged and failed to write makes the next one add the other instance's amount again |
| the next auto-save must not create the deleted file again (`commands.ts:1378`) | `replaceSession`, switching away from the deleted chat, saves it |
| "a stale SDK state can never survive the transcript it was built from" (`agent.ts:188`) | `reset()` works in memory only: after `/clear`, a run that adds turns without a commit (it failed, or compressed its context) and a restart, the turn count is reached again and the old state file is taken for current |
| "never overwrites an unrelated, newer change" (`workspace.ts:174`) | a change made while undo waits for approval is overwritten |
| log and checkpoint are correlated "by this id after a crash" (`agent.ts:220`) | after a chat switch they lie under different chats |
| "Approvals for a specific command or path can be remembered so you are not asked again" (`README.md:113`) | only requests of `ssh_command` carry a command and none a path: to an edit, `run_command`, `git_diff`, `browser_check` or a read outside, "always" and "never" answer that one question and leave no rule |
| a run log is "never fatal to the run itself" (`agent.ts:224`) | a failed append is an unhandled rejection and ends the process |
| own removals survive a merge (`session.ts:1267`) | once saved, `#base` no longer records them, and an instance that still has the turns adds them again |

Chats and memory:

- **Slow lock holder** (`session.ts:1152`, `conversation.ts:259`): a holder whose lock was broken
  still replaces the file from its stale read.
- **Two waiters** (`conversation.ts:261`): when two commits have waited for the lock of a process that is gone, the
  second may unlink the new lock of the first, and a newer state is replaced without a conflict copy.
- **Commit** (`conversation.ts:147`): the buffer is emptied before lock and write; when either fails, what the run
  remembered is gone, and the next run goes on from the memory before it.
- **Two crashes** (`session.ts:1192`): two instances may both remove the lock of a crashed third, the later one the
  new lock of the earlier. A save is then overwritten; the next save of its instance restores it, but if that
  instance crashes first, the exchange is gone.
- **Old sessions** (`session.ts:660`): a deletion while another instance's import is under way, or with no
  marker possible, is undone by that import.

Files and undo:

- **Approval window of writes** (`workspace.ts:621`): freshness is checked before the prompt.
- **Overlapping checkpoints** (`workspace.ts:122`): two calls of a round write the list
  as it was for each; the older may be renamed into place last, and a change of which the model was told that it
  is recorded cannot be taken back after a crash.
- **Failing checkpoints** (`workspace.ts:108`): the entry is pushed first, so a call whose checkpoint cannot be written
  fails although its file is written and `/undo` knows of it; only the next successful write puts it on disk.
- **Undo** (`workspace.ts`): the removal of an emptied checkpoint may fail unheard; the next start then offers changes that
  are already taken back, and finds every file changed.
- **Parallel calls of one file** (`workspace.ts`): they may be recorded in another order than they wrote. When three
  of them write a text, the former text and the text again, undo may end with the run's text and tell of no skipped file.
- **Preview and drift** (`workspace.ts:195`, `resume.ts`): a file the run wrote twice is told as
  changed since, although undo would restore it.
- **Cut run**: a decision appended behind half a line cannot be read and is asked for again; a run
  another instance still works on is reported as interrupted; a refused undo at a start
  leaves its entries in the journal, so `/undo` would take back the old run.
- **Text**: occurrences that overlap count once in `replace_text`; a letter whose lower case is longer
  (such as the dotted capital I) before a marker shifts the filter's index.
- **Previews** (`workspace.ts:1564`, `:1634`, `:682`): a rewrite that changes line ends only shows no line, and only the
  byte counts in its header tell of it; lines beyond the limit look alike when their beginnings do; `replace_text` asks
  with the beginnings of both blocks, without a diff.
- **Cuts that go untold**: `list_files` compares the length of a list already cut
  (`workspace.ts:548`), and both it and the built-in search pass over what lies too deep or in a directory that
  cannot be read (`:516`, `:2338`); the built-in search passes over files that are too large (`:2369`) or cannot be read
  (`:2373`); ripgrep's `--max-count` cuts per file (`:2288`). Long lines of a hit show their beginning only (`:2459`).

Approvals and terminal:

- **Parallel questions** (`tui.ts:544`): the second question takes the resolver of the first,
  whose call never settles; only Ctrl+C ends the run. A key meant for the first answers the second, and a
  reason that was being typed for the first goes to the second.
- **Rules** (`rules.ts:164`): each instance writes its own list over the file, so two
  instances lose each other's rules, and a forgotten one can return. A
  "never" that cannot be written is not counted as a rejection; a call that outlives its run
  counts its rejection into the next (`approval.ts:187`).
- **Late tools** (`tui.ts`): a status or question of a tool that outlives its run takes the mode
  from a picker, an input or a secret that is open.
- **Drafts**: Down at the newest entry of the history empties a typed line (`tui.ts:1405`); the first
  Enter on an ambiguous command replaces a shorter input, arguments included, by the common
  beginning (`tui.ts:1148`).

Runs, costs, connection, keys:

- **Epilogue** (`agent.ts:777`): a save that throws neither commits nor discards the memory; a commit that
  fails after the save tells an error of a run that is in the chat.
- **Events** (`agent.ts:968`): a failure of a call that never began takes the entry of another with
  equal input; ids start again with each run.
- **Abort or error** (`agent.ts:1022`): an error whose text reads like an abort counts as cancelled.
- **Costs**: a compression, panel call or transcription that fails after it was paid books nothing;
  panels and transcriptions are not checked against the budget; the check and the booking of runs are
  apart, so instances started together pass a limit together (`agent.ts:822`).
- **Retries of streams** (`openrouter.ts`): the SDK's hooks do not say whether it will retry, so
  a retry may be announced that does not come.
- **Keys**: an instance may delete the key another has just stored; a refusal that is not
  about the key is taken for one.

Devices, files, settings:

- **Voice** (`voice.ts`): a key during the automatic end has no effect and the file stays; a command that
  cannot be resolved leaves its directory (`voice.ts:207`).
- **Browser** (`browser.ts`): a call sent on a closed connection never settles; a process that cannot be
  started leaves its profile, and so does a removal that fails, which the code accepts in so many words (`:811`).
- **ssh** (`ssh.ts`): a command that ran and failed with "permission denied" is told as a failed login.
- **Images** (`attachments.ts`): a file rewritten in place with the same length is sent under its old type.
- **Configuration** (`config.ts:653`): two programs lose each other's settings, and can move the good file
  over the backup of the broken one; an unreadable file is replaced without a backup.
- **Dashboard** (`cli.ts`): the chat picker keeps the images of the other chat, unlike `/chat open`; a command
  whose write fails leaves metadata and images as before; `--model` and `--approval` are written
  down by the next unrelated save.
- `migrateAppHome` (`config.ts:330`), `RunLog.prune` and `refreshImageAttachments` (`attachments.ts:109`)
  are called from nowhere.

## 6. Not modelled, and why

- `policy.ts`, `ignore.ts`, `secrets.ts`: classification of strings, character by character, without state. Their
  outcome is an input of Approvals, ChangeJournal and FileAnswers.
- Rendering (`ui/*` but the view model, the diff and the blocks), help texts, listings, titles, previews: layout
  and wording.
- The keychain, ssh, git, ripgrep, the browser, the recorder, the network and the SDK are outside; the modules take
  what the code sees of them as input. Parsing of their output, of model lists and of ssh's configuration is data.
- Compression and distilling beyond their place in a run, prompts, and the repair of a history.
- Plain mode (`--plain`) asks through another library, one question at a time.
- Left out in modules that are otherwise complete: in `Recorder` a `rm` that fails, whose error the code swallows
  (`voice.ts:254`, `:260`), and an exit during a recording; in `Spending` a save that fails after a panel was booked; in
  `ShellCommand` the second cut of a result by `run_command` (`workspace.ts:733`); in `ConfigFile` a second broken text,
  which replaces the single backup; in `LineEditor` Enter on an empty line with a suggested reply (`tui.ts:1164`);
  in `FileAnswers` what the ripgrep process printed too much.

## 7. Plan

1. Proofs next: the filter of answers and the diff, as functions on 0..n.
2. An abstract chat (an atomic set of exchanges and a ledger) that a calm ChatStore implements.
3. Compositions: ChatStore with ConversationMemory, in place of the latter's atomic save; Approvals' dialog with
   TerminalInput; Spending's booking with AgentRun's epilogue.
4. Larger instances of `agent_run` (two runs with two tools) and of `terminal` (two late tools).
