----------------------------- MODULE ShellCommand -----------------------------
(***************************************************************************)
(* runProcess and its callers: a command in a process group of its own,    *)
(* with a time limit, the abort signal of the run, bounded output and a    *)
(* live view of it; run_command and git_diff, ssh_command, and the command *)
(* list of a verification.  A group that is stopped gets SIGTERM at once   *)
(* and SIGKILL after a grace; the caller does not wait for either.         *)
(***************************************************************************)
EXTENDS Naturals, FiniteSetsExt

CONSTANTS MaxOutput,  \* characters runProcess keeps of a stream
          MaxWritten, \* bound: characters the processes write, more than MaxOutput
          Commands    \* bound: commands of a verification

VARIABLES caller,   \* of runProcess: kind, the command of a verification it is at, the outcome,
                    \* whether the signal has fired, and as history whether it had when the
                    \* outcome came, and whether orcode itself has ended
          group,    \* leader; child: of the leader, which may hold the pipes; the exit code;
                    \* stop: what stopped the group; kill: its SIGKILL
          output    \* written, kept, passed to onChunk, and truncated
shell == <<caller, group, output>>

Kinds == {"run_command", "ssh_command", "verify"}
NoGroup == [leader |-> "none", child |-> "none", code |-> 0, stop |-> "none", kill |-> "none"]
NoOutput == [written |-> 0, kept |-> 0, live |-> 0, truncated |-> FALSE]
ShellInit ==
    /\ caller \in [kind : Kinds, command : {0}, outcome : {"none"}, signal : {FALSE},
                   cancelled : {FALSE}, exited : {FALSE}]
    /\ group = NoGroup
    /\ output = NoOutput

Settle(outcome) ==
    caller' = [caller EXCEPT !.outcome = outcome, !.cancelled = caller.signal]
Waiting == group.leader # "none" /\ group.stop = "none" /\ caller.outcome = "none"

\* A signal that has fired already: no process is started.
Start ==
    /\ caller.outcome = "none" /\ group.leader = "none" /\ ~caller.exited
    /\ IF caller.signal
       THEN Settle("aborted") /\ UNCHANGED group
       ELSE /\ group' = [NoGroup EXCEPT !.leader = "alive"]
            /\ caller' = [caller EXCEPT !.command = @ + 1]
    /\ output' = NoOutput
\* The error event: the promise is rejected.
SpawnFails ==
    /\ caller.outcome = "none" /\ group.leader = "none" /\ ~caller.exited /\ ~caller.signal
    /\ Settle("error")
    /\ UNCHANGED <<group, output>>

(***************************************************************************)
(* The processes.                                                          *)
(***************************************************************************)
Holding == group.leader = "alive" \/ group.child = "holding"
\* appendBounded: what is adopted is what onChunk gets.
Adopted(n) == Min({n, MaxOutput - output.kept})
Data(n) ==
    /\ Waiting /\ Holding /\ output.written + n <= MaxWritten
    /\ output' = [written |-> output.written + n,
                  kept |-> output.kept + Min({n, MaxOutput - output.kept}),
                  live |-> output.live + Adopted(n),
                  truncated |-> output.truncated \/ n > MaxOutput - output.kept]
    /\ UNCHANGED <<caller, group>>
StartChild(holds) ==
    /\ group.leader = "alive" /\ group.child = "none"
    /\ group' = [group EXCEPT !.child = IF holds THEN "holding" ELSE "quiet"]
    /\ UNCHANGED <<caller, output>>
LeaderExits(code) ==
    /\ group.leader = "alive"
    /\ group' = [group EXCEPT !.leader = "dead", !.code = code]
    /\ UNCHANGED <<caller, output>>
ChildExits ==
    /\ group.child \in {"holding", "quiet"}
    /\ group' = [group EXCEPT !.child = "dead"]
    /\ UNCHANGED <<caller, output>>

(***************************************************************************)
(* How a command ends.                                                     *)
(***************************************************************************)
\* What the caller makes of an exit code: the next command of a verification, its verdict, or
\* for ssh a look at stderr.
Outcome(code, denied) ==
    CASE caller.kind = "verify" -> IF code = 0 THEN "passed" ELSE "failed"
      [] caller.kind = "ssh_command" /\ code # 0 /\ denied -> "no-auth"
      [] OTHER -> "exit"
MoreCommands(code) == caller.kind = "verify" /\ code = 0 /\ caller.command < Commands
\* The close event: the leader has ended and nobody holds the pipes.
Close(denied) ==
    /\ Waiting /\ ~Holding
    /\ IF MoreCommands(group.code)
       THEN group' = NoGroup /\ UNCHANGED caller
       ELSE Settle(Outcome(group.code, denied)) /\ UNCHANGED group
    /\ UNCHANGED output
\* MUTANT: SIGTERM only.
StoppedPolitely(reason) == [group EXCEPT !.stop = reason]
\* stop: SIGTERM, the timer of SIGKILL, and the answer.
Stopped(reason) == [group EXCEPT !.stop = reason, !.kill = "pending"]
Stop(reason, outcome) ==
    /\ group' = Stopped(reason)
    /\ Settle(outcome)
    /\ UNCHANGED output
Timeout ==
    /\ Waiting
    /\ Stop("timeout", IF caller.kind = "verify" THEN "failed" ELSE "exit")
\* The user cancels the run; the listener stops what is under way.
Abort ==
    /\ ~caller.signal /\ caller.outcome = "none" /\ ~caller.exited
    /\ IF group.leader = "none"
       THEN caller' = [caller EXCEPT !.signal = TRUE] /\ UNCHANGED group
       ELSE /\ group' = Stopped("abort")
            /\ caller' = [caller EXCEPT !.signal = TRUE, !.cancelled = TRUE,
                                        !.outcome = "aborted"]
    /\ UNCHANGED output
SigKill ==
    /\ group.kill = "pending" /\ ~caller.exited
    /\ group' = [group EXCEPT !.kill = "sent", !.leader = "dead",
                              !.child = IF @ = "none" THEN @ ELSE "dead"]
    /\ UNCHANGED <<caller, output>>
\* The timer of SIGKILL does not keep orcode alive.
OrcodeExits ==
    /\ caller.outcome # "none" /\ ~caller.exited
    /\ caller' = [caller EXCEPT !.exited = TRUE]
    /\ UNCHANGED <<group, output>>

ShellNext ==
    \/ Start \/ SpawnFails \/ Timeout \/ Abort \/ SigKill \/ OrcodeExits \/ ChildExits
    \/ \E n \in 1..2 : Data(n)
    \/ \E b \in BOOLEAN : StartChild(b) \/ Close(b)
    \/ \E code \in 0..1 : LeaderExits(code)
ShellSpec == ShellInit /\ [][ShellNext]_shell
-----------------------------------------------------------------------------
(* Properties *)

\* What was shown while a command ran is what its result has, no more and no less; a run the
\* user cancelled ends no verification as passed or failed; and a group that was stopped is
\* dead or has its SIGKILL coming, unless orcode ended within the grace.
\* (runProcess, appendBounded, runVerify)
CommandsAreContained ==
    /\ output.live = output.kept /\ output.kept <= MaxOutput
    /\ output.truncated <=> output.written > output.kept
    /\ caller.cancelled => caller.outcome = "aborted"
    /\ \/ group.stop = "none" \/ caller.exited \/ group.kill = "pending"
       \/ group.leader = "dead" /\ group.child \in {"none", "dead"}
===============================================================================
