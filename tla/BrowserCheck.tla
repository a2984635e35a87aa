----------------------------- MODULE BrowserCheck -----------------------------
(***************************************************************************)
(* inspectUrl: a browser process under a hard time limit, the DevTools     *)
(* connection with its calls by number, and the steps of the inspection,   *)
(* which go on in the background when the limit has decided.               *)
(***************************************************************************)
EXTENDS Naturals

VARIABLES body,     \* the inspection: where it is, the call it awaits, whether it has seen the
                    \* load event, and whether a screenshot file was written
          socket,   \* "none", "connecting", "open" or "gone"; the calls pending, those the
                    \* browser will answer, and as history those sent when it was gone
          process,  \* the browser: "none", "up", "asked" (SIGTERM), "killed" (SIGKILL), "dead"
          outcome   \* of inspectUrl: the race, then "waiting" for the process, "ended"; and the
                    \* profile directory: "none", "made", "gone", "left" (removing it failed)
browser == <<body, socket, process, outcome>>

\* The calls of an inspection, in their order.
Calls == <<"Page.enable", "Network.enable", "Runtime.enable", "Page.navigate",
           "Runtime.evaluate", "Page.captureScreenshot">>
Numbers == 1..6
Navigate == 4

BrowserInit ==
    /\ body = [pc |-> "start", call |-> 0, load |-> "before", shot |-> FALSE]
    /\ socket = [state |-> "none", pending |-> {}, asked |-> {}, late |-> {}]
    /\ process = "none"
    /\ outcome = [is |-> "none", profile |-> "none"]

BodyAt(pc) == body.pc = pc
BodyTo(pc) == body' = [body EXCEPT !.pc = pc]
Running == process \in {"up", "asked", "killed"}

\* The profile directory is made, then the process started; one that cannot be started
\* throws past the clean-up.
StartBrowser(ok) ==
    /\ BodyAt("start") /\ outcome.is = "none"
    /\ outcome' = [is |-> IF ok THEN "racing" ELSE "failed to start", profile |-> "made"]
    /\ process' = IF ok THEN "up" ELSE "none"
    /\ BodyTo(IF ok THEN "http" ELSE "off")
    /\ UNCHANGED socket

(***************************************************************************)
(* The body.                                                               *)
(***************************************************************************)
\* waitForDevtoolsHttp and openNewTab, then the connection.
Connect ==
    /\ BodyAt("http") /\ Running
    /\ socket' = [socket EXCEPT !.state = "connecting"]
    /\ BodyTo("opening")
    /\ UNCHANGED <<process, outcome>>
HttpFails ==
    /\ BodyAt("http")
    /\ BodyTo("failed")
    /\ UNCHANGED <<socket, process, outcome>>
Opens ==
    /\ socket.state = "connecting" /\ Running
    /\ socket' = [socket EXCEPT !.state = "open"]
    /\ BodyTo("send")
    /\ UNCHANGED <<process, outcome>>
\* send: the call gets its number and waits.  A closed WebSocket takes it without a word.
Send ==
    /\ BodyAt("send")
    /\ LET n == body.call + 1 IN
       /\ body' = [body EXCEPT !.pc = "await", !.call = n]
       /\ socket' = IF socket.state = "open"
                    THEN [socket EXCEPT !.pending = @ \cup {n}, !.asked = @ \cup {n}]
                    ELSE [socket EXCEPT !.pending = @ \cup {n}, !.late = @ \cup {n}]
    /\ UNCHANGED <<process, outcome>>
\* What the body does when its call is settled: the title and the screenshot may fail.
After(n, ok) ==
    CASE n = 6 -> [body EXCEPT !.pc = "done", !.shot = ok]
      [] n = Navigate /\ ok -> [body EXCEPT !.pc = "load"]
      [] ok \/ n = 5 -> [body EXCEPT !.pc = "send"]
      [] OTHER -> [body EXCEPT !.pc = "failed"]
\* #dispatch: an answer settles the call of its number, if it still waits.
Answer(n, ok) ==
    /\ n \in socket.asked /\ socket.state = "open" /\ Running
    /\ socket' = [socket EXCEPT !.asked = @ \ {n}, !.pending = @ \ {n}]
    /\ body' = IF n \in socket.pending THEN After(n, ok) ELSE body
    /\ UNCHANGED <<process, outcome>>
\* The load event, which counts only once waitForEvent listens for it.
LoadEvent ==
    /\ body.load = "before" /\ body.call >= Navigate /\ socket.state = "open" /\ Running
    /\ body' = IF BodyAt("load") THEN [body EXCEPT !.load = "seen", !.pc = "send"]
                                 ELSE [body EXCEPT !.load = "missed"]
    /\ UNCHANGED <<socket, process, outcome>>
\* waitForEvent gives up at the deadline itself, not before the hard limit.
LoadTimesOut ==
    /\ BodyAt("load") /\ outcome.is # "racing"
    /\ BodyTo("send")
    /\ UNCHANGED <<socket, process, outcome>>
\* The body's own end: the tab and the connection are closed.
BodyEnds ==
    /\ body.pc \in {"done", "failed"}
    /\ BodyTo("off")
    /\ socket' = IF socket.state = "none" THEN socket
                 ELSE [socket EXCEPT !.state = "gone", !.pending = {}, !.asked = {}]
    /\ process' = IF outcome.is = "racing" THEN "asked" ELSE process
    /\ outcome' = [outcome EXCEPT !.is = IF @ = "racing" THEN "waiting" ELSE @]

(***************************************************************************)
(* The connection ends with the process: onGone rejects every call that    *)
(* waits.                                                                  *)
(***************************************************************************)
Rejected == IF BodyAt("await") /\ body.call \in socket.pending THEN After(body.call, FALSE)
            ELSE IF BodyAt("opening") THEN [body EXCEPT !.pc = "failed"]
            ELSE body
\* MUTANT: the calls that wait are forgotten.
OnGoneQuietly ==
    /\ socket.state \in {"connecting", "open"} /\ process = "dead"
    /\ socket' = [socket EXCEPT !.state = "gone", !.asked = {}]
    /\ UNCHANGED <<body, process, outcome>>
OnGone ==
    /\ socket.state \in {"connecting", "open"} /\ process = "dead"
    /\ socket' = [socket EXCEPT !.state = "gone", !.pending = {}, !.asked = {}]
    /\ body' = Rejected
    /\ UNCHANGED <<process, outcome>>
Crashes ==
    /\ Running
    /\ process' = "dead"
    /\ UNCHANGED <<body, socket, outcome>>

(***************************************************************************)
(* runWithHardTimeout: the limit, SIGTERM, after a grace SIGKILL, and      *)
(* after a little more inspectUrl returns and removes the profile, if that *)
(* works: its rm may fail, and nothing is made of it.                      *)
(***************************************************************************)
Timeout ==
    /\ outcome.is = "racing"
    /\ outcome' = [outcome EXCEPT !.is = "waiting"]
    /\ process' = IF process = "dead" THEN process ELSE "asked"
    /\ UNCHANGED <<body, socket>>
Kill ==
    /\ process = "asked" /\ outcome.is = "waiting"
    /\ process' = "killed"
    /\ UNCHANGED <<body, socket, outcome>>
Return(removed) ==
    /\ outcome.is = "waiting" /\ process \in {"killed", "dead"}
    /\ outcome' = [is |-> "ended", profile |-> IF removed THEN "gone" ELSE "left"]
    /\ UNCHANGED <<body, socket, process>>

BrowserNext ==
    \/ Connect \/ HttpFails \/ Opens \/ Send \/ LoadEvent \/ LoadTimesOut \/ BodyEnds
    \/ \E ok \in BOOLEAN : StartBrowser(ok) \/ Return(ok) \/ \E n \in Numbers : Answer(n, ok)
    \/ OnGone \/ Crashes \/ Timeout \/ Kill
BrowserSpec == BrowserInit /\ [][BrowserNext]_browser
-----------------------------------------------------------------------------
(* Properties *)

\* When inspectUrl has ended its browser is dead or has its SIGKILL, and its profile is gone
\* unless removing it failed, which the code accepts; and a call never waits on a connection
\* that has ended, unless it was sent after that: the inspection left in the background settles.
\* (runWithHardTimeout, CdpClient)
InspectionLeavesNothing ==
    /\ outcome.is = "ended" => process \in {"killed", "dead"} /\ outcome.profile # "made"
    /\ socket.state = "gone" => socket.pending \subseteq socket.late
===============================================================================
