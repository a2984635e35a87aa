------------------------------ MODULE Reconnect ------------------------------
(***************************************************************************)
(* How a request to OpenRouter is retried (reconnect.ts) and what the user *)
(* is told about it (SdkReconnectMonitor).  REST requests go through       *)
(* fetchWithReconnect; model streams through the SDK, which repeats them   *)
(* itself and calls the monitor from its hooks (openrouter.ts, client).    *)
(*                                                                         *)
(* A request is named by its context object, the key of the monitor's      *)
(* states: two requests of one operation have different contexts.  Times   *)
(* are in milliseconds, as in RETRY_POLICY.                                *)
(***************************************************************************)
EXTENDS Integers

CONSTANTS Requests,
          StreamTries   \* bound: how often the SDK sends one model stream

ASSUME ReconnectAssumption == StreamTries \in Nat \ {0}

Policy == [maxAttempts |-> 3, initialDelay |-> 500, exponent |-> 2, maxDelay |-> 5000,
           retryAfterCap |-> 5000, jitterPercent |-> 25, requestTimeout |-> 15000]

Idempotent == {"GET", "HEAD", "OPTIONS"}
Kinds == {"GET", "POST", "stream"}
Limit(k) == IF k = "stream" THEN StreamTries
            ELSE IF k \in Idempotent THEN Policy.maxAttempts ELSE 1

\* What an attempt may meet.
Transient == {"http408", "http429", "http5xx", "failure", "timeout"}
Statuses  == {"http2xx", "http4xx"} \cup Transient
NoStatus(s) == s \in {"failure", "timeout"}

\* backoffDelayMs, for both ends of the jitter.
Least(a, b) == IF a < b THEN a ELSE b
BaseDelay(n) == Least(Policy.initialDelay * Policy.exponent^(n - 1), Policy.maxDelay)
Jittered(n) == {(BaseDelay(n) * (100 + j)) \div 100 :
                    j \in {-Policy.jitterPercent, Policy.jitterPercent}}
Delays(n, header) ==
    IF header >= 0 THEN {Least(header, Policy.retryAfterCap)}
    ELSE {Least(d, Policy.maxDelay) : d \in Jittered(n)}

\* retryAfterMs: what a response asks for, -1 for nothing.
Headers(s) == IF s = "http429" THEN {-1, 60000} ELSE {-1}

VARIABLES
    kind,     \* of each request
    phase,    \* "begin" (top of the loop), "fly", "wait", or how it ended
    tries,    \* how often it was sent
    mon,      \* #states of the monitor: the attempt it counts, 0 for no state
    told,     \* the last ConnectionEvent of each request, "" for none
    aborted,  \* whether the caller's signal is aborted
    spent     \* time the request took so far

vars == <<kind, phase, tries, mon, told, aborted, spent>>

Live  == {"begin", "fly", "wait"}
Ended == {"answer", "error", "aborted"}
IsRest(r) == kind[r] # "stream"

\* The key of a request in the monitor: its context object.  MUTANT: the operation,
\* which concurrent requests share.
ByOperation(r) == CHOOSE q \in Requests : TRUE
Ctx(r) == r

Init ==
    /\ kind \in [Requests -> Kinds]
    /\ phase = [r \in Requests |-> "begin"]
    /\ tries = [r \in Requests |-> 0]
    /\ mon = [r \in Requests |-> 0]
    /\ told = [r \in Requests |-> ""]
    /\ aborted = [r \in Requests |-> FALSE]
    /\ spent = [r \in Requests |-> 0]
-----------------------------------------------------------------------------
(* The monitor.  Each operator gives mon' and told'. *)

BeforeRequest(r) ==
    /\ mon' = [mon EXCEPT ![Ctx(r)] = @ + 1]
    /\ told' = IF mon[Ctx(r)] = 0 THEN told ELSE [told EXCEPT ![r] = "retrying"]

AfterError(r, willRetry) ==
    /\ mon' = [mon EXCEPT ![Ctx(r)] = IF ~willRetry THEN 0 ELSE IF @ = 0 THEN 1 ELSE @]
    /\ told' = IF willRetry THEN [told EXCEPT ![r] = "retry-scheduled"] ELSE told

AfterSuccess(r) ==
    /\ mon' = [mon EXCEPT ![Ctx(r)] = 0]
    /\ told' = IF mon[Ctx(r)] > 1 THEN [told EXCEPT ![r] = "restored"] ELSE told

-----------------------------------------------------------------------------
(* fetchWithReconnect *)

\* The top of the loop: throwIfAborted, then the next attempt.  MUTANT: the wait is
\* trusted to have noticed an abort.
SendAnyway(r) ==
    /\ phase[r] = "begin" /\ IsRest(r)
    /\ BeforeRequest(r)
    /\ phase' = [phase EXCEPT ![r] = "fly"]
    /\ tries' = [tries EXCEPT ![r] = @ + 1]
    /\ UNCHANGED <<kind, aborted, spent>>
Begin(r) ==
    /\ phase[r] = "begin" /\ IsRest(r)
    /\ IF aborted[r]
       THEN /\ phase' = [phase EXCEPT ![r] = "aborted"]
            /\ UNCHANGED <<tries, mon, told>>
       ELSE /\ BeforeRequest(r)
            /\ phase' = [phase EXCEPT ![r] = "fly"]
            /\ tries' = [tries EXCEPT ![r] = @ + 1]
    /\ UNCHANGED <<kind, aborted, spent>>

\* An attempt is over: with a response, by a network failure or by attemptSignal's
\* timeout.  A rejected call of an aborted request throws the abort; an answer that
\* came first still counts.
CanRetry(r) == tries[r] < Limit(kind[r])

Attempted(r, s) ==
    /\ spent' = [spent EXCEPT ![r] = @ + (IF s = "timeout" THEN Policy.requestTimeout ELSE 0)]
    /\ UNCHANGED <<kind, tries, aborted>>

Answered(r) ==
    /\ phase[r] = "fly" /\ IsRest(r)
    /\ \E s \in Statuses \ Transient :
          /\ IF s = "http2xx" THEN AfterSuccess(r) ELSE AfterError(r, FALSE)
          /\ phase' = [phase EXCEPT ![r] = "answer"]
          /\ Attempted(r, s)

AbortedInFlight(r) ==
    /\ phase[r] = "fly" /\ IsRest(r) /\ aborted[r]
    /\ phase' = [phase EXCEPT ![r] = "aborted"]
    /\ UNCHANGED <<kind, tries, mon, told, aborted, spent>>

\* MUTANT: the last failure is announced as if another attempt followed.
AnnouncesTheEnd(r) ==
    /\ phase[r] = "fly" /\ IsRest(r)
    /\ \E s \in Transient :
          /\ NoStatus(s) => ~aborted[r]
          /\ AfterError(r, TRUE)
          /\ phase' = [phase EXCEPT ![r] = IF CanRetry(r) THEN "wait"
                                           ELSE IF NoStatus(s) THEN "error" ELSE "answer"]
          /\ Attempted(r, s)
Failed(r) ==
    /\ phase[r] = "fly" /\ IsRest(r)
    /\ \E s \in Transient :
          /\ NoStatus(s) => ~aborted[r]
          /\ AfterError(r, CanRetry(r))
          /\ IF CanRetry(r)
             THEN /\ phase' = [phase EXCEPT ![r] = "wait"]
                  /\ \E h \in Headers(s) : \E d \in Delays(tries[r], h) :
                        spent' = [spent EXCEPT ![r] =
                            @ + d + (IF s = "timeout" THEN Policy.requestTimeout ELSE 0)]
                  /\ UNCHANGED <<kind, tries, aborted>>
             ELSE /\ phase' = [phase EXCEPT ![r] = IF NoStatus(s) THEN "error" ELSE "answer"]
                  /\ Attempted(r, s)

\* delayWithAbort: the timer or the abort.  Both may have happened when the loop goes
\* on; the top of the loop asks again.
Wake(r) ==
    /\ phase[r] = "wait" /\ IsRest(r)
    /\ phase' = [phase EXCEPT ![r] = "begin"]
    /\ UNCHANGED <<kind, tries, mon, told, aborted, spent>>

AbortedInWait(r) ==
    /\ phase[r] = "wait" /\ IsRest(r) /\ aborted[r]
    /\ phase' = [phase EXCEPT ![r] = "aborted"]
    /\ UNCHANGED <<kind, tries, mon, told, aborted, spent>>

\* The caller aborts: Escape, or the end of the process.
Abort(r) ==
    /\ phase[r] \in Live /\ IsRest(r) /\ ~aborted[r]
    /\ aborted' = [aborted EXCEPT ![r] = TRUE]
    /\ UNCHANGED <<kind, phase, tries, mon, told, spent>>

-----------------------------------------------------------------------------
(* The SDK: its loop is external, its three hooks are the service's.  The hooks pass *)
(* no willRetry, so the monitor decides by the status alone: a status that is retried*)
(* is announced even when the SDK gives up, a network failure never is.              *)

StreamSend(r) ==
    /\ phase[r] = "begin" /\ ~IsRest(r)
    /\ BeforeRequest(r)
    /\ phase' = [phase EXCEPT ![r] = "fly"]
    /\ tries' = [tries EXCEPT ![r] = @ + 1]
    /\ UNCHANGED <<kind, aborted, spent>>

StreamAnswered(r) ==
    /\ phase[r] = "fly" /\ ~IsRest(r)
    /\ \E s \in Statuses :
          /\ IF s = "http2xx" THEN AfterSuccess(r)
             ELSE AfterError(r, s \in Transient /\ ~NoStatus(s))
          /\ phase' = [phase EXCEPT ![r] =
                 IF s \in Transient /\ CanRetry(r) THEN "begin"
                 ELSE IF NoStatus(s) THEN "error" ELSE "answer"]
    /\ UNCHANGED <<kind, tries, aborted, spent>>

-----------------------------------------------------------------------------
Step(r) ==
    \/ Begin(r) \/ Answered(r) \/ AbortedInFlight(r) \/ Failed(r)
    \/ Wake(r) \/ AbortedInWait(r)
    \/ StreamSend(r) \/ StreamAnswered(r)

Next == \E r \in Requests : Step(r) \/ Abort(r)

\* Every attempt has a time limit and every wait a timer: a live request goes on.
Fairness == \A r \in Requests : WF_vars(Step(r))

Spec == Init /\ [][Next]_vars /\ Fairness
-----------------------------------------------------------------------------
TypeOK ==
    /\ kind \in [Requests -> Kinds]
    /\ phase \in [Requests -> Live \cup Ended]
    /\ tries \in [Requests -> Nat]
    /\ mon \in [Requests -> Nat]
    /\ told \in [Requests -> {"", "retry-scheduled", "retrying", "restored"}]
    /\ aborted \in [Requests -> BOOLEAN]
    /\ spent \in [Requests -> Nat]

\* The attempt the user is told of is the attempt that is made: while a REST request
\* lives the monitor counts its attempts, whatever other requests of the same
\* operation do (SdkReconnectMonitor's comment).
MonitorCountsAttempts ==
    \A r \in Requests :
        /\ IsRest(r) /\ phase[r] \in Live => mon[Ctx(r)] = tries[r]
        /\ ~IsRest(r) => mon[Ctx(r)] <= tries[r]

\* A request that got an answer or an error leaves no state behind, so a later
\* request cannot inherit its count.
SettledIsForgotten ==
    \A r \in Requests : phase[r] \in {"answer", "error"} /\ IsRest(r) => mon[Ctx(r)] = 0

\* No caller waits longer than three time limits and two capped waits, whatever
\* Retry-After the server sends.
TimeBounded ==
    \A r \in Requests : IsRest(r) =>
        spent[r] <= Policy.maxAttempts * Policy.requestTimeout
                        + (Policy.maxAttempts - 1) * Policy.maxDelay

\* "Verbindung wiederhergestellt" is told only of a request that was announced as
\* being repeated, and a repetition only after a failure of the same request.
ToldInOrder ==
    [][\A r \in Requests : told'[r] # told[r] =>
            /\ told'[r] = "restored" => told[r] = "retrying"
            /\ told'[r] = "retrying" => told[r] = "retry-scheduled"]_vars

\* A retry announced by a REST request takes place, unless the user aborts it.
AnnouncedRetryHappens ==
    \A r \in Requests :
        (told[r] = "retry-scheduled" /\ IsRest(r)) ~> (told[r] = "retrying" \/ aborted[r])

\* The caller's view: Reconnect implements RetriedRequest.
Outcome == [r \in Requests |-> IF phase[r] \in Live THEN "open" ELSE phase[r]]
Promise == INSTANCE RetriedRequest WITH outcome <- Outcome
PromiseKept == Promise!Spec

\* Attempts are counted for the request that makes them, and for no other.
AttemptsAreCounted == MonitorCountsAttempts /\ SettledIsForgotten

\* What the user waits for comes, in the order it is told and within the policy's time.
WaitingIsBounded == []TimeBounded /\ ToldInOrder /\ AnnouncedRetryHappens
=============================================================================
