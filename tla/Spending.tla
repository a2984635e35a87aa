------------------------------- MODULE Spending -------------------------------
(***************************************************************************)
(* What is paid for, what is booked, and what the budget stops: runs,      *)
(* panels and transcriptions of several instances in one workspace, each   *)
(* with a chat of its own.  The budget is compared with the chat files     *)
(* before a run, which books each call and saves when it has ended.        *)
(***************************************************************************)
EXTENDS Naturals, Functions

CONSTANTS Instances, Days,
          MaxRunCost,   \* bound: what a run can cost (maxCostUsd and its last step)
          DailyLimit,   \* dailyLimitUsd
          Members,      \* the models of a panel
          MaxPaid       \* bound: costs in all

VARIABLES files,   \* dailySpendUsd of each chat file, one chat for each instance
          open,    \* dailySpendUsd of the session each instance holds
          work,    \* what each instance is doing: kind, observed costs, and for a panel the
                   \* models that have not answered
          today,
          history  \* paid: all costs; lost: costs of calls that failed, of chats deleted and of
                   \* processes that died; unchecked: costs no budget check stood before
spending == <<files, open, work, today, history>>

Nothing == [d \in Days |-> 0]
Idle == [kind |-> "idle", observed |-> 0, waiting |-> {}]
SpendingInit ==
    /\ files = [i \in Instances |-> Nothing] /\ open = files
    /\ work = [i \in Instances |-> Idle]
    /\ today = 1
    /\ history = [paid |-> 0, lost |-> 0, unchecked |-> 0]

Sum(f) == FoldFunction(+, 0, f)
\* workspaceSpend: the chat files alone, not what other instances have not saved yet.
Spent(day) == Sum([i \in Instances |-> files[i][day]])
\* evaluateBudget.
Exceeded == Spent(today) >= DailyLimit
\* addCost: on the day it is called.
AddCost(days, amount) == [days EXCEPT ![today] = @ + amount]
Save(i, days) == open' = [open EXCEPT ![i] = days] /\ files' = [files EXCEPT ![i] = days]
\* What a step costs, how much of that no check stood before, and what is lost by the step.
Pay(cost, unchecked, lost) ==
    /\ history.paid + cost <= MaxPaid
    /\ history' = [paid |-> history.paid + cost, lost |-> history.lost + lost,
                   unchecked |-> history.unchecked + unchecked]
Doing(i, kind) == work[i].kind = kind

\* #enforceBudget with the action block; chats that cannot be read do not block a run.
BeginRun(i, readable) ==
    /\ Doing(i, "idle")
    /\ readable => ~Exceeded
    /\ work' = [work EXCEPT ![i] = [Idle EXCEPT !.kind = IF readable THEN "run" ELSE "free"]]
    /\ UNCHANGED <<files, open, today, history>>
InRun(i) == work[i].kind \in {"run", "free"}
CostsOfRun(i) ==
    /\ work[i].observed < MaxRunCost
    /\ Pay(1, IF Doing(i, "free") THEN 1 ELSE 0, 0)
    /\ UNCHANGED today
Observed(i) == work' = [work EXCEPT ![i].observed = @ + 1]
\* The compressor, before the first call, is booked and saved at once.
Compress(i) ==
    /\ InRun(i) /\ work[i].observed = 0 /\ CostsOfRun(i)
    /\ Save(i, AddCost(open[i], 1))
    /\ Observed(i)
\* PostModelCall: booked as soon as the call is over.
CallCosts(i) ==
    /\ InRun(i) /\ CostsOfRun(i)
    /\ open' = [open EXCEPT ![i] = AddCost(@, 1)]
    /\ Observed(i)
    /\ UNCHANGED files
\* Costs no call has reported are those of the response.  Saved however the run ended.
EndRun(i) ==
    /\ InRun(i)
    /\ Save(i, open[i])
    /\ work' = [work EXCEPT ![i] = Idle]
    /\ UNCHANGED <<today, history>>
EndUnreportedRun(i) ==
    /\ InRun(i) /\ work[i].observed = 0 /\ CostsOfRun(i)
    /\ Save(i, AddCost(open[i], 1))
    /\ work' = [work EXCEPT ![i] = Idle]

\* panelAskCommand: every model once, in parallel; then, if two answered, the judge.
BeginPanel(i) ==
    /\ Doing(i, "idle")
    /\ work' = [work EXCEPT ![i] = [kind |-> "panel", observed |-> 0, waiting |-> Members]]
    /\ UNCHANGED <<files, open, today, history>>
\* A call that fails is entered with no costs, whatever it had cost.
PanelAnswers(i, m, cost, ok) ==
    /\ Doing(i, "panel") /\ m \in work[i].waiting
    /\ work' = [work EXCEPT ![i] = [kind |-> "panel", waiting |-> work[i].waiting \ {m},
                                    observed |-> work[i].observed + IF ok THEN cost ELSE 0]]
    /\ Pay(cost, cost, IF ok THEN 0 ELSE cost)
    /\ UNCHANGED <<files, open, today>>
\* The answers are booked, then the judge is asked; what he costs is added before the save.
PanelBooks(i) ==
    /\ Doing(i, "panel") /\ work[i].waiting = {}
    /\ open' = [open EXCEPT ![i] = AddCost(@, work[i].observed)]
    /\ work' = [work EXCEPT ![i] = [Idle EXCEPT !.kind = "judge"]]
    /\ UNCHANGED <<files, today, history>>
PanelEnds(i, cost) ==
    /\ Doing(i, "judge")
    /\ Save(i, AddCost(open[i], cost))
    /\ work' = [work EXCEPT ![i] = Idle]
    /\ Pay(cost, cost, 0)
    /\ UNCHANGED today

\* transcribeAndInsert: booked and saved at once, without a look at the budget; a transcription
\* that fails is not booked.
Transcribe(i, ok) ==
    /\ Doing(i, "idle")
    /\ IF ok THEN Save(i, AddCost(open[i], 1)) ELSE UNCHANGED <<files, open>>
    /\ Pay(1, 1, IF ok THEN 0 ELSE 1)
    /\ UNCHANGED <<work, today>>

\* MUTANT: /clear makes an empty session.
ClearAll(i) == Doing(i, "idle") /\ Save(i, Nothing) /\ UNCHANGED <<work, today, history>>
\* /clear empties the chat and its totals, and keeps what each day has cost.
Clear(i) == Doing(i, "idle") /\ Save(i, open[i]) /\ UNCHANGED <<work, today, history>>
\* A chat that is deleted takes what it has cost along; its instance goes on with a new one.
DeleteChat(i) ==
    /\ Doing(i, "idle")
    /\ Save(i, Nothing)
    /\ Pay(0, 0, Sum(files[i]))
    /\ UNCHANGED <<work, today>>
NotBooked(w) == IF w.kind = "panel" THEN w.observed ELSE 0
\* What was not saved is lost.
Dies(i) ==
    /\ ~Doing(i, "idle")
    /\ open' = [open EXCEPT ![i] = files[i]]
    /\ work' = [work EXCEPT ![i] = Idle]
    /\ Pay(0, 0, NotBooked(work[i]) + (Sum(open[i]) - Sum(files[i])))
    /\ UNCHANGED <<files, today>>
Midnight ==
    /\ today + 1 \in Days
    /\ today' = today + 1
    /\ UNCHANGED <<files, open, work, history>>

SpendingNext ==
    \/ \E i \in Instances :
           \/ \E readable \in BOOLEAN : BeginRun(i, readable)
           \/ Compress(i) \/ CallCosts(i) \/ EndRun(i) \/ EndUnreportedRun(i)
           \/ BeginPanel(i) \/ PanelBooks(i)
           \/ \E m \in Members, cost \in 0..1, ok \in BOOLEAN : PanelAnswers(i, m, cost, ok)
           \/ \E cost \in 0..1 : PanelEnds(i, cost)
           \/ \E ok \in BOOLEAN : Transcribe(i, ok)
           \/ Clear(i) \/ DeleteChat(i) \/ Dies(i)
    \/ Midnight
SpendingSpec == SpendingInit /\ [][SpendingNext]_spending
-----------------------------------------------------------------------------
(* Properties *)

Booked == Sum([i \in Instances |-> Sum(open[i])])
UnderWay == Sum([i \in Instances |-> NotBooked(work[i])])

\* Every cost is booked on a day, once, or is still under way - /clear, midnight and the end
\* of other instances change nothing about that -, except those of failed panel calls, of
\* deleted chats and of processes that died.  (addCost, clear, panelAskCommand)
EveryCostIsBookedOnce == Booked + UnderWay + history.lost = history.paid

\* The day's spend passes a blocking limit by no more than one run of each instance, and the
\* costs of panels, transcriptions and runs that could not read the chats.
\* (#enforceBudget, workspaceSpend)
OverspendIsBounded ==
    \A d \in Days :
        Spent(d) < DailyLimit + Sum([i \in Instances |-> MaxRunCost]) + history.unchecked
===============================================================================
