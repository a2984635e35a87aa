------------------------------- MODULE RunView --------------------------------
(***************************************************************************)
(* AgentRun composed with what the dashboard shows of it: the events go    *)
(* through TerminalUi.handleRunEvent to RunViewModel.apply, in the step    *)
(* that tells them.  A tool block knows its tool only by the event's id,   *)
(* and ids start again with every run.                                     *)
(***************************************************************************)
EXTENDS AgentRun

VARIABLE view  \* blocks: the tool blocks, in order, what they are for and what they show;
               \* tools: #tools, the block of an event id; thinking: whether #reasoningId
               \* names a live block; header: the #run snapshot

NoView == [blocks |-> <<>>, tools |-> <<>>, thinking |-> FALSE,
           header |-> [running |-> FALSE, step |-> 0]]

\* set and delete of #tools.
With(f, n, k) == [m \in DOMAIN f \cup {n} |-> IF m = n THEN k ELSE f[m]]
Without(f, n) == [m \in DOMAIN f \ {n} |-> f[m]]

\* RunViewModel.apply, one operator per kind of event.
ToolStarted(v, e) ==
    [v EXCEPT !.blocks = Append(@, [run |-> runs', call |-> e.call, state |-> "running"]),
              !.tools = With(@, e.n, Len(v.blocks) + 1)]
\* MUTANT: the id is not looked up, the latest block is taken.
ToolEndedLatest(v, e) ==
    IF v.blocks = <<>> THEN v ELSE [v EXCEPT !.blocks[Len(v.blocks)].state = "ended"]
ToolEnded(v, e) ==
    IF e.n \notin DOMAIN v.tools THEN v
    ELSE [v EXCEPT !.blocks[v.tools[e.n]].state = "ended", !.tools = Without(@, e.n)]
RunEnded(v) ==
    [v EXCEPT !.blocks = [i \in DOMAIN @ |->
                  IF @[i].state = "running" THEN [@[i] EXCEPT !.state = "closed"] ELSE @[i]],
              !.tools = <<>>, !.thinking = FALSE]

Apply(v, e) ==
    CASE e.type = "tool-start" -> ToolStarted(v, e)
      [] e.type \in {"tool-end", "tool-error"} -> ToolEnded(v, e)
      [] e.type = "reasoning" -> [v EXCEPT !.thinking = TRUE]
      [] e.type = "model-end" -> [v EXCEPT !.thinking = FALSE]
      [] e.type = "run-end" -> RunEnded(v)
      [] OTHER -> v

\* handleRunEvent: the run's snapshot.
Header(h, e) ==
    CASE e.type = "run-start" -> [running |-> TRUE, step |-> 1]
      [] e.type \in {"model-start", "model-end", "reasoning"} -> [h EXCEPT !.step = e.n]
      [] e.type = "run-end" -> [h EXCEPT !.running = FALSE]
      [] OTHER -> h

\* A step tells two events at most.
HandleRunEvent(v, e) == [Apply(v, e) EXCEPT !.header = Header(@, e)]
AfterEvents(v, events) ==
    CASE Len(events) = 0 -> v
      [] Len(events) = 1 -> HandleRunEvent(v, events[1])
      [] Len(events) = 2 -> HandleRunEvent(HandleRunEvent(v, events[1]), events[2])

ViewInit == Init /\ view = NoView
Showing(A) == A /\ view' = AfterEvents(view, told')
ViewNext == Showing(Next)
ViewSpec == ViewInit /\ [][ViewNext]_<<vars, view>>
FairViewSpec ==
    /\ ViewSpec
    /\ WF_<<vars, view>>(Showing(OwnSteps))
    /\ WF_<<vars, view>>(Showing(aborted /\ TextFails))
    /\ WF_<<vars, view>>(Showing(aborted /\ ReasoningEnds))
-----------------------------------------------------------------------------
(* Properties *)

Running(t, i) == {c \in sdk.running : c.tool = t /\ c.input = i}
ShownRunning(t, i) ==
    {k \in DOMAIN view.blocks : /\ view.blocks[k].run = runs /\ view.blocks[k].state = "running"
                           /\ \E c \in view.blocks[k].call : c.tool = t /\ c.input = i}

\* While the model streams, the view shows as running exactly the calls that run; between
\* runs nothing runs or thinks - unless a call ended that never began, or one of an
\* earlier run, whose id the next run uses again.  (RunViewModel.apply, handleRunEvent)
ViewFollowsRun ==
    kinds \cap {"unannounced", "late"} = {} =>
        /\ pc = "stream" => \A t \in Tools, i \in Inputs :
               Cardinality(Running(t, i)) = Cardinality(ShownRunning(t, i))
        /\ pc = "idle" => /\ \A k \in DOMAIN view.blocks : view.blocks[k].state # "running"
                          /\ ~view.thinking /\ ~view.header.running
===============================================================================
