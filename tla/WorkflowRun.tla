---------------------------- MODULE WorkflowRun ----------------------------
(***************************************************************************)
(* One run of a workflow: WorkflowEngine (src/server/workflow-engine.ts)   *)
(* emitting events that EventStore (src/server/event-store.ts) appends and *)
(* applies one after another.  The dispatcher of the steps is external.    *)
(* cancel() runs while execute() awaits an append or a dispatch; it aborts *)
(* nothing that is under way.                                              *)
(***************************************************************************)
EXTENDS Naturals, Sequences

CONSTANTS
    Steps,          \* definition.steps
    Repos,          \* the target repos of each step, at least one iteration
    OnFailure       \* definition.on_failure of the runs

ASSUME WorkflowConstants ==
    /\ {Steps, Repos} \subseteq Nat \ {0}
    /\ OnFailure \subseteq {"stop", "rollback", "continue"}

VARIABLES
    run,            \* WorkflowRunState in the store: its status and its steps
    engine,         \* executeSteps: where it is and what it awaits
    control,        \* the AbortController and activeRuns; whether the hub restarted
    appends         \* EventStore.writeChain: events not yet applied, with their emitter

workflowVars == <<run, engine, control, appends>>

Position == (1..Steps) \X (1..Repos)
RunStatuses == {"none", "running", "completed", "failed", "cancelled"}
Awaiting == {"nothing", "started", "step_started", "dispatch", "step_completed", "step_failed",
             "rollback", "failed", "completed"}

WorkflowInit ==
    /\ run = [status |-> "none", steps |-> [p \in Position |-> "none"]]
    /\ engine \in [step: {1}, repo: {1}, awaits: {"nothing"}, policy: OnFailure, undo: {<<0, 0>>}]
    /\ control = [active |-> FALSE, aborted |-> FALSE, restarted |-> FALSE]
    /\ appends = <<>>

Here == <<engine.step, engine.repo>>

Emit(event, at, by) == appends' = Append(appends, [event |-> event, at |-> at, by |-> by])

\* start(): the run is active before its first event is stored.
StartRun ==
    /\ run.status = "none" /\ engine.awaits = "nothing" /\ ~control.restarted
    /\ control' = [control EXCEPT !.active = TRUE]
    /\ engine' = [engine EXCEPT !.awaits = "started"]
    /\ Emit("started", Here, "engine")
    /\ UNCHANGED run

Finish(awaits, event, chain) ==
    /\ engine' = [engine EXCEPT !.awaits = awaits]
    /\ appends' = Append(chain, [event |-> event, at |-> Here, by |-> "engine"])
    /\ UNCHANGED control

\* The finally of executeSteps.
LeaveRun(chain) ==
    /\ engine' = [engine EXCEPT !.awaits = "nothing"]
    /\ control' = [control EXCEPT !.active = FALSE]
    /\ appends' = chain

\* The end of the loops: completed, unless aborted.
CompleteOr(chain) ==
    IF control.aborted THEN LeaveRun(chain) ELSE Finish("completed", "completed", chain)

\* Fault seeded in EnterPosition: abort is looked at before a step, not before each repo.
EnterPositionStep(p, chain) ==
    IF control.aborted /\ p[2] = 1 THEN LeaveRun(chain)
    ELSE /\ engine' = [engine EXCEPT !.step = p[1], !.repo = p[2], !.awaits = "step_started"]
         /\ appends' = Append(chain, [event |-> "step_started", at |-> p, by |-> "engine"])
         /\ UNCHANGED control

\* The head of both loops: aborted runs leave them.
EnterPosition(p, chain) ==
    IF control.aborted THEN LeaveRun(chain)
    ELSE /\ engine' = [engine EXCEPT !.step = p[1], !.repo = p[2], !.awaits = "step_started"]
         /\ appends' = Append(chain, [event |-> "step_started", at |-> p, by |-> "engine"])
         /\ UNCHANGED control

NextPosition(chain) ==
    IF engine.repo < Repos THEN EnterPosition(<<engine.step, engine.repo + 1>>, chain)
    ELSE IF engine.step < Steps THEN EnterPosition(<<engine.step + 1, 1>>, chain)
    ELSE CompleteOr(chain)

\* The rollback undoes the steps before the one that failed, last first, all repos.
RollbackFrom(s, chain) ==
    IF s = 0 THEN Finish("failed", "failed", chain)
    ELSE /\ engine' = [engine EXCEPT !.awaits = "rollback", !.undo = <<s, 1>>]
         /\ appends' = chain /\ UNCHANGED control

AfterFailure(chain) ==
    CASE engine.policy = "stop"     -> Finish("failed", "failed", chain)
      [] engine.policy = "rollback" -> RollbackFrom(engine.step - 1, chain)
      [] engine.policy = "continue" -> NextPosition(chain)

\* EventStore.applyEvent; events of a run that is not known are ignored.
Recorded(e) ==
    CASE e.event = "started" -> [run EXCEPT !.status = "running"]
      [] e.event = "step_started" -> [run EXCEPT !.steps[e.at] = "running"]
      [] e.event = "step_completed" -> [run EXCEPT !.steps[e.at] = "completed"]
      [] e.event = "step_failed" -> [run EXCEPT !.steps[e.at] = "failed"]
      [] OTHER -> [run EXCEPT !.status = e.event]

\* The append at the head is written and applied, and its emitter goes on.
EventApplied ==
    /\ appends # <<>>
    /\ run' = Recorded(Head(appends))
    /\ LET e == Head(appends)  chain == Tail(appends)
       IN CASE e.by = "cancel" -> appends' = chain /\ UNCHANGED <<engine, control>>
            [] e.event = "started" -> EnterPosition(<<1, 1>>, chain)
            [] e.event = "step_started" -> /\ engine' = [engine EXCEPT !.awaits = "dispatch"]
                                           /\ appends' = chain /\ UNCHANGED control
            [] e.event = "step_completed" -> NextPosition(chain)
            [] e.event = "step_failed" -> AfterFailure(chain)
            [] OTHER -> LeaveRun(chain)

StepDispatched(ok) ==
    /\ engine.awaits = "dispatch"
    /\ engine' = [engine EXCEPT !.awaits = IF ok THEN "step_completed" ELSE "step_failed"]
    /\ Emit(IF ok THEN "step_completed" ELSE "step_failed", Here, "engine")
    /\ UNCHANGED <<run, control>>

\* One dispatch of the rollback, whatever comes of it.
StepUndone ==
    /\ engine.awaits = "rollback"
    /\ IF engine.undo[2] < Repos
       THEN /\ engine' = [engine EXCEPT !.undo[2] = @ + 1]
            /\ UNCHANGED <<control, appends>>
       ELSE RollbackFrom(engine.undo[1] - 1, appends)
    /\ UNCHANGED run

\* Fault seeded in CancelRun: the engine is left to store the end of an aborted run.
CancelRunUnstored ==
    /\ control.active /\ run.status # "none"
    /\ control' = [control EXCEPT !.aborted = TRUE, !.active = FALSE]
    /\ UNCHANGED <<run, engine, appends>>

\* cancel(): only a run that is active, once its id is known.
CancelRun ==
    /\ control.active /\ run.status # "none"
    /\ control' = [control EXCEPT !.aborted = TRUE, !.active = FALSE]
    /\ Emit("cancelled", Here, "cancel")
    /\ UNCHANGED <<run, engine>>

\* The hub restarts with what is stored; no run is taken up again.
EngineLost ==
    /\ ~control.restarted /\ run.status # "none"
    /\ control' = [control EXCEPT !.restarted = TRUE, !.active = FALSE]
    /\ engine' = [engine EXCEPT !.awaits = "nothing"]
    /\ appends' = <<>>
    /\ UNCHANGED run

WorkflowStep ==
    \/ StartRun \/ EventApplied \/ StepUndone \/ CancelRun \/ EngineLost
    \/ \E ok \in BOOLEAN : StepDispatched(ok)

WorkflowSpec ==
    /\ WorkflowInit /\ [][WorkflowStep]_workflowVars
    /\ WF_workflowVars(EventApplied) /\ WF_workflowVars(StepUndone)
    /\ WF_workflowVars(\E ok \in BOOLEAN : StepDispatched(ok))

-----------------------------------------------------------------------------
(* Properties *)

\* The run that is stored and where the engine is in it.
WorkflowTypeOK ==
    /\ run \in [status: RunStatuses, steps: [Position -> {"none", "running", "completed", "failed"}]]
    /\ engine \in [step: 1..Steps, repo: 1..Repos, awaits: Awaiting, policy: OnFailure,
                   undo: (0..Steps) \X (0..Repos)]
    /\ control \in [active: BOOLEAN, aborted: BOOLEAN, restarted: BOOLEAN]
    /\ \A i \in DOMAIN appends : appends[i].at \in Position

\* Once cancel() has aborted a run, no further step of it begins, in no repo,
\* whatever the engine was awaiting and whichever policy it follows: what is
\* still emitted is about the step under way.
AbortIsSeen == [][control.aborted => Here' = Here]_workflowVars

\* Every run that was started comes to an end, whatever fails and however it is
\* cancelled, unless the hub restarts under it.
RunsEnd == run.status = "running" ~> run.status # "running" \/ control.restarted

\* A run stops where it was cancelled, and ends.
StopsAndEnds == AbortIsSeen /\ RunsEnd
=============================================================================
