------------------------------ MODULE MCParts -------------------------------
(***************************************************************************)
(* The TLC instance of the parts that are modelled each for itself.  They  *)
(* share no variables: a behaviour is a behaviour of the part in focus,    *)
(* while the others rest as they began.  Where a part has several initial  *)
(* states, the first conjuncts of PartsInit fix one while it rests.        *)
(***************************************************************************)
EXTENDS CodexSession, Orchestrator, WorkflowRun, SelfUpdate, WsProxy, RunnerRegistry, Terminals,
        TurnPipeline

VARIABLE focus      \* the part that runs

partsVars == <<focus, codexVars, orchestratorVars, workflowVars, selfUpdateVars, wsProxyVars,
               registryVars, terminalVars, pipelineVars>>

Parts == {"codex", "orchestrator", "workflow", "update", "proxy", "registry", "terminals", "pipeline"}

PartsInit ==
    /\ focus \in Parts
    /\ CodexInit /\ (focus # "codex" => ~threadKnown /\ itemKind = "tool")
    /\ OrchestratorInit /\ TerminalInit /\ PipelineInit
    /\ WorkflowInit /\ (focus # "workflow" => engine.policy = "stop")
    /\ SelfUpdateInit /\ (focus # "update" => ~process.share)
    /\ WsProxyInit /\ (focus # "proxy" => ~proxy.awaitingHello)
    /\ RegistryInit /\ (focus # "registry" => linked.mode = "spawn")

\* While the part p takes its steps, one by one, the other parts rest.
OthersRest(p) ==
    /\ UNCHANGED focus
    /\ (p # "codex" => UNCHANGED codexVars)
    /\ (p # "orchestrator" => UNCHANGED orchestratorVars)
    /\ (p # "workflow" => UNCHANGED workflowVars)
    /\ (p # "update" => UNCHANGED selfUpdateVars)
    /\ (p # "proxy" => UNCHANGED wsProxyVars)
    /\ (p # "registry" => UNCHANGED registryVars)
    /\ (p # "terminals" => UNCHANGED terminalVars)
    /\ (p # "pipeline" => UNCHANGED pipelineVars)

PartsNext ==
    \/ focus = "codex" /\ CodexNext /\ OthersRest("codex")
    \/ focus = "orchestrator" /\ OrchestratorStep /\ OthersRest("orchestrator")
    \/ focus = "workflow" /\ WorkflowStep /\ OthersRest("workflow")
    \/ focus = "update" /\ SelfUpdateStep /\ OthersRest("update")
    \/ focus = "proxy" /\ WsProxyStep /\ OthersRest("proxy")
    \/ focus = "registry" /\ RegistryStep /\ OthersRest("registry")
    \/ focus = "terminals" /\ TerminalStep /\ OthersRest("terminals")
    \/ focus = "pipeline" /\ PipelineNext /\ OthersRest("pipeline")

\* The fairness of the specifications of the parts that state some.
PartsFairness ==
    /\ WF_codexVars(focus = "codex" /\ AppServerAnswers /\ UNCHANGED itemKind)
    /\ WF_codexVars(focus = "codex" /\ AppServerEnds /\ UNCHANGED itemKind)
    /\ WF_codexVars(focus = "codex" /\ UserResponds /\ UNCHANGED itemKind)
    /\ \A w \in Waits : WF_orchestratorVars(focus = "orchestrator" /\ WaitTimedOut(w))
    /\ WF_workflowVars(focus = "workflow" /\ EventApplied)
    /\ WF_workflowVars(focus = "workflow" /\ StepUndone)
    /\ WF_workflowVars(focus = "workflow" /\ \E ok \in BOOLEAN : StepDispatched(ok))
    /\ WF_selfUpdateVars(focus = "update" /\ Stopped)
    /\ WF_selfUpdateVars(focus = "update" /\ Supervised)
    /\ WF_selfUpdateVars(focus = "update" /\ (StartupUpdate \/ StartupServes))
    /\ WF_pipelineVars(focus = "pipeline" /\ HubStep)
    /\ \A t \in Turns : WF_pipelineVars(focus = "pipeline" /\ (TakeCommand(t) \/ CreateTurn(t) \/ RunTurn(t)))

PartsSpec == PartsInit /\ [][PartsNext]_partsVars /\ PartsFairness

\* Every variable of the part that runs has the shape the code gives it.
PartsTypeOK ==
    CASE focus = "codex"        -> CodexTypeOK
      [] focus = "orchestrator" -> OrchestratorTypeOK
      [] focus = "workflow"     -> WorkflowTypeOK
      [] focus = "update"       -> SelfUpdateTypeOK
      [] focus = "proxy"        -> WsProxyTypeOK
      [] focus = "registry"     -> RegistryTypeOK
      [] focus = "terminals"    -> TerminalTypeOK
      [] focus = "pipeline"     -> PipelineTypeOK
=============================================================================
