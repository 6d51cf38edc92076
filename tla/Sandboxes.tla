------------------------------ MODULE Sandboxes ------------------------------
(***************************************************************************)
(* The sandbox of a workspace: the commands that create, start, stop and   *)
(* destroy it (nats-responders.ts) through SandboxManager, and the record  *)
(* the event store keeps of it.  Docker is external: a workspace's         *)
(* container has a fixed name, so there is one at most; any call of docker *)
(* and any append may fail, and the hub may die between two of them.       *)
(* Limits, mounts, logs and status queries are left out.                   *)
(***************************************************************************)
EXTENDS Naturals, Sequences

CONSTANTS
    MaxSandboxCalls,    \* bound on the commands
    MaxHubDeaths        \* bound on the hub's deaths

ASSUME SandboxConstants == {MaxSandboxCalls, MaxHubDeaths} \subseteq Nat

VARIABLES
    container,      \* docker's container of that name: whose create made it, its state
    sandbox,        \* sandboxByWorkspace: id, containerId, status
    sandboxCalls,   \* commands under way, each with its handler's local variables
    asked,          \* commands and hub deaths so far
    cutShort,       \* containers whose creation failed after docker had made them
    mixed           \* whether two commands ever overlapped or one was half done

sandboxVars == <<container, sandbox, sandboxCalls, asked, cutShort, mixed>>

Nobody == 0
NoContainer == [of |-> Nobody, state |-> "none"]
NoSandbox == [id |-> Nobody, containerId |-> Nobody, status |-> "none"]

SandboxInit ==
    /\ container = NoContainer /\ sandbox = NoSandbox /\ sandboxCalls = {}
    /\ asked = [calls |-> 0, deaths |-> 0] /\ cutShort = {} /\ mixed = FALSE

\* What a command goes through: docker's steps in lower case, the appends by their event.
Steps(op) ==
    CASE op = "create" -> <<"create", "sandbox_created", "start", "sandbox_started">>
      [] op = "start" -> <<"start", "sandbox_started">>
      [] op = "stop" -> <<"stop", "sandbox_stopped">>
      [] op = "destroy" -> <<"rm", "sandbox_destroyed">>

\* Commands of one type are handled one after the other, those of several overlap.
\* create makes a new sandbox; the others want one that names a container.
Ask(op) ==
    /\ asked.calls < MaxSandboxCalls /\ \A call \in sandboxCalls : call.op # op
    /\ op # "create" => sandbox.containerId # Nobody
    /\ asked' = [asked EXCEPT !.calls = @ + 1]
    /\ LET id == IF op = "create" THEN asked'.calls ELSE sandbox.id
           its == IF op = "create" THEN asked'.calls ELSE sandbox.containerId
       IN sandboxCalls' = sandboxCalls \cup
              {[n |-> asked'.calls, op |-> op, at |-> 1, id |-> id, containerId |-> its, failed |-> FALSE]}
    /\ mixed' = (mixed \/ sandboxCalls # {})
    /\ UNCHANGED <<container, sandbox, cutShort>>

Step(call) == IF call.failed THEN "sandbox_error" ELSE Steps(call.op)[call.at]
InTry(call) == call.op = "create" /\ call.at > 2
Docker == {"create", "start", "stop", "rm"}

\* The next step, the end, or the catch that records the error.
Goes(call, ok) ==
    sandboxCalls' = (sandboxCalls \ {call}) \cup
        (IF ok /\ ~call.failed /\ call.at < Len(Steps(call.op))
         THEN {[call EXCEPT !.at = @ + 1]}
         ELSE IF ~ok /\ InTry(call) /\ ~call.failed THEN {[call EXCEPT !.failed = TRUE]} ELSE {})

Loses(call) == IF call.op = "create" /\ call.at > 1 THEN {call.containerId} ELSE {}

DockerRuns(call, ok) ==
    LET step == Step(call)  known == container.of = call.containerId IN
    /\ step \in Docker
    /\ ok => CASE step = "create" -> container = NoContainer
               [] step \in {"start", "stop"} -> known
               [] step = "rm" -> TRUE
    /\ container' = IF ~ok THEN container
                    ELSE CASE step = "create" -> [of |-> call.containerId, state |-> "created"]
                           [] step = "start" -> [container EXCEPT !.state = "running"]
                           [] step = "stop" -> [container EXCEPT !.state = "stopped"]
                           [] step = "rm" -> IF known THEN NoContainer ELSE container
    /\ cutShort' = IF ok THEN cutShort ELSE cutShort \cup Loses(call)
    /\ Goes(call, ok)
    /\ UNCHANGED <<sandbox, asked, mixed>>

\* applyEvent
SandboxAfter(event, call) ==
    CASE event = "sandbox_created" -> [id |-> call.id, containerId |-> Nobody, status |-> "creating"]
      [] event = "sandbox_started" -> [sandbox EXCEPT !.containerId = call.containerId, !.status = "running"]
      [] event = "sandbox_stopped" -> [sandbox EXCEPT !.status = "stopped"]
      [] event = "sandbox_destroyed" -> NoSandbox
      [] event = "sandbox_error" -> [sandbox EXCEPT !.status = "error"]

\* Fault seeded in findSandboxById: the workspace's sandbox is destroyed, whichever it is.
findSandboxOfWorkspace(event, call) == event \in {"sandbox_created", "sandbox_destroyed"} \/ sandbox.id = call.id

\* All but the first event concern the sandbox of that id, if it is still there.
findSandboxById(event, call) == event = "sandbox_created" \/ sandbox.id = call.id

Recorded(call, ok) ==
    LET event == Step(call) IN
    /\ event \notin Docker
    /\ sandbox' = IF ok /\ findSandboxById(event, call) THEN SandboxAfter(event, call) ELSE sandbox
    /\ cutShort' = IF ok THEN cutShort ELSE cutShort \cup Loses(call)
    /\ mixed' = (mixed \/ ~ok)
    /\ Goes(call, ok)
    /\ UNCHANGED <<container, asked>>

\* The records are read back from sandbox.jsonl; the commands are gone.
HubDies ==
    /\ asked.deaths < MaxHubDeaths
    /\ asked' = [asked EXCEPT !.deaths = @ + 1]
    /\ sandboxCalls' = {}
    /\ cutShort' = cutShort \cup UNION {Loses(call) : call \in sandboxCalls}
    /\ mixed' = (mixed \/ sandboxCalls # {})
    /\ UNCHANGED <<container, sandbox>>

SandboxStep ==
    \/ \E op \in {"create", "start", "stop", "destroy"} : Ask(op)
    \/ \E call \in sandboxCalls, ok \in BOOLEAN : DockerRuns(call, ok) \/ Recorded(call, ok)
    \/ HubDies

SandboxSpec == SandboxInit /\ [][SandboxStep]_sandboxVars

-----------------------------------------------------------------------------
(* Properties *)

\* Containers and records are of commands that were asked.
SandboxTypeOK ==
    /\ {container.of, sandbox.id, sandbox.containerId} \cup cutShort \subseteq 0..asked.calls
    /\ container.state \in {"none", "created", "running", "stopped"}
    /\ sandbox.status \in {"none", "creating", "running", "stopped", "error"}
    /\ \A call \in sandboxCalls : call.at \in DOMAIN Steps(call.op)

\* When no command is under way, a container that exists can be stopped and destroyed:
\* the record names it, however the commands overlapped.  Let off: one whose creation
\* failed, or was cut off, after docker had made it.  Nothing names it, and its name
\* keeps the workspace from getting another.
ContainerIsNamed ==
    sandboxCalls = {} => container.of \in {Nobody, sandbox.containerId} \cup cutShort

\* Where commands never overlapped and every append succeeded the record's status is
\* the container's.
StatusIsTrue ==
    (sandboxCalls = {} /\ ~mixed) =>
        /\ sandbox.status \in {"running", "stopped"} =>
               container = [of |-> sandbox.containerId, state |-> sandbox.status]
        /\ sandbox.status = "none" => container.of \in {Nobody} \cup cutShort

\* What the store records of a workspace's sandbox stays true of docker's container,
\* over commands that overlap, fail half way or are cut off by the hub's death.
SandboxIsKept == ContainerIsNamed /\ StatusIsTrue
=============================================================================
