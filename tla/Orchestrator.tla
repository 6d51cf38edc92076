---------------------------- MODULE Orchestrator ----------------------------
(***************************************************************************)
(* SessionOrchestrator (src/server/orchestration.ts): a chat spawns agent  *)
(* chats, waits for their results, sends them more input and closes them.  *)
(* The turns of the agents are the runner's; the durable side of a spawn   *)
(* is DelegationCoordinator's (see Delegation).  All of the state here is  *)
(* in memory: a hub that restarts has no agents.  destroy, which rejects   *)
(* those who wait as the hub shuts down, is left out: nothing runs after.  *)
(***************************************************************************)
EXTENDS Naturals, FiniteSets

CONSTANTS
    Root,           \* the chat the user talks to
    Agents,         \* the chats spawnAgent creates
    Waits,          \* the waitForResult calls
    MaxDepth,       \* maxDepth of the orchestrator
    MaxConcurrency, \* maxConcurrency of the orchestrator
    DelegationDepth,\* the deepest delegation DelegationCoordinator records
    NoWait

ASSUME OrchestratorConstants ==
    /\ Root \notin Agents /\ NoWait \notin Waits
    /\ {MaxDepth, MaxConcurrency, DelegationDepth} \subseteq Nat \ {0}

VARIABLES
    origins,        \* OriginRecord of each agent, while it has one
    children,       \* children: the agents listed under each chat
    spawns,         \* the spawnAgent call behind each agent
    waiters,        \* waiters: the wait registered for each agent
    waits,          \* the waitForResult calls, each with its timer
    working         \* getActiveStatuses: the agents observed in a turn

orchestratorVars == <<origins, children, spawns, waiters, waits, working>>

AllChats == {Root} \cup Agents

NoOrigin == [depth |-> 0, from |-> Root, closed |-> FALSE]
\* depth 0: not a tracked agent.  lastStatus matters only as "closed".
OriginRecord == [depth: 0..MaxDepth, from: AllChats, closed: BOOLEAN]
SpawnRecord == [step: {"none", "creating", "recording", "starting", "started", "failed"},
                by: AllChats, depth: 0..MaxDepth]
\* "unsettled": its promise can no longer settle, closeAgent took the timer away.
WaitRecord == [state: {"idle", "waiting", "result", "timeout", "unsettled"}, on: Agents \cup {Root}]

OrchestratorInit ==
    /\ origins = [a \in Agents |-> NoOrigin]
    /\ children = [c \in AllChats |-> {}]
    /\ spawns = [a \in Agents |-> [step |-> "none", by |-> Root, depth |-> 0]]
    /\ waiters = [a \in Agents |-> NoWait]
    /\ waits = [w \in Waits |-> [state |-> "idle", on |-> Root]]
    /\ working = {}

Tracked(a) == a \in Agents /\ origins[a].depth > 0
DepthOf(c) == IF Tracked(c) THEN origins[c].depth ELSE 0
\* The tools are called from a turn; when the root has one is of no matter.
CanCall(c) == c \in {Root} \cup working

-----------------------------------------------------------------------------
(* spawnAgent: an await after the checks, after the registration and after *)
(* the delegation's record                                                 *)

\* countActiveSteered: an agent not yet seen in a turn resolves to "completed".
ActiveSteered == {a \in Agents : Tracked(a) /\ ~origins[a].closed /\ a \in working}

SpawnChecked(caller, a) ==
    /\ spawns[a].step = "none" /\ CanCall(caller)
    /\ DepthOf(caller) < MaxDepth
    /\ Cardinality(ActiveSteered) < MaxConcurrency
    /\ spawns' = [spawns EXCEPT ![a] = [step |-> "creating", by |-> caller,
                                        depth |-> DepthOf(caller) + 1]]
    /\ UNCHANGED <<origins, children, waiters, waits, working>>

Register(a) ==
    /\ origins' = [origins EXCEPT ![a] = [depth |-> spawns[a].depth, from |-> spawns[a].by,
                                          closed |-> FALSE]]
    /\ children' = [children EXCEPT ![spawns[a].by] = @ \cup {a}]

\* createChat returned: the agent is registered before anything else is known
\* to work, and nothing takes the registration back.
SpawnRegistered(a) ==
    /\ spawns[a].step = "creating"
    /\ Register(a)
    /\ spawns' = [spawns EXCEPT ![a].step = "recording"]
    /\ UNCHANGED <<waiters, waits, working>>

SpawnRecorded(a) ==
    /\ spawns[a].step = "recording"
    /\ spawns' = [spawns EXCEPT ![a].step =
                     IF spawns[a].depth > DelegationDepth THEN "failed" ELSE "starting"]
    /\ UNCHANGED <<origins, children, waiters, waits, working>>

SpawnStarted(a, ok) ==
    /\ spawns[a].step = "starting"
    /\ spawns' = [spawns EXCEPT ![a].step = IF ok THEN "started" ELSE "failed"]
    /\ UNCHANGED <<origins, children, waiters, waits, working>>

-----------------------------------------------------------------------------
(* The turns of the agents, as the hub observes them *)

\* The turn of the spawn, one that sendInput started or queued (listAgents names
\* an agent before its spawn is done) or one the user sent is seen to run.
TurnObserved(a) ==
    /\ spawns[a].step \notin {"none", "creating"} /\ a \notin working
    /\ working' = working \cup {a}
    /\ UNCHANGED <<origins, children, spawns, waiters, waits>>

\* onMessageAppended with a result entry: the waiter registered is resolved.
ResultAppended(a) ==
    /\ a \in working
    /\ working' = working \ {a}
    /\ IF waiters[a] = NoWait THEN UNCHANGED <<waiters, waits>>
       ELSE /\ waits' = [waits EXCEPT ![waiters[a]].state = "result"]
            /\ waiters' = [waiters EXCEPT ![a] = NoWait]
    /\ UNCHANGED <<origins, children, spawns>>

-----------------------------------------------------------------------------
(* waitForResult, closeAgent and the pruning of closed agents *)

Owns(caller, a) == Tracked(a) /\ origins[a].from = caller

\* Fault seeded in RegisterWaiter: the timer of the waiter replaced is cleared too.
RegisterWaiterAlone(w, a) ==
    /\ waits' = [v \in Waits |->
                    IF v = w THEN [state |-> "waiting", on |-> a]
                    ELSE IF v = waiters[a] THEN [waits[v] EXCEPT !.state = "unsettled"]
                    ELSE waits[v]]
    /\ waiters' = [waiters EXCEPT ![a] = w]

\* A waiter already registered for the agent is replaced; it keeps its timer.
RegisterWaiter(w, a) ==
    /\ waits' = [waits EXCEPT ![w] = [state |-> "waiting", on |-> a]]
    /\ waiters' = [waiters EXCEPT ![a] = w]

WaitForResult(caller, a, w) ==
    /\ CanCall(caller) /\ Owns(caller, a)
    /\ waits[w].state = "idle"
    /\ RegisterWaiter(w, a)
    /\ UNCHANGED <<origins, children, spawns, working>>

\* The timer deletes whichever waiter the agent has, cancels the agent's turn
\* (it ends as any turn does) and rejects its own promise.
WaitTimedOut(w) ==
    /\ waits[w].state = "waiting"
    /\ waits' = [waits EXCEPT ![w].state = "timeout"]
    /\ waiters' = [waiters EXCEPT ![waits[w].on] = NoWait]
    /\ UNCHANGED <<origins, children, spawns, working>>

\* The waiter registered loses its timer and is forgotten, without settling.
Forget(a) ==
    /\ waits' = [w \in Waits |-> IF w = waiters[a] THEN [waits[w] EXCEPT !.state = "unsettled"]
                                 ELSE waits[w]]
    /\ waiters' = [waiters EXCEPT ![a] = NoWait]

CloseAgent(caller, a) ==
    /\ CanCall(caller) /\ Owns(caller, a)
    /\ origins' = [origins EXCEPT ![a].closed = TRUE]
    /\ Forget(a)
    /\ UNCHANGED <<children, spawns, working>>

\* Fault seeded in Cleanup: the agent stays listed under the chat it came from.
CleanupListed(a) ==
    /\ children' = [children EXCEPT ![a] = {}]
    /\ origins' = [origins EXCEPT ![a] = NoOrigin]

\* The agents of the agent keep their own records.
Cleanup(a) ==
    /\ children' = [children EXCEPT ![a] = {}, ![origins[a].from] = @ \ {a}]
    /\ origins' = [origins EXCEPT ![a] = NoOrigin]

\* pruneTombstones, at the end of every broadcast: one closed agent after another.
PruneTombstone(a) ==
    /\ Tracked(a) /\ origins[a].closed
    /\ Cleanup(a)
    /\ Forget(a)
    /\ UNCHANGED <<spawns, working>>

\* cancelWithCascade, which only tests call, cleans up the agents under an agent and then
\* the agent, closed or not, each after its cancel was awaited, while others are spawned,
\* closed and pruned: one agent after another here, in any order.  Of a chat that is no
\* agent it drops the list, then empty unless one was registered in the last await;
\* that is left out.
CascadeCleaned(a) ==
    /\ Tracked(a)
    /\ Cleanup(a)
    /\ Forget(a)
    /\ UNCHANGED <<spawns, working>>

OrchestratorStep ==
    \/ \E c \in AllChats, a \in Agents : SpawnChecked(c, a)
    \/ \E a \in Agents : SpawnRegistered(a) \/ SpawnRecorded(a)
    \/ \E a \in Agents, ok \in BOOLEAN : SpawnStarted(a, ok)
    \/ \E a \in Agents : TurnObserved(a) \/ ResultAppended(a)
    \/ \E c \in AllChats, a \in Agents, w \in Waits : WaitForResult(c, a, w)
    \/ \E w \in Waits : WaitTimedOut(w)
    \/ \E c \in AllChats, a \in Agents : CloseAgent(c, a)
    \/ \E a \in Agents : PruneTombstone(a) \/ CascadeCleaned(a)

OrchestratorSpec ==
    OrchestratorInit /\ [][OrchestratorStep]_orchestratorVars
    /\ \A w \in Waits : WF_orchestratorVars(WaitTimedOut(w))

-----------------------------------------------------------------------------
(* Properties *)

\* The maps of the orchestrator and the calls under way.
OrchestratorTypeOK ==
    /\ origins \in [Agents -> OriginRecord]
    /\ children \in [AllChats -> SUBSET Agents]
    /\ spawns \in [Agents -> SpawnRecord]
    /\ waiters \in [Agents -> Waits \cup {NoWait}]
    /\ waits \in [Waits -> WaitRecord]
    /\ working \subseteq Agents

\* The two indexes of the hierarchy agree whatever the order of spawns, closes,
\* cascades and broadcasts: an agent listed under a chat is tracked, came from that chat
\* and is one level below it (getHierarchy shows an agent listed but not tracked
\* as closed, for ever).
ListedAgentsAreTracked ==
    \A c \in AllChats : \A a \in children[c] :
        /\ Tracked(a) /\ origins[a].from = c
        /\ Tracked(c) => origins[a].depth = origins[c].depth + 1

\* Every waitForResult comes back, with the agent's result or with a timeout, also
\* when another wait for the same agent took its place, unless that agent was closed
\* or cleaned up meanwhile (its promise is then dropped).
WaitsSettle ==
    \A w \in Waits :
        waits[w].state = "waiting" ~>
            \/ waits[w].state \in {"result", "timeout"}
            \/ waits[w].state = "unsettled" /\ \/ ~Tracked(waits[w].on)
                                               \/ origins[waits[w].on].closed
=============================================================================
