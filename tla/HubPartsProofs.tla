--------------------------- MODULE HubPartsProofs ---------------------------
(***************************************************************************)
(* Proofs about parts of the hub that are modelled each for itself:        *)
(* Terminals, RunnerRegistry, Orchestrator, CodexSession, WsProxy,         *)
(* SelfUpdate and WorkflowRun, for any constants, and about MCParts, which *)
(* puts them side by side with the pipeline.                               *)
(***************************************************************************)
EXTENDS MCParts, PipelineProofs

-----------------------------------------------------------------------------
(* Terminals: no shell escapes its owner *)

\* A running shell was spawned for an id of a tab; without this an entry for
\* no id would satisfy the property by accident.
OwnersAreIds == \A n \in Shells : Running(n) => shells[n].id \in TerminalIds

\* The inductive invariant of the terminals.
TerminalInv == TerminalTypeOK /\ OwnersAreIds /\ ShellsAreOwned

\* Initially nothing runs.
LEMMA TerminalInvInit == TerminalInit => TerminalInv
<1> SUFFICES ASSUME TerminalInit PROVE TerminalInv
  OBVIOUS
<1>1. 0 \in 0..MaxShells
  BY TerminalConstants
<1>2. TerminalTypeOK
  BY <1>1 DEF TerminalInit, TerminalTypeOK, NoTerminal
<1>3. \A n \in Shells : ~Running(n)
  BY DEF TerminalInit, Running
<1> QED
  BY <1>2, <1>3 DEF TerminalInv, OwnersAreIds, ShellsAreOwned

\* A spawn for an id without a session: no running shell can have had that id,
\* for its session would name the shell and not 0.
LEMMA SpawnStep ==
    ASSUME TerminalInv, NEW id \in TerminalIds, NEW n \in Shells,
           sessions[id] = NoTerminal, Spawned(id, n), UNCHANGED project
    PROVE  TerminalInv'
<1> USE TerminalConstants DEF TerminalInv, Shells
<1>1. TerminalTypeOK'
  <2>1. n \in 0..MaxShells
    OBVIOUS
  <2>2. sessions' \in [TerminalIds -> [shell: 0..MaxShells, status: {"none", "running", "exited"}]]
    BY <2>1, Zenon DEF TerminalTypeOK, Spawned
  <2> QED
    BY <2>2 DEF TerminalTypeOK, Spawned
<1>2. OwnersAreIds'
  BY DEF TerminalTypeOK, OwnersAreIds, Running, Spawned
<1>3. ShellsAreOwned'
  <2> SUFFICES ASSUME NEW m \in Shells, Running(m)'
               PROVE  sessions'[shells'[m].id].shell = m
    BY DEF ShellsAreOwned
  <2>1. CASE m = n
    BY <2>1 DEF TerminalTypeOK, Spawned
  <2>2. CASE m # n
    <3>1. Running(m) /\ shells'[m] = shells[m]
      BY <2>2 DEF TerminalTypeOK, Spawned, Running
    <3>2. shells[m].id \in TerminalIds /\ sessions[shells[m].id].shell = m
      BY <3>1 DEF OwnersAreIds, ShellsAreOwned
    <3>3. shells[m].id # id
      BY <3>2 DEF NoTerminal
    <3> QED
      BY <3>1, <3>2, <3>3 DEF Spawned, TerminalTypeOK
  <2> QED
    BY <2>1, <2>2
<1> QED
  BY <1>1, <1>2, <1>3

\* The sessions of some ids are dropped and the shells they name are killed.
LEMMA KilledStep ==
    ASSUME TerminalInv, NEW ids \in SUBSET TerminalIds, Killed(ids),
           project' \in {"known", "removing", "removed"}
    PROVE  TerminalInv'
<1> USE TerminalConstants DEF TerminalInv, Shells
<1>1. TerminalTypeOK'
  <2>1. NoTerminal \in [shell: 0..MaxShells, status: {"none", "running", "exited"}]
    BY DEF NoTerminal
  <2>2. sessions' \in [TerminalIds -> [shell: 0..MaxShells, status: {"none", "running", "exited"}]]
    BY <2>1 DEF TerminalTypeOK, Killed
  <2>3. shells' \in [Shells -> [id: TerminalIds \union {""},
                                state: {"none", "running", "killed", "ended", "gone"}]]
    BY DEF TerminalTypeOK, Killed
  <2> QED
    BY <2>2, <2>3 DEF TerminalTypeOK
<1>2. \A m \in Shells : Running(m)' => /\ Running(m) /\ shells'[m] = shells[m]
                                       /\ m \notin {sessions[id].shell : id \in ids}
  BY DEF Killed, Running, TerminalTypeOK
<1>3. OwnersAreIds'
  BY <1>2 DEF OwnersAreIds
<1>4. ShellsAreOwned'
  BY <1>2 DEF ShellsAreOwned, OwnersAreIds, Killed
<1> QED
  BY <1>1, <1>3, <1>4

\* The state of one shell becomes one in which it does not run, and at most the
\* status of a session changes with it.
LEMMA ExitStep ==
    ASSUME TerminalInv, NEW n \in Shells, ShellExits(n) \/ ExitNoticed(n)
    PROVE  TerminalInv'
<1> USE TerminalConstants DEF TerminalInv, Shells
<1>1. TerminalTypeOK'
  <2>1. CASE ShellExits(n)
    BY <2>1 DEF TerminalTypeOK, ShellExits
  <2>2. CASE ExitNoticed(n)
    BY ZenonT(40), <2>2 DEF TerminalTypeOK, ExitNoticed, NoTerminal
  <2> QED
    BY <2>1, <2>2
<1>2. \A m \in Shells : Running(m)' => Running(m) /\ shells'[m] = shells[m]
  <2>1. /\ DOMAIN shells = Shells
        /\ \A m \in Shells : DOMAIN shells[m] = {"id", "state"}
    BY DEF TerminalTypeOK
  <2>2. PICK state \in {"ended", "gone"} : shells' = [shells EXCEPT ![n].state = state]
    BY DEF ShellExits, ExitNoticed
  <2>3. \A m \in Shells \ {n} : shells'[m] = shells[m]
    BY <2>1, <2>2
  <2>4. shells'[n].state # "running"
    BY <2>1, <2>2
  <2> QED
    BY <2>3, <2>4 DEF Running
<1>3. \A id \in TerminalIds : sessions'[id].shell = sessions[id].shell
  <2>1. CASE ShellExits(n)
    BY <2>1 DEF ShellExits
  <2>2. CASE ExitNoticed(n)
    <3> SUFFICES ASSUME NEW id \in TerminalIds
                 PROVE  sessions'[id].shell = sessions[id].shell
      OBVIOUS
    <3>1. sessions[id] \in [shell: 0..MaxShells, status: {"none", "running", "exited"}]
      BY DEF TerminalTypeOK
    <3>2. CASE id = shells[n].id
      BY <2>2, <3>1, <3>2 DEF ExitNoticed, TerminalTypeOK
    <3>3. CASE id # shells[n].id
      BY <2>2, <3>3 DEF ExitNoticed, TerminalTypeOK
    <3> QED
      BY <3>2, <3>3
  <2> QED
    BY <2>1, <2>2
<1> QED
  BY <1>1, <1>2, <1>3 DEF OwnersAreIds, ShellsAreOwned

\* Every step keeps the invariant.
LEMMA TerminalKeeps == TerminalInv /\ [TerminalStep]_terminalVars => TerminalInv'
<1> SUFFICES ASSUME TerminalInv, [TerminalStep]_terminalVars
             PROVE  TerminalInv'
  OBVIOUS
<1>1. ASSUME NEW id \in TerminalIds, NEW n \in Shells, CreateTerminal(id, n)
      PROVE  TerminalInv'
  BY <1>1, SpawnStep DEF CreateTerminal
<1>2. ASSUME NEW id \in TerminalIds, CloseTerminal(id)
      PROVE  TerminalInv'
  BY <1>2, KilledStep DEF CloseTerminal, TerminalInv, TerminalTypeOK
<1>3. ASSUME NEW n \in Shells, ShellExits(n) \/ ExitNoticed(n)
      PROVE  TerminalInv'
  BY <1>3, ExitStep
<1>4. CASE ProjectRemoval
  BY <1>4, KilledStep DEF ProjectRemoval
<1>5. CASE ProjectRemoved
  BY <1>5 DEF ProjectRemoved, TerminalInv, TerminalTypeOK, OwnersAreIds, ShellsAreOwned, Running
<1>6. CASE CloseAll
  BY <1>6, KilledStep DEF CloseAll, TerminalInv, TerminalTypeOK
<1>7. CASE UNCHANGED terminalVars
  BY <1>7 DEF terminalVars, TerminalInv, TerminalTypeOK, OwnersAreIds, ShellsAreOwned, Running
<1> QED
  BY <1>1, <1>2, <1>3, <1>4, <1>5, <1>6, <1>7 DEF TerminalStep

\* No running shell escapes the session of its id: TerminalManager.close, closeByCwd
\* and closeAll reach every shell createTerminal spawned, for any ids and shells.
THEOREM NoShellEscapes == TerminalSpec => []ShellsAreOwned
<1>1. TerminalInv => ShellsAreOwned
  BY DEF TerminalInv
<1> QED
  BY TerminalInvInit, TerminalKeeps, <1>1, PTL DEF TerminalSpec

-----------------------------------------------------------------------------
(* RunnerRegistry: a runner that is ready listens *)

\* The part of the types the argument needs.
LinkTyped ==
    /\ DOMAIN runners = Runners
    /\ linked = [mode |-> linked.mode, phase |-> linked.phase, runner |-> linked.runner,
                 fresh |-> linked.fresh, attempts |-> linked.attempts]

\* r got as far as to subscribe.
HasListened(r) == runners[r] \in {"listening", "gone"}

\* What is on its way was sent by the runner the hub watches, after it subscribed.
BeatsAreHeard == \A r \in beats : r = linked.runner /\ r \in Runners /\ HasListened(r)

\* A heartbeat recorded is the watched runner's; a spawned one is told to shut down
\* only by dispose(), after which nothing asks for its heartbeats.
FreshHasListened ==
    /\ linked.fresh /\ linked.phase \notin {"disposing", "disposed"} => HasListened(linked.runner)
    /\ linked.phase = "ready" => linked.fresh
    /\ linked.phase \in {"disposing", "disposed"} => beats = {}
    /\ linked.fresh => linked.runner \in Runners

\* The inductive invariant of the registry.
LinkInv == LinkTyped /\ BeatsAreHeard /\ FreshHasListened

\* Nothing is linked at first.
LEMMA LinkInvInit == RegistryInit => LinkInv
  BY DEF RegistryInit, LinkInv, LinkTyped, BeatsAreHeard, FreshHasListened

\* The steps of the runners: only a runner that listens beats, and one that has
\* listened can only be gone afterwards.
LEMMA RunnerSteps ==
    ASSUME LinkInv, NEW r \in Runners, NEW yes \in BOOLEAN,
           \/ RunnerStarted(r) \/ Subscribes(r) \/ Beats(r)
           \/ Registers(r, yes) \/ RunnerDies(r, yes)
    PROVE  LinkInv'
<1>1. CASE Beats(r)
  BY <1>1 DEF Beats, LinkInv, LinkTyped, BeatsAreHeard, FreshHasListened, HasListened
<1>2. CASE RunnerStarted(r) \/ Subscribes(r) \/ Registers(r, yes) \/ RunnerDies(r, yes)
  <2>1. linked' = linked /\ beats' = beats /\ DOMAIN runners' = Runners
    BY <1>2 DEF RunnerStarted, Subscribes, Registers, RunnerDies, LinkInv, LinkTyped
  <2>2. \A q \in Runners : HasListened(q) => HasListened(q)'
    BY <1>2 DEF RunnerStarted, Subscribes, Registers, RunnerDies, LinkInv, LinkTyped,
       HasListened, Alive
  <2> QED
    BY <2>1, <2>2 DEF LinkInv, LinkTyped, BeatsAreHeard, FreshHasListened
<1> QED
  BY <1>1, <1>2

\* A new runner is watched from nothing: no heartbeat of an earlier attempt counts.
LEMMA WatchSteps ==
    ASSUME LinkInv, (\E r \in Runners : RunnerSpawned(r)) \/ RunnerDiscovered
    PROVE  LinkInv'
BY DEF RunnerSpawned, Watch, LinkInv, LinkTyped, BeatsAreHeard, FreshHasListened, RunnerDiscovered

\* The other steps of the hub.
LEMMA HubSteps ==
    ASSUME LinkInv,
           \/ \E r \in Runners : HeartbeatArrives(r)
           \/ RegistrationSeen \/ RunnerReady \/ WaitTimesOut \/ Disposes \/ RunnerGone
    PROVE  LinkInv'
<1>1. CASE \E r \in Runners : HeartbeatArrives(r)
  BY <1>1 DEF HeartbeatArrives, LinkInv, LinkTyped, BeatsAreHeard, FreshHasListened, HasListened
<1>2. CASE RegistrationSeen \/ RunnerReady \/ WaitTimesOut
  BY <1>2 DEF RegistrationSeen, RunnerReady, WaitTimesOut,
     LinkInv, LinkTyped, BeatsAreHeard, FreshHasListened, HasListened
<1>3. CASE Disposes
  BY <1>3 DEF Disposes, LinkInv, LinkTyped, BeatsAreHeard, FreshHasListened, HasListened
<1>4. CASE RunnerGone
  BY <1>4 DEF RunnerGone, LinkInv, LinkTyped, BeatsAreHeard, FreshHasListened, HasListened
<1> QED
  BY <1>1, <1>2, <1>3, <1>4

\* Every step keeps the invariant.
LEMMA LinkKeeps == LinkInv /\ [RegistryStep]_registryVars => LinkInv'
<1> SUFFICES ASSUME LinkInv, [RegistryStep]_registryVars
             PROVE  LinkInv'
  OBVIOUS
<1>1. ASSUME NEW r \in Runners, NEW yes \in BOOLEAN,
             \/ RunnerStarted(r) \/ Subscribes(r) \/ Beats(r)
             \/ Registers(r, yes) \/ RunnerDies(r, yes)
      PROVE  LinkInv'
  BY <1>1, RunnerSteps
<1>2. CASE (\E r \in Runners : RunnerSpawned(r)) \/ RunnerDiscovered
  BY <1>2, WatchSteps
<1>3. CASE \/ \E r \in Runners : HeartbeatArrives(r)
           \/ RegistrationSeen \/ RunnerReady \/ WaitTimesOut \/ Disposes \/ RunnerGone
  BY <1>3, HubSteps
<1>4. CASE UNCHANGED registryVars
  BY <1>4 DEF registryVars, LinkInv, LinkTyped, BeatsAreHeard, FreshHasListened, HasListened
<1> QED
  BY <1>1, <1>2, <1>3, <1>4 DEF RegistryStep

\* It says what is to be shown.
LEMMA LinkGives == LinkInv => ReadyIsListening
BY DEF LinkInv, FreshHasListened, HasListened, ReadyIsListening

\* ensureRunner returns only a runner that has subscribed to its commands: of the
\* heartbeats only those of the runner watched count, and it beats after subscribing.
THEOREM ReadyRunnersListen == RegistrySpec => []ReadyIsListening
<1> QED
  BY LinkInvInit, LinkKeeps, LinkGives, PTL DEF RegistrySpec

-----------------------------------------------------------------------------
(* Orchestrator: the hierarchy of agents *)

\* Types of what the hierarchy is made of; the waits do not matter to it.
HierarchyTyped ==
    /\ origins \in [Agents -> OriginRecord]
    /\ children \in [AllChats -> SUBSET Agents]
    /\ spawns \in [Agents -> SpawnRecord]
    /\ working \subseteq Agents

\* The agent has got past its creation.
Registered(a) == spawns[a].step \notin {"none", "creating"}

\* An agent is known, listed and at work only after its spawn has registered it,
\* and what it comes from is what its spawn was called by.
KnownIsRegistered ==
    /\ working \subseteq {a \in Agents : Registered(a)}
    /\ \A a \in Agents : Tracked(a) => Registered(a)
    /\ \A c \in AllChats : \A a \in children[c] : Registered(a) /\ spawns[a].by = c

\* A spawn under way was called by a chat that is at work, so that the level it was
\* checked for is still the one below its caller: a chat is registered only once.
SpawnsKeepTheirLevel ==
    \A a \in Agents :
        spawns[a].step # "none" /\ spawns[a].by \in Agents =>
            /\ Registered(spawns[a].by)
            /\ Tracked(spawns[a].by) => spawns[a].depth = origins[spawns[a].by].depth + 1

\* A listed agent has the level its spawn was checked for, which is never that of
\* an unknown chat.
OriginsFromSpawns ==
    /\ \A a \in Agents : Tracked(a) => origins[a].depth = spawns[a].depth
    /\ \A a \in Agents : spawns[a].step # "none" => spawns[a].depth > 0

\* The inductive invariant of the hierarchy.
HierarchyInv ==
    /\ HierarchyTyped /\ KnownIsRegistered /\ SpawnsKeepTheirLevel /\ OriginsFromSpawns
    /\ ListedAgentsAreTracked

\* No agents at first.
LEMMA HierarchyInit == OrchestratorInit => HierarchyInv
<1> SUFFICES ASSUME OrchestratorInit PROVE HierarchyInv
  OBVIOUS
<1>1. Root \in AllChats /\ 0 \in 0..MaxDepth
  BY OrchestratorConstants DEF AllChats
<1>2. NoOrigin \in OriginRecord
  BY <1>1 DEF NoOrigin, OriginRecord
<1>3. origins \in [Agents -> OriginRecord] /\ \A a \in Agents : ~Tracked(a)
  BY <1>2 DEF OrchestratorInit, Tracked, NoOrigin
<1>4. /\ spawns \in [Agents -> SpawnRecord]
      /\ \A a \in Agents : spawns[a].step = "none"
  BY <1>1 DEF OrchestratorInit, SpawnRecord
<1>5. children \in [AllChats -> SUBSET Agents] /\ (\A c \in AllChats : children[c] = {})
  BY DEF OrchestratorInit
<1>6. working = {}
  BY DEF OrchestratorInit
<1> QED
  BY <1>3, <1>4, <1>5, <1>6 DEF HierarchyInv, HierarchyTyped, KnownIsRegistered,
     SpawnsKeepTheirLevel, OriginsFromSpawns, ListedAgentsAreTracked, Registered

\* The checks of spawnAgent: the caller is at work, so it is registered.
LEMMA CheckStep ==
    ASSUME HierarchyInv, NEW c \in AllChats, NEW a \in Agents, SpawnChecked(c, a)
    PROVE  HierarchyInv'
<1> USE DEF HierarchyInv, HierarchyTyped
<1>1. DepthOf(c) \in Nat /\ DepthOf(c) + 1 \in 0..MaxDepth /\ DepthOf(c) + 1 > 0
  BY OrchestratorConstants DEF SpawnChecked, DepthOf, Tracked, OriginRecord
<1>2. spawns' \in [Agents -> SpawnRecord]
  BY <1>1 DEF SpawnChecked, SpawnRecord
<1>3. /\ spawns'[a] = [step |-> "creating", by |-> c, depth |-> DepthOf(c) + 1]
      /\ \A b \in Agents : b # a => spawns'[b] = spawns[b]
      /\ ~Registered(a) /\ ~Registered(a)'
      /\ UNCHANGED <<origins, children, working>>
  BY DEF SpawnChecked, Registered
<1>4. \A b \in Agents : Registered(b)' <=> Registered(b)
  BY <1>3 DEF Registered
<1>5. KnownIsRegistered'
  BY <1>3, <1>4 DEF KnownIsRegistered, Tracked, Registered
<1>6. c \in Agents => Registered(c)
  BY OrchestratorConstants DEF SpawnChecked, CanCall, KnownIsRegistered, AllChats
<1>7. SpawnsKeepTheirLevel'
  BY <1>3, <1>4, <1>6 DEF SpawnsKeepTheirLevel, Tracked, DepthOf
<1>8. OriginsFromSpawns'
  BY <1>1, <1>3 DEF OriginsFromSpawns, KnownIsRegistered, Tracked
<1>9. ListedAgentsAreTracked'
  BY <1>3 DEF ListedAgentsAreTracked, Tracked
<1> QED
  BY <1>2, <1>3, <1>5, <1>7, <1>8, <1>9

\* createChat has returned: the agent had no entry before, and nothing is listed
\* under it yet.
LEMMA RegisterStep ==
    ASSUME HierarchyInv, NEW a \in Agents, SpawnRegistered(a)
    PROVE  HierarchyInv'
<1> USE DEF HierarchyInv, HierarchyTyped
<1> DEFINE by == spawns[a].by
<1>1. /\ spawns[a].step = "creating" /\ by \in AllChats /\ spawns[a].depth \in 0..MaxDepth
      /\ ~Registered(a) /\ ~Tracked(a) /\ children[a] = {} /\ by # a
      /\ a \in AllChats
  BY DEF SpawnRegistered, SpawnRecord, Registered, KnownIsRegistered, AllChats, SpawnsKeepTheirLevel
<1>2. /\ origins' = [origins EXCEPT ![a] = [depth |-> spawns[a].depth, from |-> by, closed |-> FALSE]]
      /\ children' = [children EXCEPT ![by] = @ \cup {a}]
      /\ spawns' = [spawns EXCEPT ![a].step = "recording"]
      /\ working' = working
  BY DEF SpawnRegistered, Register
<1>3. origins' \in [Agents -> OriginRecord] /\ children' \in [AllChats -> SUBSET Agents]
  BY <1>1, <1>2 DEF OriginRecord
<1>4. spawns' \in [Agents -> SpawnRecord]
  BY <1>2 DEF SpawnRecord
<1>5. /\ \A b \in Agents : spawns'[b].by = spawns[b].by /\ spawns'[b].depth = spawns[b].depth
      /\ \A b \in Agents : Registered(b)' <=> Registered(b) \/ b = a
      /\ \A b \in Agents : spawns'[b].step # "none" <=> spawns[b].step # "none"
  BY <1>1, <1>2 DEF SpawnRecord, Registered
<1>6. /\ \A b \in Agents : b # a => origins'[b] = origins[b]
      /\ origins'[a].depth = spawns[a].depth /\ origins'[a].from = by
      /\ spawns[a].depth > 0
  BY <1>1, <1>2 DEF OriginsFromSpawns
<1>7. \A b \in Agents : Tracked(b)' <=> Tracked(b) \/ b = a
  BY <1>6 DEF Tracked
<1>8. KnownIsRegistered'
  BY <1>1, <1>2, <1>5, <1>7 DEF KnownIsRegistered
<1>9. SpawnsKeepTheirLevel'
  BY <1>1, <1>5, <1>6, <1>7 DEF SpawnsKeepTheirLevel
<1>10. OriginsFromSpawns'
  BY <1>5, <1>6, <1>7 DEF OriginsFromSpawns
<1>11. ListedAgentsAreTracked'
  <2> SUFFICES ASSUME NEW c \in AllChats, NEW b \in children'[c]
               PROVE  /\ Tracked(b)' /\ origins'[b].from = c
                      /\ Tracked(c)' => origins'[b].depth = origins'[c].depth + 1
    BY DEF ListedAgentsAreTracked
  <2>1. CASE b = a
    <3>1. c = by
      BY <1>1, <1>2, <2>1 DEF KnownIsRegistered
    <3>2. Tracked(c)' => Tracked(c) /\ c \in Agents /\ origins'[c] = origins[c]
      BY <1>1, <1>6, <1>7, <3>1 DEF Tracked
    <3> QED
      BY <1>1, <1>6, <1>7, <2>1, <3>1, <3>2 DEF SpawnsKeepTheirLevel
  <2>2. CASE b # a
    <3>1. b \in children[c] /\ b \in Agents
      BY <1>1, <1>2, <2>2
    <3>2. c # a
      BY <1>1, <3>1
    <3>3. Tracked(c)' => Tracked(c) /\ origins'[c] = origins[c]
      BY <1>6, <1>7, <3>2 DEF Tracked
    <3> QED
      BY <1>6, <1>7, <2>2, <3>1, <3>3 DEF ListedAgentsAreTracked
  <2> QED
    BY <2>1, <2>2
<1> QED
  BY <1>2, <1>3, <1>4, <1>8, <1>9, <1>10, <1>11

\* The rest of a spawn, the turns and the waits leave the hierarchy alone.
LEMMA QuietSteps ==
    ASSUME HierarchyInv,
           \/ \E a \in Agents : SpawnRecorded(a) \/ TurnObserved(a) \/ ResultAppended(a)
           \/ \E a \in Agents, ok \in BOOLEAN : SpawnStarted(a, ok)
           \/ \E c \in AllChats, a \in Agents, w \in Waits : WaitForResult(c, a, w)
           \/ \E w \in Waits : WaitTimedOut(w)
    PROVE  HierarchyInv'
<1> USE DEF HierarchyInv, HierarchyTyped
<1>1. UNCHANGED <<origins, children>>
  BY DEF SpawnRecorded, SpawnStarted, TurnObserved, ResultAppended, WaitForResult, WaitTimedOut
<1>2. /\ spawns' \in [Agents -> SpawnRecord]
      /\ \A b \in Agents : /\ spawns'[b].by = spawns[b].by /\ spawns'[b].depth = spawns[b].depth
                           /\ Registered(b)' <=> Registered(b)
                           /\ spawns'[b].step # "none" <=> spawns[b].step # "none"
  <2>1. CASE \E a \in Agents : SpawnRecorded(a)
    BY <2>1 DEF SpawnRecorded, SpawnRecord, Registered
  <2>2. CASE \E a \in Agents, ok \in BOOLEAN : SpawnStarted(a, ok)
    BY <2>2 DEF SpawnStarted, SpawnRecord, Registered
  <2>3. CASE spawns' = spawns
    BY <2>3 DEF Registered
  <2> QED
    BY <2>1, <2>2, <2>3 DEF TurnObserved, ResultAppended, WaitForResult, WaitTimedOut
<1>3. working' \subseteq {b \in Agents : Registered(b)'}
  <2>1. working' \subseteq {b \in Agents : Registered(b)}
    BY DEF TurnObserved, KnownIsRegistered, Registered, SpawnRecorded, SpawnStarted, ResultAppended, WaitForResult,
       WaitTimedOut
  <2> QED
    BY <1>2, <2>1
<1> QED
  BY <1>1, <1>2, <1>3 DEF KnownIsRegistered, SpawnsKeepTheirLevel, OriginsFromSpawns,
     ListedAgentsAreTracked, Tracked

\* closeAgent marks the agent; it stays listed.
LEMMA CloseStep ==
    ASSUME HierarchyInv, NEW c \in AllChats, NEW a \in Agents, CloseAgent(c, a)
    PROVE  HierarchyInv'
<1> USE DEF HierarchyInv, HierarchyTyped
<1>1. origins' \in [Agents -> OriginRecord] /\ UNCHANGED <<children, spawns, working>>
  BY DEF CloseAgent, OriginRecord
<1>2. \A b \in Agents : origins'[b].depth = origins[b].depth /\ origins'[b].from = origins[b].from
  BY DEF CloseAgent, OriginRecord
<1>3. \A b : Tracked(b)' <=> Tracked(b)
  BY <1>2 DEF Tracked
<1> QED
  BY <1>1, <1>2, <1>3 DEF KnownIsRegistered, SpawnsKeepTheirLevel, OriginsFromSpawns,
     ListedAgentsAreTracked, Registered, AllChats, Tracked

\* cleanup takes the agent out of both indexes: it is listed under the chat it came
\* from and nowhere else.
LEMMA PruneStep ==
    ASSUME HierarchyInv, NEW a \in Agents, PruneTombstone(a) \/ CascadeCleaned(a)
    PROVE  HierarchyInv'
<1> USE DEF HierarchyInv, HierarchyTyped
<1>1. /\ Tracked(a) /\ UNCHANGED <<spawns, working>>
      /\ children' = [children EXCEPT ![a] = {}, ![origins[a].from] = @ \ {a}]
      /\ origins' = [origins EXCEPT ![a] = NoOrigin]
      /\ a \in AllChats /\ origins[a].from \in AllChats
  BY DEF PruneTombstone, CascadeCleaned, Cleanup, AllChats, OriginRecord
<1>2. NoOrigin \in OriginRecord
  BY OrchestratorConstants DEF NoOrigin, OriginRecord, AllChats
<1>3. origins' \in [Agents -> OriginRecord] /\ children' \in [AllChats -> SUBSET Agents]
  BY <1>1, <1>2
<1>4. \A b \in Agents : (Tracked(b)' => Tracked(b) /\ b # a) /\ (b # a => origins'[b] = origins[b])
  BY <1>1 DEF Tracked, NoOrigin
<1>5. \A c \in AllChats : /\ children'[c] \subseteq children[c]
                          /\ a \notin children'[c]
                          /\ children'[a] = {}
  <2> SUFFICES ASSUME NEW c \in AllChats
               PROVE  /\ children'[c] \subseteq children[c] /\ a \notin children'[c]
                      /\ children'[a] = {}
    OBVIOUS
  <2>1. a \in children[c] => c = origins[a].from
    BY DEF ListedAgentsAreTracked
  <2>2. CASE c = origins[a].from
    BY <1>1, <2>2
  <2>3. CASE c # origins[a].from
    BY <1>1, <2>1, <2>3
  <2> QED
    BY <2>2, <2>3
<1>6. KnownIsRegistered'
  BY <1>1, <1>4, <1>5 DEF KnownIsRegistered, Registered
<1>7. SpawnsKeepTheirLevel'
  BY <1>1, <1>4 DEF SpawnsKeepTheirLevel, Registered
<1>8. OriginsFromSpawns'
  BY <1>1, <1>4 DEF OriginsFromSpawns
<1>9. ListedAgentsAreTracked'
  <2> SUFFICES ASSUME NEW c \in AllChats, NEW b \in children'[c]
               PROVE  /\ Tracked(b)' /\ origins'[b].from = c
                      /\ Tracked(c)' => origins'[b].depth = origins'[c].depth + 1
    BY DEF ListedAgentsAreTracked
  <2>1. b \in children[c] /\ b # a /\ c # a /\ b \in Agents
    BY <1>5
  <2>2. Tracked(b)'
    BY <1>4, <2>1 DEF ListedAgentsAreTracked, Tracked
  <2>3. Tracked(c)' => Tracked(c) /\ origins'[c] = origins[c]
    BY <1>4, <2>1 DEF Tracked
  <2> QED
    BY <1>4, <2>1, <2>2, <2>3 DEF ListedAgentsAreTracked
<1> QED
  BY <1>1, <1>3, <1>6, <1>7, <1>8, <1>9

\* Every step keeps the invariant.
LEMMA HierarchyKeeps == HierarchyInv /\ [OrchestratorStep]_orchestratorVars => HierarchyInv'
<1> SUFFICES ASSUME HierarchyInv, [OrchestratorStep]_orchestratorVars
             PROVE  HierarchyInv'
  OBVIOUS
<1>1. ASSUME NEW c \in AllChats, NEW a \in Agents,
             SpawnChecked(c, a) \/ CloseAgent(c, a)
      PROVE  HierarchyInv'
  BY <1>1, CheckStep, CloseStep
<1>2. CASE \/ \E a \in Agents : SpawnRecorded(a) \/ TurnObserved(a) \/ ResultAppended(a)
           \/ \E a \in Agents, ok \in BOOLEAN : SpawnStarted(a, ok)
           \/ \E c \in AllChats, a \in Agents, w \in Waits : WaitForResult(c, a, w)
           \/ \E w \in Waits : WaitTimedOut(w)
  BY <1>2, QuietSteps
<1>3. CASE UNCHANGED orchestratorVars
  BY <1>3 DEF orchestratorVars, HierarchyInv, HierarchyTyped, KnownIsRegistered,
     SpawnsKeepTheirLevel, OriginsFromSpawns, ListedAgentsAreTracked, Tracked, Registered
<1>4. \A a \in Agents : SpawnRegistered(a) \/ PruneTombstone(a) \/ CascadeCleaned(a) => HierarchyInv'
  BY RegisterStep, PruneStep
<1> QED
  BY <1>1, <1>2, <1>3, <1>4 DEF OrchestratorStep

\* The indexes of the agents' hierarchy agree and its levels are right, for any
\* agents and limits and in whatever order spawns, closes, cascades and broadcasts meet.
THEOREM HierarchyIsConsistent == OrchestratorSpec => []ListedAgentsAreTracked
<1>1. HierarchyInv => ListedAgentsAreTracked
  BY DEF HierarchyInv
<1> QED
  BY HierarchyInit, HierarchyKeeps, <1>1, PTL DEF OrchestratorSpec

-----------------------------------------------------------------------------
(* CodexSession: a turn's transcript is its own *)

ItemStates == {"none", "called", "started", "completed"}

\* What the queue of turn t was given is of t; until it is done its one item was
\* shown exactly if one of the two sets has it, and a search that waits for its text
\* was shown.
TurnTold(t, p) ==
    /\ p \in CodexTurn
    /\ p.startedToolIds \subseteq {t} /\ p.handledDynamicToolIds \subseteq {t}
    /\ p.pendingWebSearch \in {t, NoCodexTurn} /\ p.verdicts \subseteq {t, NoCodexTurn}
    /\ \A i \in Item : i # t => p.calls[i] = 0 /\ p.results[i] = 0
    /\ p.calls[t] <= 1 /\ (p.results[t] > 0 => p.calls[t] = 1)
    /\ ~p.done => /\ p.calls[t] = 1 <=> t \in p.startedToolIds \cup p.handledDynamicToolIds
                  /\ p.pendingWebSearch = t => p.calls[t] = 1
    /\ p.call = "session" => p.startedToolIds = {} /\ p.handledDynamicToolIds = {} /\ p.asking = "no"

\* What the app-server works on is the pending turn, of which it knows how far its
\* item is.
ServerFits(s, server, pending) ==
    server.turn # NoCodexTurn =>
        LET t == server.turn p == pending[t] IN
        /\ s.state = "open" /\ s.pendingTurn = t
        /\ p.call \in {"requested", "live"} /\ p.asking # "plan"
        /\ server.item = "none" => p.startedToolIds = {} /\ p.handledDynamicToolIds = {}
        /\ server.item = "called" => t \in p.handledDynamicToolIds

SessionRecord == [state: SessionStates, pendingTurn: CodexTurns \cup {NoCodexTurn}]
\* It never has a second turn before it: the runner ends one before the next.
ServerRecord  == [turn: CodexTurns \cup {NoCodexTurn}, next: {NoCodexTurn}, item: ItemStates]

ServerKnows ==
    /\ session \in SessionRecord /\ appServer \in ServerRecord
    /\ threadKnown \in BOOLEAN /\ itemKind \in ItemKinds
    /\ ServerFits(session, appServer, pendingTurns)

OneIsBusy == \A t, u \in CodexTurns : Busy(t) /\ Busy(u) => t = u

TurnsAreTold == pendingTurns \in [CodexTurns -> CodexTurn] /\ \A t \in CodexTurns : TurnTold(t, pendingTurns[t])

\* The inductive invariant of a chat's sessions.
CodexInv == ServerKnows /\ OneIsBusy /\ TurnsAreTold

\* A turn of which nothing was told yet.
ToldNothing(p) ==
    /\ p \in CodexTurn /\ p.startedToolIds = {} /\ p.handledDynamicToolIds = {}
    /\ p.pendingWebSearch = NoCodexTurn /\ p.verdicts = {} /\ p.asking = "no"
    /\ \A i \in Item : p.calls[i] = 0 /\ p.results[i] = 0

\* What is told of such a turn fits: nothing.
LEMMA NothingIsTold ==
    ASSUME NEW t \in CodexTurns, NEW p, ToldNothing(p)
    PROVE  TurnTold(t, p)
BY CodexConstants DEF Item, CodexTurns, ToldNothing, TurnTold

\* A turn that starts was told nothing, wherever its start comes from.
LEMMA FreshIsTold ==
    ASSUME NEW plan \in BOOLEAN, NEW follow \in BOOLEAN, NEW call \in {"none", "session", "requested"}
    PROVE  /\ ToldNothing(FreshCodexTurn(plan)) /\ FreshCodexTurn(plan).call = "session"
           /\ ToldNothing([FreshCodexTurn(plan) EXCEPT !.call = call])
           /\ [FreshCodexTurn(plan) EXCEPT !.call = call].call = call
           /\ ToldNothing([FreshCodexTurn(plan) EXCEPT !.call = call, !.followUp = follow])
           /\ [FreshCodexTurn(plan) EXCEPT !.call = call, !.followUp = follow].call = call
<1> DEFINE f == FreshCodexTurn(plan)
           none == [i \in Item |-> 0]
<1>0. none \in [Item -> Nat] /\ \A i \in Item : none[i] = 0
  OBVIOUS
<1> HIDE DEF none
<1>1. f = [call |-> "session", planMode |-> plan, planned |-> FALSE, followUp |-> FALSE,
           asking |-> "no", resolved |-> FALSE, done |-> FALSE, startedToolIds |-> {},
           handledDynamicToolIds |-> {}, pendingWebSearch |-> NoCodexTurn,
           calls |-> none, results |-> none, verdicts |-> {}]
  BY DEF FreshCodexTurn, none
<1>2. f \in CodexTurn
  BY <1>0, <1>1 DEF CodexTurn
<1>3. /\ f.startedToolIds = {} /\ f.handledDynamicToolIds = {} /\ f.pendingWebSearch = NoCodexTurn
      /\ f.verdicts = {} /\ f.calls = none /\ f.results = none /\ f.asking = "no" /\ f.call = "session"
  BY <1>1
<1>4. ToldNothing(f)
  BY <1>0, <1>2, <1>3 DEF ToldNothing
<1> HIDE DEF f
<1>5. ToldNothing([f EXCEPT !.call = call]) /\ [f EXCEPT !.call = call].call = call
  BY <1>2, <1>4 DEF ToldNothing, CodexTurn
<1>6. /\ ToldNothing([f EXCEPT !.call = call, !.followUp = follow])
      /\ [f EXCEPT !.call = call, !.followUp = follow].call = call
  BY <1>2, <1>4 DEF ToldNothing, CodexTurn
<1> QED BY <1>3, <1>4, <1>5, <1>6 DEF f

\* A change of a turn that pushes nothing.
LEMMA KeepsTold ==
    ASSUME NEW t \in CodexTurns, NEW p, TurnTold(t, p), NEW q \in CodexTurn,
           q.startedToolIds = p.startedToolIds, q.handledDynamicToolIds = p.handledDynamicToolIds,
           q.pendingWebSearch \in {p.pendingWebSearch, NoCodexTurn},
           q.verdicts \subseteq p.verdicts \cup {t, NoCodexTurn},
           q.calls = p.calls, q.results = p.results,
           p.done => q.done, q.call = "session" => p.call = "session" /\ q.asking = p.asking
    PROVE  TurnTold(t, q)
BY CodexConstants DEF CodexTurns, TurnTold

\* The verdict of a turn, or of a session that failed.
LEMMA VerdictIsTold ==
    ASSUME NEW t \in CodexTurns, NEW p, TurnTold(t, p), NEW origin \in {t, NoCodexTurn}
    PROVE  LET q == PushVerdict(p, origin) IN TurnTold(t, q) /\ q.done /\ q.call = p.call
<1> DEFINE q == PushVerdict(p, origin)
<1>1. p \in CodexTurn /\ p.done \in BOOLEAN
  BY DEF TurnTold, CodexTurn
<1>2. CASE p.done
  BY <1>2 DEF PushVerdict
<1>3. CASE ~p.done
  <2>1. q = [p EXCEPT !.verdicts = @ \cup {origin}, !.done = TRUE]
    BY <1>3 DEF PushVerdict
  <2>2. q \in CodexTurn
    <3>1. p.verdicts \cup {origin} \in SUBSET (CodexTurns \cup {NoCodexTurn})
      BY <1>1 DEF CodexTurn
    <3> QED BY <1>1, <2>1, <3>1 DEF CodexTurn
  <2>3. /\ q.startedToolIds = p.startedToolIds /\ q.handledDynamicToolIds = p.handledDynamicToolIds
        /\ q.pendingWebSearch = p.pendingWebSearch /\ q.verdicts = p.verdicts \cup {origin}
        /\ q.calls = p.calls /\ q.results = p.results /\ q.done /\ q.call = p.call
        /\ q.asking = p.asking
    BY <1>1, <2>1 DEF CodexTurn
  <2> HIDE DEF q
  <2>4. TurnTold(t, q)
    BY <2>2, <2>3, KeepsTold
  <2> QED BY <2>3, <2>4 DEF q
<1> QED BY <1>2, <1>3

\* What pushing calls and results of the turn's own item makes of it.
LEMMA PushesOwn ==
    ASSUME NEW t \in CodexTurns, NEW p \in CodexTurn, NEW is \in SUBSET {t}
    PROVE  /\ LET q == PushCalls(p, is) IN
              /\ q \in CodexTurn
              /\ \A i \in Item : q.calls[i] = IF ~p.done /\ i \in is THEN p.calls[i] + 1 ELSE p.calls[i]
              /\ q.results = p.results /\ q.done = p.done /\ q.call = p.call /\ q.asking = p.asking
              /\ q.startedToolIds = p.startedToolIds /\ q.handledDynamicToolIds = p.handledDynamicToolIds
              /\ q.pendingWebSearch = p.pendingWebSearch /\ q.verdicts = p.verdicts
           /\ LET q == PushResults(p, is) IN
              /\ q \in CodexTurn
              /\ \A i \in Item : q.results[i] = IF ~p.done /\ i \in is THEN p.results[i] + 1 ELSE p.results[i]
              /\ q.calls = p.calls /\ q.done = p.done /\ q.call = p.call /\ q.asking = p.asking
              /\ q.startedToolIds = p.startedToolIds /\ q.handledDynamicToolIds = p.handledDynamicToolIds
              /\ q.pendingWebSearch = p.pendingWebSearch /\ q.verdicts = p.verdicts
<1> DEFINE cs == [i \in Item |-> IF i \in is THEN p.calls[i] + 1 ELSE p.calls[i]]
           rs == [i \in Item |-> IF i \in is THEN p.results[i] + 1 ELSE p.results[i]]
<1>0. p.calls \in [Item -> Nat] /\ p.results \in [Item -> Nat] /\ p.done \in BOOLEAN
  BY DEF CodexTurn
<1>1. cs \in [Item -> Nat] /\ rs \in [Item -> Nat]
  BY <1>0
<1>2. /\ ~p.done => PushCalls(p, is) = [p EXCEPT !.calls = cs] /\ PushResults(p, is) = [p EXCEPT !.results = rs]
      /\ p.done => PushCalls(p, is) = p /\ PushResults(p, is) = p
  BY DEF PushCalls, PushResults
<1>3. \A i \in Item : /\ cs[i] = IF i \in is THEN p.calls[i] + 1 ELSE p.calls[i]
                      /\ rs[i] = IF i \in is THEN p.results[i] + 1 ELSE p.results[i]
  OBVIOUS
<1> HIDE DEF cs, rs
<1>4. CASE p.done
  BY <1>2, <1>4
<1>5. CASE ~p.done
  <2>1. PushCalls(p, is) = [p EXCEPT !.calls = cs] /\ PushResults(p, is) = [p EXCEPT !.results = rs]
    BY <1>2, <1>5
  <2> DEFINE q == [p EXCEPT !.calls = cs]
             u == [p EXCEPT !.results = rs]
  <2>2. /\ q \in CodexTurn /\ q.calls = cs
        /\ q.results = p.results /\ q.done = p.done /\ q.call = p.call /\ q.asking = p.asking
        /\ q.startedToolIds = p.startedToolIds /\ q.handledDynamicToolIds = p.handledDynamicToolIds
        /\ q.pendingWebSearch = p.pendingWebSearch /\ q.verdicts = p.verdicts
    BY <1>1 DEF CodexTurn
  <2>3. /\ u \in CodexTurn /\ u.results = rs
        /\ u.calls = p.calls /\ u.done = p.done /\ u.call = p.call /\ u.asking = p.asking
        /\ u.startedToolIds = p.startedToolIds /\ u.handledDynamicToolIds = p.handledDynamicToolIds
        /\ u.pendingWebSearch = p.pendingWebSearch /\ u.verdicts = p.verdicts
    BY <1>1 DEF CodexTurn
  <2> HIDE DEF q, u
  <2> QED BY <1>3, <1>5, <2>1, <2>2, <2>3 DEF q, u
<1> QED BY <1>4, <1>5

\* An app-server and a session that have no turn yet are of their types.
LEMMA NullSessions ==
    /\ IdleServer \in ServerRecord /\ IdleServer.turn = NoCodexTurn /\ IdleServer.next = NoCodexTurn
    /\ NoSession \in SessionRecord
    /\ [state |-> "closed", pendingTurn |-> NoCodexTurn] \in SessionRecord
  BY DEF IdleServer, NoSession, ServerRecord, SessionRecord, ItemStates, SessionStates

\* One turn is changed, and does not become busy by it.
LEMMA TurnChanges ==
    ASSUME CodexInv, NEW t \in CodexTurns, NEW q, TurnTold(t, q),
           q.call \in {"session", "requested", "live"} => Busy(t),
           pendingTurns' = [pendingTurns EXCEPT ![t] = q]
    PROVE  /\ TurnsAreTold' /\ OneIsBusy' /\ pendingTurns'[t] = q
           /\ \A u \in CodexTurns : u # t => pendingTurns'[u] = pendingTurns[u]
BY DEF TurnTold, CodexInv, TurnsAreTold, Busy, OneIsBusy

\* A turn read to its end is over and its session closed; one that is not leaves the
\* app-server as it was given.
LEMMA AfterStreamStep ==
    ASSUME CodexInv, NEW t \in CodexTurns, NEW p, TurnTold(t, p),
           p.call \in {"session", "requested", "live"} => Busy(t),
           NEW s \in SessionRecord, NEW server \in ServerRecord,
           ~(p.call = "live" /\ p.done) => ServerFits(s, server, [pendingTurns EXCEPT ![t] = p]),
           AfterStream(t, p, s, server), threadKnown' = threadKnown, itemKind' = itemKind
    PROVE  CodexInv'
<1>1. CASE p.call = "live" /\ p.done
  <2> DEFINE q == [p EXCEPT !.call = "over"]
  <2>1. p \in CodexTurn
    BY DEF TurnTold
  <2>2. /\ q \in CodexTurn /\ q.call = "over"
        /\ q.startedToolIds = p.startedToolIds /\ q.handledDynamicToolIds = p.handledDynamicToolIds
        /\ q.pendingWebSearch = p.pendingWebSearch /\ q.verdicts = p.verdicts
        /\ q.calls = p.calls /\ q.results = p.results /\ q.done = p.done
    BY <2>1 DEF CodexTurn
  <2>3. pendingTurns' = [pendingTurns EXCEPT ![t] = q] /\ session' = NoSession /\ appServer' = IdleServer
    BY <1>1 DEF AfterStream, CloseAfter
  <2> HIDE DEF q
  <2>4. TurnTold(t, q)
    BY <2>2, KeepsTold
  <2>5. TurnsAreTold' /\ OneIsBusy'
    BY <2>2, <2>3, <2>4, TurnChanges
  <2>6. ServerKnows'
    BY <2>3, NullSessions DEF CodexInv, ServerKnows, ServerFits
  <2> QED BY <2>5, <2>6 DEF CodexInv
<1>2. CASE ~(p.call = "live" /\ p.done)
  BY <1>2, TurnChanges DEF AfterStream, CodexInv, ServerKnows, ServerFits
<1> QED BY <1>1, <1>2

\* A line about the item changes the pending turn and marks how far the item is.
LEMMA LineStep ==
    ASSUME CodexInv, NEW t \in CodexTurns, NEW q, TurnTold(t, q), q.call = pendingTurns[t].call,
           q.asking # "plan",
           NEW item \in ItemStates,
           item = "none" => q.startedToolIds = {} /\ q.handledDynamicToolIds = {},
           item = "called" => t \in q.handledDynamicToolIds,
           appServer.turn \in {t, NoCodexTurn}, appServer' = [appServer EXCEPT !.item = item],
           pendingTurns' = [pendingTurns EXCEPT ![t] = q],
           UNCHANGED <<session, threadKnown, itemKind>>
    PROVE  CodexInv'
<1>1. TurnsAreTold' /\ OneIsBusy' /\ pendingTurns'[t] = q
  BY TurnChanges DEF Busy
<1>2. appServer' \in ServerRecord /\ appServer'.turn = appServer.turn /\ appServer'.item = item
  BY DEF CodexInv, ServerKnows, ServerRecord
<1>3. ServerFits(session, appServer', pendingTurns')
  BY <1>1, <1>2 DEF CodexInv, ServerKnows, ServerFits
<1>4. ServerKnows'
  BY <1>2, <1>3 DEF CodexInv, ServerKnows, ServerFits
<1> QED BY <1>1, <1>4 DEF CodexInv

\* While the app-server goes on it works on the pending turn.
LEMMA ProceedsOnPending ==
    ASSUME CodexInv, Proceeds
    PROVE  LET t == appServer.turn IN
           /\ t \in CodexTurns /\ Pending = t /\ session.state = "open"
           /\ pendingTurns[t] \in CodexTurn /\ TurnTold(t, pendingTurns[t])
           /\ pendingTurns[t].call \in {"requested", "live"}
           /\ pendingTurns[t].asking \in {"no", "answered"}
           /\ appServer.item \in ItemStates
           /\ appServer.item = "none" => pendingTurns[t].startedToolIds = {} /\ pendingTurns[t].handledDynamicToolIds = {}
           /\ appServer.item = "called" => t \in pendingTurns[t].handledDynamicToolIds
BY DEF Proceeds, Works, CodexInv, ServerKnows, ServerRecord, ServerFits, Pending, TurnsAreTold

\* item/started.
LEMMA StartedStep ==
    ASSUME CodexInv, NEW query \in BOOLEAN, ItemStarted(query), itemKind' = itemKind
    PROVE  CodexInv'
<1>0. appServer.turn \in CodexTurns /\ Proceeds
  BY ProceedsOnPending DEF ItemStarted
<1> PICK t \in CodexTurns : t = appServer.turn
  BY <1>0
<1> DEFINE p == pendingTurns[t]
           m == [p EXCEPT !.startedToolIds = @ \cup {t}]
           c == PushCalls(m, {t})
           shown == t \notin p.handledDynamicToolIds /\ query
           q == IF shown THEN c ELSE p
<1>1. /\ Pending = t /\ p \in CodexTurn /\ TurnTold(t, p) /\ p.asking \in {"no", "answered"}
      /\ p.call \in {"requested", "live"}
      /\ appServer.item = "none" => p.startedToolIds = {} /\ p.handledDynamicToolIds = {}
      /\ appServer.item = "called" => t \in p.handledDynamicToolIds
  BY <1>0, ProceedsOnPending
<1>2. /\ appServer.item \in {"none", "called"} /\ appServer' = [appServer EXCEPT !.item = "started"]
      /\ pendingTurns' = [pendingTurns EXCEPT ![t] = q]
      /\ UNCHANGED <<session, threadKnown>>
  BY <1>1, CodexConstants DEF CodexTurns, ItemStarted, Mark, Handle
<1>3. /\ m \in CodexTurn /\ m.startedToolIds = p.startedToolIds \cup {t}
      /\ m.handledDynamicToolIds = p.handledDynamicToolIds
      /\ m.pendingWebSearch = p.pendingWebSearch /\ m.verdicts = p.verdicts
      /\ m.calls = p.calls /\ m.results = p.results /\ m.done = p.done /\ m.call = p.call
      /\ m.asking = p.asking
  <2>1. p.startedToolIds \cup {t} \in SUBSET Item
    BY <1>1 DEF CodexTurn, Item
  <2> HIDE DEF p
  <2> QED BY <1>1, <2>1 DEF CodexTurn
<1>t. t \in Item
  BY DEF Item
<1> HIDE DEF m
<1>4. /\ c \in CodexTurn
      /\ \A i \in Item : c.calls[i] = IF ~m.done /\ i \in {t} THEN m.calls[i] + 1 ELSE m.calls[i]
      /\ c.results = m.results /\ c.done = m.done /\ c.call = m.call /\ c.asking = m.asking
      /\ c.startedToolIds = m.startedToolIds /\ c.handledDynamicToolIds = m.handledDynamicToolIds
      /\ c.pendingWebSearch = m.pendingWebSearch /\ c.verdicts = m.verdicts
  BY <1>3, PushesOwn
<1> HIDE DEF c
<1>5. shown => TurnTold(t, c)
  <2> SUFFICES ASSUME shown PROVE TurnTold(t, c)
    OBVIOUS
  <2>1. p.startedToolIds = {} /\ p.handledDynamicToolIds = {}
    BY <1>1, <1>2
  <2>2. p.calls[t] \in Nat /\ p.results[t] \in Nat /\ p.done \in BOOLEAN
    BY <1>1, <1>t DEF CodexTurn
  <2>3. ~p.done => p.calls[t] = 0 /\ p.results[t] = 0
    BY <1>1, <2>1, <2>2 DEF TurnTold
  <2>4. c.calls[t] = IF p.done THEN p.calls[t] ELSE 1
    BY <1>3, <1>4, <1>t, <2>2, <2>3
  <2>5. \A i \in Item : i # t => c.calls[i] = p.calls[i] /\ c.results[i] = p.results[i]
    BY <1>3, <1>4
  <2>6. c.calls[t] <= 1 /\ (c.results[t] > 0 => c.calls[t] = 1)
    BY <1>1, <1>3, <1>4, <2>2, <2>3, <2>4 DEF TurnTold
  <2>7. t \in c.startedToolIds /\ c.startedToolIds = {t}
    BY <1>3, <1>4, <2>1
  <2> QED BY <1>1, <1>3, <1>4, <2>4, <2>5, <2>6, <2>7 DEF TurnTold
<1>6. TurnTold(t, q) /\ q.call = p.call /\ q.asking = p.asking
  BY <1>1, <1>3, <1>4, <1>5
<1> HIDE DEF q
<1> QED BY <1>1, <1>2, <1>6, LineStep DEF ItemStates

\* A result is pushed with the call it needs, which is not pushed twice.
LEMMA PushedIsTold ==
    ASSUME NEW t \in CodexTurns, NEW p, TurnTold(t, p), NEW m \in CodexTurn, NEW cs \in SUBSET {t},
           m.startedToolIds \subseteq {t}, m.handledDynamicToolIds \subseteq {t},
           m.pendingWebSearch \in {t, NoCodexTurn},
           m.verdicts = p.verdicts, m.calls = p.calls, m.results = p.results, m.done = p.done,
           m.call # "session",
           ~p.done => /\ t \in cs => p.calls[t] = 0
                      /\ t \in cs \/ p.calls[t] = 1
                      /\ t \in m.startedToolIds \cup m.handledDynamicToolIds
    PROVE  /\ TurnTold(t, PushResults(PushCalls(m, cs), {t}))
           /\ PushResults(PushCalls(m, cs), {t}).call = m.call
           /\ PushResults(PushCalls(m, cs), {t}).asking = m.asking
           /\ PushResults(PushCalls(m, cs), {t}).handledDynamicToolIds = m.handledDynamicToolIds
<1> DEFINE c == PushCalls(m, cs)
           q == PushResults(c, {t})
<1>t. t \in Item /\ p \in CodexTurn /\ p.calls[t] \in Nat /\ p.results[t] \in Nat /\ p.done \in BOOLEAN
  BY DEF Item, TurnTold, CodexTurn
<1>1. /\ c \in CodexTurn
      /\ \A i \in Item : c.calls[i] = IF ~m.done /\ i \in cs THEN m.calls[i] + 1 ELSE m.calls[i]
      /\ c.results = m.results /\ c.done = m.done /\ c.call = m.call /\ c.asking = m.asking
      /\ c.startedToolIds = m.startedToolIds /\ c.handledDynamicToolIds = m.handledDynamicToolIds
      /\ c.pendingWebSearch = m.pendingWebSearch /\ c.verdicts = m.verdicts
  BY PushesOwn
<1> HIDE DEF c
<1>2. /\ q \in CodexTurn
      /\ \A i \in Item : q.results[i] = IF ~c.done /\ i \in {t} THEN c.results[i] + 1 ELSE c.results[i]
      /\ q.calls = c.calls /\ q.done = c.done /\ q.call = c.call /\ q.asking = c.asking
      /\ q.startedToolIds = c.startedToolIds /\ q.handledDynamicToolIds = c.handledDynamicToolIds
      /\ q.pendingWebSearch = c.pendingWebSearch /\ q.verdicts = c.verdicts
  BY <1>1, PushesOwn
<1> HIDE DEF q
<1>3. \A i \in Item : i # t => q.calls[i] = 0 /\ q.results[i] = 0
  BY <1>1, <1>2 DEF TurnTold
<1>4. p.done => q.calls[t] = p.calls[t] /\ q.results[t] = p.results[t]
  BY <1>1, <1>2, <1>t
<1>5. ~p.done => q.calls[t] = 1
  BY <1>1, <1>2, <1>t
<1>6. q.calls[t] <= 1 /\ (q.results[t] > 0 => q.calls[t] = 1)
  BY <1>4, <1>5, <1>t DEF TurnTold
<1>7. q.verdicts \subseteq {t, NoCodexTurn}
  BY <1>1, <1>2 DEF TurnTold
<1>8. TurnTold(t, q)
  BY <1>1, <1>2, <1>3, <1>5, <1>6, <1>7 DEF TurnTold
<1> QED BY <1>1, <1>2, <1>8 DEF q, c

\* item/completed.
LEMMA CompletedStep ==
    ASSUME CodexInv, ItemCompleted, itemKind' = itemKind
    PROVE  CodexInv'
<1>0. appServer.turn \in CodexTurns /\ Proceeds
  BY ProceedsOnPending DEF ItemCompleted
<1> PICK t \in CodexTurns : t = appServer.turn
  BY <1>0
<1> DEFINE p == pendingTurns[t]
           new == IF t \in p.startedToolIds THEN {} ELSE {t}
           found == IF itemKind = "search" THEN t ELSE p.pendingWebSearch
           m == [p EXCEPT !.startedToolIds = @ \cup new, !.pendingWebSearch = found]
           r == PushResults(PushCalls(m, new), {t})
           q == IF t \in p.handledDynamicToolIds THEN p ELSE r
<1>1. /\ Pending = t /\ p \in CodexTurn /\ TurnTold(t, p) /\ p.asking \in {"no", "answered"}
      /\ p.call \in {"requested", "live"}
  BY <1>0, ProceedsOnPending
<1>2. /\ appServer' = [appServer EXCEPT !.item = "completed"]
      /\ pendingTurns' = [pendingTurns EXCEPT ![t] = q]
      /\ UNCHANGED <<session, threadKnown>>
  BY <1>1, CodexConstants DEF CodexTurns, ItemCompleted, Mark, Handle
<1>t. t \in Item /\ p.calls[t] \in Nat
  BY <1>1 DEF Item, CodexTurn
<1>3. /\ m \in CodexTurn /\ m.startedToolIds = p.startedToolIds \cup new
      /\ m.handledDynamicToolIds = p.handledDynamicToolIds
      /\ m.pendingWebSearch = found /\ m.verdicts = p.verdicts
      /\ m.calls = p.calls /\ m.results = p.results /\ m.done = p.done /\ m.call = p.call
      /\ m.asking = p.asking
  <2>1. p.startedToolIds \cup new \in SUBSET Item /\ found \in Item \cup {NoCodexTurn}
    BY <1>1, <1>t DEF CodexTurn
  <2> HIDE DEF p, new, found
  <2> QED BY <1>1, <2>1 DEF CodexTurn
<1> HIDE DEF m
<1>4. ASSUME t \notin p.handledDynamicToolIds
      PROVE  TurnTold(t, r) /\ r.call = m.call /\ r.asking = m.asking
  <2>1. /\ m.startedToolIds \subseteq {t} /\ m.handledDynamicToolIds \subseteq {t}
        /\ m.pendingWebSearch \in {t, NoCodexTurn} /\ m.call # "session" /\ new \in SUBSET {t}
    BY <1>1, <1>3 DEF TurnTold
  <2>2. ~p.done => /\ t \in new => p.calls[t] = 0
                   /\ t \in new \/ p.calls[t] = 1
                   /\ t \in m.startedToolIds \cup m.handledDynamicToolIds
    BY <1>1, <1>4, <1>3, <1>t DEF TurnTold
  <2>3. TurnTold(t, p) /\ m \in CodexTurn
    BY <1>1, <1>3
  <2>4. /\ m.verdicts = p.verdicts /\ m.calls = p.calls /\ m.results = p.results /\ m.done = p.done
    BY <1>3
  <2> HIDE DEF new, p, found
  <2>5. PICK cs \in SUBSET {t} : cs = new
    BY <2>1
  <2>6. /\ TurnTold(t, PushResults(PushCalls(m, cs), {t}))
        /\ PushResults(PushCalls(m, cs), {t}).call = m.call
        /\ PushResults(PushCalls(m, cs), {t}).asking = m.asking
    BY <2>2, <2>5, <2>1, <2>3, <2>4, PushedIsTold
  <2> QED BY <2>5, <2>6
<1>5. TurnTold(t, q) /\ q.call = p.call /\ q.asking = p.asking
  BY <1>1, <1>3, <1>4
<1> HIDE DEF q
<1> QED BY <1>1, <1>2, <1>5, LineStep DEF ItemStates

\* item/completed of an agentMessage.
LEMMA MessageStep ==
    ASSUME CodexInv, AgentMessage, itemKind' = itemKind
    PROVE  CodexInv'
<1>0. appServer.turn \in CodexTurns /\ Proceeds
  BY ProceedsOnPending DEF AgentMessage
<1> PICK t \in CodexTurns : t = appServer.turn
  BY <1>0
<1> DEFINE p == pendingTurns[t]
           m == [p EXCEPT !.pendingWebSearch = NoCodexTurn]
           q == PushResults(m, {t})
<1>1. /\ Pending = t /\ p \in CodexTurn /\ TurnTold(t, p) /\ p.asking \in {"no", "answered"}
      /\ p.call \in {"requested", "live"} /\ appServer.item \in ItemStates
      /\ appServer.item = "none" => p.startedToolIds = {} /\ p.handledDynamicToolIds = {}
      /\ appServer.item = "called" => t \in p.handledDynamicToolIds
  BY <1>0, ProceedsOnPending
<1>2. p.pendingWebSearch = t
  BY <1>1 DEF AgentMessage, TurnTold
<1>3. /\ appServer' = appServer /\ UNCHANGED <<session, threadKnown>>
      /\ pendingTurns' = [pendingTurns EXCEPT ![t] = q]
  BY <1>1, <1>2 DEF AgentMessage, Handle
<1>4. appServer' = [appServer EXCEPT !.item = appServer.item]
  BY <1>3 DEF CodexInv, ServerKnows, ServerRecord
<1>t. t \in Item /\ p.calls[t] \in Nat /\ p.results[t] \in Nat /\ p.done \in BOOLEAN
  BY <1>1 DEF Item, CodexTurn
<1>5. /\ m \in CodexTurn /\ m.startedToolIds = p.startedToolIds
      /\ m.handledDynamicToolIds = p.handledDynamicToolIds
      /\ m.pendingWebSearch = NoCodexTurn /\ m.verdicts = p.verdicts
      /\ m.calls = p.calls /\ m.results = p.results /\ m.done = p.done /\ m.call = p.call
      /\ m.asking = p.asking
  <2> HIDE DEF p
  <2> QED BY <1>1 DEF CodexTurn
<1> HIDE DEF m
<1>6. /\ q \in CodexTurn
      /\ \A i \in Item : q.results[i] = IF ~m.done /\ i \in {t} THEN m.results[i] + 1 ELSE m.results[i]
      /\ q.calls = m.calls /\ q.done = m.done /\ q.call = m.call /\ q.asking = m.asking
      /\ q.startedToolIds = m.startedToolIds /\ q.handledDynamicToolIds = m.handledDynamicToolIds
      /\ q.pendingWebSearch = m.pendingWebSearch /\ q.verdicts = m.verdicts
  BY <1>5, PushesOwn
<1> HIDE DEF q
<1>7. q.results[t] > 0 => q.calls[t] = 1
  BY <1>1, <1>2, <1>5, <1>6, <1>t DEF TurnTold
<1>8. TurnTold(t, q)
  <2>1. \A i \in Item : i # t => q.calls[i] = 0 /\ q.results[i] = 0
    BY <1>1, <1>5, <1>6 DEF TurnTold
  <2>2. t # NoCodexTurn
    BY CodexConstants DEF CodexTurns
  <2>3. /\ q.startedToolIds = p.startedToolIds /\ q.handledDynamicToolIds = p.handledDynamicToolIds
        /\ q.pendingWebSearch = NoCodexTurn /\ q.verdicts = p.verdicts /\ q.calls[t] = p.calls[t]
        /\ q.done = p.done /\ q.call = p.call
    BY <1>5, <1>6
  <2> HIDE DEF p
  <2> QED BY <1>1, <1>6, <1>7, <2>1, <2>2, <2>3 DEF TurnTold
<1>9. PICK item \in ItemStates : item = appServer.item
  BY <1>1
<1>10. /\ item = "none" => q.startedToolIds = {} /\ q.handledDynamicToolIds = {}
       /\ item = "called" => t \in q.handledDynamicToolIds
       /\ q.call = pendingTurns[t].call /\ q.asking # "plan"
       /\ appServer' = [appServer EXCEPT !.item = item]
  BY <1>1, <1>4, <1>5, <1>6, <1>9
<1> QED BY <1>3, <1>8, <1>10, LineStep

\* item/tool/call.
LEMMA CallStep ==
    ASSUME CodexInv, DynamicToolCall, itemKind' = itemKind
    PROVE  CodexInv'
<1>0. appServer.turn \in CodexTurns /\ Proceeds
  BY ProceedsOnPending DEF DynamicToolCall
<1> PICK t \in CodexTurns : t = appServer.turn
  BY <1>0
<1> DEFINE p == pendingTurns[t]
           m == [p EXCEPT !.handledDynamicToolIds = @ \cup {t}]
           q == PushResults(PushCalls(m, {t}), {t})
<1>1. /\ Pending = t /\ p \in CodexTurn /\ TurnTold(t, p) /\ p.asking \in {"no", "answered"}
      /\ p.call \in {"requested", "live"}
      /\ appServer.item = "none" => p.startedToolIds = {} /\ p.handledDynamicToolIds = {}
  BY <1>0, ProceedsOnPending
<1>2. /\ appServer.item = "none" /\ appServer' = [appServer EXCEPT !.item = "called"]
      /\ pendingTurns' = [pendingTurns EXCEPT ![t] = q]
      /\ UNCHANGED <<session, threadKnown>>
  BY <1>1, CodexConstants DEF CodexTurns, DynamicToolCall, Mark, Handle
<1>t. t \in Item /\ p.calls[t] \in Nat
  BY <1>1 DEF Item, CodexTurn
<1>3. /\ m \in CodexTurn /\ m.startedToolIds = p.startedToolIds
      /\ m.handledDynamicToolIds = p.handledDynamicToolIds \cup {t}
      /\ m.pendingWebSearch = p.pendingWebSearch /\ m.verdicts = p.verdicts
      /\ m.calls = p.calls /\ m.results = p.results /\ m.done = p.done /\ m.call = p.call
      /\ m.asking = p.asking
  <2>1. p.handledDynamicToolIds \cup {t} \in SUBSET Item
    BY <1>1, <1>t DEF CodexTurn
  <2> HIDE DEF p
  <2> QED BY <1>1, <2>1 DEF CodexTurn
<1> HIDE DEF m
<1>4. /\ TurnTold(t, q) /\ q.call = m.call /\ q.asking = m.asking
      /\ q.handledDynamicToolIds = m.handledDynamicToolIds
  <2>1. /\ m.startedToolIds \subseteq {t} /\ m.handledDynamicToolIds \subseteq {t}
        /\ m.pendingWebSearch \in {t, NoCodexTurn} /\ m.call # "session"
    BY <1>1, <1>3 DEF TurnTold
  <2>2. ~p.done => p.calls[t] = 0 /\ t \in m.handledDynamicToolIds
    BY <1>1, <1>2, <1>3, <1>t DEF TurnTold
  <2> HIDE DEF p
  <2>3. TurnTold(t, p) /\ m \in CodexTurn /\ {t} \in SUBSET {t}
    BY <1>1, <1>3
  <2>4. /\ m.verdicts = p.verdicts /\ m.calls = p.calls /\ m.results = p.results /\ m.done = p.done
    BY <1>3
  <2>5. ~p.done => /\ t \in {t} => p.calls[t] = 0
                   /\ t \in {t} \/ p.calls[t] = 1
                   /\ t \in m.startedToolIds \cup m.handledDynamicToolIds
    BY <2>2
  <2> QED BY <2>1, <2>3, <2>4, <2>5, PushedIsTold
<1> HIDE DEF q
<1> QED BY <1>1, <1>2, <1>3, <1>4, LineStep DEF ItemStates

\* A change of a turn that is not one of its item.
LEMMA PlainStep ==
    ASSUME CodexInv, NEW t \in CodexTurns, NEW q, TurnTold(t, q), q.call = pendingTurns[t].call,
           q.startedToolIds = pendingTurns[t].startedToolIds,
           q.handledDynamicToolIds = pendingTurns[t].handledDynamicToolIds,
           pendingTurns' = [pendingTurns EXCEPT ![t] = q], UNCHANGED <<session, threadKnown, itemKind>>,
           appServer' \in ServerRecord,
           (appServer' = appServer /\ q.asking # "plan") \/ appServer'.turn = NoCodexTurn
    PROVE  CodexInv'
<1>1. /\ TurnsAreTold' /\ OneIsBusy' /\ pendingTurns'[t] = q
      /\ \A u \in CodexTurns : u # t => pendingTurns'[u] = pendingTurns[u]
  BY TurnChanges DEF Busy
<1>2. CASE appServer'.turn = NoCodexTurn
  BY <1>1, <1>2 DEF CodexInv, ServerKnows, ServerFits
<1>3. CASE appServer' = appServer /\ q.asking # "plan"
  BY <1>1, <1>3 DEF CodexInv, ServerKnows, ServerFits, ServerRecord
<1> QED BY <1>2, <1>3

\* The user is asked, or answers; the plan is written.
LEMMA QuestionStep ==
    ASSUME CodexInv, UserInputRequest \/ UserAnswers \/ PlanText, itemKind' = itemKind
    PROVE  CodexInv'
<1>0. /\ pendingTurns \in [CodexTurns -> CodexTurn]
      /\ session.pendingTurn \in CodexTurns \cup {NoCodexTurn}
      /\ appServer \in ServerRecord /\ \A t \in CodexTurns : TurnTold(t, pendingTurns[t])
  BY DEF CodexInv, TurnsAreTold, ServerKnows, SessionRecord
<1>1. PICK t \in CodexTurns :
         \/ /\ pendingTurns' = [pendingTurns EXCEPT ![t].asking = "question"]
            /\ pendingTurns[t].call = "live"
         \/ /\ pendingTurns' = [pendingTurns EXCEPT ![t].asking = "answered"]
            /\ pendingTurns[t].asking = "question"
         \/ /\ pendingTurns' = [pendingTurns EXCEPT ![t].planned = TRUE]
            /\ pendingTurns[t].asking \in {"no", "answered"}
  BY <1>0 DEF UserInputRequest, UserAnswers, PlanText, Pending, Proceeds
<1>2. UNCHANGED <<session, threadKnown, appServer>>
  BY DEF UserInputRequest, UserAnswers, PlanText
<1> DEFINE p == pendingTurns[t]
<1>3. p \in CodexTurn /\ TurnTold(t, p)
  BY <1>0
<1>4. PICK q : /\ pendingTurns' = [pendingTurns EXCEPT ![t] = q]
               /\ \/ q = [p EXCEPT !.asking = "question"] /\ p.call = "live"
                  \/ q = [p EXCEPT !.asking = "answered"] /\ p.asking = "question"
                  \/ q = [p EXCEPT !.planned = TRUE] /\ p.asking \in {"no", "answered"}
  BY <1>0, <1>1
<1>5. /\ q \in CodexTurn /\ q.asking # "plan"
      /\ q.startedToolIds = p.startedToolIds /\ q.handledDynamicToolIds = p.handledDynamicToolIds
      /\ q.pendingWebSearch = p.pendingWebSearch /\ q.verdicts = p.verdicts
      /\ q.calls = p.calls /\ q.results = p.results /\ q.done = p.done /\ q.call = p.call
      /\ q.call = "session" => p.call = "session" /\ q.asking = p.asking
  <2> HIDE DEF p
  <2>1. CASE q = [p EXCEPT !.asking = "question"] /\ p.call = "live"
    BY <1>3, <2>1 DEF CodexTurn
  <2>2. CASE q = [p EXCEPT !.asking = "answered"] /\ p.asking = "question"
    BY <1>3, <2>2 DEF CodexTurn, TurnTold
  <2>3. CASE q = [p EXCEPT !.planned = TRUE] /\ p.asking \in {"no", "answered"}
    BY <1>3, <2>3 DEF CodexTurn
  <2> QED BY <1>4, <2>1, <2>2, <2>3
<1>6. TurnTold(t, q)
  BY <1>3, <1>5, KeepsTold
<1> QED BY <1>0, <1>2, <1>4, <1>5, <1>6, PlainStep

\* turn/completed.
LEMMA CompletedTurnStep ==
    ASSUME CodexInv, NEW status \in {"completed", "failed"}, TurnCompleted(status), itemKind' = itemKind
    PROVE  CodexInv'
<1>0. appServer.turn \in CodexTurns /\ Proceeds
  BY ProceedsOnPending DEF TurnCompleted
<1> PICK t \in CodexTurns : t = appServer.turn
  BY <1>0
<1> DEFINE p == pendingTurns[t]
           idle == [IdleServer EXCEPT !.turn = appServer.next]
           asks == [p EXCEPT !.asking = "plan", !.pendingWebSearch = NoCodexTurn]
           m == [p EXCEPT !.resolved = TRUE, !.pendingWebSearch = NoCodexTurn]
           s == [session EXCEPT !.pendingTurn = NoCodexTurn]
<1>1. /\ Pending = t /\ p \in CodexTurn /\ TurnTold(t, p) /\ p.call \in {"requested", "live"}
      /\ t # NoCodexTurn
  BY <1>0, ProceedsOnPending, CodexConstants DEF CodexTurns
<1>2. idle \in ServerRecord /\ idle.turn = NoCodexTurn
  BY NullSessions DEF CodexInv, ServerKnows, ServerRecord
<1>3. s \in SessionRecord
  BY DEF CodexInv, ServerKnows, SessionRecord
<1>4. /\ threadKnown' = threadKnown
      /\ \/ /\ pendingTurns' = [pendingTurns EXCEPT ![t] = asks]
            /\ appServer' = idle /\ session' = session
         \/ AfterStream(t, PushVerdict(m, t), s, idle)
  BY <1>1 DEF TurnCompleted
<1> HIDE DEF idle, s
<1>5. CASE pendingTurns' = [pendingTurns EXCEPT ![t] = asks] /\ appServer' = idle /\ session' = session
  <2>1. /\ asks \in CodexTurn /\ asks.startedToolIds = p.startedToolIds
        /\ asks.handledDynamicToolIds = p.handledDynamicToolIds
        /\ asks.pendingWebSearch = NoCodexTurn /\ asks.verdicts = p.verdicts
        /\ asks.calls = p.calls /\ asks.results = p.results /\ asks.done = p.done /\ asks.call = p.call
    <3> HIDE DEF p
    <3> QED BY <1>1 DEF CodexTurn
  <2> HIDE DEF asks
  <2>2. TurnTold(t, asks)
    BY <1>1, <2>1, KeepsTold
  <2> QED BY <1>2, <1>4, <1>5, <2>1, <2>2, PlainStep
<1>6. CASE AfterStream(t, PushVerdict(m, t), s, idle)
  <2>1. /\ m \in CodexTurn /\ m.startedToolIds = p.startedToolIds
        /\ m.handledDynamicToolIds = p.handledDynamicToolIds
        /\ m.pendingWebSearch = NoCodexTurn /\ m.verdicts = p.verdicts
        /\ m.calls = p.calls /\ m.results = p.results /\ m.done = p.done /\ m.call = p.call
    <3> HIDE DEF p
    <3> QED BY <1>1 DEF CodexTurn
  <2> HIDE DEF m
  <2>2. TurnTold(t, m)
    BY <1>1, <2>1, KeepsTold
  <2>3. TurnTold(t, PushVerdict(m, t)) /\ PushVerdict(m, t).call = p.call
    BY <2>1, <2>2, VerdictIsTold
  <2>4. Busy(t)
    BY <1>1 DEF Busy
  <2>5. ServerFits(s, idle, [pendingTurns EXCEPT ![t] = PushVerdict(m, t)])
    BY <1>2 DEF ServerFits
  <2> QED BY <1>2, <1>3, <1>4, <1>6, <2>3, <2>4, <2>5, AfterStreamStep
<1> QED BY <1>4, <1>5, <1>6

\* The runner cancels.
LEMMA InterruptStep ==
    ASSUME CodexInv, Interrupt, itemKind' = itemKind
    PROVE  CodexInv'
<1> DEFINE s == [session EXCEPT !.pendingTurn = NoCodexTurn]
<1> PICK t \in CodexTurns :
       /\ pendingTurns[t].call = "live" /\ threadKnown' = threadKnown
       /\ AfterStream(t, [pendingTurns[t] EXCEPT !.resolved = TRUE, !.done = TRUE, !.asking = "answered"], s, appServer)
  BY DEF Interrupt
<1> DEFINE p == pendingTurns[t]
           q == [p EXCEPT !.resolved = TRUE, !.done = TRUE, !.asking = "answered"]
<1>1. p \in CodexTurn /\ TurnTold(t, p) /\ Busy(t) /\ p.call = "live"
  BY DEF CodexInv, TurnsAreTold, Busy
<1>2. s \in SessionRecord /\ appServer \in ServerRecord
  BY DEF CodexInv, ServerKnows, SessionRecord
<1>3. /\ q \in CodexTurn /\ q.startedToolIds = p.startedToolIds
      /\ q.handledDynamicToolIds = p.handledDynamicToolIds
      /\ q.pendingWebSearch = p.pendingWebSearch /\ q.verdicts = p.verdicts
      /\ q.calls = p.calls /\ q.results = p.results /\ q.done /\ q.call = p.call
  <2> HIDE DEF p
  <2> QED BY <1>1 DEF CodexTurn
<1>4. AfterStream(t, q, s, appServer)
  OBVIOUS
<1> HIDE DEF q, s
<1>5. TurnTold(t, q)
  BY <1>1, <1>3, KeepsTold
<1> QED BY <1>1, <1>2, <1>3, <1>4, <1>5, AfterStreamStep

\* The process ends, or reports an error.
LEMMA FailStep ==
    ASSUME CodexInv, NEW mentionsResume \in BOOLEAN, FailContext(mentionsResume), itemKind' = itemKind
    PROVE  CodexInv'
<1>0. (CHOOSE u \in CodexTurns : Busy(u)) \in CodexTurns /\ Busy(CHOOSE u \in CodexTurns : Busy(u))
  BY DEF FailContext
<1> PICK t \in CodexTurns : t = CHOOSE u \in CodexTurns : Busy(u)
  BY <1>0
<1> DEFINE open == session.pendingTurn = t /\ ~pendingTurns[t].resolved
           p    == pendingTurns[t]
           turn == IF open THEN PushVerdict(p, NoCodexTurn) ELSE p
           call == Rejected(turn.call, mentionsResume)
           s    == IF session.state = "thread/resume" /\ ~mentionsResume THEN NoSession
                   ELSE [state |-> "closed", pendingTurn |-> NoCodexTurn]
           ask  == IF turn.done THEN "answered" ELSE turn.asking
           end  == turn.done \/ call = "failed"
           q    == [turn EXCEPT !.call = call, !.done = end, !.asking = ask]
<1>1. Busy(t) /\ TurnTold(t, p)
  BY <1>0 DEF CodexInv, TurnsAreTold
<1>2. s \in SessionRecord
  BY NullSessions
<1>3. TurnTold(t, turn)
  BY <1>1, VerdictIsTold
<1>4. AfterStream(t, q, s, IdleServer) /\ threadKnown' = threadKnown
  BY DEF FailContext
<1> HIDE DEF turn, s, open
<1>5. call \in {"requested", "live", "none", "over", "failed", "hung"}
  BY <1>3 DEF Rejected, TurnTold, CodexTurn
<1>6. end \in BOOLEAN /\ (turn.done => end) /\ ask \in {"no", "question", "answered", "plan"}
  BY <1>3 DEF TurnTold, CodexTurn
<1> HIDE DEF call, end, ask
<1>7. /\ q \in CodexTurn /\ q.startedToolIds = turn.startedToolIds
      /\ q.handledDynamicToolIds = turn.handledDynamicToolIds
      /\ q.pendingWebSearch = turn.pendingWebSearch /\ q.verdicts = turn.verdicts
      /\ q.calls = turn.calls /\ q.results = turn.results /\ q.done = end /\ q.call = call
  BY <1>3, <1>5, <1>6 DEF TurnTold, CodexTurn
<1> HIDE DEF q
<1>8. TurnTold(t, q)
  BY <1>5, <1>6, <1>7, <1>3, KeepsTold
<1>9. ServerFits(s, IdleServer, [pendingTurns EXCEPT ![t] = q])
  BY NullSessions DEF ServerFits
<1> QED BY <1>1, <1>2, <1>4, <1>8, <1>9, NullSessions, AfterStreamStep

\* A process without a turn ends.
LEMMA IdleExitStep ==
    ASSUME CodexInv, IdleProcessExits, itemKind' = itemKind
    PROVE  CodexInv'
BY NullSessions DEF IdleProcessExits, CodexInv, ServerKnows, ServerFits, TurnsAreTold, OneIsBusy, Busy

\* turn/start for a turn that starts, while the app-server has none.
LEMMA SendStep ==
    ASSUME CodexInv, appServer.turn = NoCodexTurn, NEW u \in CodexTurns, SendTurnStart(u),
           UNCHANGED <<threadKnown, itemKind>>,
           pendingTurns'[u].call = "requested", pendingTurns'[u].asking = "no",
           pendingTurns'[u].startedToolIds = {}, pendingTurns'[u].handledDynamicToolIds = {}
    PROVE  ServerKnows'
<1>1. session' \in SessionRecord /\ session'.pendingTurn = u /\ session'.state = session.state
  BY DEF SendTurnStart, CodexInv, ServerKnows, SessionRecord
<1>2. \/ appServer' = appServer
      \/ session.state = "open" /\ appServer' = [IdleServer EXCEPT !.turn = u]
  BY DEF SendTurnStart
<1>3. /\ [IdleServer EXCEPT !.turn = u] \in ServerRecord /\ [IdleServer EXCEPT !.turn = u].turn = u
      /\ [IdleServer EXCEPT !.turn = u].item = "none"
  BY DEF IdleServer, ServerRecord, ItemStates
<1>4. ServerFits(session', appServer', pendingTurns')
  BY <1>1, <1>2, <1>3 DEF ServerFits
<1> QED BY <1>1, <1>2, <1>3, <1>4 DEF CodexInv, ServerKnows, ServerFits

\* The app-server works on a turn that is busy.
LEMMA WorksOnBusy ==
    ASSUME CodexInv, appServer.turn # NoCodexTurn
    PROVE  /\ appServer.turn \in CodexTurns /\ Busy(appServer.turn)
           /\ pendingTurns[appServer.turn].call \in {"requested", "live"}
           /\ pendingTurns[appServer.turn].asking # "plan"
  BY DEF CodexInv, ServerKnows, ServerFits, ServerRecord, Busy

\* start_turn.
LEMMA TurnStartStep ==
    ASSUME CodexInv, NEW plan \in BOOLEAN, RunnerStarts(plan), itemKind' = itemKind
    PROVE  CodexInv'
<1>1. appServer.turn = NoCodexTurn /\ \A v \in CodexTurns : ~Busy(v)
  BY WorksOnBusy DEF RunnerStarts
<1> PICK t \in Unstarted : StartCodexTurn(t, FreshCodexTurn(plan))
  BY DEF RunnerStarts
<1>2. t \in CodexTurns /\ threadKnown' = threadKnown
  BY DEF Unstarted, RunnerStarts
<1> DEFINE f == FreshCodexTurn(plan)
           q == [f EXCEPT !.call = "requested"]
<1>3. /\ TurnTold(t, f) /\ f.call = "session"
      /\ TurnTold(t, q) /\ q.call = "requested" /\ q.asking = "no"
      /\ q.startedToolIds = {} /\ q.handledDynamicToolIds = {}
  <2>1. ToldNothing(f) /\ f.call = "session" /\ ToldNothing(q) /\ q.call = "requested"
    BY FreshIsTold
  <2> QED BY <1>2, <2>1, NothingIsTold DEF ToldNothing
<1>4. ASSUME NEW r, TurnTold(t, r), pendingTurns' = [pendingTurns EXCEPT ![t] = r]
      PROVE  TurnsAreTold' /\ OneIsBusy' /\ pendingTurns'[t] = r
  BY <1>4, <1>2, <1>1 DEF TurnTold, CodexInv, TurnsAreTold, Busy, OneIsBusy
<1> HIDE DEF f, q
<1>5. CASE session.state \notin {"none", "closed"}
  BY <1>5, <1>3, <1>4, <1>1, <1>2, SendStep DEF StartCodexTurn, f, q, CodexInv
<1>6. CASE session.state \in {"none", "closed"}
  BY <1>6, <1>3, <1>4, <1>2, NullSessions DEF StartCodexTurn, f, SessionRecord, SessionStates, CodexInv, ServerKnows,
     ServerFits
<1> QED BY <1>5, <1>6

\* The plan's answer ends its turn and starts the next.
LEMMA PlanStep ==
    ASSUME CodexInv, NEW plan \in BOOLEAN, PlanAnswered(plan), itemKind' = itemKind
    PROVE  CodexInv'
<1> PICK t \in CodexTurns, u \in Unstarted :
       /\ pendingTurns[t].asking = "plan" /\ pendingTurns[t].call = "live" /\ threadKnown' = threadKnown
       /\ pendingTurns' = [pendingTurns EXCEPT ![t].asking = "answered", ![t].resolved = TRUE,
                                        ![t].done = TRUE,
                                        ![t].call = "over",
                                        ![u] = [FreshCodexTurn(plan) EXCEPT !.call = "requested",
                                                                            !.followUp = TRUE]]
       /\ SendTurnStart(u)
  BY DEF PlanAnswered
<1> DEFINE p == pendingTurns[t]
           q == [p EXCEPT !.asking = "answered", !.resolved = TRUE, !.done = TRUE, !.call = "over"]
           f == [FreshCodexTurn(plan) EXCEPT !.call = "requested", !.followUp = TRUE]
<1>1. /\ u \in CodexTurns /\ u # t /\ Busy(t) /\ p \in CodexTurn /\ TurnTold(t, p)
  BY DEF Unstarted, Busy, CodexInv, TurnsAreTold
<1>2. appServer.turn = NoCodexTurn
  BY <1>1, WorksOnBusy DEF CodexInv, OneIsBusy
<1>3. TurnTold(u, f) /\ f.call = "requested" /\ f.asking = "no" /\ f.startedToolIds = {} /\ f.handledDynamicToolIds = {}
  <2>1. ToldNothing(f) /\ f.call = "requested"
    BY FreshIsTold
  <2> QED BY <1>1, <2>1, NothingIsTold DEF ToldNothing
<1> HIDE DEF f
<1>4. /\ q \in CodexTurn /\ q.startedToolIds = p.startedToolIds
      /\ q.handledDynamicToolIds = p.handledDynamicToolIds
      /\ q.pendingWebSearch = p.pendingWebSearch /\ q.verdicts = p.verdicts
      /\ q.calls = p.calls /\ q.results = p.results /\ q.done /\ q.call = "over"
  <2> HIDE DEF p
  <2> QED BY <1>1 DEF CodexTurn
<1>5. pendingTurns' = [pendingTurns EXCEPT ![t] = q, ![u] = f]
  BY <1>1 DEF f, CodexInv, TurnsAreTold
<1> HIDE DEF q
<1>6. TurnTold(t, q)
  BY <1>1, <1>4, KeepsTold
<1>7. /\ pendingTurns'[t] = q /\ pendingTurns'[u] = f
      /\ \A v \in CodexTurns : v # t /\ v # u => pendingTurns'[v] = pendingTurns[v]
      /\ pendingTurns' \in [CodexTurns -> CodexTurn]
  BY <1>1, <1>3, <1>4, <1>5 DEF CodexInv, TurnsAreTold, TurnTold
<1>8. TurnsAreTold'
  BY <1>3, <1>6, <1>7 DEF CodexInv, TurnsAreTold
<1>9. OneIsBusy'
  BY <1>1, <1>4, <1>7 DEF Busy, CodexInv, OneIsBusy
<1>10. ServerKnows'
  BY <1>1, <1>2, <1>3, <1>7, SendStep
<1> QED BY <1>8, <1>9, <1>10 DEF CodexInv

\* An answer to the handshake.
LEMMA HandshakeStep ==
    ASSUME CodexInv, NEW ok \in BOOLEAN, HandshakeAnswered(ok), itemKind' = itemKind
    PROVE  CodexInv'
<1> PICK t \in CodexTurns :
       /\ pendingTurns[t].call = "session"
       /\ \/ /\ session' = [session EXCEPT !.state = "broken"]
             /\ pendingTurns' = [pendingTurns EXCEPT ![t].call = "failed"]
             /\ UNCHANGED <<threadKnown, appServer>>
          \/ /\ session' = [state |-> "open", pendingTurn |-> t]
             /\ pendingTurns' = [pendingTurns EXCEPT ![t].call = "requested"]
             /\ appServer' = [IdleServer EXCEPT !.turn = t] /\ threadKnown' = TRUE
          \/ \E next \in {"thread/resume", "thread/start"} :
                session' = [session EXCEPT !.state = next] /\ UNCHANGED <<threadKnown, pendingTurns, appServer>>
  BY DEF HandshakeAnswered
<1> DEFINE p == pendingTurns[t]
<1>1. p \in CodexTurn /\ TurnTold(t, p) /\ Busy(t) /\ p.startedToolIds = {} /\ p.handledDynamicToolIds = {}
  BY DEF CodexInv, TurnsAreTold, Busy, TurnTold
<1>2. appServer.turn = NoCodexTurn
  BY <1>1, WorksOnBusy DEF CodexInv, OneIsBusy
<1>3. ASSUME NEW call \in {"failed", "requested"}, pendingTurns' = [pendingTurns EXCEPT ![t].call = call]
      PROVE  /\ TurnsAreTold' /\ OneIsBusy' /\ pendingTurns'[t].call = call
             /\ pendingTurns'[t].asking = p.asking
             /\ pendingTurns'[t].startedToolIds = {} /\ pendingTurns'[t].handledDynamicToolIds = {}
  <2> DEFINE q == [p EXCEPT !.call = call]
  <2>1. /\ q \in CodexTurn /\ q.startedToolIds = p.startedToolIds
        /\ q.handledDynamicToolIds = p.handledDynamicToolIds
        /\ q.pendingWebSearch = p.pendingWebSearch /\ q.verdicts = p.verdicts /\ q.asking = p.asking
        /\ q.calls = p.calls /\ q.results = p.results /\ q.done = p.done /\ q.call = call
    <3> HIDE DEF p
    <3> QED BY <1>1 DEF CodexTurn
  <2>2. pendingTurns' = [pendingTurns EXCEPT ![t] = q]
    BY <1>3
  <2> HIDE DEF p, q
  <2>3. TurnTold(t, q)
    <3>1. /\ q.pendingWebSearch \in {p.pendingWebSearch, NoCodexTurn}
          /\ q.verdicts \subseteq p.verdicts \cup {t, NoCodexTurn} /\ (p.done => q.done)
          /\ q.call # "session"
      BY <2>1
    <3> QED BY <1>1, <2>1, <3>1, KeepsTold
  <2>4. TurnsAreTold' /\ OneIsBusy' /\ pendingTurns'[t] = q
    BY <1>1, <2>2, <2>3, TurnChanges
  <2> QED BY <1>1, <2>1, <2>4
<1>4. CASE /\ session' = [session EXCEPT !.state = "broken"]
           /\ pendingTurns' = [pendingTurns EXCEPT ![t].call = "failed"]
           /\ UNCHANGED <<threadKnown, appServer>>
  BY <1>4, <1>3, <1>2 DEF CodexInv, ServerKnows, SessionRecord, SessionStates, ServerFits
<1>5. CASE /\ session' = [state |-> "open", pendingTurn |-> t]
           /\ pendingTurns' = [pendingTurns EXCEPT ![t].call = "requested"]
           /\ appServer' = [IdleServer EXCEPT !.turn = t] /\ threadKnown' = TRUE
  <2>1. session' \in SessionRecord /\ session'.state = "open" /\ session'.pendingTurn = t
    BY <1>5 DEF SessionRecord, SessionStates
  <2>2. appServer' \in ServerRecord /\ appServer'.turn = t /\ appServer'.item = "none"
    BY <1>5 DEF IdleServer, ServerRecord, ItemStates
  <2>3. /\ TurnsAreTold' /\ OneIsBusy' /\ pendingTurns'[t].call = "requested"
        /\ pendingTurns'[t].asking = p.asking
        /\ pendingTurns'[t].startedToolIds = {} /\ pendingTurns'[t].handledDynamicToolIds = {}
    <3>1. pendingTurns' = [pendingTurns EXCEPT ![t].call = "requested"]
      BY <1>5
    <3>2. "requested" \in {"failed", "requested"}
      OBVIOUS
    <3> HIDE DEF p
    <3> QED BY <1>3, <3>1, <3>2, Zenon
  <2>4. p.asking # "plan"
    BY <1>1 DEF TurnTold
  <2> QED BY <1>5, <2>1, <2>2, <2>3, <2>4 DEF CodexInv, ServerKnows, ServerFits
<1>6. CASE \E next \in {"thread/resume", "thread/start"} :
              session' = [session EXCEPT !.state = next] /\ UNCHANGED <<threadKnown, pendingTurns, appServer>>
  BY <1>6, <1>2 DEF CodexInv, ServerKnows, SessionRecord, SessionStates, TurnsAreTold, OneIsBusy, Busy, ServerFits
<1> QED BY <1>4, <1>5, <1>6

\* The answer to turn/start.
LEMMA AnsweredStep ==
    ASSUME CodexInv, NEW ok \in BOOLEAN, TurnStartAnswered(ok), itemKind' = itemKind
    PROVE  CodexInv'
<1> PICK t \in CodexTurns :
       /\ pendingTurns[t].call = "requested" /\ threadKnown' = threadKnown
       /\ \/ AfterStream(t, [pendingTurns[t] EXCEPT !.call = "live"], session, appServer)
          \/ /\ pendingTurns' = [pendingTurns EXCEPT ![t].call = "failed", ![t].done = TRUE]
             /\ session' = NoSession \/ session' = [session EXCEPT !.pendingTurn = NoCodexTurn]
             /\ appServer' = IdleServer
  BY DEF TurnStartAnswered, CloseAfter
<1> DEFINE p == pendingTurns[t]
           q == [p EXCEPT !.call = "live"]
           r == [p EXCEPT !.call = "failed", !.done = TRUE]
<1>1. p \in CodexTurn /\ TurnTold(t, p) /\ Busy(t)
  BY DEF CodexInv, TurnsAreTold, Busy
<1>2. /\ q \in CodexTurn /\ q.startedToolIds = p.startedToolIds
      /\ q.handledDynamicToolIds = p.handledDynamicToolIds
      /\ q.pendingWebSearch = p.pendingWebSearch /\ q.verdicts = p.verdicts /\ q.asking = p.asking
      /\ q.calls = p.calls /\ q.results = p.results /\ q.done = p.done /\ q.call = "live"
      /\ r \in CodexTurn /\ r.startedToolIds = p.startedToolIds
      /\ r.handledDynamicToolIds = p.handledDynamicToolIds
      /\ r.pendingWebSearch = p.pendingWebSearch /\ r.verdicts = p.verdicts
      /\ r.calls = p.calls /\ r.results = p.results /\ r.done /\ r.call = "failed"
  <2> HIDE DEF p
  <2> QED BY <1>1 DEF CodexTurn
<1>3. CASE AfterStream(t, q, session, appServer)
  <2> HIDE DEF q, r
  <2>1. TurnTold(t, q)
    BY <1>1, <1>2, KeepsTold
  <2>2. ServerFits(session, appServer, [pendingTurns EXCEPT ![t] = q])
    BY <1>2 DEF CodexInv, ServerKnows, TurnsAreTold, ServerFits, ServerRecord
  <2>3. session \in SessionRecord /\ appServer \in ServerRecord
    BY DEF CodexInv, ServerKnows
  <2> QED BY <1>1, <1>3, <2>1, <2>2, <2>3, AfterStreamStep
<1>4. CASE /\ pendingTurns' = [pendingTurns EXCEPT ![t].call = "failed", ![t].done = TRUE]
           /\ session' = NoSession \/ session' = [session EXCEPT !.pendingTurn = NoCodexTurn]
           /\ appServer' = IdleServer
  <2>1. pendingTurns' = [pendingTurns EXCEPT ![t] = r]
    BY <1>4
  <2>2. session' \in SessionRecord
    BY <1>4, NullSessions DEF CodexInv, ServerKnows, SessionRecord
  <2> HIDE DEF q, r
  <2>3. TurnTold(t, r)
    BY <1>1, <1>2, KeepsTold
  <2>4. TurnsAreTold' /\ OneIsBusy'
    BY <1>2, <2>1, <2>3, TurnChanges
  <2> QED BY <1>4, <2>2, <2>4, NullSessions DEF CodexInv, ServerKnows, ServerFits
<1> QED BY <1>3, <1>4

\* Each step keeps the invariant.
LEMMA CodexInvStep == CodexInv /\ [CodexNext]_codexVars => CodexInv'
<1> SUFFICES ASSUME CodexInv, [CodexNext]_codexVars PROVE CodexInv'
  OBVIOUS
<1>1. CASE UNCHANGED codexVars
  BY <1>1 DEF codexVars, CodexInv, ServerKnows, ServerFits, TurnsAreTold, OneIsBusy, Busy
<1>2. ASSUME CodexStep, itemKind' = itemKind PROVE CodexInv'
  <2>1. ASSUME NEW plan \in BOOLEAN, RunnerStarts(plan) \/ PlanAnswered(plan) PROVE CodexInv'
    BY <1>2, <2>1, TurnStartStep, PlanStep
  <2>2. ASSUME NEW ok \in BOOLEAN, HandshakeAnswered(ok) \/ TurnStartAnswered(ok) PROVE CodexInv'
    BY <1>2, <2>2, HandshakeStep, AnsweredStep
  <2>3. ASSUME NEW query \in BOOLEAN, ItemStarted(query) PROVE CodexInv'
    BY <1>2, <2>3, StartedStep
  <2>4. ASSUME \/ Interrupt \/ ItemCompleted \/ AgentMessage \/ DynamicToolCall \/ UserInputRequest
               \/ UserAnswers \/ PlanText \/ IdleProcessExits
        PROVE  CodexInv'
    BY <1>2, <2>4, InterruptStep, CompletedStep, MessageStep, CallStep, QuestionStep, IdleExitStep
  <2>5. ASSUME NEW status \in {"completed", "failed"}, TurnCompleted(status) PROVE CodexInv'
    BY <1>2, <2>5, CompletedTurnStep
  <2>6. ASSUME NEW mentionsResume \in BOOLEAN, FailContext(mentionsResume) PROVE CodexInv'
    BY <1>2, <2>6, FailStep
  <2> QED BY <1>2, <2>1, <2>2, <2>3, <2>4, <2>5, <2>6 DEF CodexStep, AppServerAnswers, AppServerEnds, UserResponds
<1> QED BY <1>1, <1>2 DEF CodexNext

\* No turn was told anything at first.
LEMMA CodexInvInit == CodexInit => CodexInv
<1> SUFFICES ASSUME CodexInit PROVE CodexInv
  OBVIOUS
<1> DEFINE f == [FreshCodexTurn(FALSE) EXCEPT !.call = "none"]
<1>1. pendingTurns = [t \in CodexTurns |-> f]
  BY DEF CodexInit
<1>2. \A t \in CodexTurns : TurnTold(t, f) /\ f.call = "none"
  BY FreshIsTold, NothingIsTold
<1> HIDE DEF f
<1>3. TurnsAreTold
  BY <1>1, <1>2 DEF TurnsAreTold, TurnTold
<1>4. OneIsBusy
  BY <1>1, <1>2 DEF OneIsBusy, Busy
<1>5. session \in SessionRecord
  BY DEF CodexInit, SessionRecord, SessionStates
<1>6. ServerKnows
  BY <1>5, NullSessions DEF CodexInit, ServerKnows, ServerFits
<1> QED BY <1>3, <1>4, <1>6 DEF CodexInv

\* It says what is to be shown.
LEMMA CodexGives == CodexInv => CodexTypeOK /\ OwnTranscripts
<1>1. CodexInv => CodexTypeOK
  BY DEF CodexInv, ServerKnows, SessionRecord, ServerRecord, TurnsAreTold, CodexTypeOK
<1>2. CodexInv => TurnsKeepApart
  <2> SUFFICES ASSUME CodexInv, NEW t \in CodexTurns
               PROVE  /\ pendingTurns[t].verdicts \subseteq {t, NoCodexTurn}
                      /\ \A i \in Item : pendingTurns[t].calls[i] + pendingTurns[t].results[i] > 0 => i = t
    BY DEF TurnsKeepApart
  <2>1. TurnTold(t, pendingTurns[t])
    BY DEF CodexInv, TurnsAreTold
  <2>2. \A i \in Item : i # t => pendingTurns[t].calls[i] = 0 /\ pendingTurns[t].results[i] = 0
    BY <2>1 DEF TurnTold
  <2>3. \A i \in Item : i # t => ~(pendingTurns[t].calls[i] + pendingTurns[t].results[i] > 0)
    BY <2>2
  <2> QED BY <2>1, <2>3 DEF TurnTold
<1>3. CodexInv => ResultsFollowCalls
  <2> SUFFICES ASSUME CodexInv, NEW t \in CodexTurns, NEW i \in Item
               PROVE  /\ pendingTurns[t].calls[i] <= 1
                      /\ pendingTurns[t].results[i] > 0 => pendingTurns[t].calls[i] = 1
    BY DEF ResultsFollowCalls
  <2>1. TurnTold(t, pendingTurns[t])
    BY DEF CodexInv, TurnsAreTold
  <2>2. CASE i = t
    BY <2>1, <2>2 DEF TurnTold
  <2>3. CASE i # t
    <3>1. pendingTurns[t].calls[i] = 0 /\ pendingTurns[t].results[i] = 0
      BY <2>1, <2>3 DEF TurnTold
    <3> QED BY <3>1
  <2> QED BY <2>2, <2>3
<1> QED BY <1>1, <1>2, <1>3 DEF OwnTranscripts

\* Although what the app-server sends is matched with no turn, a turn's transcript
\* tells that turn, each tool once and a result only after its call.
THEOREM TranscriptsAreTheirOwn == CodexSpec => [](CodexTypeOK /\ OwnTranscripts)
<1> QED BY CodexInvInit, CodexInvStep, CodexGives, PTL DEF CodexSpec

-----------------------------------------------------------------------------
(* WsProxy: its invariants *)

BrowserRecord  == [open: BOOLEAN, sent: Nat, infos: Nat, replies: Nat]
ProxyRecord    == [awaitingHello: BOOLEAN, skipFirst: BOOLEAN, ready: BOOLEAN,
                   buffer: Seq(Nat), drops: Nat]
\* The type of an upstream.
UpstreamRecord == [socket: {"none", "connecting", "opened", "open", "closed"},
                   received: Seq(Nat), greeted: BOOLEAN, replies: Nat]

\* The shape of the variables, without bounds.
ProxyTyped ==
    browser \in BrowserRecord /\ proxy \in ProxyRecord /\ upstream \in UpstreamRecord

\* The INFO to skip is the one still to come, and it was replayed.
SkipIsTheGreeting ==
    /\ proxy.skipFirst => ~upstream.greeted /\ browser.infos = 1
    /\ ~proxy.skipFirst => browser.infos = (IF upstream.greeted THEN 1 ELSE 0)

\* The inductive invariant of the greeting.
GreetingInv == SkipIsTheGreeting /\ GreetedOnce

-----------------------------------------------------------------------------
(* WsProxy: types *)

\* The types hold before any connection.
LEMMA TypedInit == WsProxyInit => ProxyTyped
<1> SUFFICES ASSUME WsProxyInit PROVE ProxyTyped
  OBVIOUS
<1>1. <<>> \in Seq(Nat)
  OBVIOUS
<1>2. PICK lazy \in BOOLEAN :
        /\ browser = [open |-> TRUE, sent |-> 0, infos |-> IF lazy THEN 1 ELSE 0, replies |-> 0]
        /\ proxy = [awaitingHello |-> lazy, skipFirst |-> lazy, ready |-> FALSE,
                    buffer |-> <<>>, drops |-> 0]
        /\ upstream = IF lazy THEN NoUpstream ELSE [NoUpstream EXCEPT !.socket = "connecting"]
  BY DEF WsProxyInit
<1>3. NoUpstream \in UpstreamRecord
  BY <1>1 DEF NoUpstream, UpstreamRecord
<1>4. upstream \in UpstreamRecord
  BY <1>2, <1>3 DEF UpstreamRecord
<1>5. browser \in BrowserRecord
  BY <1>2 DEF BrowserRecord
<1>6. proxy \in ProxyRecord
  BY <1>1, <1>2 DEF ProxyRecord
<1> QED
  BY <1>4, <1>5, <1>6 DEF ProxyTyped

\* A frame of the browser is buffered or passed on.
LEMMA TypedFrame == ProxyTyped /\ FrameSent => ProxyTyped'
<1> SUFFICES ASSUME ProxyTyped, FrameSent PROVE ProxyTyped'
  OBVIOUS
<1>1. browser' \in BrowserRecord
  BY DEF ProxyTyped, FrameSent, BrowserRecord
<1>2. browser.sent + 1 \in Nat
  BY DEF ProxyTyped, BrowserRecord
<1> DEFINE longer == Append(proxy.buffer, browser.sent + 1)
<1>3. longer \in Seq(Nat) /\ Tail(longer) \in Seq(Nat)
  BY <1>2 DEF ProxyTyped, ProxyRecord
<1>4. proxy' \in ProxyRecord
  <2> HIDE DEF longer
  <2>1. CASE proxy.awaitingHello
    BY <2>1, <1>3 DEF FrameSent, ProxyTyped, ProxyRecord, longer
  <2>2. CASE ~proxy.awaitingHello /\ Passes
    BY <2>2 DEF FrameSent, ProxyTyped
  <2>3. CASE ~proxy.awaitingHello /\ ~Passes
    <3>1. \/ proxy' = [proxy EXCEPT !.buffer = Tail(longer), !.drops = @ + 1]
          \/ proxy' = [proxy EXCEPT !.buffer = longer]
      BY <2>3 DEF FrameSent, Buffered, longer
    <3>2. CASE proxy' = [proxy EXCEPT !.buffer = longer]
      BY <1>3, <3>2 DEF ProxyTyped, ProxyRecord
    <3>3. CASE proxy' = [proxy EXCEPT !.buffer = Tail(longer), !.drops = @ + 1]
      <4>1. proxy.drops + 1 \in Nat
        BY DEF ProxyTyped, ProxyRecord
      <4> QED
        BY <1>3, <3>3, <4>1 DEF ProxyTyped, ProxyRecord
    <3> QED
      BY <3>1, <3>2, <3>3
  <2> QED
    BY <2>1, <2>2, <2>3
<1>5. upstream' \in UpstreamRecord
  <2>1. Append(upstream.received, browser.sent + 1) \in Seq(Nat)
    BY <1>2 DEF ProxyTyped, UpstreamRecord
  <2> QED
    BY <2>1 DEF FrameSent, ProxyTyped, UpstreamRecord
<1> QED
  BY <1>1, <1>4, <1>5 DEF ProxyTyped

\* The other steps.
LEMMA TypedStep == ProxyTyped /\ [WsProxyStep]_wsProxyVars => ProxyTyped'
<1> SUFFICES ASSUME ProxyTyped, [WsProxyStep]_wsProxyVars PROVE ProxyTyped'
  OBVIOUS
<1>1. CASE FrameSent
  BY <1>1, TypedFrame
<1>2. CASE UpstreamAccepts
  BY <1>2 DEF UpstreamAccepts, ProxyTyped, UpstreamRecord
<1>3. CASE UpstreamOpens
  <2>1. upstream.received \o proxy.buffer \in Seq(Nat) /\ <<>> \in Seq(Nat)
    BY DEF ProxyTyped, ProxyRecord, UpstreamRecord
  <2>2. upstream' \in UpstreamRecord
    BY <1>3, <2>1 DEF UpstreamOpens, ProxyTyped, UpstreamRecord
  <2>3. proxy' \in ProxyRecord
    BY <1>3, <2>1 DEF UpstreamOpens, ProxyTyped, ProxyRecord
  <2> QED
    BY <1>3, <2>2, <2>3 DEF UpstreamOpens, ProxyTyped
<1>4. CASE UpstreamSends
  <2>1. upstream' \in UpstreamRecord
    <3>1. upstream.replies + 1 \in Nat
      BY DEF ProxyTyped, UpstreamRecord
    <3> QED
      BY <1>4, <3>1 DEF UpstreamSends, ProxyTyped, UpstreamRecord
  <2>2. browser' \in BrowserRecord
    BY <1>4 DEF UpstreamSends, ProxyTyped, BrowserRecord
  <2>3. proxy' \in ProxyRecord
    BY <1>4 DEF UpstreamSends, ProxyTyped, ProxyRecord
  <2> QED
    BY <2>1, <2>2, <2>3 DEF ProxyTyped
<1>5. CASE UpstreamCloses \/ BrowserCloses
  <2>1. <<>> \in Seq(Nat)
    OBVIOUS
  <2>2. upstream' \in UpstreamRecord
    BY <1>5 DEF UpstreamCloses, BrowserCloses, ProxyTyped, UpstreamRecord
  <2>3. browser' \in BrowserRecord
    BY <1>5 DEF UpstreamCloses, BrowserCloses, ProxyTyped, BrowserRecord
  <2>4. proxy' \in ProxyRecord
    BY <1>5, <2>1 DEF UpstreamCloses, BrowserCloses, ProxyTyped, ProxyRecord
  <2> QED
    BY <2>2, <2>3, <2>4 DEF ProxyTyped
<1>6. CASE UNCHANGED wsProxyVars
  BY <1>6 DEF wsProxyVars, ProxyTyped
<1> QED
  BY <1>1, <1>2, <1>3, <1>4, <1>5, <1>6 DEF WsProxyStep

-----------------------------------------------------------------------------
(* WsProxy: a browser is greeted once *)

\* And so does that invariant.
LEMMA GreetingInit == WsProxyInit => GreetingInv
  BY DEF WsProxyInit, GreetingInv, SkipIsTheGreeting, GreetedOnce, NoUpstream

\* Only UpstreamSends touches what the properties speak of.
LEMMA GreetingStep == ProxyTyped /\ GreetingInv /\ [WsProxyStep]_wsProxyVars => GreetingInv'
<1> SUFFICES ASSUME ProxyTyped, GreetingInv, [WsProxyStep]_wsProxyVars PROVE GreetingInv'
  OBVIOUS
<1>1. CASE UpstreamSends
  BY <1>1 DEF UpstreamSends, ProxyTyped, BrowserRecord, ProxyRecord, UpstreamRecord,
     GreetingInv, SkipIsTheGreeting, GreetedOnce
<1>2. ASSUME ~UpstreamSends
      PROVE  /\ proxy'.skipFirst = proxy.skipFirst
             /\ upstream'.greeted = upstream.greeted /\ upstream'.replies = upstream.replies
             /\ browser'.infos = browser.infos /\ browser'.replies = browser.replies
  <2>1. CASE FrameSent
    BY <2>1 DEF FrameSent, Buffered, ProxyTyped, BrowserRecord, ProxyRecord, UpstreamRecord
  <2>2. CASE UpstreamAccepts \/ UpstreamOpens
    BY <2>2 DEF UpstreamAccepts, UpstreamOpens, ProxyTyped, ProxyRecord, UpstreamRecord
  <2>3. CASE UpstreamCloses \/ BrowserCloses
    BY ZenonT(40), <2>3 DEF UpstreamCloses, BrowserCloses, ProxyTyped, BrowserRecord, ProxyRecord,
       UpstreamRecord
  <2>4. CASE UNCHANGED wsProxyVars
    BY <2>4 DEF wsProxyVars
  <2> QED
    BY <1>2, <2>1, <2>2, <2>3, <2>4 DEF WsProxyStep
<1> QED
  BY <1>1, <1>2 DEF GreetingInv, SkipIsTheGreeting, GreetedOnce

\* A browser gets one INFO and every answer: what the proxy skips is the INFO of
\* the upstream it opened after replaying the cached one.
THEOREM BrowserIsGreetedOnce == WsProxySpec => []GreetedOnce
<1>1. ProxyTyped /\ GreetingInv => GreetedOnce
  BY DEF GreetingInv
<1> QED
  BY TypedInit, TypedStep, GreetingInit, GreetingStep, <1>1, PTL DEF WsProxySpec

-----------------------------------------------------------------------------
(* WsProxy: the server hears in order *)

\* Frames heard, then frames held, rise up to the last one sent.
RisingTo(heard, held, last) ==
    /\ \A i, j \in 1..Len(heard) : i < j => heard[i] < heard[j]
    /\ \A i, j \in 1..Len(held) : i < j => held[i] < held[j]
    /\ \A i \in 1..Len(heard), j \in 1..Len(held) : heard[i] < held[j]
    /\ \A i \in 1..Len(heard) : heard[i] <= last
    /\ \A j \in 1..Len(held) : held[j] <= last

\* Nothing was dropped: they are all that was sent.
GaplessTo(heard, held, last) ==
    /\ \A i \in 1..Len(heard) : heard[i] = i
    /\ \A j \in 1..Len(held) : held[j] = Len(heard) + j
    /\ Len(heard) + Len(held) = last

\* A connection that ends drops the frames held, so that only what was heard counts.
OrderInv ==
    /\ RisingTo(upstream.received, proxy.buffer, browser.sent)
    /\ proxy.drops = 0 =>
          /\ \A i \in 1..Len(upstream.received) : upstream.received[i] = i
          /\ browser.open => GaplessTo(upstream.received, proxy.buffer, browser.sent)
    \* What is held while the upstream is open would be passed by later frames.
    /\ proxy.ready => proxy.buffer = <<>>
    /\ proxy.ready <=> upstream.socket = "open"
    /\ proxy.awaitingHello => upstream.socket = "none"

\* The operations on the two sequences.
LEMMA FrameHeld ==
    ASSUME NEW heard \in Seq(Nat), NEW held \in Seq(Nat), NEW last \in Nat,
           RisingTo(heard, held, last)
    PROVE  /\ RisingTo(heard, Append(held, last + 1), last + 1)
           /\ GaplessTo(heard, held, last) => GaplessTo(heard, Append(held, last + 1), last + 1)
<1> DEFINE longer == Append(held, last + 1)
           n == Len(held)
<1>1. n \in Nat /\ Len(heard) \in Nat /\ Len(longer) = n + 1
  OBVIOUS
<1>2. \A j \in 1..n : longer[j] = held[j] /\ held[j] \in Nat
  OBVIOUS
<1>3. longer[n + 1] = last + 1
  OBVIOUS
<1>4. \A i \in 1..Len(heard) : heard[i] \in Nat
  OBVIOUS
<1> HIDE DEF longer, n
<1>5. \A j \in 1..Len(longer) : j \in 1..n \/ j = n + 1
  BY <1>1
<1>6. \A j \in 1..n : held[j] < last + 1
  <2> TAKE j \in 1..n
  <2>1. held[j] <= last /\ held[j] \in Nat
    BY <1>2 DEF RisingTo, n
  <2> QED
    BY <2>1
<1>7. \A i \in 1..Len(heard) : heard[i] < last + 1 /\ heard[i] <= last + 1
  <2> TAKE i \in 1..Len(heard)
  <2>1. heard[i] <= last /\ heard[i] \in Nat
    BY <1>4 DEF RisingTo
  <2> QED
    BY <2>1
<1>8. \A i, j \in 1..Len(longer) : i < j => longer[i] < longer[j]
  <2> SUFFICES ASSUME NEW i \in 1..Len(longer), NEW j \in 1..Len(longer), i < j
               PROVE  longer[i] < longer[j]
    OBVIOUS
  <2>1. i \in 1..n
    BY <1>1
  <2>2. CASE j \in 1..n
    <3>1. held[i] < held[j]
      BY <2>1, <2>2 DEF RisingTo, n
    <3> QED
      BY <1>2, <2>1, <2>2, <3>1
  <2>3. CASE j = n + 1
    <3>1. held[i] < last + 1
      BY <1>6, <2>1
    <3> QED
      BY <1>2, <1>3, <2>1, <2>3, <3>1
  <2> QED
    BY <1>5, <2>2, <2>3
<1>9. \A i \in 1..Len(heard), j \in 1..Len(longer) : heard[i] < longer[j]
  <2> SUFFICES ASSUME NEW i \in 1..Len(heard), NEW j \in 1..Len(longer)
               PROVE  heard[i] < longer[j]
    OBVIOUS
  <2>1. CASE j \in 1..n
    <3>1. heard[i] < held[j]
      BY <2>1 DEF RisingTo, n
    <3> QED
      BY <1>2, <2>1, <3>1
  <2>2. CASE j = n + 1
    BY <1>3, <1>7, <2>2
  <2> QED
    BY <1>5, <2>1, <2>2
<1>10. \A j \in 1..Len(longer) : longer[j] <= last + 1
  <2> SUFFICES ASSUME NEW j \in 1..Len(longer)
               PROVE  longer[j] <= last + 1
    OBVIOUS
  <2>1. CASE j \in 1..n
    <3>1. held[j] < last + 1 /\ held[j] \in Nat
      BY <1>2, <1>6, <2>1
    <3>2. held[j] <= last + 1
      BY <3>1
    <3> QED
      BY <1>2, <2>1, <3>2
  <2>2. CASE j = n + 1
    BY <1>3, <2>2
  <2> QED
    BY <1>5, <2>1, <2>2
<1>11. RisingTo(heard, longer, last + 1)
  BY <1>7, <1>8, <1>9, <1>10 DEF RisingTo
<1>12. ASSUME GaplessTo(heard, held, last) PROVE GaplessTo(heard, longer, last + 1)
  <2>1. /\ Len(heard) + n = last
        /\ \A j \in 1..n : held[j] = Len(heard) + j
        /\ \A i \in 1..Len(heard) : heard[i] = i
    BY <1>12 DEF GaplessTo, n
  <2>2. ASSUME NEW j \in 1..Len(longer) PROVE longer[j] = Len(heard) + j
    <3>1. CASE j \in 1..n
      BY <1>2, <2>1, <3>1
    <3>2. CASE j = n + 1
      BY <1>1, <2>1, <1>3, <3>2
    <3> QED
      BY <1>5, <3>1, <3>2
  <2>3. Len(heard) + Len(longer) = last + 1
    BY <1>1, <2>1
  <2> QED
    BY <2>1, <2>2, <2>3 DEF GaplessTo
<1> QED
  BY <1>11, <1>12 DEF longer

\* A queue without its first frame.
LEMMA OldestDropped ==
    ASSUME NEW heard \in Seq(Nat), NEW held \in Seq(Nat), held # <<>>, NEW last \in Nat,
           RisingTo(heard, held, last)
    PROVE  RisingTo(heard, Tail(held), last)
  BY DEF RisingTo

\* A frame that goes on leaves the others as they were.
LEMMA FramePassed ==
    ASSUME NEW heard \in Seq(Nat), NEW last \in Nat, RisingTo(heard, <<>>, last)
    PROVE  /\ RisingTo(Append(heard, last + 1), <<>>, last + 1)
           /\ GaplessTo(heard, <<>>, last) => GaplessTo(Append(heard, last + 1), <<>>, last + 1)
  BY DEF RisingTo, GaplessTo

\* The queue of a connection that opened goes out as a whole.
LEMMA FramesFlushed ==
    ASSUME NEW heard \in Seq(Nat), NEW held \in Seq(Nat), NEW last \in Nat,
           RisingTo(heard, held, last)
    PROVE  /\ RisingTo(heard \o held, <<>>, last)
           /\ GaplessTo(heard, held, last) => GaplessTo(heard \o held, <<>>, last)
<1> DEFINE all == heard \o held
<1>0. Len(heard) \in Nat /\ Len(all) \in Nat
  OBVIOUS
<1>1. /\ Len(all) = Len(heard) + Len(held) /\ Len(heard) \in Nat /\ Len(held) \in Nat
      /\ \A i \in 1..Len(all) : all[i] = IF i <= Len(heard) THEN heard[i]
                                         ELSE held[i - Len(heard)]
      /\ Len(<<>>) = 0
      /\ \A i \in 1..Len(heard) : heard[i] \in Nat
      /\ \A j \in 1..Len(held) : held[j] \in Nat
  OBVIOUS
<1>2. \A i \in 1..Len(all) : i > Len(heard) => i - Len(heard) \in 1..Len(held)
  BY <1>1
<1> HIDE DEF all
<1>3. RisingTo(all, <<>>, last)
  <2>1. \A i, j \in 1..Len(all) : i < j => all[i] < all[j]
    <3> SUFFICES ASSUME NEW i \in 1..Len(all), NEW j \in 1..Len(all), i < j
                 PROVE  all[i] < all[j]
      OBVIOUS
    <3>1. CASE j <= Len(heard)
      BY SMTT(30), <3>1, <1>0, <1>1 DEF RisingTo
    <3>2. CASE i <= Len(heard) /\ j > Len(heard)
      <4>1. heard[i] < held[j - Len(heard)]
        BY <1>0, <1>2, <3>2 DEF RisingTo
      <4> QED
        BY <1>1, <3>2, <4>1
    <3>3. CASE i > Len(heard)
      <4>1. /\ i - Len(heard) \in 1..Len(held) /\ j - Len(heard) \in 1..Len(held)
            /\ i - Len(heard) < j - Len(heard)
        BY <1>1, <1>2, <3>3
      <4>2. held[i - Len(heard)] < held[j - Len(heard)]
        BY <4>1 DEF RisingTo
      <4> QED
        BY <1>1, <3>3, <4>2
    <3> QED
      BY <1>1, <3>1, <3>2, <3>3
  <2>2. ASSUME NEW i \in 1..Len(all)
        PROVE  all[i] <= last
    <3>1. CASE i <= Len(heard)
      <4>1. heard[i] <= last
        BY <1>0, <3>1 DEF RisingTo
      <4> QED
        BY <1>1, <3>1, <4>1
    <3>2. CASE i > Len(heard)
      <4>1. held[i - Len(heard)] <= last
        BY <1>2, <3>2 DEF RisingTo
      <4> QED
        BY <1>1, <3>2, <4>1
    <3> QED
      BY <1>0, <3>1, <3>2
  <2> QED
    BY <1>1, <2>1, <2>2 DEF RisingTo
<1>4. GaplessTo(heard, held, last) => GaplessTo(all, <<>>, last)
  <2> SUFFICES ASSUME GaplessTo(heard, held, last)
               PROVE  GaplessTo(all, <<>>, last)
    OBVIOUS
  <2>1. ASSUME NEW i \in 1..Len(all)
        PROVE  all[i] = i
    <3>1. CASE i <= Len(heard)
      BY SMTT(20), <1>1, <3>1 DEF GaplessTo
    <3>2. CASE i > Len(heard)
      <4>1. held[i - Len(heard)] = Len(heard) + (i - Len(heard))
        BY <1>2, <3>2 DEF GaplessTo
      <4> QED
        BY <1>1, <3>2, <4>1
    <3> QED
      BY <1>1, <3>1, <3>2
  <2> QED
    BY <1>1, <2>1 DEF GaplessTo
<1> QED
  BY <1>3, <1>4 DEF all

\* The frames of a connection that is gone are dropped.
LEMMA FramesForgotten ==
    ASSUME NEW heard \in Seq(Nat), NEW held \in Seq(Nat), NEW last \in Nat,
           RisingTo(heard, held, last)
    PROVE  RisingTo(heard, <<>>, last)
  BY DEF RisingTo

\* A new connection has heard and holds nothing.
LEMMA OrderInit == WsProxyInit => OrderInv
BY DEF WsProxyInit, NoUpstream, OrderInv, RisingTo, GaplessTo

\* A frame is held, drops the oldest one, or is passed on when none is held.
LEMMA OrderFrame == ProxyTyped /\ OrderInv /\ FrameSent => OrderInv'
<1> SUFFICES ASSUME ProxyTyped, OrderInv, FrameSent PROVE OrderInv'
  OBVIOUS
<1> DEFINE heard == upstream.received
           held  == proxy.buffer
           last  == browser.sent
<1>1. heard \in Seq(Nat) /\ held \in Seq(Nat) /\ last \in Nat
  BY DEF ProxyTyped, BrowserRecord, ProxyRecord, UpstreamRecord
<1>2. browser' = [browser EXCEPT !.sent = last + 1] /\ browser'.sent = last + 1 /\ browser.open
      /\ browser'.open = browser.open
  BY DEF FrameSent, ProxyTyped, BrowserRecord
<1>3. RisingTo(heard, held, last) /\ (proxy.drops = 0 => GaplessTo(heard, held, last))
  BY <1>2 DEF OrderInv
<1>4. CASE proxy.awaitingHello
  <2>1. /\ proxy'.buffer = Append(held, last + 1) /\ proxy'.drops = proxy.drops
        /\ proxy'.ready = proxy.ready /\ ~proxy'.awaitingHello
        /\ upstream'.received = heard /\ upstream'.socket = "connecting"
    BY <1>4 DEF FrameSent, ProxyTyped, ProxyRecord, UpstreamRecord
  <2>2. ~proxy.ready
    BY <1>4 DEF OrderInv
  <2>3. /\ RisingTo(heard, proxy'.buffer, last + 1)
        /\ proxy.drops = 0 => GaplessTo(heard, proxy'.buffer, last + 1)
    BY <1>1, <1>3, <2>1, FrameHeld
  <2>4. proxy.drops = 0 => \A i \in 1..Len(heard) : heard[i] = i
    BY DEF OrderInv
  <2> QED
    BY <1>2, <2>1, <2>2, <2>3, <2>4 DEF OrderInv
<1>5. CASE ~proxy.awaitingHello /\ Passes
  <2>1. /\ proxy' = proxy /\ held = <<>>
        /\ upstream'.received = Append(heard, last + 1) /\ upstream'.socket = upstream.socket
    BY <1>5 DEF FrameSent, Passes, OrderInv, ProxyTyped, UpstreamRecord
  <2> QED
    BY <1>1, <1>2, <1>3, <1>5, <2>1, FramePassed DEF OrderInv, GaplessTo
<1>6. CASE ~proxy.awaitingHello /\ ~Passes
  <2>1. ~proxy.ready
    BY <1>6 DEF Passes, OrderInv
  <2>2. upstream' = upstream /\ proxy' = Buffered(last + 1)
    BY <1>6 DEF FrameSent
  <2>3. /\ proxy'.ready = proxy.ready /\ proxy'.awaitingHello = proxy.awaitingHello
        /\ \/ proxy'.drops = proxy.drops /\ proxy'.buffer = Append(held, last + 1)
           \/ proxy'.drops = proxy.drops + 1 /\ proxy'.buffer = Tail(Append(held, last + 1))
    BY <2>2 DEF Buffered, ProxyTyped, ProxyRecord
  <2>4. CASE proxy'.drops = proxy.drops /\ proxy'.buffer = Append(held, last + 1)
    BY <1>1, <1>3, <2>4, FrameHeld, <1>2, <2>1, <2>2, <2>3 DEF OrderInv
  <2>5. CASE proxy'.drops = proxy.drops + 1 /\ proxy'.buffer = Tail(Append(held, last + 1))
    <3>1. RisingTo(heard, Append(held, last + 1), last + 1)
      BY <1>1, <1>3, FrameHeld
    <3>2. /\ Append(held, last + 1) \in Seq(Nat) /\ last + 1 \in Nat
          /\ Append(held, last + 1) # <<>>
      <4>1. last + 1 \in Nat
        BY <1>1
      <4> QED
        BY SMTT(20), <1>1, <4>1
    <3>3. RisingTo(heard, Tail(Append(held, last + 1)), last + 1)
      BY <1>1, <3>1, <3>2, OldestDropped
    <3>4. proxy'.drops # 0
      BY <2>5 DEF ProxyTyped, ProxyRecord
    <3> QED
      BY <1>2, <2>1, <2>2, <2>3, <2>5, <3>3, <3>4 DEF OrderInv
  <2> QED
    BY <2>3, <2>4, <2>5
<1> QED
  BY <1>4, <1>5, <1>6

\* The upstream opens and hears what is held, or one side leaves.
LEMMA OrderStep == ProxyTyped /\ OrderInv /\ [WsProxyStep]_wsProxyVars => OrderInv'
<1> SUFFICES ASSUME ProxyTyped, OrderInv, [WsProxyStep]_wsProxyVars PROVE OrderInv'
  OBVIOUS
<1>1. /\ upstream.received \in Seq(Nat) /\ proxy.buffer \in Seq(Nat) /\ browser.sent \in Nat
      /\ RisingTo(upstream.received, proxy.buffer, browser.sent)
  BY DEF ProxyTyped, BrowserRecord, ProxyRecord, UpstreamRecord, OrderInv
<1>2. CASE FrameSent
  BY <1>2, OrderFrame
<1>3. CASE UpstreamAccepts \/ UpstreamSends
  <2>1. /\ proxy'.buffer = proxy.buffer /\ proxy'.drops = proxy.drops
        /\ proxy'.ready = proxy.ready /\ proxy'.awaitingHello = proxy.awaitingHello
    BY <1>3 DEF UpstreamAccepts, UpstreamSends, ProxyTyped, ProxyRecord
  <2>2. browser'.sent = browser.sent /\ browser'.open = browser.open
    BY <1>3 DEF UpstreamAccepts, UpstreamSends, ProxyTyped, BrowserRecord
  <2>3. /\ upstream'.received = upstream.received
        /\ upstream.socket = "open" <=> upstream'.socket = "open"
        /\ upstream.socket # "none"
    BY <1>3 DEF UpstreamAccepts, UpstreamSends, ProxyTyped, UpstreamRecord
  <2> QED
    BY <2>1, <2>2, <2>3 DEF OrderInv
<1>4. CASE UpstreamOpens
  <2>1. CASE browser.open
    <3>1. /\ upstream'.received = upstream.received \o proxy.buffer
          /\ upstream'.socket = "open" /\ proxy'.ready /\ proxy'.buffer = <<>>
          /\ proxy'.drops = proxy.drops /\ browser' = browser
          /\ proxy'.awaitingHello = proxy.awaitingHello /\ upstream.socket = "opened"
      BY <1>4, <2>1 DEF UpstreamOpens, ProxyTyped, ProxyRecord, UpstreamRecord
    <3>2. proxy.drops = 0 => GaplessTo(upstream.received, proxy.buffer, browser.sent)
      BY <2>1 DEF OrderInv
    <3>3. /\ RisingTo(upstream'.received, <<>>, browser.sent)
          /\ proxy.drops = 0 => GaplessTo(upstream'.received, <<>>, browser.sent)
      BY <1>1, <3>1, <3>2, FramesFlushed
    <3>4. ~proxy'.awaitingHello
      BY <3>1 DEF OrderInv
    <3>5. proxy.drops = 0 => \A i \in 1..Len(upstream'.received) : upstream'.received[i] = i
      BY <3>3 DEF GaplessTo
    <3> QED
      BY <3>1, <3>3, <3>4, <3>5 DEF OrderInv
  <2>2. CASE ~browser.open
    BY <1>4, <2>2 DEF UpstreamOpens, ProxyTyped, UpstreamRecord, OrderInv
  <2> QED
    BY <2>1, <2>2
<1>5. CASE UpstreamCloses \/ BrowserCloses
  <2>1. /\ proxy'.buffer = <<>> /\ proxy'.drops = proxy.drops
        /\ ~proxy'.ready /\ ~proxy'.awaitingHello
    BY <1>5 DEF UpstreamCloses, BrowserCloses, ProxyTyped, ProxyRecord
  <2>2. browser'.sent = browser.sent /\ ~browser'.open
    BY <1>5 DEF UpstreamCloses, BrowserCloses, ProxyTyped, BrowserRecord
  <2>3. upstream'.received = upstream.received /\ upstream'.socket # "open"
    BY <1>5 DEF UpstreamCloses, BrowserCloses, ProxyTyped, UpstreamRecord
  <2> QED
    BY <1>1, <2>1, <2>2, <2>3, FramesForgotten DEF OrderInv
<1>6. CASE UNCHANGED wsProxyVars
  BY <1>6 DEF wsProxyVars, OrderInv
<1> QED
  BY <1>2, <1>3, <1>4, <1>5, <1>6 DEF WsProxyStep

\* It says what is to be shown.
LEMMA OrderGives == ProxyTyped /\ OrderInv => FramesInOrder
<1> SUFFICES ASSUME ProxyTyped, OrderInv PROVE FramesInOrder
  OBVIOUS
<1>1. DOMAIN upstream.received = 1..Len(upstream.received)
  BY DEF ProxyTyped, UpstreamRecord
<1> QED
  BY <1>1 DEF OrderInv, RisingTo, FramesInOrder

\* The server hears the frames in order and, where none was dropped, without a
\* gap: frames pass only after those held were flushed, in the same step.
THEOREM ServerHearsInOrder == WsProxySpec => []FramesInOrder
<1> QED
  BY TypedInit, TypedStep, OrderInit, OrderStep, OrderGives, PTL DEF WsProxySpec

-----------------------------------------------------------------------------
(* SelfUpdate: installs move forward *)

\* The types of the records.
ProcessRecord == [phase: ProcessPhases, release: Nat, share: BOOLEAN, deaf: BOOLEAN,
                  code: {"none", "exit", "startup_update", "ui_update"}]
\* What the manager of a process remembers.
ManagerRecord == [current: Nat, latest: Nat, available: BOOLEAN, recent: BOOLEAN,
                  checking: BOOLEAN, installing: BOOLEAN,
                  status: {"idle", "checking", "available", "up_to_date", "error",
                           "restart_pending"}]

\* The types, as far as the proofs need them.
UpdateTyped ==
    /\ published \in Nat
    /\ installs \in Seq(Nat) /\ installs # <<>>
    /\ process \in ProcessRecord /\ manager \in ManagerRecord

\* Each number of s is greater than those before.
Rising(s) == \A i, j \in 1..Len(s) : i < j => s[i] < s[j]

\* A process that starts is what is on disk; one that serves knows what is on disk
\* although it may run an older release, and an update it knows of is newer.
KnowsTheDisk ==
    /\ process.phase = "startup" => process.release = OnDisk
    /\ Serving => manager.current = OnDisk
    /\ Serving /\ manager.available => manager.current < manager.latest

\* The inductive invariant.
UpdateInv == UpdateTyped /\ Rising(installs) /\ KnowsTheDisk

\* A newer release goes behind all that were installed.
LEMMA InstallRises ==
    ASSUME NEW s \in Seq(Nat), s # <<>>, Rising(s), NEW v \in Nat, s[Len(s)] < v
    PROVE  /\ Append(s, v) \in Seq(Nat) /\ Append(s, v) # <<>>
           /\ Rising(Append(s, v))
           /\ Append(s, v)[Len(Append(s, v))] = v
<1> DEFINE longer == Append(s, v)
           n == Len(s)
<1>1. n \in Nat \ {0} /\ Len(longer) = n + 1 /\ longer \in Seq(Nat) /\ longer # <<>>
  OBVIOUS
<1>2. \A j \in 1..n : longer[j] = s[j] /\ s[j] \in Nat
  OBVIOUS
<1>3. longer[n + 1] = v
  OBVIOUS
<1> HIDE DEF longer
<1>4. Rising(longer)
  <2> SUFFICES ASSUME NEW i \in 1..Len(longer), NEW j \in 1..Len(longer), i < j
               PROVE  longer[i] < longer[j]
    BY DEF Rising
  <2> HIDE DEF n
  <2>1. i \in 1..n /\ n \in 1..n /\ (j \in 1..n \/ j = n + 1)
    BY <1>1
  <2>2. CASE j \in 1..n
    BY <2>1, <2>2, <1>2 DEF Rising, n
  <2>3. CASE j = n + 1
    BY <1>2, <2>1, <1>3, <2>3 DEF n, Rising
  <2> QED
    BY <2>1, <2>2, <2>3
<1> QED
  BY <1>1, <1>3, <1>4 DEF longer

\* One release is on disk and nothing is known.
LEMMA UpdateInvInit == SelfUpdateInit => UpdateInv
<1> SUFFICES ASSUME SelfUpdateInit PROVE UpdateInv
  OBVIOUS
<1>1. published \in Nat /\ installs = <<1>> /\ installs \in Seq(Nat) /\ installs # <<>>
  BY DEF SelfUpdateInit
<1>2. process \in ProcessRecord /\ process.phase = "startup" /\ process.release = 1
  <2>1. process \in [phase: {"startup"}, release: {1}, share: BOOLEAN, code: {"none"}, deaf: {FALSE}]
    BY DEF SelfUpdateInit
  <2>2. PICK share \in BOOLEAN : process = [phase |-> "startup", release |-> 1, share |-> share,
                                          code |-> "none", deaf |-> FALSE]
    BY <2>1
  <2> QED
    BY <2>2 DEF ProcessRecord, ProcessPhases
<1>3. manager \in ManagerRecord
  BY DEF SelfUpdateInit, NewManager, ManagerRecord
<1>4. Rising(installs) /\ OnDisk = 1
  BY <1>1 DEF Rising, OnDisk
<1> QED
  BY <1>1, <1>2, <1>3, <1>4 DEF UpdateInv, UpdateTyped, KnowsTheDisk, Serving

\* Steps of the process that install nothing; the manager may be made anew.
LEMMA ProcessSteps ==
    ASSUME UpdateInv,
           \/ ReleasePublished \/ StartupServes \/ Interrupted \/ Stopped \/ Supervised
           \/ \E ok \in BOOLEAN : TunnelOpens(ok)
    PROVE  UpdateInv'
<1> USE DEF UpdateInv, UpdateTyped
<1>1. installs' = installs /\ OnDisk' = OnDisk /\ OnDisk \in Nat
  BY DEF ReleasePublished, StartupServes, Interrupted, Stopped, Supervised, TunnelOpens, OnDisk
<1>2. CASE ReleasePublished
  BY <1>1, <1>2 DEF ReleasePublished, KnowsTheDisk, Serving
<1>3. CASE StartupServes
  BY <1>3, <1>1 DEF StartupServes, ProcessRecord, ProcessPhases, NewManager, ManagerRecord, KnowsTheDisk, Serving
<1>4. CASE Interrupted \/ Stopped \/ \E ok \in BOOLEAN : TunnelOpens(ok)
  BY <1>4, <1>1 DEF Interrupted, Stopped, TunnelOpens, ProcessRecord, ProcessPhases, Serving, KnowsTheDisk
<1>5. CASE Supervised
  BY <1>1, <1>5 DEF Supervised, ProcessRecord, ProcessPhases, KnowsTheDisk, Serving
<1> QED
  BY <1>2, <1>3, <1>4, <1>5

\* The update at start compares what runs, which is what is on disk.
LEMMA StartupStep == UpdateInv /\ StartupUpdate => UpdateInv'
<1> SUFFICES ASSUME UpdateInv, StartupUpdate PROVE UpdateInv'
  OBVIOUS
<1>1. /\ installs \in Seq(Nat) /\ installs # <<>> /\ Rising(installs) /\ published \in Nat
      /\ installs[Len(installs)] < published
  BY DEF UpdateInv, UpdateTyped, StartupUpdate, KnowsTheDisk, OnDisk
<1>2. installs' \in Seq(Nat) /\ installs' # <<>> /\ Rising(installs)'
  BY <1>1, InstallRises DEF StartupUpdate, Rising
<1>3. process' \in ProcessRecord /\ process'.phase = "exited"
  BY DEF UpdateInv, UpdateTyped, StartupUpdate, ProcessRecord, ProcessPhases
<1> QED
  BY <1>2, <1>3 DEF UpdateInv, UpdateTyped, StartupUpdate, KnowsTheDisk, Serving

\* An install from a manager m that serves and knows of a newer release.
LEMMA InstallStep ==
    ASSUME UpdateInv, Serving, NEW m \in ManagerRecord, NEW ok \in BOOLEAN,
           m.current = manager.current, m.available => m.current < m.latest,
           m.available, Install(m, ok), UNCHANGED published
    PROVE  UpdateInv'
<1>1. CASE ok
  <2>1. /\ installs \in Seq(Nat) /\ installs # <<>> /\ Rising(installs) /\ m.latest \in Nat
        /\ installs[Len(installs)] < m.latest
    BY DEF UpdateInv, UpdateTyped, KnowsTheDisk, OnDisk, ManagerRecord
  <2>2. installs' = Append(installs, m.latest)
    BY <1>1 DEF Install
  <2>3. installs' \in Seq(Nat) /\ installs' # <<>> /\ Rising(installs)' /\ OnDisk' = m.latest
    BY <2>1, <2>2, InstallRises DEF Rising, OnDisk
  <2>4. manager' \in ManagerRecord /\ manager'.current = m.latest /\ ~manager'.available
    BY <1>1 DEF Install, ManagerRecord
  <2>5. process' \in ProcessRecord /\ process'.phase \in {"tunnel", "up", "stopping"}
    BY <1>1 DEF Install, UpdateInv, UpdateTyped, Notified, Serving, ProcessRecord, ProcessPhases
  <2> QED
    BY <2>3, <2>4, <2>5 DEF UpdateInv, UpdateTyped, KnowsTheDisk, Serving
<1>2. CASE ~ok
  BY <1>2 DEF Install, ManagerRecord, UpdateInv, UpdateTyped, KnowsTheDisk, Serving, OnDisk
<1> QED
  BY <1>1, <1>2

\* Another snapshot of the same release.
LEMMA SnapshotStep ==
    ASSUME UpdateInv, manager' \in ManagerRecord, manager'.current = manager.current,
           manager'.available => manager'.current < manager'.latest \/ ~Serving,
           UNCHANGED <<published, installs, process>>
    PROVE  UpdateInv'
  BY DEF UpdateInv, UpdateTyped, KnowsTheDisk, Serving, OnDisk

\* The commands of the tabs and the answers of the registry.
LEMMA ManagerSteps ==
    ASSUME UpdateInv, NEW ok \in BOOLEAN, NEW v \in 1..MaxRelease, NEW force \in BOOLEAN,
           \/ CheckForUpdates(force) \/ InstallUpdate(ok) \/ CheckAnswered(v, ok)
           \/ CheckFails(ok) \/ CheckAges
    PROVE  UpdateInv'
<1>1. manager \in ManagerRecord /\ v \in Nat
  BY SelfUpdateConstants DEF UpdateInv, UpdateTyped
<1>2. Serving /\ manager.available => manager.current < manager.latest
  BY DEF UpdateInv, KnowsTheDisk
<1>3. CASE CheckForUpdates(force) \/ CheckAges
  BY <1>1, <1>3, <1>2, SnapshotStep DEF CheckForUpdates, CheckAges, ManagerRecord
<1>4. CASE InstallUpdate(ok)
  BY <1>1, <1>2, <1>4, InstallStep, SnapshotStep DEF InstallUpdate, ManagerRecord
<1>5. CASE CheckAnswered(v, ok)
  <2> DEFINE m == [Checked(manager, v) EXCEPT !.checking = FALSE, !.installing = FALSE]
  <2>1. /\ m \in ManagerRecord /\ m.current = manager.current
        /\ m.available => m.current < m.latest
    <3>1. manager.current \in Nat
      BY <1>1 DEF ManagerRecord
    <3>2. (manager.current < v) \in BOOLEAN
      BY <1>1, <3>1
    <3>3. CASE manager.current < v
      BY <3>3, <1>1 DEF Checked, ManagerRecord
    <3>4. CASE ~(manager.current < v)
      BY <3>2, <3>4, <1>1 DEF Checked, ManagerRecord
    <3> QED
      BY <3>3, <3>4
  <2>2. /\ Serving /\ published' = published
        /\ IF manager.installing /\ m.available THEN Install(m, ok)
           ELSE manager' = m /\ UNCHANGED <<installs, process>>
    BY <1>5 DEF CheckAnswered
  <2> HIDE DEF m
  <2>3. CASE manager.installing /\ m.available
    BY <2>1, <2>2, <2>3, InstallStep
  <2>4. CASE ~(manager.installing /\ m.available)
    BY <2>1, <2>2, <2>4, SnapshotStep
  <2> QED
    BY <2>3, <2>4
<1>6. CASE CheckFails(ok)
  <2> DEFINE m == [manager EXCEPT !.status = "error", !.recent = TRUE,
                                  !.checking = FALSE, !.installing = FALSE]
  <2>1. /\ m \in ManagerRecord /\ m.current = manager.current
        /\ m.available = manager.available /\ m.latest = manager.latest
    BY <1>1 DEF ManagerRecord
  <2>2. /\ Serving /\ published' = published
        /\ IF manager.installing /\ m.available THEN Install(m, ok)
           ELSE manager' = m /\ UNCHANGED <<installs, process>>
    BY <1>6 DEF CheckFails
  <2> HIDE DEF m
  <2>3. CASE manager.installing /\ m.available
    BY <1>2, <2>1, <2>2, <2>3, InstallStep
  <2>4. CASE ~(manager.installing /\ m.available)
    BY <1>2, <2>1, <2>2, <2>4, SnapshotStep
  <2> QED
    BY <2>3, <2>4
<1> QED
  BY <1>3, <1>4, <1>5, <1>6

\* Every step keeps the invariant.
LEMMA UpdateKeeps == UpdateInv /\ [SelfUpdateStep]_selfUpdateVars => UpdateInv'
<1> SUFFICES ASSUME UpdateInv, [SelfUpdateStep]_selfUpdateVars
             PROVE  UpdateInv'
  OBVIOUS
<1>1. CASE \/ ReleasePublished \/ StartupServes \/ Interrupted \/ Stopped \/ Supervised
           \/ \E ok \in BOOLEAN : TunnelOpens(ok)
  BY <1>1, ProcessSteps
<1>2. CASE StartupUpdate
  BY <1>2, StartupStep
<1>3. ASSUME NEW ok \in BOOLEAN, NEW v \in 1..MaxRelease, NEW force \in BOOLEAN,
             \/ CheckForUpdates(force) \/ InstallUpdate(ok) \/ CheckAnswered(v, ok)
             \/ CheckFails(ok) \/ CheckAges
      PROVE  UpdateInv'
  BY <1>3, ManagerSteps
<1>4. 1 \in 1..MaxRelease
  BY SelfUpdateConstants
<1>5. CASE UNCHANGED selfUpdateVars
  BY <1>5 DEF selfUpdateVars, UpdateInv, UpdateTyped, KnowsTheDisk, Serving, OnDisk
<1> QED
  BY <1>1, <1>2, <1>3, <1>4, <1>5 DEF SelfUpdateStep

\* It says what is to be shown.
LEMMA UpdateGives == UpdateInv => InstallsForward
BY DEF UpdateInv, UpdateTyped, Rising, InstallsForward

\* No release is installed twice or over a newer one, by whichever of the two
\* updaters, because each compares with what is on disk and not with what runs.
THEOREM InstallsMoveForward == SelfUpdateSpec => []InstallsForward
<1> QED
  BY UpdateInvInit, UpdateKeeps, UpdateGives, PTL DEF SelfUpdateSpec

-----------------------------------------------------------------------------
(* WorkflowRun: its types, and an abort is seen *)

\* What is appended to the store of a run, with who waits for it: cancel() for its own event alone.
EventNames == {"started", "step_started", "step_completed", "step_failed", "completed", "failed", "cancelled"}
EventRecord == {e \in [event: EventNames, at: Position, by: {"engine", "cancel"}] :
                    e.by = "cancel" <=> e.event = "cancelled"}
EngineRecord == [step: 1..Steps, repo: 1..Repos, awaits: Awaiting, policy: OnFailure,
                 undo: (0..Steps) \X (0..Repos)]
ControlRecord == [active: BOOLEAN, aborted: BOOLEAN, restarted: BOOLEAN]

\* A rollback is at a step, which it counts down.
WorkflowInv ==
    /\ run \in [status: RunStatuses, steps: [Position -> {"none", "running", "completed", "failed"}]]
    /\ engine \in EngineRecord /\ control \in ControlRecord /\ appends \in Seq(EventRecord)
    /\ engine.awaits = "rollback" => engine.undo[1] > 0

\* There is a first step, and the engine is at one.
LEMMA StepsAndRepos ==
    ASSUME WorkflowInv
    PROVE  /\ Steps \in Nat /\ Repos \in Nat /\ 1 \in 1..Steps /\ 1 \in 1..Repos /\ 0 \in 0..Repos
           /\ engine.step \in 1..Steps /\ engine.repo \in 1..Repos /\ Here \in Position
           /\ engine.undo \in (0..Steps) \X (0..Repos)
  BY WorkflowConstants DEF WorkflowInv, EngineRecord, Here, Position

\* No run, at first.
LEMMA WorkflowStarts == WorkflowInit => WorkflowInv
<1> SUFFICES ASSUME WorkflowInit PROVE WorkflowInv
  OBVIOUS
<1>1. Steps \in Nat /\ Repos \in Nat /\ 1 \in 1..Steps /\ 1 \in 1..Repos
  BY WorkflowConstants
<1>2. engine \in EngineRecord /\ engine.awaits = "nothing"
  <2>1. PICK policy \in OnFailure :
            engine = [step |-> 1, repo |-> 1, awaits |-> "nothing", policy |-> policy, undo |-> <<0, 0>>]
    BY DEF WorkflowInit
  <2>2. <<0, 0>> \in (0..Steps) \X (0..Repos)
    BY <1>1
  <2> QED BY <1>1, <2>1, <2>2 DEF EngineRecord, Awaiting
<1>3. control \in ControlRecord /\ appends \in Seq(EventRecord)
  BY DEF WorkflowInit, ControlRecord
<1>4. run \in [status: RunStatuses, steps: [Position -> {"none", "running", "completed", "failed"}]]
  BY DEF WorkflowInit, RunStatuses
<1> QED BY <1>2, <1>3, <1>4 DEF WorkflowInv

\* Where a run goes on from a chain of appends: the engine, the control and the appends fit again.
GoesOn ==
    /\ engine' \in EngineRecord /\ control' \in ControlRecord /\ appends' \in Seq(EventRecord)
    /\ engine'.awaits = "rollback" => engine'.undo[1] > 0

\* The parts of the engine's code that end a stretch of it.
LEMMA Finishes ==
    ASSUME WorkflowInv, NEW chain \in Seq(EventRecord),
           NEW event \in {"completed", "failed"}, Finish(event, event, chain)
    PROVE  GoesOn
<1>1. [event |-> event, at |-> Here, by |-> "engine"] \in EventRecord
  BY StepsAndRepos DEF EventRecord, EventNames
<1>2. engine' \in EngineRecord /\ engine'.awaits # "rollback"
  BY DEF Finish, WorkflowInv, EngineRecord, Awaiting
<1>3. appends' \in Seq(EventRecord) /\ control' \in ControlRecord
  BY <1>1 DEF Finish, WorkflowInv
<1> QED BY <1>2, <1>3 DEF GoesOn

\* And one that leaves the run.
LEMMA Leaves ==
    ASSUME WorkflowInv, NEW chain \in Seq(EventRecord), LeaveRun(chain)
    PROVE  GoesOn
  BY DEF LeaveRun, WorkflowInv, GoesOn, EngineRecord, ControlRecord, Awaiting

\* The head of the loops.
LEMMA Enters ==
    ASSUME WorkflowInv, NEW chain \in Seq(EventRecord), NEW s \in 1..Steps, NEW r \in 1..Repos,
           EnterPosition(<<s, r>>, chain)
    PROVE  GoesOn
<1>1. CASE control.aborted
  BY <1>1, Leaves DEF EnterPosition
<1>2. CASE ~control.aborted
  <2>1. [event |-> "step_started", at |-> <<s, r>>, by |-> "engine"] \in EventRecord
    BY DEF EventRecord, EventNames, Position
  <2>2. engine' = [engine EXCEPT !.step = s, !.repo = r, !.awaits = "step_started"]
    BY <1>2 DEF EnterPosition
  <2>3. engine' \in EngineRecord /\ engine'.awaits # "rollback"
    BY <2>2 DEF WorkflowInv, EngineRecord, Awaiting
  <2>4. appends' \in Seq(EventRecord) /\ control' \in ControlRecord
    BY SMTT(30), <1>2, <2>1 DEF EnterPosition, WorkflowInv
  <2> QED BY <2>3, <2>4 DEF GoesOn
<1> QED BY <1>1, <1>2

\* The loops go on, or end.
LEMMA GoesToNext ==
    ASSUME WorkflowInv, NEW chain \in Seq(EventRecord), NextPosition(chain)
    PROVE  GoesOn
<1>1. CASE engine.repo < Repos
  <2>1. engine.repo + 1 \in 1..Repos
    BY <1>1, StepsAndRepos
  <2> QED BY <1>1, <2>1, StepsAndRepos, Enters DEF NextPosition
<1>2. CASE ~(engine.repo < Repos) /\ engine.step < Steps
  <2>1. engine.step + 1 \in 1..Steps
    BY <1>2, StepsAndRepos
  <2> QED BY <1>2, <2>1, StepsAndRepos, Enters DEF NextPosition
<1>3. CASE ~(engine.repo < Repos) /\ ~(engine.step < Steps)
  BY <1>3, Leaves, Finishes DEF NextPosition, CompleteOr
<1> QED BY <1>1, <1>2, <1>3

\* A rollback begins at a step, or is done.
LEMMA RollsBack ==
    ASSUME WorkflowInv, NEW chain \in Seq(EventRecord), NEW s \in 0..Steps, RollbackFrom(s, chain)
    PROVE  GoesOn
<1>1. CASE s = 0
  BY <1>1, Finishes DEF RollbackFrom
<1>2. CASE s # 0
  <2>1. <<s, 1>> \in (0..Steps) \X (0..Repos) /\ <<s, 1>>[1] > 0
    BY <1>2, StepsAndRepos
  <2>2. engine' = [engine EXCEPT !.awaits = "rollback", !.undo = <<s, 1>>]
    BY <1>2 DEF RollbackFrom
  <2>3. engine' \in EngineRecord /\ engine'.undo = <<s, 1>>
    BY <2>1, <2>2 DEF WorkflowInv, EngineRecord, Awaiting
  <2>4. appends' \in Seq(EventRecord) /\ control' \in ControlRecord
    BY <1>2 DEF RollbackFrom, WorkflowInv
  <2> QED BY <2>1, <2>3, <2>4 DEF GoesOn
<1> QED BY <1>1, <1>2

\* A step that failed is followed by what the run's policy says.
LEMMA Fails ==
    ASSUME WorkflowInv, NEW chain \in Seq(EventRecord), AfterFailure(chain)
    PROVE  GoesOn
<1>1. engine.policy \in {"stop", "rollback", "continue"} /\ engine.step - 1 \in 0..Steps
  <2>1. engine.policy \in OnFailure
    BY DEF WorkflowInv, EngineRecord
  <2>2. engine.step - 1 \in 0..Steps
    BY StepsAndRepos
  <2> QED BY <2>1, <2>2, WorkflowConstants
<1>2. CASE engine.policy = "stop"
  BY <1>2, Finishes DEF AfterFailure
<1>3. CASE engine.policy = "rollback"
  BY <1>1, <1>3, RollsBack DEF AfterFailure
<1>4. CASE engine.policy = "continue"
  BY <1>4, GoesToNext DEF AfterFailure
<1> QED BY <1>1, <1>2, <1>3, <1>4

\* An event is stored and its emitter goes on.
LEMMA AppliedKeeps == WorkflowInv /\ EventApplied => WorkflowInv'
<1> SUFFICES ASSUME WorkflowInv, EventApplied PROVE WorkflowInv'
  OBVIOUS
<1> DEFINE e == Head(appends)  chain == Tail(appends)
<1>1. e \in EventRecord /\ chain \in Seq(EventRecord)
  BY DEF EventApplied, WorkflowInv
<1>2. run' \in [status: RunStatuses, steps: [Position -> {"none", "running", "completed", "failed"}]]
  <2>1. run' = Recorded(e) /\ e.at \in Position
        /\ e.event \in {"started", "step_started", "step_completed", "step_failed", "completed", "failed", "cancelled"}
    BY <1>1 DEF EventApplied, EventRecord, EventNames
  <2> HIDE DEF e
  <2> QED BY <2>1 DEF Recorded, RunStatuses, WorkflowInv
<1>3. GoesOn
  <2>1. CASE e.by = "cancel"
    <3>1. e.event = "cancelled"
      BY <1>1, <2>1 DEF EventRecord
    <3>2. appends' = chain /\ UNCHANGED <<engine, control>>
      BY <2>1, <3>1 DEF EventApplied
    <3> QED BY <1>1, <3>2 DEF GoesOn, WorkflowInv
  <2>2. CASE e.by # "cancel" /\ e.event = "started"
    <3>1. EnterPosition(<<1, 1>>, chain)
      BY <2>2 DEF EventApplied
    <3> QED BY <1>1, <3>1, StepsAndRepos, Enters
  <2>3. CASE e.by # "cancel" /\ e.event = "step_started"
    <3>1. /\ engine' = [engine EXCEPT !.awaits = "dispatch"] /\ appends' = chain /\ UNCHANGED control
      BY <2>3 DEF EventApplied
    <3> QED BY <1>1, <3>1 DEF GoesOn, WorkflowInv, EngineRecord, Awaiting
  <2>4. CASE e.by # "cancel" /\ e.event = "step_completed"
    <3>1. NextPosition(chain)
      BY <2>4 DEF EventApplied
    <3> QED BY <1>1, <3>1, GoesToNext
  <2>5. CASE e.by # "cancel" /\ e.event = "step_failed"
    <3>1. AfterFailure(chain)
      BY <2>5 DEF EventApplied
    <3> QED BY <1>1, <3>1, Fails
  <2>6. CASE e.by # "cancel" /\ e.event \notin {"started", "step_started", "step_completed", "step_failed"}
    <3>1. LeaveRun(chain)
      BY <2>6 DEF EventApplied
    <3> QED BY <1>1, <3>1, Leaves
  <2> QED BY <2>1, <2>2, <2>3, <2>4, <2>5, <2>6
<1> QED BY <1>2, <1>3 DEF WorkflowInv, GoesOn

\* The other steps of a run.
LEMMA WorkflowKeeps == WorkflowInv /\ [WorkflowStep]_workflowVars => WorkflowInv'
<1> SUFFICES ASSUME WorkflowInv, [WorkflowStep]_workflowVars PROVE WorkflowInv'
  OBVIOUS
<1>1. ASSUME NEW event \in {"started", "step_completed", "step_failed", "cancelled"}, NEW by \in {"engine", "cancel"},
             by = "cancel" <=> event = "cancelled", Emit(event, Here, by)
      PROVE  appends' \in Seq(EventRecord)
  BY <1>1, StepsAndRepos DEF EventRecord, EventNames, Emit, WorkflowInv
<1>2. CASE StartRun
  BY <1>1, <1>2 DEF StartRun, WorkflowInv, EngineRecord, ControlRecord, Awaiting
<1>3. CASE EventApplied
  BY <1>3, AppliedKeeps
<1>4. CASE StepUndone
  <2>1. engine.undo \in (0..Steps) \X (0..Repos) /\ engine.undo[1] > 0
    BY <1>4 DEF StepUndone, WorkflowInv, EngineRecord
  <2>2. PICK s \in 0..Steps, r \in 0..Repos : engine.undo = <<s, r>>
    BY <2>1
  <2>3. s - 1 \in 0..Steps /\ engine.undo[1] - 1 = s - 1 /\ engine.undo[2] = r
    BY <2>1, <2>2, StepsAndRepos
  <2>4. CASE r < Repos
    <3>1. engine' = [engine EXCEPT !.undo[2] = r + 1] /\ UNCHANGED <<run, control, appends>>
      BY <1>4, <2>3, <2>4 DEF StepUndone
    <3>2. [engine.undo EXCEPT ![2] = r + 1] = <<s, r + 1>>
      BY <2>2
    <3>3. engine' = [engine EXCEPT !.undo = <<s, r + 1>>]
      BY <3>1, <3>2
    <3>4. <<s, r + 1>> \in (0..Steps) \X (0..Repos) /\ <<s, r + 1>>[1] = s /\ s > 0
      BY <2>1, <2>2, <2>4, StepsAndRepos
    <3>5. engine' \in EngineRecord /\ engine'.undo = <<s, r + 1>>
      BY <3>3, <3>4 DEF WorkflowInv, EngineRecord
    <3> QED BY <3>1, <3>4, <3>5 DEF WorkflowInv
  <2>5. CASE ~(r < Repos)
    BY <1>4, <2>3, <2>5, RollsBack DEF StepUndone, WorkflowInv, GoesOn
  <2> QED BY <2>4, <2>5
<1>5. CASE CancelRun
  BY <1>1, <1>5 DEF CancelRun, WorkflowInv, ControlRecord
<1>6. CASE EngineLost
  <2>1. engine' \in EngineRecord /\ engine'.awaits # "rollback" /\ control' \in ControlRecord
    BY <1>6 DEF EngineLost, WorkflowInv, EngineRecord, ControlRecord, Awaiting
  <2>2. appends' \in Seq(EventRecord) /\ run' = run
    BY <1>6 DEF EngineLost
  <2> QED BY <2>1, <2>2 DEF WorkflowInv
<1>7. ASSUME NEW ok \in BOOLEAN, StepDispatched(ok) PROVE WorkflowInv'
  BY <1>1, <1>7 DEF StepDispatched, WorkflowInv, EngineRecord, Awaiting
<1>8. CASE UNCHANGED workflowVars
  BY <1>8 DEF workflowVars, WorkflowInv
<1> QED BY <1>2, <1>3, <1>4, <1>5, <1>6, <1>7, <1>8 DEF WorkflowStep

\* These are its types.
LEMMA WorkflowTyped == WorkflowInv => WorkflowTypeOK
BY DEF WorkflowInv, WorkflowTypeOK, EngineRecord, ControlRecord, EventRecord, EventNames

\* An aborted run begins no step any more (workflow-engine.ts): each of the two loops and the
\* end of a rollback look at the abort, or are past the last step that they begin.
THEOREM AbortsAreSeen == WorkflowSpec => AbortIsSeen
<1>1. WorkflowInv /\ [WorkflowStep]_workflowVars => [control.aborted => Here' = Here]_workflowVars
  <2> SUFFICES ASSUME WorkflowInv, WorkflowStep, control.aborted PROVE Here' = Here
    BY DEF workflowVars
  <2>1. engine \in EngineRecord
    BY DEF WorkflowInv
  <2>2. ASSUME NEW chain, LeaveRun(chain) PROVE Here' = Here
    BY <2>1, <2>2 DEF LeaveRun, Here, EngineRecord
  <2>3. ASSUME NEW chain, NEW event, Finish(event, event, chain) PROVE Here' = Here
    BY <2>1, <2>3 DEF Finish, Here, EngineRecord
  <2>4. ASSUME NEW chain, NEW p, EnterPosition(p, chain) PROVE Here' = Here
    BY <2>2, <2>4 DEF EnterPosition
  <2>5. ASSUME NEW chain, NextPosition(chain) PROVE Here' = Here
    BY <2>2, <2>4, <2>5 DEF NextPosition, CompleteOr
  <2>6. ASSUME NEW chain, NEW s, RollbackFrom(s, chain) PROVE Here' = Here
    BY <2>1, <2>3, <2>6 DEF RollbackFrom, Here, EngineRecord
  <2>7. CASE EventApplied
    <3> DEFINE e == Head(appends)  chain == Tail(appends)
    <3>1. CASE e.by = "cancel"
      BY <2>7, <3>1 DEF EventApplied, WorkflowInv, EventRecord, Here
    <3>2. CASE e.by # "cancel" /\ e.event \in {"started", "step_completed"}
      BY <2>7, <3>2, <2>4, <2>5 DEF EventApplied
    <3>3. CASE e.by # "cancel" /\ e.event = "step_started"
      BY <2>1, <2>7, <3>3 DEF EventApplied, Here, EngineRecord
    <3>4. CASE e.by # "cancel" /\ e.event = "step_failed"
      BY <2>1, <2>7, <3>4, WorkflowConstants, <2>3, <2>5, <2>6 DEF EventApplied, EngineRecord, AfterFailure
    <3>5. CASE e.by # "cancel" /\ e.event \notin {"started", "step_started", "step_completed", "step_failed"}
      BY <2>7, <3>5, <2>2 DEF EventApplied
    <3> QED BY <3>1, <3>2, <3>3, <3>4, <3>5
  <2>8. CASE StepUndone
    BY <2>1, <2>8, <2>6 DEF StepUndone, Here, EngineRecord
  <2>9. CASE StartRun \/ CancelRun \/ EngineLost \/ \E ok \in BOOLEAN : StepDispatched(ok)
    BY <2>1, <2>9 DEF StartRun, CancelRun, EngineLost, StepDispatched, Here, EngineRecord
  <2> QED BY <2>7, <2>8, <2>9 DEF WorkflowStep
<1> QED BY WorkflowStarts, WorkflowKeeps, <1>1, PTL DEF WorkflowSpec, AbortIsSeen

-----------------------------------------------------------------------------
(* The types of the other parts *)

\* What is registered are runners, and what the hub watches is one, or none.
RunnersKnown ==
    /\ runners \in [Runners -> {"none", "gone"} \union Alive]
    /\ registry \in Seq(Runners) /\ pids \subseteq Runners /\ beats \subseteq Runners
    /\ linked \in [mode: {"spawn", "discover"}, runner: Runners \union {0}, fresh: BOOLEAN,
                     phase: {"idle", "registering", "awaiting", "ready", "failed", "disposing", "disposed"},
                     attempts: 0..MaxAttempts]

\* None at first.
LEMMA RunnersStart == RegistryInit => RunnersKnown
<1> SUFFICES ASSUME RegistryInit PROVE RunnersKnown
  OBVIOUS
<1>1. 0 \in 0..MaxAttempts
  BY RegistryConstants
<1>2. PICK mode \in {"spawn", "discover"} :
          linked = [mode |-> mode, phase |-> "idle", runner |-> 0, fresh |-> FALSE, attempts |-> 0]
  BY DEF RegistryInit
<1> QED BY <1>1, <1>2 DEF RegistryInit, RunnersKnown

\* The hub discovers one that is registered.
LEMMA RunnersStay == RunnersKnown /\ [RegistryStep]_registryVars => RunnersKnown'
<1> SUFFICES ASSUME RunnersKnown, [RegistryStep]_registryVars PROVE RunnersKnown'
  OBVIOUS
<1>1. ASSUME NEW r \in Runners, RunnerStarted(r) \/ Subscribes(r) \/ Beats(r) PROVE RunnersKnown'
  BY <1>1 DEF RunnerStarted, Subscribes, Beats, RunnersKnown, Alive
<1>2. ASSUME NEW r \in Runners, NEW yes \in BOOLEAN, Registers(r, yes) \/ RunnerDies(r, yes) PROVE RunnersKnown'
  BY <1>2 DEF RunnersKnown, Registers, RunnerDies, Alive
<1>3. ASSUME NEW r \in Runners, RunnerSpawned(r) \/ HeartbeatArrives(r) PROVE RunnersKnown'
  BY <1>3 DEF RunnerSpawned, Watch, HeartbeatArrives, RunnersKnown, Alive
<1>4. CASE RunnerDiscovered
  BY <1>4 DEF RunnerDiscovered, RunnersKnown, Watch
<1>5. CASE RegistrationSeen \/ RunnerReady \/ RunnerGone
  BY <1>5 DEF RegistrationSeen, RunnerReady, RunnerGone, RunnersKnown
<1>6. CASE WaitTimesOut
  <2>1. linked.attempts < MaxAttempts => linked.attempts + 1 \in 0..MaxAttempts
    BY RegistryConstants DEF RunnersKnown
  <2> QED BY <1>6, <2>1 DEF WaitTimesOut, RunnersKnown
<1>7. CASE Disposes
  <2>1. beats' = {} /\ UNCHANGED <<registry, pids>>
    BY <1>7 DEF Disposes
  <2>2. CASE linked.mode = "discover"
    BY <1>7, <2>1, <2>2 DEF Disposes, RunnersKnown
  <2>3. CASE linked.mode # "discover"
    BY <1>7, <2>3, <2>1 DEF Disposes, RunnersKnown, Alive
  <2> QED BY <2>2, <2>3
<1>8. CASE UNCHANGED registryVars
  BY <1>8 DEF registryVars, RunnersKnown
<1> QED BY <1>1, <1>2, <1>3, <1>4, <1>5, <1>6, <1>7, <1>8 DEF RegistryStep

\* These are the registry's types.
LEMMA RunnersTyped == RunnersKnown => RegistryTypeOK
BY DEF ToSet, RunnersKnown, RegistryTypeOK

\* The calls that wait for agents, which the hierarchy has nothing to do with.
WaitsTyped == waiters \in [Agents -> Waits \cup {NoWait}] /\ waits \in [Waits -> WaitRecord]

\* None waits at first.
LEMMA WaitsStart == OrchestratorInit => WaitsTyped
  BY DEF OrchestratorInit, WaitsTyped, WaitRecord

\* A waiter is registered, settled, replaced or forgotten.
LEMMA WaitsStay == WaitsTyped /\ [OrchestratorStep]_orchestratorVars => WaitsTyped'
<1> SUFFICES ASSUME WaitsTyped, [OrchestratorStep]_orchestratorVars PROVE WaitsTyped'
  OBVIOUS
<1>1. CASE UNCHANGED <<waiters, waits>>
  BY <1>1 DEF WaitsTyped
<1>2. ASSUME NEW a \in Agents, ResultAppended(a) PROVE WaitsTyped'
  BY <1>2 DEF ResultAppended, WaitsTyped, WaitRecord
<1>3. ASSUME NEW c \in AllChats, NEW a \in Agents, NEW w \in Waits, WaitForResult(c, a, w) PROVE WaitsTyped'
  BY <1>3 DEF WaitForResult, RegisterWaiter, WaitsTyped, WaitRecord
<1>4. ASSUME NEW w \in Waits, WaitTimedOut(w) PROVE WaitsTyped'
  BY <1>4 DEF WaitTimedOut, WaitsTyped, WaitRecord
<1>5. ASSUME NEW a \in Agents, Forget(a) PROVE WaitsTyped'
  BY <1>5 DEF Forget, WaitsTyped, WaitRecord
<1>6. ASSUME NEW c \in AllChats, NEW a \in Agents, CloseAgent(c, a) \/ PruneTombstone(a) \/ CascadeCleaned(a)
      PROVE  WaitsTyped'
  BY <1>5, <1>6 DEF CloseAgent, PruneTombstone, CascadeCleaned
<1>7. ASSUME NEW c \in AllChats, NEW a \in Agents, NEW ok \in BOOLEAN,
             \/ SpawnChecked(c, a) \/ SpawnRegistered(a) \/ SpawnRecorded(a) \/ SpawnStarted(a, ok) \/ TurnObserved(a)
      PROVE  UNCHANGED <<waiters, waits>>
  BY <1>7 DEF SpawnChecked, SpawnRegistered, SpawnRecorded, SpawnStarted, TurnObserved
<1>8. CASE UNCHANGED orchestratorVars
  BY <1>1, <1>8 DEF orchestratorVars
<1> QED BY <1>1, <1>2, <1>3, <1>4, <1>6, <1>7, <1>8 DEF OrchestratorStep, AllChats

\* How many frames there are, and that the buffer keeps to its limit: the frame that wakes the
\* upstream is put into an empty one.
FramesBounded ==
    /\ browser.sent \in 0..MaxFrames /\ proxy.drops \in 0..browser.sent
    /\ proxy.buffer \in Seq(1..MaxFrames) /\ upstream.received \in Seq(1..MaxFrames)
    /\ Len(proxy.buffer) <= BufferLimit
    /\ proxy.awaitingHello => proxy.buffer = <<>>

\* None at first.
LEMMA FramesStart == WsProxyInit => FramesBounded
BY WsProxyConstants DEF WsProxyInit, NoUpstream, FramesBounded

\* A frame is held, or passed on.
LEMMA FramesSent == ProxyTyped /\ FramesBounded /\ FrameSent => FramesBounded'
<1> SUFFICES ASSUME ProxyTyped, FramesBounded, FrameSent PROVE FramesBounded'
  OBVIOUS
<1> DEFINE frame == browser.sent + 1
           longer == Append(proxy.buffer, frame)
<1>1. MaxFrames \in Nat /\ BufferLimit \in Nat /\ BufferLimit > 0
  BY WsProxyConstants
<1>2. frame \in 1..MaxFrames /\ browser' = [browser EXCEPT !.sent = frame] /\ browser'.sent = frame
  BY <1>1 DEF FrameSent, FramesBounded, ProxyTyped, BrowserRecord
<1>3. /\ proxy.buffer \in Seq(1..MaxFrames) /\ Len(proxy.buffer) \in Nat /\ Len(proxy.buffer) <= BufferLimit
      /\ proxy.drops \in 0..browser.sent /\ browser.sent \in Nat
  BY <1>1 DEF FramesBounded
<1>4. longer \in Seq(1..MaxFrames) /\ Len(longer) = Len(proxy.buffer) + 1 /\ longer # <<>>
  BY <1>2, <1>3
<1>5. Tail(longer) \in Seq(1..MaxFrames) /\ Len(Tail(longer)) = Len(proxy.buffer)
  BY <1>3, <1>4
<1>6. proxy.drops \in 0..frame /\ proxy.drops + 1 \in 0..frame
  BY <1>3
<1>7. CASE proxy.awaitingHello
  <2>1. /\ proxy' = [proxy EXCEPT !.awaitingHello = FALSE, !.buffer = longer]
        /\ upstream' = [upstream EXCEPT !.socket = "connecting"]
    BY <1>7 DEF FrameSent
  <2>2. Len(longer) <= BufferLimit
    BY <1>1, <1>4, <1>7 DEF FramesBounded
  <2> HIDE DEF longer, frame
  <2>3. /\ proxy'.drops = proxy.drops /\ proxy'.buffer = longer /\ ~proxy'.awaitingHello
        /\ upstream'.received = upstream.received
    BY <2>1 DEF ProxyTyped, ProxyRecord, UpstreamRecord
  <2>4. frame \in 0..MaxFrames
    BY <1>2
  <2> QED BY <1>2, <1>4, <1>6, <2>2, <2>3, <2>4 DEF FramesBounded
<1>8. CASE ~proxy.awaitingHello /\ Passes
  <2>1. upstream' = [upstream EXCEPT !.received = Append(@, frame)] /\ proxy' = proxy
    BY <1>8 DEF FrameSent
  <2>2. Append(upstream.received, frame) \in Seq(1..MaxFrames)
    BY <1>2 DEF FramesBounded
  <2> HIDE DEF longer, frame
  <2>3. upstream'.received \in Seq(1..MaxFrames)
    BY <2>1, <2>2 DEF ProxyTyped, UpstreamRecord
  <2>4. frame \in 0..MaxFrames
    BY <1>2
  <2> QED BY <1>2, <1>6, <1>8, <2>1, <2>3, <2>4 DEF FramesBounded
<1>9. CASE ~proxy.awaitingHello /\ ~Passes
  <2>1. /\ upstream' = upstream
        /\ proxy' = IF Len(longer) > BufferLimit THEN [proxy EXCEPT !.buffer = Tail(longer), !.drops = @ + 1]
                    ELSE [proxy EXCEPT !.buffer = longer]
    BY <1>9 DEF FrameSent, Buffered
  <2> HIDE DEF longer, frame
  <2>2. frame \in 0..MaxFrames
    BY <1>2
  <2>3. CASE Len(longer) > BufferLimit
    BY <1>9, <2>1, <2>3, <1>2, <1>3, <1>5, <1>6, <2>2 DEF ProxyTyped, ProxyRecord, FramesBounded
  <2>4. CASE ~(Len(longer) > BufferLimit)
    BY <1>9, <2>1, <2>4, <1>1, <1>3, <1>4, <1>2, <1>6, <2>2 DEF ProxyTyped, ProxyRecord, FramesBounded
  <2> QED BY <2>3, <2>4
<1> QED BY <1>7, <1>8, <1>9

\* The other steps pass what is held, or drop it.
LEMMA FramesStay == ProxyTyped /\ FramesBounded /\ [WsProxyStep]_wsProxyVars => FramesBounded'
<1> SUFFICES ASSUME ProxyTyped, FramesBounded, [WsProxyStep]_wsProxyVars PROVE FramesBounded'
  OBVIOUS
<1>1. <<>> \in Seq(1..MaxFrames) /\ Len(<<>>) = 0 /\ BufferLimit >= 0
  BY WsProxyConstants
<1>2. ASSUME browser'.sent = browser.sent, proxy'.drops = proxy.drops,
             proxy'.buffer = proxy.buffer \/ proxy'.buffer = <<>>,
             proxy'.awaitingHello => proxy.awaitingHello,
             upstream'.received \in Seq(1..MaxFrames)
      PROVE  FramesBounded'
  BY <1>1, <1>2 DEF FramesBounded
<1>3. CASE FrameSent
  BY <1>3, FramesSent
<1>4. CASE UpstreamAccepts
  BY <1>4 DEF UpstreamAccepts, ProxyTyped, UpstreamRecord, FramesBounded
<1>5. CASE UpstreamOpens
  <2>1. upstream.received \o proxy.buffer \in Seq(1..MaxFrames) /\ upstream.received \in Seq(1..MaxFrames)
    BY DEF FramesBounded
  <2>2. upstream'.received \in Seq(1..MaxFrames)
    BY <1>5, <2>1 DEF UpstreamOpens, ProxyTyped, UpstreamRecord
  <2>3. /\ proxy'.drops = proxy.drops /\ (proxy'.buffer = proxy.buffer \/ proxy'.buffer = <<>>)
        /\ proxy'.awaitingHello = proxy.awaitingHello /\ browser' = browser
    BY <1>5 DEF UpstreamOpens, ProxyTyped, ProxyRecord
  <2> QED BY <1>2, <2>2, <2>3
<1>6. CASE UpstreamSends \/ UpstreamCloses \/ BrowserCloses
  BY <1>6, <1>2 DEF UpstreamSends, UpstreamCloses, BrowserCloses, ProxyTyped, UpstreamRecord, FramesBounded,
     BrowserRecord, ProxyRecord
<1>7. CASE UNCHANGED wsProxyVars
  BY <1>7 DEF wsProxyVars, FramesBounded
<1> QED BY <1>3, <1>4, <1>5, <1>6, <1>7 DEF WsProxyStep

\* These are the proxy's types.
LEMMA FramesTyped == ProxyTyped /\ FramesBounded => WsProxyTypeOK
BY WsProxyConstants DEF FramesBounded, ProxyTyped, WsProxyTypeOK, BrowserRecord, ProxyRecord, UpstreamRecord

\* Releases are those that were published.
ReleasesBounded ==
    /\ published \in 1..MaxRelease /\ installs \in Seq(1..MaxRelease) /\ process.release \in 1..MaxRelease
    /\ manager.current \in 1..MaxRelease /\ manager.latest \in 0..MaxRelease

\* One is at first.
LEMMA ReleasesStart == SelfUpdateInit => ReleasesBounded
BY SelfUpdateConstants DEF SelfUpdateInit, NewManager, ReleasesBounded

\* What is installed is a release the manager knows of.
LEMMA ReleaseInstalled ==
    ASSUME UpdateInv, ReleasesBounded, NEW m \in ManagerRecord, NEW ok \in BOOLEAN,
           m.current \in 1..MaxRelease, m.latest \in 0..MaxRelease, m.current < m.latest,
           Install(m, ok), UNCHANGED published
    PROVE  ReleasesBounded'
<1>1. CASE ok
  <2>1. m.latest \in 1..MaxRelease
    BY SelfUpdateConstants
  <2>2. /\ installs' = Append(installs, m.latest) /\ process' = Notified
        /\ manager' = [m EXCEPT !.current = m.latest, !.status = "restart_pending", !.available = FALSE]
    BY <1>1 DEF Install
  <2>3. installs' \in Seq(1..MaxRelease)
    BY <2>1, <2>2 DEF ReleasesBounded
  <2>4. manager'.current = m.latest /\ manager'.latest = m.latest
    BY <2>2 DEF ManagerRecord
  <2>5. process'.release = process.release
    BY <2>2 DEF Notified, UpdateInv, UpdateTyped, ProcessRecord
  <2> QED BY <2>1, <2>3, <2>4, <2>5 DEF ReleasesBounded
<1>2. CASE ~ok
  BY <1>2 DEF Install, ManagerRecord, ReleasesBounded
<1> QED BY <1>1, <1>2

\* The steps of the process and of the manager.
LEMMA ReleasesStay == UpdateInv /\ ReleasesBounded /\ [SelfUpdateStep]_selfUpdateVars => ReleasesBounded'
<1> SUFFICES ASSUME UpdateInv, ReleasesBounded, [SelfUpdateStep]_selfUpdateVars PROVE ReleasesBounded'
  OBVIOUS
<1> USE DEF UpdateInv, UpdateTyped
<1>1. MaxRelease \in Nat /\ OnDisk \in 1..MaxRelease
  BY SelfUpdateConstants DEF ReleasesBounded, OnDisk
<1>2. /\ manager \in ManagerRecord /\ process \in ProcessRecord
      /\ manager.current \in 1..MaxRelease /\ manager.latest \in 0..MaxRelease
  BY DEF ReleasesBounded
<1>3. Serving /\ manager.available => manager.current < manager.latest
  BY DEF KnowsTheDisk
<1>4. CASE ReleasePublished
  BY <1>1, <1>4 DEF ReleasePublished, ReleasesBounded
<1>5. CASE StartupUpdate
  BY <1>5 DEF ReleasesBounded, StartupUpdate, ProcessRecord
<1>6. CASE StartupServes
  BY <1>6, <1>1 DEF StartupServes, ProcessRecord, NewManager, ReleasesBounded
<1>7. CASE Interrupted \/ Stopped \/ \E ok \in BOOLEAN : TunnelOpens(ok)
  BY <1>7 DEF Interrupted, Stopped, TunnelOpens, ProcessRecord, ReleasesBounded
<1>8. CASE Supervised
  BY <1>8, <1>1 DEF Supervised, ProcessRecord, ReleasesBounded
<1>9. CASE CheckAges \/ \E force \in BOOLEAN : CheckForUpdates(force)
  BY <1>9 DEF CheckAges, CheckForUpdates, ManagerRecord, ReleasesBounded
<1>10. ASSUME NEW ok \in BOOLEAN, InstallUpdate(ok) PROVE ReleasesBounded'
  BY <1>2, <1>3, <1>10, ReleaseInstalled DEF InstallUpdate, ManagerRecord, ReleasesBounded
<1>11. ASSUME NEW ok \in BOOLEAN, NEW v \in 1..MaxRelease, CheckAnswered(v, ok) PROVE ReleasesBounded'
  <2> DEFINE m == [Checked(manager, v) EXCEPT !.checking = FALSE, !.installing = FALSE]
  <2>1. v \in Nat /\ v \in 0..MaxRelease /\ manager.current \in Nat /\ (manager.current < v) \in BOOLEAN
    BY <1>1, <1>2
  <2>2. /\ m \in ManagerRecord /\ m.current = manager.current /\ m.latest = v
        /\ m.available => manager.current < v
    <3>1. CASE manager.current < v
      <4>1. m = [manager EXCEPT !.latest = v, !.available = TRUE, !.recent = TRUE,
                                !.status = "available", !.checking = FALSE, !.installing = FALSE]
        BY <3>1, Zenon DEF Checked
      <4> QED BY <1>2, <2>1, <3>1, <4>1 DEF ManagerRecord
    <3>2. CASE ~(manager.current < v)
      <4>1. (manager.current < v) = FALSE
        BY <2>1, <3>2
      <4>2. m = [manager EXCEPT !.latest = v, !.available = FALSE, !.recent = TRUE,
                                !.status = "up_to_date", !.checking = FALSE, !.installing = FALSE]
        BY <3>2, <4>1, Zenon DEF Checked
      <4> QED BY <1>2, <2>1, <4>2 DEF ManagerRecord
    <3> QED BY <3>1, <3>2
  <2>3. /\ published' = published
        /\ IF manager.installing /\ m.available THEN Install(m, ok)
           ELSE manager' = m /\ UNCHANGED <<installs, process>>
    BY <1>11 DEF CheckAnswered
  <2> HIDE DEF m
  <2>4. CASE manager.installing /\ m.available
    BY <1>2, <2>1, <2>2, <2>3, <2>4, ReleaseInstalled
  <2>5. CASE ~(manager.installing /\ m.available)
    BY <1>2, <2>1, <2>2, <2>3, <2>5 DEF ReleasesBounded
  <2> QED BY <2>4, <2>5
<1>12. ASSUME NEW ok \in BOOLEAN, CheckFails(ok) PROVE ReleasesBounded'
  <2> DEFINE m == [manager EXCEPT !.status = "error", !.recent = TRUE,
                                  !.checking = FALSE, !.installing = FALSE]
  <2>1. /\ m \in ManagerRecord /\ m.current = manager.current
        /\ m.available = manager.available /\ m.latest = manager.latest
    BY <1>2 DEF ManagerRecord
  <2>2. /\ Serving /\ published' = published
        /\ IF manager.installing /\ m.available THEN Install(m, ok)
           ELSE manager' = m /\ UNCHANGED <<installs, process>>
    BY <1>12 DEF CheckFails
  <2> HIDE DEF m
  <2>3. CASE manager.installing /\ m.available
    BY <1>2, <1>3, <2>1, <2>2, <2>3, ReleaseInstalled
  <2>4. CASE ~(manager.installing /\ m.available)
    BY <2>1, <2>2, <2>4 DEF ReleasesBounded
  <2> QED BY <2>3, <2>4
<1>13. CASE UNCHANGED selfUpdateVars
  BY <1>13 DEF selfUpdateVars, ReleasesBounded
<1> QED BY <1>4, <1>5, <1>6, <1>7, <1>8, <1>9, <1>10, <1>11, <1>12, <1>13 DEF SelfUpdateStep

\* The elements of a sequence over a set are in the set.
LEMMA ElementsInSet ==
    ASSUME NEW S, NEW q \in Seq(S)
    PROVE  \A i \in DOMAIN q : q[i] \in S
OBVIOUS

\* These are the types of the updates.
LEMMA ReleasesTyped == UpdateInv /\ ReleasesBounded => SelfUpdateTypeOK
BY ElementsInSet DEF ReleasesBounded, UpdateInv, UpdateTyped, SelfUpdateTypeOK, ProcessRecord, ManagerRecord

-----------------------------------------------------------------------------
(* The parts of the hub side by side *)

\* The invariants of the parts, of which one runs.
PartsInv ==
    /\ focus \in Parts
    /\ CodexInv /\ HierarchyInv /\ WaitsTyped /\ WorkflowInv /\ UpdateInv /\ ReleasesBounded
    /\ ProxyTyped /\ FramesBounded /\ OrderInv /\ LinkInv /\ RunnersKnown /\ TerminalInv /\ HubInv

\* They hold at first.
LEMMA PartsStart == PartsInit => PartsInv
<1> SUFFICES ASSUME PartsInit PROVE PartsInv
  OBVIOUS
<1>1. /\ focus \in Parts /\ CodexInit /\ OrchestratorInit /\ WorkflowInit /\ SelfUpdateInit /\ WsProxyInit
      /\ RegistryInit /\ TerminalInit /\ PipelineInit
  BY DEF PartsInit
<1> QED BY <1>1, CodexInvInit, HierarchyInit, WaitsStart, WorkflowStarts, UpdateInvInit, ReleasesStart, TypedInit,
           FramesStart, OrderInit, LinkInvInit, RunnersStart, TerminalInvInit, HubInit DEF PartsInv

\* While one part takes its steps each of the others takes none.
LEMMA PartsStay == PartsInv /\ [PartsNext]_partsVars => PartsInv'
<1> SUFFICES ASSUME PartsInv, [PartsNext]_partsVars PROVE PartsInv'
  OBVIOUS
<1>1. /\ [CodexNext]_codexVars /\ [OrchestratorStep]_orchestratorVars /\ [WorkflowStep]_workflowVars
      /\ [SelfUpdateStep]_selfUpdateVars /\ [WsProxyStep]_wsProxyVars /\ [RegistryStep]_registryVars
      /\ [TerminalStep]_terminalVars /\ [PipelineNext]_pipelineVars /\ UNCHANGED focus
  BY DEF PartsNext, OthersRest, partsVars
<1> QED BY <1>1, CodexInvStep, HierarchyKeeps, WaitsStay, WorkflowKeeps, UpdateKeeps, ReleasesStay, TypedStep,
           FramesStay, OrderStep, LinkKeeps, RunnersStay, TerminalKeeps, HubStepKeeps DEF PartsInv

\* Whatever part of the hub runs, its variables have the shape the code gives them: the sessions
\* of Codex, the agents, a run of a workflow, the updates, the proxy with its limit, the registry,
\* the terminals and the pipeline.
THEOREM PartsTyped == PartsSpec => []PartsTypeOK
<1>1. PartsInv => PartsTypeOK
  <2> SUFFICES ASSUME PartsInv PROVE PartsTypeOK
    OBVIOUS
  <2>1. CodexTypeOK /\ WorkflowTypeOK /\ SelfUpdateTypeOK /\ WsProxyTypeOK /\ RegistryTypeOK
    BY CodexGives, WorkflowTyped, ReleasesTyped, FramesTyped, RunnersTyped DEF PartsInv
  <2>2. OrchestratorTypeOK
    BY DEF PartsInv, HierarchyInv, HierarchyTyped, WaitsTyped, OrchestratorTypeOK
  <2>3. TerminalTypeOK /\ PipelineTypeOK
    BY DEF PartsInv, TerminalInv, HubInv
  <2>4. focus \in Parts
    BY DEF PartsInv
  <2> QED BY <2>1, <2>2, <2>3, <2>4 DEF PartsTypeOK, Parts
<1> QED BY PartsStart, PartsStay, <1>1, PTL DEF PartsSpec

\* Of the parts side by side: transcripts are their turns' own, listed agents are tracked, installs
\* move forward, the server hears frames in order, a ready runner listens and shells are owned.
THEOREM PartsAreSafe ==
    PartsSpec => [](/\ OwnTranscripts /\ ListedAgentsAreTracked /\ InstallsForward
                    /\ FramesInOrder /\ ReadyIsListening /\ ShellsAreOwned)
<1> DEFINE Safe == /\ OwnTranscripts /\ ListedAgentsAreTracked /\ InstallsForward
                   /\ FramesInOrder /\ ReadyIsListening /\ ShellsAreOwned
<1>1. PartsInv => Safe
  BY CodexGives, UpdateGives, OrderGives, LinkGives DEF PartsInv, HierarchyInv, TerminalInv
<1> QED BY PartsStart, PartsStay, <1>1, PTL DEF PartsSpec
=============================================================================
