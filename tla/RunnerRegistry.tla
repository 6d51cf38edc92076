--------------------------- MODULE RunnerRegistry ---------------------------
(***************************************************************************)
(* How the hub comes to its runner: RunnerManager (src/server/             *)
(* runner-manager.ts) spawns one or discovers one in the registry bucket,  *)
(* and the runner (src/runner/runner-nats.ts, runner.ts) registers,        *)
(* subscribes to its commands and beats.  Processes and the NATS server    *)
(* are external: a process may die, and its pid may be given to another.   *)
(***************************************************************************)
EXTENDS Naturals, Sequences, SequencesExt

CONSTANTS
    Runners,        \* runner processes, each with an id of its own
    MaxAttempts     \* bound on the candidates a discovery tries before its deadline

ASSUME RegistryConstants == Runners \subseteq Nat \ {0} /\ MaxAttempts \in Nat

VARIABLES
    runners,        \* per runner: its phase
    registry,       \* RUNNER_REGISTRY_BUCKET: registered ids, oldest first, never removed
    pids,           \* registered pids that a process has, the runner or another one
    beats,          \* heartbeats on their way to the hub
    linked          \* RunnerManager: mode, phase, runnerId, whether a heartbeat is fresh

registryVars == <<runners, registry, pids, beats, linked>>

RegistryInit ==
    /\ runners = [r \in Runners |-> "none"]
    /\ registry = <<>> /\ pids = {} /\ beats = {}
    /\ linked \in [mode: {"spawn", "discover"}, phase: {"idle"}, runner: {0},
                     fresh: {FALSE}, attempts: {0}]

Alive == {"up", "registered", "listening", "deaf"}

-----------------------------------------------------------------------------
(* The runner *)

\* An external runner is started (external); the spawned one is RunnerSpawned.
RunnerStarted(r) ==
    /\ linked.mode = "discover" /\ runners[r] = "none"
    /\ runners' = [runners EXCEPT ![r] = "up"]
    /\ UNCHANGED <<registry, pids, beats, linked>>

\* register(): the runner goes on even where the bucket could not be written.
Registers(r, ok) ==
    /\ runners[r] = "up"
    /\ runners' = [runners EXCEPT ![r] = "registered"]
    /\ IF ok THEN registry' = Append(registry, r) /\ pids' = pids \union {r}
             ELSE UNCHANGED <<registry, pids>>
    /\ UNCHANGED <<beats, linked>>

\* The commands are subscribed to and the flush has returned.
Subscribes(r) ==
    /\ runners[r] = "registered"
    /\ runners' = [runners EXCEPT ![r] = "listening"]
    /\ UNCHANGED <<registry, pids, beats, linked>>

\* publishHeartbeat: heard if the hub has subscribed to it by then.
Beats(r) ==
    /\ runners[r] = "listening" /\ linked.runner = r /\ linked.phase \notin {"disposing", "disposed"}
    /\ beats' = beats \union {r}
    /\ UNCHANGED <<runners, registry, pids, linked>>

\* A process dies, or has shut down; its pid may be another's at once.
RunnerDies(r, reused) ==
    /\ runners[r] \in Alive
    /\ runners' = [runners EXCEPT ![r] = "gone"]
    /\ pids' = IF reused THEN pids ELSE pids \ {r}
    /\ UNCHANGED <<registry, beats, linked>>

-----------------------------------------------------------------------------
(* The hub *)

\* subscribeToHeartbeat: what an earlier subscription still holds is dropped.
Watch(r, phase) ==
    /\ beats' = {}
    /\ linked' = [linked EXCEPT !.runner = r, !.phase = phase, !.fresh = FALSE]

\* ensureRunner in mode spawn.
RunnerSpawned(r) ==
    /\ linked.mode = "spawn" /\ linked.phase = "idle" /\ runners[r] = "none"
    /\ runners' = [runners EXCEPT ![r] = "up"]
    /\ Watch(r, "registering")
    /\ UNCHANGED <<registry, pids>>

\* Fault seeded in RegistrationSeen: a registered runner is taken to be ready.
RegistrationSeenReady ==
    /\ linked.phase = "registering" /\ linked.runner \in ToSet(registry)
    /\ linked' = [linked EXCEPT !.phase = "ready"]
    /\ UNCHANGED <<runners, registry, pids, beats>>

\* waitForRegistration is done, waitForHeartbeat begins.
RegistrationSeen ==
    /\ linked.phase = "registering" /\ linked.runner \in ToSet(registry)
    /\ linked' = [linked EXCEPT !.phase = "awaiting"]
    /\ UNCHANGED <<runners, registry, pids, beats>>

\* discoverExternalRunner: the first registered id whose pid some process has.
RunnerDiscovered ==
    /\ linked.mode = "discover" /\ linked.phase = "idle"
    /\ \E i \in DOMAIN registry :
          /\ registry[i] \in pids /\ \A k \in 1..(i - 1) : registry[k] \notin pids
          /\ Watch(registry[i], "awaiting")
    /\ UNCHANGED <<runners, registry, pids>>

\* consumeHeartbeats and recordHeartbeat.
HeartbeatArrives(r) ==
    /\ r \in beats /\ beats' = beats \ {r}
    /\ linked' = [linked EXCEPT !.fresh = TRUE]
    /\ UNCHANGED <<runners, registry, pids>>

\* waitForHeartbeat is done: ensureRunner returns the runner.
RunnerReady ==
    /\ linked.phase = "awaiting" /\ linked.fresh
    /\ linked' = [linked EXCEPT !.phase = "ready"]
    /\ UNCHANGED <<runners, registry, pids, beats>>

\* No heartbeat in time: the discovery looks again, from the first id, until its
\* deadline; the hub that spawned does not start and leaves the process.
WaitTimesOut ==
    /\ linked.phase \in {"registering", "awaiting"}
    /\ linked' = IF linked.mode = "discover" /\ linked.attempts < MaxAttempts
                   THEN [linked EXCEPT !.phase = "idle", !.attempts = @ + 1]
                   ELSE [linked EXCEPT !.phase = "failed"]
    /\ UNCHANGED <<runners, registry, pids, beats>>

\* dispose(): an external runner is left alone; a spawned one is told to shut down,
\* which unsubscribes it, and is then terminated.
Disposes ==
    /\ linked.phase = "ready"
    /\ IF linked.mode = "discover"
       THEN /\ linked' = [linked EXCEPT !.phase = "disposed", !.runner = 0, !.fresh = FALSE]
            /\ UNCHANGED runners
       ELSE /\ linked' = [linked EXCEPT !.phase = "disposing"]
            /\ runners' = [runners EXCEPT ![linked.runner] = IF @ = "listening" THEN "deaf" ELSE @]
    /\ beats' = {}
    /\ UNCHANGED <<registry, pids>>

\* proc.exited.
RunnerGone ==
    /\ linked.phase = "disposing" /\ runners[linked.runner] = "gone"
    /\ linked' = [linked EXCEPT !.phase = "disposed", !.runner = 0, !.fresh = FALSE]
    /\ UNCHANGED <<runners, registry, pids, beats>>

RegistryStep ==
    \/ \E r \in Runners :
          \/ RunnerStarted(r) \/ Subscribes(r) \/ Beats(r) \/ RunnerSpawned(r) \/ HeartbeatArrives(r)
          \/ \E yes \in BOOLEAN : Registers(r, yes) \/ RunnerDies(r, yes)
    \/ RegistrationSeen \/ RunnerDiscovered \/ RunnerReady \/ WaitTimesOut \/ Disposes \/ RunnerGone

RegistrySpec == RegistryInit /\ [][RegistryStep]_registryVars

-----------------------------------------------------------------------------
(* Properties *)

\* The bucket, the pids and the heartbeats are of runners that were started.
RegistryTypeOK ==
    /\ runners \in [Runners -> {"none", "gone"} \union Alive]
    /\ ToSet(registry) \union pids \union beats \subseteq Runners
    /\ linked \in [mode: {"spawn", "discover"}, runner: Runners \union {0}, fresh: BOOLEAN,
                     phase: {"idle", "registering", "awaiting", "ready", "failed", "disposing", "disposed"},
                     attempts: 0..MaxAttempts]

\* A runner the hub goes on to send turns to has been listening for them: neither the
\* registration, which comes before the subscriptions, nor the pid of a registration
\* left by a dead runner, nor a heartbeat meant for another attempt is taken for that.
ReadyIsListening ==
    linked.phase = "ready" => runners[linked.runner] \in {"listening", "gone"}
=============================================================================
