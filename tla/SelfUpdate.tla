----------------------------- MODULE SelfUpdate -----------------------------
(***************************************************************************)
(* The application replacing itself: UpdateManager (src/server/            *)
(* update-manager.ts) checks and installs on command of the tabs, the CLI  *)
(* (cli.ts, cli-runtime.ts) updates at start and exits with a code that    *)
(* asks for a restart, and cli-supervisor.ts starts it again.  The package *)
(* registry and the installer are external; either may fail.               *)
(***************************************************************************)
EXTENDS Naturals, Sequences

CONSTANT MaxRelease     \* releases are numbered; bound on the last one published

ASSUME SelfUpdateConstants == MaxRelease \in Nat \ {0}

VARIABLES
    published,      \* newest release of the package in the registry
    installs,       \* releases installed here, oldest first; the last is on disk
    process,        \* the child process: its phase, release, --share, exit code
    manager         \* UpdateManager.snapshot, checkPromise, installPromise

selfUpdateVars == <<published, installs, process, manager>>

OnDisk == installs[Len(installs)]

\* The CLI listens for restart_pending in "up"; in "tunnel" the server already
\* answers commands while the share tunnel opens, and nothing listens yet.
ProcessPhases == {"startup", "tunnel", "up", "stopping", "exited", "gone"}
Serving == process.phase \in {"tunnel", "up", "stopping"}

NewManager(release) ==
    [current |-> release, latest |-> 0, status |-> "idle", available |-> FALSE,
     recent |-> FALSE, checking |-> FALSE, installing |-> FALSE]

SelfUpdateInit ==
    /\ published = 1 /\ installs = <<1>>
    /\ process \in [phase: {"startup"}, release: {1}, share: BOOLEAN, code: {"none"}, deaf: {FALSE}]
    /\ manager = NewManager(1)

\* A release is published (external).
ReleasePublished ==
    /\ published < MaxRelease
    /\ published' = published + 1
    /\ UNCHANGED <<installs, process, manager>>

\* maybeSelfUpdate finds a newer release and installs it before anything is served.
StartupUpdate ==
    /\ process.phase = "startup" /\ process.release < published
    /\ installs' = Append(installs, published)
    /\ process' = [process EXCEPT !.phase = "exited", !.code = "startup_update"]
    /\ UNCHANGED <<published, manager>>

\* No update, a failed check or a failed install: the server starts.
StartupServes ==
    /\ process.phase = "startup"
    /\ process' = [process EXCEPT !.phase = IF process.share THEN "tunnel" ELSE "up"]
    /\ manager' = NewManager(process.release)
    /\ UNCHANGED <<published, installs>>

\* runCli returns; a tunnel that does not open stops the program.
TunnelOpens(ok) ==
    /\ process.phase = "tunnel"
    /\ process' = IF ok THEN [process EXCEPT !.phase = "up"]
                        ELSE [process EXCEPT !.phase = "stopping", !.code = "exit"]
    /\ UNCHANGED <<published, installs, manager>>

Settling == manager.status \in {"updating", "restart_pending"}

\* checkForUpdates: one check at a time, none for five minutes unless forced.
CheckForUpdates(force) ==
    /\ Serving /\ ~Settling /\ ~manager.checking
    /\ force \/ ~manager.recent
    /\ manager' = [manager EXCEPT !.status = "checking", !.checking = TRUE]
    /\ UNCHANGED <<published, installs, process>>

\* Fault seeded in Checked: the running release is compared, not the installed one.
CheckedAsStarted(m, v) ==
    [m EXCEPT !.latest = v, !.available = process.release < v, !.recent = TRUE,
              !.status = IF process.release < v THEN "available" ELSE "up_to_date"]

\* runCheck: the snapshot the answer v leads to.
Checked(m, v) ==
    [m EXCEPT !.latest = v, !.available = m.current < v, !.recent = TRUE,
              !.status = IF m.current < v THEN "available" ELSE "up_to_date"]

\* setSnapshot(restart_pending): the listener of cli.ts ends the process, once.
Notified ==
    CASE process.phase = "up"     -> [process EXCEPT !.phase = "stopping", !.code = "ui_update"]
      [] process.phase = "tunnel" -> [process EXCEPT !.deaf = TRUE]
      [] OTHER                    -> process

\* runInstall from the manager m, once an update is known; the installer is synchronous.
Install(m, ok) ==
    IF ok
    THEN /\ installs' = Append(installs, m.latest)
         /\ manager' = [m EXCEPT !.current = m.latest, !.status = "restart_pending", !.available = FALSE]
         /\ process' = Notified
    ELSE /\ manager' = [m EXCEPT !.status = "error"]
         /\ UNCHANGED <<installs, process>>

\* installUpdate: without a known update it first checks, or waits for the check.
InstallUpdate(ok) ==
    /\ Serving /\ ~Settling /\ ~manager.installing
    /\ IF manager.available THEN Install(manager, ok)
       ELSE /\ manager' = [manager EXCEPT !.status = "checking", !.checking = TRUE, !.installing = TRUE]
            /\ UNCHANGED <<installs, process>>
    /\ UNCHANGED published

\* The registry answers with a release, not always the newest; a waiting install goes on.
CheckAnswered(v, ok) ==
    /\ Serving /\ manager.checking /\ v <= published
    /\ LET m == [Checked(manager, v) EXCEPT !.checking = FALSE, !.installing = FALSE]
       IN IF manager.installing /\ m.available THEN Install(m, ok)
          ELSE manager' = m /\ UNCHANGED <<installs, process>>
    /\ UNCHANGED published

\* The check fails; a waiting install goes by what was known before.
CheckFails(ok) ==
    /\ Serving /\ manager.checking
    /\ LET m == [manager EXCEPT !.status = "error", !.recent = TRUE,
                                !.checking = FALSE, !.installing = FALSE]
       IN IF manager.installing /\ m.available THEN Install(m, ok)
          ELSE manager' = m /\ UNCHANGED <<installs, process>>
    /\ UNCHANGED published

\* UPDATE_CACHE_TTL_MS passes.
CheckAges ==
    /\ manager.recent
    /\ manager' = [manager EXCEPT !.recent = FALSE]
    /\ UNCHANGED <<published, installs, process>>

\* SIGINT or SIGTERM, forwarded by the supervisor: the CLI handles the first one once
\* it is up, otherwise and after that they kill the process.
Interrupted ==
    /\ process.phase \in {"startup", "tunnel", "up", "stopping"}
    /\ process' = [process EXCEPT !.phase = IF @ = "up" THEN "stopping" ELSE "exited", !.code = "exit"]
    /\ UNCHANGED <<published, installs, manager>>

\* stop() is done and the process exits with its code.
Stopped ==
    /\ process.phase = "stopping"
    /\ process' = [process EXCEPT !.phase = "exited"]
    /\ UNCHANGED <<published, installs, manager>>

\* Fault seeded in RestartCodes: only the update at start asks for a restart.
RestartCodesStartup == {"startup_update"}

\* shouldRestartCliProcess.
RestartCodes == {"startup_update", "ui_update"}

\* The loop of the supervisor; a new child is what is on disk.
Supervised ==
    /\ process.phase = "exited"
    /\ process' = IF process.code \in RestartCodes
                  THEN [process EXCEPT !.phase = "startup", !.release = OnDisk,
                                       !.code = "none", !.deaf = FALSE]
                  ELSE [process EXCEPT !.phase = "gone"]
    /\ UNCHANGED <<published, installs, manager>>

SelfUpdateStep ==
    \/ ReleasePublished \/ StartupUpdate \/ StartupServes
    \/ CheckAges \/ Interrupted \/ Stopped \/ Supervised
    \/ \E ok \in BOOLEAN : \/ TunnelOpens(ok) \/ InstallUpdate(ok) \/ CheckFails(ok)
                           \/ \E v \in 1..MaxRelease : CheckAnswered(v, ok)
    \/ \E force \in BOOLEAN : CheckForUpdates(force)

SelfUpdateSpec ==
    /\ SelfUpdateInit /\ [][SelfUpdateStep]_selfUpdateVars
    /\ WF_selfUpdateVars(Stopped) /\ WF_selfUpdateVars(Supervised)
    /\ WF_selfUpdateVars(StartupUpdate \/ StartupServes)

-----------------------------------------------------------------------------
(* Properties *)

\* "updating" is never seen between two steps: the installer is synchronous.
SelfUpdateTypeOK ==
    /\ published \in 1..MaxRelease
    /\ \A i \in DOMAIN installs : installs[i] \in 1..MaxRelease
    /\ process \in [phase: ProcessPhases, release: 1..MaxRelease, share: BOOLEAN, deaf: BOOLEAN,
                    code: {"none", "exit", "startup_update", "ui_update"}]
    /\ manager \in [current: 1..MaxRelease, latest: 0..MaxRelease, available: BOOLEAN,
                    recent: BOOLEAN, checking: BOOLEAN, installing: BOOLEAN,
                    status: {"idle", "checking", "available", "up_to_date", "error", "restart_pending"}]

\* Every install moves forward: a check and an install of several tabs may overlap,
\* the registry may answer late or with an old release, and the process may go on
\* serving after an install, yet no release is installed again or over a newer one.
InstallsForward ==
    \A i, j \in DOMAIN installs : i < j => installs[i] < installs[j]

\* What was installed comes to run: the process of an older release exits with a
\* code the supervisor restarts, unless it is interrupted or the install fell into
\* the time in which the share tunnel opens and nobody listens for it.
InstalledRuns ==
    process.release # OnDisk
        ~> \/ process.phase \in {"tunnel", "up"} /\ process.release = OnDisk
           \/ process.phase = "gone" /\ process.code = "exit"
           \/ process.deaf
=============================================================================
