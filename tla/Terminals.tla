----------------------------- MODULE Terminals ------------------------------
(***************************************************************************)
(* TerminalManager (src/server/terminal-manager.ts) under the commands of  *)
(* several tabs (nats-responders.ts): the shells of the terminals of one   *)
(* project.  Processes are external: a shell ends by itself or by the      *)
(* signal, and its end is noticed some time later.  Output, sizes and the  *)
(* serialized screen are left out.                                         *)
(***************************************************************************)
EXTENDS Naturals, FiniteSets

CONSTANTS
    TerminalIds,    \* ids the tabs have given to terminal panes
    MaxShells       \* bound on the shells spawned

ASSUME TerminalConstants == MaxShells \in Nat \ {0}

VARIABLES
    sessions,       \* TerminalManager.sessions: per id its shell (0: no session), status
    shells,         \* per spawned shell: the id it was spawned for, its state
    project         \* the project: known, being removed, removed

terminalVars == <<sessions, shells, project>>

NoTerminal == [shell |-> 0, status |-> "none"]
Shells == 1..MaxShells

TerminalInit ==
    /\ sessions = [id \in TerminalIds |-> NoTerminal]
    /\ shells = [n \in Shells |-> [id |-> "", state |-> "none"]]
    /\ project = "known"

Running(n) == shells[n].state = "running"

Spawned(id, n) ==
    /\ shells[n].state = "none" /\ \A m \in Shells : m < n => shells[m].state # "none"
    /\ shells' = [shells EXCEPT ![n] = [id |-> id, state |-> "running"]]
    /\ sessions' = [sessions EXCEPT ![id] = [shell |-> n, status |-> "running"]]

\* Fault seeded in CreateTerminal: an id whose session is marked as exited gets a new one.
CreateTerminalAnew(id, n) ==
    /\ project # "removed" /\ sessions[id].status # "running"
    /\ Spawned(id, n)
    /\ UNCHANGED project

\* createTerminal: an id with a session keeps it, whatever its status; a shell that
\* cannot be spawned leaves none.
CreateTerminal(id, n) ==
    /\ project # "removed" /\ sessions[id] = NoTerminal
    /\ Spawned(id, n)
    /\ UNCHANGED project

Killed(ids) ==
    /\ sessions' = [id \in TerminalIds |-> IF id \in ids THEN NoTerminal ELSE sessions[id]]
    /\ shells' = [n \in Shells |->
          IF Running(n) /\ n \in {sessions[id].shell : id \in ids}
          THEN [shells[n] EXCEPT !.state = "killed"] ELSE shells[n]]

\* close: terminal.close, which is also how a pane is cleared.
CloseTerminal(id) ==
    /\ sessions[id] # NoTerminal
    /\ Killed({id})
    /\ UNCHANGED project

\* A shell exits (external).
ShellExits(n) ==
    /\ Running(n)
    /\ shells' = [shells EXCEPT ![n].state = "ended"]
    /\ UNCHANGED <<sessions, project>>

\* process.exited: whatever session the id has by now is marked as exited.
ExitNoticed(n) ==
    /\ shells[n].state \in {"killed", "ended"}
    /\ shells' = [shells EXCEPT ![n].state = "gone"]
    /\ sessions' = [sessions EXCEPT ![shells[n].id].status =
                       IF sessions[shells[n].id] = NoTerminal THEN @ ELSE "exited"]
    /\ UNCHANGED project

\* project.remove: closeByCwd, and the project is gone only after an await.
ProjectRemoval ==
    /\ project = "known" /\ project' = "removing"
    /\ Killed(TerminalIds)

ProjectRemoved ==
    /\ project = "removing" /\ project' = "removed"
    /\ UNCHANGED <<sessions, shells>>

\* closeAll, when the hub stops.
CloseAll ==
    /\ \E id \in TerminalIds : sessions[id] # NoTerminal
    /\ Killed(TerminalIds)
    /\ UNCHANGED project

TerminalStep ==
    \/ \E id \in TerminalIds : CloseTerminal(id) \/ \E n \in Shells : CreateTerminal(id, n)
    \/ \E n \in Shells : ShellExits(n) \/ ExitNoticed(n)
    \/ ProjectRemoval \/ ProjectRemoved \/ CloseAll

TerminalSpec == TerminalInit /\ [][TerminalStep]_terminalVars

-----------------------------------------------------------------------------
(* Properties *)

\* A session has a shell and a status, a shell the id it was spawned for.
TerminalTypeOK ==
    /\ sessions \in [TerminalIds -> [shell: 0..MaxShells, status: {"none", "running", "exited"}]]
    /\ shells \in [Shells -> [id: TerminalIds \union {""},
                              state: {"none", "running", "killed", "ended", "gone"}]]
    /\ project \in {"known", "removing", "removed"}

\* A shell that runs and was not killed belongs to the session of its id, so that a
\* close, the removal of the project or the stop of the hub reaches it; two tabs that
\* create the same terminal, or one that clears and creates it, leave no shell behind.
ShellsAreOwned == \A n \in Shells : Running(n) => sessions[shells[n].id].shell = n
=============================================================================
