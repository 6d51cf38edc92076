-------------------------- MODULE WorkspaceRecords --------------------------
(***************************************************************************)
(* What the event store keeps beside the turns of chats (event-store.ts):  *)
(* workspaces, repositories and their clones, the repository of a chat,    *)
(* provider profiles and the records that are written as a whole.  Each    *)
(* kind has a log; a start loads the snapshot and replays log after log,   *)
(* in a fixed order that is not the order of the writes.  Commands of      *)
(* different types overlap, and each looks at the state before its event   *)
(* is in the chain.  An id is the number of the operation that made it.    *)
(* Torn lines and failed writes are in EventStore.                         *)
(***************************************************************************)
EXTENDS Integers, Sequences, FiniteSetsExt

CONSTANTS
    Folders,        \* local paths of workspaces
    Kinds,          \* records written as a whole: "rule", "config", "preference", "group"
    MaxOps,         \* bound on the operations
    MaxRestarts     \* bound on the starts of the process

ASSUME RecordConstants ==
    /\ MaxOps \in Nat /\ MaxRestarts \in Nat
    /\ Kinds \subseteq {"rule", "config", "preference", "group"}

VARIABLES
    records,        \* the state in memory
    recordLogs,     \* the lines of each log
    saved,          \* what snapshot.json was made of
    recordChain,    \* the events in writeChain
    cloning,        \* repositories of which GitClonePolicy runs a clone
    recordOps,      \* operations so far
    restarts

recordVars == <<records, recordLogs, saved, recordChain, cloning, recordOps, restarts>>

RecordIds == 1..MaxOps
LogNames == {"projects", "chats", "coordination", "configs", "repos", "profiles", "preferences"}

Blank ==
    [workspaces |-> [w \in RecordIds |-> [state |-> "none", path |-> ""]],
     byPath     |-> [p \in Folders |-> 0],
     repos      |-> [r \in RecordIds |-> [status |-> "none", label |-> 0]],
     chatRepo   |-> [c \in RecordIds |-> -1],
     profiles   |-> 0,
     overrides  |-> 0,
     whole      |-> [k \in Kinds |-> 0]]

RecordsInit ==
    /\ records = Blank /\ saved = Blank
    /\ recordLogs = [l \in LogNames |-> <<>>]
    /\ recordChain = <<>> /\ cloning = {} /\ recordOps = 0 /\ restarts = 0

OpenAt(m, w, path) == m.workspaces[w].state = "open" /\ m.workspaces[w].path = path

-----------------------------------------------------------------------------
(* Events and the state they make *)

RecordEvent(log, type, id, about) == [log |-> log, type |-> type, id |-> id, about |-> about]

WorkspaceAfter(m, e) ==
    CASE e.type = "workspace_opened" ->
            [m EXCEPT !.workspaces[e.id] = [state |-> "open", path |-> e.about],
                      !.byPath[e.about] = e.id]
      [] e.type = "workspace_removed" ->
            IF m.workspaces[e.id].state = "none" THEN m
            ELSE [m EXCEPT !.workspaces[e.id].state = "removed",
                           !.byPath[m.workspaces[e.id].path] = 0]

\* Removing a repository takes it from the chats that are in it.
RepoAfter(m, e) ==
    CASE e.type = "repo_added" ->
            [m EXCEPT !.repos[e.id] = [status |-> "cloned", label |-> 0]]
      [] e.type = "repo_clone_started" ->
            [m EXCEPT !.repos[e.id] = [status |-> "pending", label |-> 0]]
      [] e.type \notin {"repo_added", "repo_clone_started"} ->
            IF m.repos[e.id].status = "none" THEN m
            ELSE CASE e.type = "repo_cloned" -> [m EXCEPT !.repos[e.id].status = "cloned"]
                   [] e.type = "repo_clone_failed" -> [m EXCEPT !.repos[e.id].status = "error"]
                   [] e.type = "repo_label_updated" -> [m EXCEPT !.repos[e.id].label = e.about]
                   [] e.type = "repo_removed" ->
                        [m EXCEPT !.repos[e.id] = [status |-> "none", label |-> 0],
                                  !.chatRepo = [c \in RecordIds |-> IF @[c] = e.id THEN 0 ELSE @[c]]]

\* One profile and what one workspace overrides of it.
ProfileAfter(m, e) ==
    CASE e.type = "provider_profile_saved" -> [m EXCEPT !.profiles = e.about]
      [] e.type = "provider_profile_removed" -> [m EXCEPT !.profiles = 0, !.overrides = 0]
      [] e.type = "workspace_profile_override_set" -> [m EXCEPT !.overrides = e.about]
      [] e.type = "workspace_profile_override_removed" -> [m EXCEPT !.overrides = 0]

\* Todos, worktrees, rules, agent configurations, preferences, independent workspaces:
\* an event puts a record, changes one that is there, or takes it away.
WholeAfter(m, e) ==
    CASE e.type = "put" -> [m EXCEPT !.whole[e.id] = e.about]
      [] e.type = "change" /\ m.whole[e.id] # 0 -> [m EXCEPT !.whole[e.id] = e.about]
      [] e.type = "change" /\ m.whole[e.id] = 0 -> m
      [] e.type = "remove" -> [m EXCEPT !.whole[e.id] = 0]

RecordApplied(m, e) ==
    CASE e.type \in {"workspace_opened", "workspace_removed"} -> WorkspaceAfter(m, e)
      [] e.type = "chat_created" -> [m EXCEPT !.chatRepo[e.id] = e.about]
      [] e.log = "repos" -> RepoAfter(m, e)
      [] e.log = "profiles" -> ProfileAfter(m, e)
      [] e.type \in {"put", "change", "remove"} -> WholeAfter(m, e)

\* Fault seeded in ReplayOrder: the repositories are replayed before the chats.
ReplayOrderReposFirst ==
    <<"projects", "repos", "chats", "coordination", "configs", "profiles", "preferences">>

ReplayOrder == <<"projects", "chats", "coordination", "configs", "repos", "profiles", "preferences">>

\* loadSnapshot of what createSnapshot kept: removed workspaces are gone, and of those
\* open at one path the last has it.
Loaded(m) ==
    [m EXCEPT
        !.workspaces = [w \in RecordIds |-> IF @[w].state = "open" THEN @[w]
                                            ELSE [state |-> "none", path |-> ""]],
        !.byPath = [p \in Folders |-> Max({0} \cup {w \in RecordIds : OpenAt(m, w, p)})]]

\* replayLog: the states it goes through, a line at a time.
LinesReplayed(m, logged) ==
    LET after[n \in 0 .. Len(logged)] == IF n = 0 THEN m ELSE RecordApplied(after[n - 1], logged[n])
    IN  after

\* initialize(): the snapshot, then log after log.
LogsReplayed(kept, files) ==
    LET after[k \in 0 .. Len(ReplayOrder)] ==
            IF k = 0 THEN Loaded(kept)
            ELSE LinesReplayed(after[k - 1], files[ReplayOrder[k]])[Len(files[ReplayOrder[k]])]
    IN  after
RestartedFrom(kept, files) == LogsReplayed(kept, files)[Len(ReplayOrder)]

-----------------------------------------------------------------------------
(* The operations, up to their await *)

NextOp == recordOps + 1

Appended(e) ==
    /\ recordOps < MaxOps /\ recordOps' = NextOp
    /\ recordChain' = Append(recordChain, e)
    /\ UNCHANGED <<records, recordLogs, saved, restarts>>

\* openProject: an open workspace at that path is returned as it is.
OpenProject(path) ==
    /\ ~\E w \in RecordIds : records.byPath[path] = w /\ OpenAt(records, w, path)
    /\ Appended(RecordEvent("projects", "workspace_opened", NextOp, path))
    /\ UNCHANGED cloning

RemoveProject(w) ==
    /\ records.workspaces[w].state = "open"
    /\ Appended(RecordEvent("projects", "workspace_removed", w, 0))
    /\ UNCHANGED cloning

\* createChat: nobody asks whether the repository is still there.
CreateChat(repo) ==
    /\ \E w \in RecordIds : records.workspaces[w].state = "open"
    /\ repo \in {0} \cup {r \in RecordIds : records.repos[r].status # "none"}
    /\ Appended(RecordEvent("chats", "chat_created", NextOp, repo))
    /\ UNCHANGED cloning

AddRepo == Appended(RecordEvent("repos", "repo_added", NextOp, 0)) /\ UNCHANGED cloning

\* startRepoClone is awaited, then the clone starts: it is let run at once here, which
\* an outcome behind the start in the chain allows for.
StartRepoClone ==
    /\ Appended(RecordEvent("repos", "repo_clone_started", NextOp, 0))
    /\ cloning' = cloning \cup {NextOp}

\* onRepoCloneStarted: git has ended.
CloneEnds(r, type) ==
    /\ r \in cloning /\ cloning' = cloning \ {r}
    /\ type \in {"repo_cloned", "repo_clone_failed"}
    /\ Appended(RecordEvent("repos", type, r, 0))

RemoveRepo(r) ==
    /\ records.repos[r].status # "none"
    /\ Appended(RecordEvent("repos", "repo_removed", r, 0)) /\ UNCHANGED cloning

UpdateRepoLabel(r) ==
    /\ records.repos[r].status # "none"
    /\ Appended(RecordEvent("repos", "repo_label_updated", r, NextOp)) /\ UNCHANGED cloning

ChangeProfile ==
    /\ \E type \in {"provider_profile_saved", "provider_profile_removed",
                    "workspace_profile_override_set", "workspace_profile_override_removed"} :
          Appended(RecordEvent("profiles", type, 0, NextOp))
    /\ UNCHANGED cloning

WholeLog ==
    [rule |-> "coordination", config |-> "configs", preference |-> "preferences", group |-> "projects"]

ChangeWhole(kind) ==
    /\ \E type \in {"put", "change", "remove"} : Appended(RecordEvent(WholeLog[kind], type, kind, NextOp))
    /\ UNCHANGED cloning

\* One link of the chain: the line, then the state.
RecordWritten ==
    /\ recordChain # <<>> /\ recordChain' = Tail(recordChain)
    /\ LET e == Head(recordChain) IN
       /\ recordLogs' = [recordLogs EXCEPT ![e.log] = Append(@, e)]
       /\ records' = RecordApplied(records, e)
    /\ UNCHANGED <<saved, cloning, recordOps, restarts>>

\* A start on the files as they are then; with logs that are long enough initialize()
\* compacts, after a shutdown that did they are empty.
Restarts(files, kept, compacts) ==
    /\ restarts < MaxRestarts /\ restarts' = restarts + 1
    /\ records' = RestartedFrom(kept, files)
    /\ saved' = IF compacts THEN records' ELSE kept
    /\ recordLogs' = IF compacts THEN [l \in LogNames |-> <<>>] ELSE files
    /\ recordChain' = <<>> /\ cloning' = {}
    /\ UNCHANGED recordOps

\* The process dies: the line it was writing is there or not.
RecordsCrash ==
    \E compacts \in BOOLEAN :
        \/ Restarts(recordLogs, saved, compacts)
        \/ /\ recordChain # <<>>
           /\ Restarts([recordLogs EXCEPT ![Head(recordChain).log] = Append(@, Head(recordChain))],
                       saved, compacts)

\* shutdown(), which compacts, and the next start.
RecordsShutdown ==
    recordChain = <<>> /\ Restarts([l \in LogNames |-> <<>>], records, FALSE)

RecordStep ==
    \/ \E path \in Folders : OpenProject(path)
    \/ \E w \in RecordIds : RemoveProject(w)
    \/ \E repo \in 0..MaxOps : CreateChat(repo)
    \/ AddRepo \/ StartRepoClone
    \/ \E r \in RecordIds : \/ \E type \in {"repo_cloned", "repo_clone_failed"} : CloneEnds(r, type)
                            \/ RemoveRepo(r) \/ UpdateRepoLabel(r)
    \/ ChangeProfile \/ \E kind \in Kinds : ChangeWhole(kind)
    \/ RecordWritten \/ RecordsCrash \/ RecordsShutdown

RecordSpec == RecordsInit /\ [][RecordStep]_recordVars

-----------------------------------------------------------------------------
(* Properties *)

\* Records, logs and the chain have the shape the code gives them.
RecordTypeOK ==
    /\ \A m \in {records, saved} :
          /\ m.workspaces \in [RecordIds -> [state: {"none", "open", "removed"}, path: Folders \cup {""}]]
          /\ m.byPath \in [Folders -> 0..MaxOps]
          /\ m.repos \in [RecordIds -> [status: {"none", "pending", "cloned", "error"}, label: 0..MaxOps]]
          /\ m.chatRepo \in [RecordIds -> -1..MaxOps]
          /\ {m.profiles, m.overrides} \subseteq 0..MaxOps
          /\ m.whole \in [Kinds -> 0..MaxOps]
    /\ DOMAIN recordLogs = LogNames
    /\ \A l \in LogNames : \A k \in DOMAIN recordLogs[l] : recordLogs[l][k].log = l
    /\ cloning \subseteq RecordIds /\ recordOps \in 0..MaxOps /\ restarts \in 0..MaxRestarts

\* A process that died now would find again what is in memory, although the logs are
\* replayed in another order than they were written in.  Two things it finds better:
\* a chat made while its repository was removed is then in none, and a path whose
\* workspace was removed while another was open there leads to that one.
RestartRebuilds ==
    LET again == RestartedFrom(saved, recordLogs) IN
    /\ again.repos = records.repos /\ again.whole = records.whole
    /\ again.profiles = records.profiles /\ again.overrides = records.overrides
    /\ \A w \in RecordIds, p \in Folders : OpenAt(again, w, p) <=> OpenAt(records, w, p)
    /\ \A c \in RecordIds :
          \/ again.chatRepo[c] = records.chatRepo[c]
          \/ /\ records.chatRepo[c] > 0 /\ again.chatRepo[c] = 0
             /\ records.repos[records.chatRepo[c]].status = "none"
    /\ \A p \in Folders :
          \/ again.byPath[p] = records.byPath[p]
          \/ records.byPath[p] = 0 /\ OpenAt(records, again.byPath[p], p)
=============================================================================
