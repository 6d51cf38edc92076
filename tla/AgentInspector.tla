--------------------------- MODULE AgentInspector ---------------------------
(***************************************************************************)
(* The inspector of a chat's agents: SubagentIndicator of the client with  *)
(* the hierarchy that SessionOrchestrator pushes, the agents Codex runs    *)
(* itself among it, and the transcripts that nats-responders.ts reads for  *)
(* it.  Each run of refreshSelectedSession lives in a closure: it is told  *)
(* to stop by the effect that started it, and by nobody if the Refresh     *)
(* button did.  A run subscribes to its chat in two ways at once: to the   *)
(* snapshots, the hub's reply first, and to the entries, of which those    *)
(* come that are written once its consumer exists.  All render units are   *)
(* asked for over one connection and answered in order; that it breaks is  *)
(* in ClientSession.                                                       *)
(***************************************************************************)
EXTENDS Naturals, Sequences, FiniteSets, SequencesExt

CONSTANTS
    Spawned,        \* agents that are chats of the hub
    Foreign,        \* agents Codex runs: threads of its own
    NoAgent,
    MaxNews,        \* bounds what agents write, the hub broadcasts and Refresh is pressed
    MaxRuns         \* bounds the runs of refreshSelectedSession

ASSUME InspectorConstants ==
    /\ Spawned \cap Foreign = {} /\ NoAgent \notin Spawned \cup Foreign
    /\ MaxNews \in Nat /\ MaxRuns \in Nat

VARIABLES
    hierarchy,  \* the agents the tab knows, the hub's own and then those of Codex, each in
                \* their order, and the status of each
    inspector,  \* whether it is open, what is selected and shown
    refreshes,  \* the runs of refreshSelectedSession, oldest first
    queries,    \* transcripts asked for
    transcripts,\* the number of entries of each agent
    news        \* how often one of these has happened

inspectorVars == <<hierarchy, inspector, refreshes, queries, transcripts, news>>

Inspectable == Spawned \cup Foreign
ChildStatuses == {"spawning", "running", "waiting", "completed", "failed", "closed"}
IsActiveStatus(status) == status \in {"spawning", "running", "waiting"}
NewsComes == news < MaxNews /\ news' = news + 1
NoSession == [title |-> NoAgent, of |-> NoAgent, units |-> 0, state |-> "empty"]

InspectorInit ==
    /\ hierarchy = [own |-> <<>>, codex |-> <<>>, status |-> [a \in Inspectable |-> "closed"]]
    /\ inspector = [open |-> FALSE, selected |-> NoAgent, session |-> NoSession]
    /\ refreshes = <<>> /\ queries = <<>>
    /\ transcripts = [a \in Inspectable |-> 0] /\ news = 0

-----------------------------------------------------------------------------
(* The status of an agent of Codex, from the tool calls about it *)

CollabTools  == {"spawnAgent", "sendInput", "wait", "closeAgent"}   \* sendInput: resumeAgent as well
\* What agentsStates or the status of the item says, as normalizeExternalStatus reads it;
\* "unknown" where it says nothing or a word that is not known.
CollabStates == {"running", "completed", "unknown"}

\* resolveExternalStatus
ExternalStatus(item, previous) ==
    CASE item.isError                    -> "failed"
      [] ~item.isError /\ item.state # "unknown" -> item.state
      [] ~item.isError /\ item.state = "unknown" ->
            CASE item.tool = "closeAgent" -> "closed"
              [] item.tool = "wait"       -> IF previous = "failed" THEN "failed" ELSE "completed"
              [] item.tool = "spawnAgent" -> IF item.status = "unknown" THEN "spawning" ELSE item.status
              [] item.tool = "sendInput"  -> "running"

-----------------------------------------------------------------------------
(* Runs of refreshSelectedSession *)

\* reply: what became of snapshot.subscribe, and told, the count the hub read for it;
\* count: latestMessageCount, 0 for none.  For the properties only: missed, that a frame
\* or a snapshot that told of more asked for nothing, and untold, that an entry was
\* neither in the last snapshot nor an event, and no later snapshot has told of it.
Run(a, by) == [chat |-> a, by |-> by, cancelled |-> FALSE, reply |-> IF a \in Spawned THEN "asked" ELSE "seen",
               told |-> 0, consumer |-> FALSE, untold |-> FALSE, events |-> 0, count |-> 0,
               requested |-> a \in Foreign, done |-> FALSE, raf |-> FALSE, missed |-> FALSE]
Query(r, limit) == [run |-> r, limit |-> limit, read |-> FALSE, units |-> 0]
Loading(a) == [title |-> NoAgent, of |-> a, units |-> 0, state |-> "loading"]

\* What the cleanup of an effect leaves: nothing that comes for a run it stopped is
\* looked at, and so what it asked for is forgotten here, though answers still come.
StoppedRuns == [i \in DOMAIN refreshes |->
                    IF refreshes[i].by = "effect" THEN [Run(NoAgent, "effect") EXCEPT !.cancelled = TRUE]
                    ELSE refreshes[i]]
StoppedQueries == [i \in DOMAIN queries |->
                    IF refreshes[queries[i].run].by = "effect" THEN Query(queries[i].run, 0) ELSE queries[i]]

\* A run for an agent of Codex asks for its transcript at once.
StartRun(runs, before, a, by) ==
    /\ refreshes' = Append(runs, Run(a, by))
    /\ queries' = IF a \in Foreign THEN Append(before, Query(Len(runs) + 1, MaxNews)) ELSE before

\* flattenNodes
Listed(tree) == tree.own \o tree.codex

\* getPreferredSelectedChatId: what was selected, else the first active one, else the first.
Preferred(order, status, current) ==
    LET active == {i \in DOMAIN order : IsActiveStatus(status[order[i]])}
    IN  IF current \in Range(order) THEN current
        ELSE IF active # {} THEN order[Min(active)]
        ELSE IF order # <<>> THEN Head(order) ELSE NoAgent

\* A render: the effects choose the agent, and start a run if it or open has changed.
Rendered(open, order, status, wanted) ==
    LET chosen == Preferred(order, status, wanted)
        runs == open /\ chosen # NoAgent
    IN  IF open = inspector.open /\ chosen = inspector.selected
        THEN UNCHANGED <<inspector, refreshes, queries>>
        ELSE /\ runs => Len(refreshes) < MaxRuns
             /\ inspector' = [open |-> open, selected |-> chosen,
                              session |-> IF runs THEN Loading(chosen) ELSE inspector.session]
             /\ IF runs THEN StartRun(StoppedRuns, StoppedQueries, chosen, "effect")
                ELSE refreshes' = StoppedRuns /\ queries' = StoppedQueries

\* setOpen, setSelectedChatId
Toggled ==
    /\ Listed(hierarchy) # <<>>
    /\ Rendered(~inspector.open, Listed(hierarchy), hierarchy.status, inspector.selected)
    /\ UNCHANGED <<hierarchy, transcripts, news>>

Selected(a) ==
    /\ inspector.open /\ a \in Range(Listed(hierarchy)) /\ a # inspector.selected
    /\ Rendered(TRUE, Listed(hierarchy), hierarchy.status, a)
    /\ UNCHANGED <<hierarchy, transcripts, news>>

\* The Refresh button: a run whose cleanup is thrown away, beside the one there is.
Refreshed ==
    /\ inspector.open /\ inspector.selected # NoAgent /\ Len(refreshes) < MaxRuns /\ NewsComes
    /\ inspector' = [inspector EXCEPT !.session = Loading(inspector.selected)]
    /\ StartRun(refreshes, queries, inspector.selected, "button")
    /\ UNCHANGED <<hierarchy, transcripts>>

\* getHierarchy is pushed: one was spawned, has another status or was closed and
\* cleaned up; agents of Codex are never removed.
Pushed(a) ==
    \E status \in ChildStatuses, i \in 0..Len(hierarchy.own) :
        LET new == a \notin Range(Listed(hierarchy)) IN
        /\ NewsComes
        /\ i > 0 => hierarchy.own[i] = a /\ status = hierarchy.status[a]
        /\ IF a \in Spawned THEN status \in {"running", "completed"}
           ELSE status \in {ExternalStatus(item, hierarchy.status[a]) : item \in
                       [tool: CollabTools, state: CollabStates, status: CollabStates, isError: BOOLEAN]}
        /\ hierarchy' = [own    |-> IF i > 0 THEN RemoveAt(hierarchy.own, i)
                                   ELSE IF new /\ a \in Spawned THEN Append(hierarchy.own, a) ELSE hierarchy.own,
                         codex  |-> IF new /\ a \in Foreign THEN Append(hierarchy.codex, a) ELSE hierarchy.codex,
                         status |-> [hierarchy.status EXCEPT ![a] = status]]
        /\ Rendered(inspector.open, Listed(hierarchy'), hierarchy'.status, inspector.selected)
        /\ UNCHANGED transcripts

-----------------------------------------------------------------------------
(* Snapshots, events, frames and answers of a run *)

Wanted(r) == ~refreshes[r].cancelled
Changed(r, run) == refreshes' = [refreshes EXCEPT ![r] = run]
Limit(run) == IF run.count = 0 THEN 1 ELSE run.count
\* fetchAllMessages
FetchAll(r, run) ==
    IF run.requested THEN Changed(r, run) /\ UNCHANGED queries
    ELSE /\ Changed(r, [run EXCEPT !.requested = TRUE, !.missed = FALSE])
         /\ queries' = Append(queries, Query(r, Limit(run)))

\* external: the hub's answer to snapshot.subscribe reads how many entries there are.
HubReads(r) ==
    /\ Wanted(r) /\ refreshes[r].reply = "asked"
    /\ Changed(r, [refreshes[r] EXCEPT !.reply = "read", !.told = transcripts[refreshes[r].chat]])
    /\ UNCHANGED <<hierarchy, inspector, queries, transcripts, news>>

\* activateJetStreamConsumer: entries written from now on come as events.
ConsumerStarts(r) ==
    /\ Wanted(r) /\ refreshes[r].chat \in Spawned /\ ~refreshes[r].consumer
    /\ Changed(r, [refreshes[r] EXCEPT !.consumer = TRUE])
    /\ UNCHANGED <<hierarchy, inspector, queries, transcripts, news>>

\* The snapshot listener: the count is taken, and after the first fetch no more is asked for.
SnapshotSeen(r, n, reply) ==
    LET run == refreshes[r]
    IN
    /\ inspector' = [inspector EXCEPT !.session.title = run.chat]
    /\ FetchAll(r, [run EXCEPT !.reply = reply, !.told = IF reply = "seen" THEN 0 ELSE @, !.count = n, !.missed = @ \/ n > run.count,
                               !.untold = n + run.events < transcripts[run.chat]])
    /\ UNCHANGED <<hierarchy, transcripts>>

\* The reply to snapshot.subscribe.
RunSnapshot(r) ==
    /\ Wanted(r) /\ refreshes[r].reply = "read"
    /\ SnapshotSeen(r, refreshes[r].told, "seen") /\ UNCHANGED news

\* external: broadcastSnapshots awaits between its read and publishing, and rounds of it
\* overlap: what is published was true some time before.
RunBroadcast(r, n) ==
    /\ Wanted(r) /\ refreshes[r].chat \in Spawned /\ n <= transcripts[refreshes[r].chat]
    /\ SnapshotSeen(r, n, refreshes[r].reply) /\ NewsComes

\* external: the agent says something; the consumers of its chat are sent an event.
AgentWrites(a) ==
    /\ NewsComes
    /\ transcripts' = [transcripts EXCEPT ![a] = @ + 1]
    /\ refreshes' = [r \in DOMAIN refreshes |->
                        IF ~Wanted(r) \/ refreshes[r].chat # a \/ a \notin Spawned THEN refreshes[r]
                        ELSE IF refreshes[r].consumer THEN [refreshes[r] EXCEPT !.events = @ + 1]
                        ELSE [refreshes[r] EXCEPT !.untold = TRUE]]
    /\ UNCHANGED <<hierarchy, inspector, queries>>

\* Fault seeded in RunEvent: an event after the first fetch is only counted.
RunEventCounted(r) ==
    LET run == [refreshes[r] EXCEPT !.events = @ - 1, !.count = @ + 1]
    IN
    /\ Wanted(r) /\ refreshes[r].events > 0
    /\ FetchAll(r, run)
    /\ UNCHANGED <<hierarchy, inspector, transcripts, news>>

\* An event: the first fetch, or a frame in which everything is fetched again.
RunEvent(r) ==
    LET run == [refreshes[r] EXCEPT !.events = @ - 1, !.count = @ + 1]
    IN
    /\ Wanted(r) /\ refreshes[r].events > 0
    /\ IF run.requested THEN Changed(r, [run EXCEPT !.raf = TRUE]) /\ UNCHANGED queries
       ELSE FetchAll(r, run)
    /\ UNCHANGED <<hierarchy, inspector, transcripts, news>>

\* The frame: nothing is done about the event while the first answer is awaited.
RunFrame(r) ==
    /\ Wanted(r) /\ refreshes[r].raf
    /\ Changed(r, [refreshes[r] EXCEPT !.raf = FALSE, !.missed = ~refreshes[r].done])
    /\ queries' = IF refreshes[r].done THEN Append(queries, Query(r, Limit(refreshes[r]))) ELSE queries
    /\ UNCHANGED <<hierarchy, inspector, transcripts, news>>

\* chat.getRenderUnits and chat.getExternalSessionMessages: the transcript as it is now.
QueryRead ==
    LET due == {i \in DOMAIN queries : Wanted(queries[i].run) /\ ~queries[i].read}
        i == Min(due)
        length == transcripts[refreshes[queries[i].run].chat]
    IN
    /\ due # {}
    /\ queries' = [queries EXCEPT ![i].read = TRUE,
                                  ![i].units = IF length < queries[i].limit THEN length ELSE queries[i].limit]
    /\ UNCHANGED <<hierarchy, inspector, refreshes, transcripts, news>>

\* The answer, or an error, after which the first fetch may be tried again; an answer
\* to a later fetch does not take an error away.
QueryAnswered(ok) ==
    LET fetch == Head(queries)
        run == refreshes[fetch.run]
    IN
    /\ queries # <<>> /\ Wanted(fetch.run) /\ (ok => fetch.read)
    /\ queries' = Tail(queries)
    /\ IF ok
       THEN /\ inspector' = [inspector EXCEPT !.session.of = run.chat, !.session.units = fetch.units,
                                              !.session.state = IF run.done THEN @ ELSE "shown"]
            /\ Changed(fetch.run, [run EXCEPT !.done = TRUE])
       ELSE /\ inspector' = [inspector EXCEPT !.session.state = "error", !.session.units = IF run.done THEN @ ELSE 0]
            /\ Changed(fetch.run, [run EXCEPT !.requested = run.done, !.missed = TRUE])
    /\ UNCHANGED <<hierarchy, transcripts, news>>

\* What a stopped run asked for is answered, and not looked at.
LateAnswer ==
    /\ queries # <<>> /\ ~Wanted(Head(queries).run)
    /\ queries' = Tail(queries)
    /\ UNCHANGED <<hierarchy, inspector, refreshes, transcripts, news>>

InspectorStep ==
    \/ Toggled \/ Refreshed \/ QueryRead \/ LateAnswer
    \/ \E a \in Inspectable : Selected(a) \/ Pushed(a) \/ AgentWrites(a)
    \/ \E r \in DOMAIN refreshes : HubReads(r) \/ ConsumerStarts(r) \/ RunSnapshot(r) \/ RunEvent(r) \/ RunFrame(r)
    \/ \E r \in DOMAIN refreshes, n \in 0..MaxNews : RunBroadcast(r, n)
    \/ \E ok \in BOOLEAN : QueryAnswered(ok)

InspectorSpec == InspectorInit /\ [][InspectorStep]_inspectorVars

-----------------------------------------------------------------------------
(* Properties *)

\* The tree, what is shown and the runs have the shape the code gives them.
InspectorTypeOK ==
    /\ hierarchy.own \in Seq(Spawned) /\ hierarchy.codex \in Seq(Foreign) /\ hierarchy.status \in [Inspectable -> ChildStatuses]
    /\ inspector.open \in BOOLEAN /\ inspector.selected \in Inspectable \cup {NoAgent}
    /\ inspector.session.state \in {"empty", "loading", "shown", "error"}
    /\ \A r \in DOMAIN refreshes : refreshes[r].events \in 0..MaxNews /\ refreshes[r].reply \in {"asked", "read", "seen"}
    /\ \A i \in DOMAIN queries : queries[i].run \in DOMAIN refreshes

\* The runs that still write what is shown.
Current == {r \in DOMAIN refreshes : Wanted(r)}
\* A run of the Refresh button goes on after another agent was selected, and shows its
\* own agent (SubagentIndicator.tsx:572).
Astray == \E r \in Current : refreshes[r].chat # inspector.selected

\* The inspector shows the agent that is selected: its title and its transcript are not
\* those of one that was selected before, however late these come.
InspectorShowsSelected ==
    inspector.open /\ inspector.selected # NoAgent /\ ~Astray =>
        /\ inspector.session.of = inspector.selected
        /\ inspector.session.title \in {NoAgent, inspector.selected}

\* When nothing is on its way, it shows all that the agent has written, whichever of the
\* hub's reply, the consumer and the entries came first.  Let off, as nothing in
\* SubagentIndicator.tsx makes good for them: an entry whose frame came while the first
\* answer was awaited (451), a fetch that failed (466), a snapshot that told of more than
\* was counted when the first fetch was asked for (437), and an entry written between the
\* hub's read and the start of the consumer or taken back by an older snapshot (431).
InspectorShowsAll ==
    LET agent == inspector.selected
        quiet == /\ \A r \in Current : /\ refreshes[r].reply = "seen" /\ ~refreshes[r].raf /\ refreshes[r].events = 0
                                      /\ ~refreshes[r].missed /\ ~refreshes[r].untold
                 /\ \A i \in DOMAIN queries : ~Wanted(queries[i].run)
    IN  inspector.open /\ agent \in Spawned /\ ~Astray /\ quiet /\ inspector.session.state = "shown"
        => inspector.session.units = transcripts[agent]

InspectorTells == InspectorShowsSelected /\ InspectorShowsAll
=============================================================================
