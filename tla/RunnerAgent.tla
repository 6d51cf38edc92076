---------------------------- MODULE RunnerAgent ----------------------------
(***************************************************************************)
(* The runner process: RunnerAgent (src/runner/runner-agent.ts) behind the *)
(* command subscriptions of RunnerNatsHandler (src/runner/runner-nats.ts). *)
(*                                                                         *)
(* Every synchronous stretch of the code is one step; every await is a     *)
(* point where another handler may run.  The provider harness (the Claude  *)
(* SDK query, the Codex app-server session) is external: it may yield its  *)
(* init message, ask for tools, yield a result, end or throw.              *)
(*                                                                         *)
(* A member of Turns is one start_turn command and the harness turn made   *)
(* for it.  A Codex follow-up turn (startTurn called from runTurn's        *)
(* finally) lives on in the slot of the turn it follows, whose own record  *)
(* the code has dropped from activeTurns by then.                          *)
(*                                                                         *)
(* A Codex queue is filled and finished in one synchronous stretch, and    *)
(* runTurn drains it in microtasks, before any other message is read: its  *)
(* result, its end and the follow-up are one step.  A Claude stream ends   *)
(* when its process does, any time after its result or its interrupt.      *)
(***************************************************************************)
EXTENDS Naturals, Sequences

CONSTANTS
    Chats,          \* chat ids
    CodexChats,     \* the chats whose provider is Codex; the others use Claude
    Turns,          \* start_turn commands; bounds how many are ever sent
    Tools,          \* tool-request ids; bounds how many requests are ever made
    NoTurn, NoTool  \* absent map entry; null pendingTool

ASSUME RunnerConstants ==
    /\ CodexChats \subseteq Chats
    /\ NoTurn \notin Turns
    /\ NoTool \notin Tools

VARIABLES
    turns,          \* ActiveTurn records, and where each turn's harness is
    activeTurns,    \* the Map chatId -> ActiveTurn, by turn id
    tools,          \* the promises made by onToolRequest
    starting,       \* the turn the start_turn subscription is awaiting, if any
    events          \* KANNA_RUNNER_EVENTS as published and not yet consumed

runnerVars == <<turns, activeTurns, tools, starting, events>>

Status     == {"starting", "running", "waiting_for_user"}
ToolKinds  == {"ask_user_question", "exit_plan_mode"}
ToolStates == {"unused", "pending", "answered", "discarded"}

\* "unused": never sent; "creating": inside await createTurn; "streaming": in
\* the for-await of runTurn; "ended": out of it (or createTurn failed).
Phases == {"unused", "creating", "streaming", "ended"}

\* "opening": no system_init yet; "open": working; "final": its stream holds
\* nothing more; "stopped": interrupted, or closed when that did not answer.
HarnessStates == {"opening", "open", "final", "stopped"}

EventTypes == {"transcript", "status_change", "pending_tool", "session_token",
               "turn_finished", "turn_failed", "turn_cancelled"}
EventArgs  == Status \cup {"user_prompt", "result", "interrupted", "tool_result",
                           "context_cleared", "set", "none"}

TurnRecord == [chat: Chats, phase: Phases, harness: HarnessStates, status: Status,
               pendingTool: Tools \cup {NoTool}, cancelRequested: BOOLEAN,
               isFollowUp: BOOLEAN]
ToolRecord == [state: ToolStates, kind: ToolKinds, owner: Turns \cup {NoTurn}]
\* "by" is the turn whose code published the event; the wire format omits it.
Event      == [type: EventTypes, chat: Chats, by: Turns, arg: EventArgs]

-----------------------------------------------------------------------------
(* Helpers *)

Terminal == {"turn_finished", "turn_failed", "turn_cancelled"}

IsCodex(t) == turns[t].chat \in CodexChats

Streaming(t) == turns[t].phase = "streaming"

\* A turn the user has not cancelled and whose harness is still being read.
Live(t) == Streaming(t) /\ ~turns[t].cancelRequested

FreshTurn(c) ==
    [chat |-> c, phase |-> "creating", harness |-> "opening", status |-> "starting",
     pendingTool |-> NoTool, cancelRequested |-> FALSE, isFollowUp |-> FALSE]

Ev(t, type, arg) == [type |-> type, chat |-> turns[t].chat, by |-> t, arg |-> arg]
Entry(t, kind)   == Ev(t, "transcript", kind)
Publish(evs)     == events' = events \o evs

\* Fault seeded in PublishUnlessCancelled: the cancelRequested test is missing.
PublishAnyway(t, evs) == Publish(evs)

PublishUnlessCancelled(t, evs) ==
    Publish(IF turns[t].cancelRequested THEN <<>> ELSE evs)

\* A tool request the harness of t is still waiting on.
Awaits(t, k) == tools[k].state = "pending" /\ tools[k].owner = t

RunnerInit ==
    /\ turns \in [Turns -> {[FreshTurn(c) EXCEPT !.phase = "unused"] : c \in Chats}]
    /\ activeTurns = [c \in Chats |-> NoTurn]
    /\ tools \in [Tools -> [state: {"unused"}, kind: ToolKinds, owner: {NoTurn}]]
    /\ starting = NoTurn
    /\ events = <<>>

-----------------------------------------------------------------------------
(* startTurn *)

\* Fault seeded in AlreadyRunning: a turn that is only starting does not count.
RunningPastStart(c) ==
    activeTurns[c] # NoTurn /\ turns[activeTurns[c]].status # "starting"

AlreadyRunning(c) == activeTurns[c] # NoTurn

\* Fault seeded in SessionTaken: a turn still being created does not count.
SessionTakenByStream(t) ==
    \E u \in Turns : IsCodex(t) /\ turns[u].chat = turns[t].chat /\ Streaming(u)

\* The Codex session of the chat is with a turn: "Codex turn is already running".
SessionTaken(t) ==
    \E u \in Turns :
        /\ IsCodex(t) /\ turns[u].chat = turns[t].chat
        /\ turns[u].phase \in {"creating", "streaming"}

Prompt(t, appendUserPrompt) ==
    Publish(IF appendUserPrompt THEN <<Entry(t, "user_prompt")>> ELSE <<>>)

\* The start_turn subscription takes its next command, one at a time whatever
\* their chats, and runs startTurn up to await createTurn.
StartTurn(t, appendUserPrompt) ==
    /\ starting = NoTurn
    /\ turns[t].phase = "unused"
    /\ ~AlreadyRunning(turns[t].chat)
    /\ ~SessionTaken(t)
    /\ turns' = [turns EXCEPT ![t].phase = "creating"]
    /\ starting' = t
    /\ Prompt(t, appendUserPrompt)
    /\ UNCHANGED <<activeTurns, tools>>

\* startTurn throws before its first await, or createTurn does for want of the
\* session, the prompt being published by then.  The handler answers ok: false.
StartTurnRejected(t, appendUserPrompt) ==
    /\ starting = NoTurn
    /\ turns[t].phase = "unused"
    /\ turns' = [turns EXCEPT ![t].phase = "ended"]
    /\ \/ AlreadyRunning(turns[t].chat) /\ UNCHANGED events
       \/ /\ ~AlreadyRunning(turns[t].chat)
          /\ SessionTaken(t)
          /\ Prompt(t, appendUserPrompt)
    /\ UNCHANGED <<activeTurns, tools, starting>>

\* createTurn resolves: the chat gets its entry and runTurn starts reading.
CreateTurnOk(t) ==
    /\ turns[t].phase = "creating"
    /\ turns' = [turns EXCEPT ![t].phase = "streaming"]
    /\ activeTurns' = [activeTurns EXCEPT ![turns[t].chat] = t]
    /\ Publish(<<Ev(t, "status_change", "starting")>>)
    /\ starting' = IF starting = t THEN NoTurn ELSE starting
    /\ UNCHANGED tools

\* Fault seeded in CreateTurnFail: a failed follow-up reports nothing.
CreateTurnFailSilent(t) ==
    /\ turns[t].phase = "creating"
    /\ turns' = [turns EXCEPT ![t].phase = "ended"]
    /\ starting' = IF starting = t THEN NoTurn ELSE starting
    /\ UNCHANGED <<activeTurns, tools, events>>

\* createTurn rejects.  For a command the handler answers ok: false and
\* publishes nothing; for a follow-up runTurn's inner catch reports it.
CreateTurnFail(t) ==
    /\ turns[t].phase = "creating"
    /\ turns' = [turns EXCEPT ![t].phase = "ended"]
    /\ Publish(IF turns[t].isFollowUp
               THEN <<Entry(t, "result"), Ev(t, "turn_failed", "none")>>
               ELSE <<>>)
    /\ starting' = IF starting = t THEN NoTurn ELSE starting
    /\ UNCHANGED <<activeTurns, tools>>

-----------------------------------------------------------------------------
(* runTurn *)

\* Fault seeded in Finally: the entry is never dropped.
FinallyKeepsEntry(t, record) ==
    turns' = [turns EXCEPT ![t] = [record EXCEPT !.phase = "ended"]] /\ UNCHANGED activeTurns

\* The finally of runTurn drops the entry of the chat, whichever turn it names.
Finally(t, record) ==
    /\ turns' = [turns EXCEPT ![t] = [record EXCEPT !.phase = "ended"]]
    /\ activeTurns' = [activeTurns EXCEPT ![turns[t].chat] = NoTurn]

StreamInit(t) ==
    /\ Streaming(t) /\ turns[t].harness = "opening"
    /\ turns' = [turns EXCEPT ![t] = [turns[t] EXCEPT
                     !.harness = "open",
                     !.status  = IF turns[t].cancelRequested THEN turns[t].status ELSE "running"]]
    /\ PublishUnlessCancelled(t, <<Ev(t, "status_change", "running")>>)
    /\ UNCHANGED <<activeTurns, tools, starting>>

\* The result entry.  Success needs every tool answered, an error does not.
StreamResult(t, isError) ==
    /\ Streaming(t) /\ turns[t].harness \in {"opening", "open"}
    /\ isError \/ \A k \in Tools : ~Awaits(t, k)
    /\ PublishUnlessCancelled(t,
         <<Entry(t, "result"),
           Ev(t, IF isError THEN "turn_failed" ELSE "turn_finished", "none")>>)
    /\ LET final == [turns[t] EXCEPT !.harness = "final"]
       IN IF IsCodex(t)
          THEN Finally(t, final)
          ELSE turns' = [turns EXCEPT ![t] = final] /\ UNCHANGED activeTurns
    /\ UNCHANGED <<tools, starting>>

\* A Claude stream is exhausted: after its result, or once cancelled.
StreamEnd(t) ==
    /\ Streaming(t) /\ turns[t].harness \in {"final", "stopped"}
    /\ Finally(t, turns[t])
    /\ UNCHANGED <<tools, starting, events>>

\* The Claude query throws.  A dead Codex app-server is an error result instead.
StreamThrow(t) ==
    /\ Streaming(t) /\ ~IsCodex(t)
    /\ PublishUnlessCancelled(t, <<Entry(t, "result"), Ev(t, "turn_failed", "none")>>)
    /\ Finally(t, turns[t])
    /\ UNCHANGED <<tools, starting>>

-----------------------------------------------------------------------------
(* Tool requests *)

IsPlan(k) == tools[k].kind = "exit_plan_mode"

\* A Codex turn asks for plan approval last, when its app-server turn is over
\* and with it every other request.
AppServerMayAsk(t, k) ==
    \A j \in Tools : Awaits(t, j) => ~IsPlan(j) /\ ~IsPlan(k)

\* onToolRequest, called by the harness of t: it is the chat's active turn
\* that is marked waiting, and an earlier pendingTool is overwritten.
ToolRequest(t, k) ==
    LET a == activeTurns[turns[t].chat]
    IN
    /\ Streaming(t) /\ turns[t].harness = "open"
    /\ IsCodex(t) => AppServerMayAsk(t, k)
    /\ tools[k].state = "unused"
    /\ a # NoTurn
    /\ turns' = [turns EXCEPT ![a].status = "waiting_for_user", ![a].pendingTool = k]
    /\ tools' = [tools EXCEPT ![k].state = "pending", ![k].owner = t]
    /\ Publish(<<Ev(t, "status_change", "waiting_for_user"), Ev(t, "pending_tool", "set")>>)
    /\ UNCHANGED <<activeTurns, starting>>

\* Fault seeded in RespondTool: the promise is resolved, pendingTool not cleared.
RespondToolLeavesPending(c, k, clearContext) ==
    /\ activeTurns[c] # NoTurn /\ turns[activeTurns[c]].pendingTool = k
    /\ tools' = [tools EXCEPT ![k].state = "answered"]
    /\ UNCHANGED <<turns, activeTurns, starting, events>>

\* respondTool for the request the chat's active turn is waiting on.  A plan
\* answered in a Codex turn ends it without a result: runTurn's finally drops
\* the entry and calls startTurn again, up to await createTurn.
RespondTool(c, k, clearContext) ==
    LET a    == activeTurns[c]
        plan == IsPlan(k)
    IN
    /\ a # NoTurn
    /\ turns[a].pendingTool = k
    /\ Publish(<<Entry(a, "tool_result"), Ev(a, "pending_tool", "none"),
                 Ev(a, "status_change", "running")>>
               \o IF plan /\ clearContext
                  THEN <<Ev(a, "session_token", "none"), Entry(a, "context_cleared")>>
                  ELSE <<>>)
    /\ IF plan /\ IsCodex(a)
       THEN /\ turns' = [turns EXCEPT ![a] = [FreshTurn(c) EXCEPT !.isFollowUp = TRUE]]
            /\ activeTurns' = [activeTurns EXCEPT ![c] = NoTurn]
       ELSE /\ turns' = [turns EXCEPT ![a].pendingTool = NoTool, ![a].status = "running"]
            /\ UNCHANGED activeTurns
    /\ tools' = [tools EXCEPT ![k].state = "answered"]
    /\ UNCHANGED starting

-----------------------------------------------------------------------------
(* cancel *)

\* The cancel_turn handler, synchronous to its end.  interrupt() finishes a
\* Codex queue on the spot, so runTurn leaves its loop before any other
\* message is read; a Claude stream stays open until the interrupt settles.
Cancel(c) ==
    LET a == activeTurns[c]
        k == turns[a].pendingTool
    IN
    /\ a # NoTurn
    /\ Publish((IF k # NoTool THEN <<Entry(a, "tool_result")>> ELSE <<>>)
               \o <<Entry(a, "interrupted"), Ev(a, "turn_cancelled", "none")>>)
    /\ activeTurns' = [activeTurns EXCEPT ![c] = NoTurn]
    /\ turns' = [turns EXCEPT ![a] = [turns[a] EXCEPT
                     !.cancelRequested = TRUE,
                     !.pendingTool     = NoTool,
                     !.phase           = IF IsCodex(a) THEN "ended" ELSE turns[a].phase]]
    /\ tools' = IF k = NoTool THEN tools ELSE [tools EXCEPT ![k].state = "discarded"]
    /\ UNCHANGED starting

\* Fault seeded in InterruptSettles: no timeout, and a query that has not yet
\* initialised does not answer interrupt().
InterruptWithoutTimeout(t) ==
    /\ Streaming(t) /\ turns[t].cancelRequested /\ turns[t].harness = "open"
    /\ turns' = [turns EXCEPT ![t].harness = "stopped"]
    /\ UNCHANGED <<activeTurns, tools, starting, events>>

\* interruptTurnAfterCancel: interrupt() answers in time, or the timeout (or
\* its rejection) makes the runner close() the harness.
InterruptSettles(t) ==
    /\ Streaming(t) /\ turns[t].cancelRequested
    /\ turns[t].harness \in {"opening", "open"}
    /\ turns' = [turns EXCEPT ![t].harness = "stopped"]
    /\ UNCHANGED <<activeTurns, tools, starting, events>>

-----------------------------------------------------------------------------
(* The runner on its own: any command may arrive at any time. *)

RunnerNext ==
    \/ \E t \in Turns, append \in BOOLEAN :
           StartTurn(t, append) \/ StartTurnRejected(t, append)
    \/ \E t \in Turns :
           \/ CreateTurnOk(t) \/ CreateTurnFail(t)
           \/ StreamInit(t) \/ StreamEnd(t) \/ StreamThrow(t)
           \/ InterruptSettles(t)
           \/ \E isError \in BOOLEAN : StreamResult(t, isError)
           \/ \E k \in Tools : ToolRequest(t, k)
    \/ \E c \in Chats :
           \/ Cancel(c)
           \/ \E k \in Tools, clearContext \in BOOLEAN : RespondTool(c, k, clearContext)

\* The cancel timeout always fires, and a harness that was interrupted or
\* closed ends its stream: nothing is assumed of the user or of the model.
RunnerFairness ==
    \A t \in Turns :
        /\ WF_runnerVars(InterruptSettles(t))
        /\ WF_runnerVars(StreamEnd(t))

RunnerSpec == RunnerInit /\ [][RunnerNext]_runnerVars /\ RunnerFairness

-----------------------------------------------------------------------------
(* Properties *)

\* Every variable has the shape its declaration in the code gives it.
RunnerTypeOK ==
    /\ turns \in [Turns -> TurnRecord]
    /\ activeTurns \in [Chats -> Turns \cup {NoTurn}]
    /\ tools \in [Tools -> ToolRecord]
    /\ starting \in Turns \cup {NoTurn}
    /\ events \in Seq(Event)

\* No chat ever has two turns the user has not cancelled being read at once:
\* what the duplicate-start check at the head of startTurn is there for.
OneLiveTurnPerChat ==
    \A t, u \in Turns :
        Live(t) /\ Live(u) /\ turns[t].chat = turns[u].chat => t = u

\* A live turn is the entry of its chat in activeTurns, so that it can be
\* cancelled, answered and protected from a duplicate start.  Only a cancelled
\* turn of the same Claude chat can ever take the entry away from it.
LiveTurnTracked ==
    \A t \in Turns : Live(t) =>
        \/ activeTurns[turns[t].chat] = t
        \/ /\ ~IsCodex(t)
           /\ \E u \in Turns : turns[u].chat = turns[t].chat /\ turns[u].cancelRequested

\* The status a reader of the log believes the chat to be in.
LoggedStatus(c) ==
    LET marks == {i \in DOMAIN events :
                    events[i].chat = c /\ events[i].type \in Terminal \cup {"status_change"}}
        last  == events[CHOOSE i \in marks : \A j \in marks : j <= i]
    IN IF marks # {} /\ last.type = "status_change" THEN last.arg ELSE "idle"

\* The log alone tells a Codex chat's status: whoever applies every event in
\* order, as the server does, never sees a turn that is not there nor misses
\* one that is.  Between a plan's answer and the follow-up it reads "running".
StatusPublished ==
    \A c \in CodexChats :
        LoggedStatus(c) =
            IF activeTurns[c] # NoTurn THEN turns[activeTurns[c]].status
            ELSE IF \E t \in Turns : /\ turns[t].chat = c /\ turns[t].isFollowUp
                                     /\ turns[t].phase = "creating"
            THEN "running"
            ELSE "idle"

\* A Codex turn that was started gets exactly one of turn_finished, turn_failed
\* and turn_cancelled, at its end: none while it goes on, plan follow-ups
\* included, and no second one from a cancel, an error or the cleanup after it.
OneVerdict ==
    LET verdicts(t) == {i \in DOMAIN events : events[i].by = t /\ events[i].type \in Terminal}
        started(t)  == \E i \in DOMAIN events :
                          events[i].by = t /\ events[i].type = "status_change"
    IN \A t \in Turns : IsCodex(t) =>
          /\ \A i, j \in verdicts(t) : i = j
          /\ verdicts(t) # {} <=> (turns[t].phase = "ended" /\ started(t))

\* The request respondTool would answer is one a harness of that chat is still
\* waiting on, and in a Codex chat it is the running turn's own.
AnswerReachesAsker ==
    \A c \in Chats, k \in Tools :
        (activeTurns[c] # NoTurn /\ turns[activeTurns[c]].pendingTool = k) =>
            /\ tools[k].state = "pending"
            /\ turns[tools[k].owner].chat = c
            /\ c \in CodexChats => tools[k].owner = activeTurns[c]

\* Once cancelled a turn adds nothing to the transcript and announces no
\* outcome, whatever its harness still yields.
CancelledStaysSilent ==
    [][\A i \in DOMAIN events' \ DOMAIN events :
          turns[events'[i].by].cancelRequested =>
              events'[i].type \in {"status_change", "pending_tool"}]_runnerVars

\* A cancelled turn is over after a while even if interrupt() never answers.
CancelledTurnEnds ==
    \A t \in Turns : turns[t].cancelRequested ~> turns[t].phase = "ended"

=============================================================================
