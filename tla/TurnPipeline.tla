---------------------------- MODULE TurnPipeline ----------------------------
(***************************************************************************)
(* How a user's message becomes a turn: the hub's RunnerProxy              *)
(* (src/server/runner-proxy.ts), TranscriptConsumer                        *)
(* (src/server/transcript-consumer.ts), the onStateChange hook of          *)
(* src/server/server.ts and the queued turns of EventStore                 *)
(* (src/server/event-store.ts), composed with the runner of RunnerAgent.   *)
(*                                                                         *)
(* The hub and the runner share nothing but NATS: start_turn requests and  *)
(* their replies, and the stream of events the hub consumes in order.  A   *)
(* reply and the events of the same turn are not ordered with each other.  *)
(* EventStore appends go through one promise chain: an event is applied,   *)
(* and its caller resumed, when the file write before it is done.          *)
(***************************************************************************)
EXTENDS RunnerAgent

CONSTANTS
    Messages,       \* user messages, one chat.send or chat.queue call each
    Drains,         \* bounds the drainQueuedTurn calls in flight together
    DirectSends,    \* the messages given to chat.send, the others to chat.queue
    Delegations,    \* delegations to resume their parent, once each (server.ts:656)
    SlowCalls       \* the calls whose start_turn request may outlast its 10 s

ASSUME PipelineConstants ==
    /\ Messages \cap Drains = {}
    /\ DirectSends \subseteq Messages
    /\ SlowCalls \subseteq Messages \cup Drains

VARIABLES
    calls,              \* the RunnerProxy calls: one per message and per drain
    requests,           \* the start_turn request behind each turn
    commands,           \* the requests the runner has not yet taken
    queued,             \* EventStore.queuedTurnsByChat, as the messages coalesced
    writeChain,         \* EventStore.writeChain: appends not yet applied
    consuming,          \* whether TranscriptConsumer awaits a turn-end write
    activeStatuses,     \* TranscriptConsumer.activeStatuses
    previousStatuses,   \* server.ts, the statuses onStateChange saw last
    recentlyStarted,    \* RunnerProxy.recentlyStartedChats
    resumes             \* the delegations not yet reconciled

hubVars      == <<calls, requests, commands, queued, writeChain, consuming,
                  activeStatuses, previousStatuses, recentlyStarted,
                  resumes>>
pipelineVars == <<runnerVars, hubVars>>

Calls == Messages \cup Drains

\* "clearing", "requeueing": a drain awaiting clearQueuedTurn, or the enqueue
\* after a failed start; "enqueueing": queue() awaiting its own; "sending": the
\* awaits of send() before the request; "requested": awaiting its reply.
CallStates == {"idle", "clearing", "enqueueing", "sending", "requested", "requeueing",
               "started", "queued", "refused"}
CallRecord == [state: CallStates, chat: Chats, content: SUBSET Messages,
               turn: Turns \cup {NoTurn}]
\* "reply" is what the runner answered, "outcome" what its caller made of it.
Request    == [content: SUBSET Messages, reply: {"none", "ok", "error"},
               outcome: {"open", "accepted", "refused"}]
Append_    == [op: {"queue", "clear", "turn_end"}, chat: Chats,
               content: SUBSET Messages, by: Calls \cup {NoTurn}]

PipelineInit ==
    /\ RunnerInit
    /\ calls \in [Calls -> [state: {"idle"}, chat: Chats, content: {{}}, turn: {NoTurn}]]
    /\ requests = [t \in Turns |-> [content |-> {}, reply |-> "none", outcome |-> "open"]]
    /\ commands = <<>>
    /\ queued = [c \in Chats |-> {}]
    /\ writeChain = <<>>
    /\ consuming = FALSE
    /\ activeStatuses = [c \in Chats |-> "idle"]
    /\ previousStatuses = [c \in Chats |-> "idle"]
    /\ recentlyStarted = {}
    /\ resumes = Delegations

-----------------------------------------------------------------------------
(* RunnerProxy *)

hasObservedActiveTurn(c)      == activeStatuses[c] # "idle"
hasActiveOrJustStartedTurn(c) == hasObservedActiveTurn(c) \/ c \in recentlyStarted

\* A call that is over: a drain's record can be used again.
Returned(x, answer) ==
    IF x \in Drains THEN [calls[x] EXCEPT !.state = "idle", !.content = {}, !.turn = NoTurn]
    ELSE [calls[x] EXCEPT !.state = answer]

StoreAppend(op, x) ==
    [op |-> op, chat |-> calls[x].chat, content |-> calls[x].content, by |-> x]

\* Each command type has one subscription, which takes its next command when
\* the handler of the last one has replied.
Replied(m) == calls[m].state \in {"idle", "started", "queued", "refused"}

\* The handler of chat.send or chat.queue takes message m: queue() looks at the
\* chat and either sends at once or starts the enqueue, with no await between.
SubmitMessage(m) ==
    LET c      == calls[m].chat
        direct == m \in DirectSends \/ ~hasActiveOrJustStartedTurn(c)
        call   == [calls[m] EXCEPT !.content = {m},
                                   !.state = IF direct THEN "sending" ELSE "enqueueing"]
    IN
    /\ calls[m].state = "idle"
    /\ \A n \in Messages : (n \in DirectSends <=> m \in DirectSends) => Replied(n)
    /\ calls' = [calls EXCEPT ![m] = call]
    /\ writeChain' = IF direct THEN writeChain
                     ELSE Append(writeChain, [op |-> "queue", chat |-> c,
                                              content |-> {m}, by |-> m])
    /\ UNCHANGED <<runnerVars, requests, commands, queued, consuming,
                   activeStatuses, previousStatuses, recentlyStarted, resumes>>

Unrequested(c) ==
    {t \in Turns : /\ turns[t].phase = "unused" /\ turns[t].chat = c
                   /\ \A i \in DOMAIN commands : commands[i] # t}

\* The last step of send() before its reply: the start_turn request, under a
\* new id (which one is of no matter, nor which drain is which).
RequestStart(x) ==
    LET t == CHOOSE u \in Unrequested(calls[x].chat) : TRUE
    IN
    /\ calls[x].state = "sending"
    /\ Unrequested(calls[x].chat) # {}
    /\ calls' = [calls EXCEPT ![x].state = "requested", ![x].turn = t]
    /\ requests' = [requests EXCEPT ![t].content = calls[x].content]
    /\ commands' = Append(commands, t)
    /\ UNCHANGED <<runnerVars, queued, writeChain, consuming, activeStatuses,
                   previousStatuses, recentlyStarted, resumes>>

\* send() returned: the chat counts as active before any event is seen.
StartAccepted(x) ==
    LET t == calls[x].turn
    IN
    /\ calls[x].state = "requested" /\ requests[t].reply = "ok"
    /\ calls' = [calls EXCEPT ![x] = Returned(x, "started")]
    /\ requests' = [requests EXCEPT ![t].outcome = "accepted"]
    /\ recentlyStarted' = recentlyStarted \cup {calls[x].chat}
    /\ UNCHANGED <<runnerVars, commands, queued, writeChain, consuming,
                   activeStatuses, previousStatuses, resumes>>

\* send() threw, the runner having refused or the request having timed out,
\* whatever becomes of it: the user is told, a drain puts its content back.
StartRefused(x) ==
    LET t == calls[x].turn
    IN
    /\ calls[x].state = "requested"
    /\ requests[t].reply = "error" \/ x \in SlowCalls
    /\ requests' = [requests EXCEPT ![t].outcome = "refused"]
    /\ IF x \in Drains
       THEN /\ calls' = [calls EXCEPT ![x].state = "requeueing"]
            /\ writeChain' = Append(writeChain, StoreAppend("queue", x))
       ELSE calls' = [calls EXCEPT ![x].state = "refused"] /\ UNCHANGED writeChain
    /\ UNCHANGED <<runnerVars, commands, queued, consuming, activeStatuses,
                   previousStatuses, recentlyStarted, resumes>>

\* drainQueuedTurn up to await clearQueuedTurn, given the statuses it sees and
\* the chain it appends to.  It reads the queue of now and clears that of later.
DrainQueuedTurn(c, statuses, chain) ==
    /\ recentlyStarted' = recentlyStarted \ {c}
    /\ IF statuses[c] # "idle" \/ queued[c] = {}
       THEN UNCHANGED calls /\ writeChain' = chain
       ELSE LET free == {d \in Drains : calls[d].state = "idle"}
                d    == CHOOSE x \in free : TRUE
            IN /\ free # {}
               /\ calls' = [calls EXCEPT ![d] = [state |-> "clearing", chat |-> c,
                                                 content |-> queued[c], turn |-> NoTurn]]
               /\ writeChain' = Append(chain, [op |-> "clear", chat |-> c,
                                               content |-> {}, by |-> d])

\* A delegated child of c is reconciled and c is to be resumed.
ResumeParent(g, c) ==
    /\ g \in resumes
    /\ resumes' = resumes \ {g}
    /\ DrainQueuedTurn(c, activeStatuses, writeChain)
    /\ UNCHANGED <<runnerVars, requests, commands, queued, consuming,
                   activeStatuses, previousStatuses>>

-----------------------------------------------------------------------------
(* TranscriptConsumer and onStateChange *)

\* onStateChange: a chat that was seen working and is no longer active has its
\* queue drained; one last seen waiting for the user has not.
OnStateChange(c, statuses, chain) ==
    /\ activeStatuses' = statuses
    /\ previousStatuses' = statuses
    /\ IF previousStatuses[c] \notin {"idle", "waiting_for_user"} /\ statuses[c] = "idle"
       THEN DrainQueuedTurn(c, statuses, chain)
       ELSE writeChain' = chain /\ UNCHANGED <<calls, recentlyStarted>>

\* Fault seeded in Observed: a chat that waits for its user is not recorded as active.
ObservedWorking(e) ==
    IF e.type = "status_change" /\ e.arg # "waiting_for_user"
    THEN [activeStatuses EXCEPT ![e.chat] = e.arg] ELSE activeStatuses

\* activeStatuses once e is handled.
Observed(e) ==
    IF e.type = "status_change" THEN [activeStatuses EXCEPT ![e.chat] = e.arg]
    ELSE activeStatuses

\* handleEvent of anything that does not end a turn.
ConsumeEvent ==
    LET e == Head(events)
    IN
    /\ events # <<>> /\ ~consuming
    /\ e.type \notin Terminal
    /\ events' = Tail(events)
    /\ OnStateChange(e.chat, Observed(e), writeChain)
    /\ UNCHANGED <<turns, activeTurns, tools, starting, requests, commands, queued,
                   consuming, resumes>>

\* Fault seeded in ConsumeTurnEnd: the next event does not wait for the write.
ConsumeTurnEndUnawaited ==
    /\ events # <<>> /\ Head(events).type \in Terminal
    /\ events' = Tail(events)
    /\ writeChain' = Append(writeChain, [op |-> "turn_end", chat |-> Head(events).chat,
                                         content |-> {}, by |-> NoTurn])
    /\ UNCHANGED <<turns, activeTurns, tools, starting, calls, requests, commands, queued,
                   consuming, activeStatuses, previousStatuses, recentlyStarted, resumes>>

\* handleEvent of turn_finished, turn_failed and turn_cancelled, up to the
\* await of recordTurnFinished and its likes.
ConsumeTurnEnd ==
    /\ events # <<>> /\ ~consuming
    /\ Head(events).type \in Terminal
    /\ events' = Tail(events)
    /\ consuming' = TRUE
    /\ writeChain' = Append(writeChain, [op |-> "turn_end", chat |-> Head(events).chat,
                                         content |-> {}, by |-> NoTurn])
    /\ UNCHANGED <<turns, activeTurns, tools, starting, calls, requests, commands, queued,
                   activeStatuses, previousStatuses, recentlyStarted, resumes>>

-----------------------------------------------------------------------------
(* EventStore: the append at the head of the chain is written and applied, *)
(* and what awaited it goes on.                                            *)

ApplyQueued ==
    LET w == Head(writeChain)
    IN
    /\ writeChain # <<>> /\ w.op = "queue"
    /\ queued' = [queued EXCEPT ![w.chat] = @ \cup w.content]
    /\ writeChain' = Tail(writeChain)
    /\ calls' = [calls EXCEPT ![w.by] = Returned(w.by, "queued")]
    /\ UNCHANGED <<runnerVars, requests, commands, consuming, activeStatuses,
                   previousStatuses, recentlyStarted, resumes>>

\* Fault seeded in ApplyCleared: the drain goes on with the queue left as it was.
ApplyClearedNothing ==
    /\ writeChain # <<>> /\ Head(writeChain).op = "clear"
    /\ writeChain' = Tail(writeChain)
    /\ calls' = [calls EXCEPT ![Head(writeChain).by].state = "sending"]
    /\ UNCHANGED <<runnerVars, queued, requests, commands, consuming, activeStatuses,
                   previousStatuses, recentlyStarted, resumes>>

ApplyCleared ==
    LET w == Head(writeChain)
    IN
    /\ writeChain # <<>> /\ w.op = "clear"
    /\ queued' = [queued EXCEPT ![w.chat] = {}]
    /\ writeChain' = Tail(writeChain)
    /\ calls' = [calls EXCEPT ![w.by].state = "sending"]
    /\ UNCHANGED <<runnerVars, requests, commands, consuming, activeStatuses,
                   previousStatuses, recentlyStarted, resumes>>

ApplyTurnEnd ==
    LET w == Head(writeChain)
    IN
    /\ writeChain # <<>> /\ w.op = "turn_end"
    /\ consuming' = FALSE
    /\ OnStateChange(w.chat, [activeStatuses EXCEPT ![w.chat] = "idle"], Tail(writeChain))
    /\ UNCHANGED <<runnerVars, requests, commands, queued, resumes>>

-----------------------------------------------------------------------------
(* The runner's side of the requests *)

\* Fault seeded in Answer: a command that fails gets no reply.
AnswerSuccess(t, reply) ==
    requests' = IF turns[t].isFollowUp \/ reply = "error" THEN requests
                ELSE [requests EXCEPT ![t].reply = reply]

Answer(t, reply) ==
    requests' = IF turns[t].isFollowUp THEN requests
                ELSE [requests EXCEPT ![t].reply = reply]

TakeCommand(t) ==
    /\ commands # <<>> /\ Head(commands) = t
    /\ commands' = Tail(commands)
    /\ \/ StartTurn(t, TRUE) /\ UNCHANGED requests
       \/ StartTurnRejected(t, TRUE) /\ Answer(t, "error")
    /\ UNCHANGED <<calls, queued, writeChain, consuming, activeStatuses,
                   previousStatuses, recentlyStarted, resumes>>

CreateTurn(t) ==
    /\ \/ CreateTurnOk(t) /\ Answer(t, "ok")
       \/ CreateTurnFail(t) /\ Answer(t, "error")
    /\ UNCHANGED <<calls, commands, queued, writeChain, consuming, activeStatuses,
                   previousStatuses, recentlyStarted, resumes>>

RunTurn(t) ==
    /\ \/ StreamInit(t) \/ StreamEnd(t) \/ StreamThrow(t) \/ InterruptSettles(t)
       \/ \E isError \in BOOLEAN : StreamResult(t, isError)
    /\ UNCHANGED hubVars

\* The model asks, the user answers or cancels.
Interact ==
    /\ \/ \E t \in Turns, k \in Tools : ToolRequest(t, k)
       \/ \E c \in Chats : Cancel(c)
       \/ \E c \in Chats, k \in Tools, clear \in BOOLEAN : RespondTool(c, k, clear)
    /\ UNCHANGED hubVars

-----------------------------------------------------------------------------

HubStep ==
    \/ \E x \in Calls : RequestStart(x) \/ StartAccepted(x) \/ StartRefused(x)
    \/ ConsumeEvent \/ ConsumeTurnEnd
    \/ ApplyQueued \/ ApplyCleared \/ ApplyTurnEnd

PipelineNext ==
    \/ \E m \in Messages : SubmitMessage(m)
    \/ \E g \in Delegations, c \in Chats : ResumeParent(g, c)
    \/ HubStep
    \/ \E t \in Turns : TakeCommand(t) \/ CreateTurn(t) \/ RunTurn(t)
    \/ Interact

\* The event loops run, files are written, messages arrive, and every turn
\* that was started comes to an end.  Nothing is assumed of the user.
PipelineFairness ==
    /\ WF_pipelineVars(HubStep)
    /\ \A t \in Turns : WF_pipelineVars(TakeCommand(t) \/ CreateTurn(t) \/ RunTurn(t))

PipelineSpec == PipelineInit /\ [][PipelineNext]_pipelineVars /\ PipelineFairness

-----------------------------------------------------------------------------
(* Properties *)

\* Every variable of the hub has the shape the code gives it (what the invariants
\* below presume; not among the properties of a run).
PipelineTypeOK ==
    /\ calls \in [Calls -> CallRecord]
    /\ requests \in [Turns -> Request]
    /\ commands \in Seq(Turns)
    /\ queued \in [Chats -> SUBSET Messages]
    /\ writeChain \in Seq(Append_)
    /\ consuming \in BOOLEAN
    /\ activeStatuses \in [Chats -> Status \cup {"idle"}]
    /\ previousStatuses \in [Chats -> Status \cup {"idle"}]
    /\ recentlyStarted \in SUBSET Chats
    /\ resumes \in SUBSET Delegations

\* No message is the content of two turns: a drain takes the queue exactly once.
StartedAtMostOnce ==
    \A t, u \in Turns :
        /\ requests[t].reply = "ok" /\ requests[u].reply = "ok"
        /\ requests[t].content \cap requests[u].content # {}
        => t = u

\* A message the hub answered "queued" to is in the queue, on its way into it,
\* held by a drain, or part of a turn that was started: it is never dropped.
NoQueuedMessageLost ==
    \A m \in Messages : calls[m].state = "queued" =>
        \/ m \in queued[calls[m].chat]
        \/ \E i \in DOMAIN writeChain : m \in writeChain[i].content
        \/ \E d \in Drains : calls[d].state # "idle" /\ m \in calls[d].content
        \/ \E t \in Turns : requests[t].reply = "ok" /\ m \in requests[t].content

\* While a Codex turn whose start was accepted is running, the hub knows its
\* chat is busy, so that a second message is queued and not sent, or it has yet
\* to read the very event that will tell it so.
BusyOrAnnounced ==
    \A t \in Turns :
        (IsCodex(t) /\ requests[t].outcome = "accepted" /\ Live(t)) =>
            \/ hasActiveOrJustStartedTurn(turns[t].chat)
            \/ \E i \in DOMAIN events : events[i].by = t /\ events[i].type = "status_change"

\* Once the hub has applied all that was published, it shows the status of the
\* chat's turn and of no other, plan follow-ups included.
StatusAgrees ==
    (events = <<>> /\ ~consuming) => \A c \in CodexChats :
        activeStatuses[c] =
            IF activeTurns[c] # NoTurn THEN turns[activeTurns[c]].status
            ELSE IF \E t \in Turns : /\ turns[t].chat = c /\ turns[t].isFollowUp
                                     /\ turns[t].phase = "creating"
            THEN "running"
            ELSE "idle"

\* What send, queue and the drains decide on, which is whether a chat is busy, is right
\* or about to be.
HubKnows == BusyOrAnnounced /\ StatusAgrees

\* Every chat.send and chat.queue is answered, and no drain stays half done:
\* neither the write chain nor a busy or silent runner leaves one waiting.
EveryCallSettles ==
    /\ \A m \in Messages :
          calls[m].state # "idle" ~> (calls[m].state # "idle" /\ Replied(m))
    /\ \A d \in Drains : calls[d].state # "idle" ~> calls[d].state = "idle"

\* A turn that is queued while its chat is idle does not stay in the queue.
QueueDrains ==
    \A c \in Chats :
        (queued[c] # {} /\ activeStatuses[c] = "idle")
            ~> (queued[c] = {} \/ activeStatuses[c] # "idle")

=============================================================================
