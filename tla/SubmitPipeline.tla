--------------------------- MODULE SubmitPipeline ---------------------------
(***************************************************************************)
(* The messages of one chat on their way from the composers of several     *)
(* tabs to turns: handleSubmitFromComposer and the submit pipeline of a    *)
(* tab (src/client/app/useChatCommands.ts, useAppState.machine.ts), and    *)
(* RunnerProxy's send, queue and drainQueuedTurn with the queued turn of   *)
(* the EventStore.  Texts are sequences of messages.  What the runner does *)
(* with a turn is TurnPipeline's subject; here it runs and ends.           *)
(***************************************************************************)
EXTENDS Naturals, Sequences, SequencesExt

CONSTANTS
    Tabs,           \* browser tabs showing the chat
    MaxMessages     \* bound on the messages typed

ASSUME SubmitConstants == MaxMessages \in Nat \ {0}

VARIABLES
    tabs,           \* per tab: composer, submit pipeline of the chat, status shown
    calls,          \* chat.send and chat.queue calls under way
    queuedTurn,     \* queuedTurnsByChat: the text, and the text a drain has taken out
    turn,           \* the runner's turn; what the hub knows of it
    sight,          \* per tab: a published chat snapshot on its way
    typed,          \* messages typed so far
    acked,          \* messages of calls answered with success
    begun           \* messages some turn was started with

submitVars == <<tabs, calls, queuedTurn, turn, sight, typed, acked, begun>>

NoSnapshot == [busy |-> FALSE, queued |-> <<0>>]

SubmitInit ==
    /\ tabs = [t \in Tabs |-> [composer |-> <<>>, queued |-> <<>>, inFlight |-> FALSE,
                               awaitingBusy |-> FALSE, busy |-> FALSE]]
    /\ calls = {}
    /\ queuedTurn = [text |-> <<>>, draining |-> <<>>]
    /\ turn = [running |-> FALSE, observed |-> FALSE, recent |-> FALSE]
    /\ sight = [t \in Tabs |-> NoSnapshot]
    /\ typed = 0 /\ acked = {} /\ begun = {}

\* shouldQueueChatSubmit, or the pipeline is flushing or awaits the busy status.
Queues(tab) == tab.busy \/ tab.queued # <<>> \/ tab.inFlight \/ tab.awaitingBusy

\* handleSubmit: another message is typed and all of the composer is submitted.  The
\* text queued so far goes with a chat.queue.
SubmitMessage(t) ==
    /\ typed < MaxMessages
    /\ typed' = typed + 1
    /\ LET raw == Append(tabs[t].composer, typed')
           all == tabs[t].queued \o raw
           Call(kind, text) == [tab |-> t, raw |-> raw, at |-> "sent", kind |-> kind, text |-> text]
       IN IF Queues(tabs[t])
          THEN /\ calls' = calls \union {Call("queue", all)}
               /\ tabs' = [tabs EXCEPT ![t].composer = <<>>, ![t].queued = all]
          ELSE /\ calls' = calls \union {Call("send", raw)}
               /\ tabs' = [tabs EXCEPT ![t].composer = <<>>, ![t].inFlight = TRUE,
                                       ![t].awaitingBusy = FALSE]
    /\ UNCHANGED <<queuedTurn, turn, sight, acked, begun>>

HubBusy == turn.observed \/ turn.recent

\* chat_turn_queued: a new text goes after the one that waits.
Coalesced(text) == [queuedTurn EXCEPT !.text = @ \o text]

Moved(call, at) == calls' = (calls \ {call}) \union {[call EXCEPT !.at = at]}

\* The hub takes up a call; each type of command is handled one at a time.
HubTakesUp(call) ==
    /\ call.at = "sent"
    /\ ~\E c \in calls : c.kind = call.kind /\ c.at = "starting"
    /\ IF call.kind = "queue" /\ HubBusy
       THEN /\ queuedTurn' = Coalesced(call.text)
            /\ acked' = acked \union ToSet(call.text)
            /\ Moved(call, "queued")
       ELSE Moved(call, "starting") /\ UNCHANGED <<queuedTurn, acked>>
    /\ UNCHANGED <<tabs, turn, sight, typed, begun>>

\* start_turn is answered: the runner takes a turn unless it runs one, or it fails.
TurnBegins(text) ==
    /\ ~turn.running
    /\ begun' = begun \union ToSet(text)

StartAnswered(call, ok) ==
    /\ call.at = "starting"
    /\ IF ok
       THEN /\ TurnBegins(call.text)
            /\ turn' = [turn EXCEPT !.running = TRUE, !.recent = TRUE]
            /\ acked' = acked \union ToSet(call.text)
            /\ Moved(call, "started")
       ELSE Moved(call, "failed") /\ UNCHANGED <<turn, acked, begun>>
    /\ UNCHANGED <<tabs, queuedTurn, sight, typed>>

\* The status of the turn reaches the hub.
TurnSeen ==
    /\ turn.running /\ ~turn.observed
    /\ turn' = [turn EXCEPT !.observed = TRUE]
    /\ UNCHANGED <<tabs, calls, queuedTurn, sight, typed, acked, begun>>

\* The turn ends and the hub drains: what is queued leaves the store, to be sent.
TurnEnds ==
    /\ turn.running /\ turn.observed /\ queuedTurn.draining = <<>>
    /\ turn' = [running |-> FALSE, observed |-> FALSE, recent |-> FALSE]
    /\ queuedTurn' = [text |-> <<>>, draining |-> queuedTurn.text]
    /\ UNCHANGED <<tabs, calls, sight, typed, acked, begun>>

\* Fault seeded in DrainAnswered: a text that could not be sent is not put back.
DrainAnsweredDropped(ok) ==
    /\ queuedTurn.draining # <<>>
    /\ IF ok
       THEN /\ TurnBegins(queuedTurn.draining)
            /\ turn' = [turn EXCEPT !.running = TRUE, !.recent = TRUE]
       ELSE UNCHANGED <<turn, begun>>
    /\ queuedTurn' = [queuedTurn EXCEPT !.draining = <<>>]
    /\ UNCHANGED <<tabs, calls, sight, typed, acked>>

\* The send of drainQueuedTurn ends; after a failure the text is queued again.
DrainAnswered(ok) ==
    /\ queuedTurn.draining # <<>>
    /\ IF ok
       THEN /\ TurnBegins(queuedTurn.draining)
            /\ turn' = [turn EXCEPT !.running = TRUE, !.recent = TRUE]
            /\ queuedTurn' = [queuedTurn EXCEPT !.draining = <<>>]
       ELSE /\ queuedTurn' = [Coalesced(queuedTurn.draining) EXCEPT !.draining = <<>>]
            /\ UNCHANGED <<turn, begun>>
    /\ UNCHANGED <<tabs, calls, sight, typed, acked>>

\* The answer of a call reaches its tab.  A failed submit puts its text into the composer.
CallReturns(call) ==
    /\ call.at \in {"queued", "started", "failed"}
    /\ calls' = calls \ {call}
    /\ tabs' = [tabs EXCEPT ![call.tab] =
          CASE call.kind = "send" /\ call.at = "started" ->
                    [@ EXCEPT !.inFlight = FALSE, !.awaitingBusy = TRUE]
            [] call.kind = "send" /\ call.at = "failed" ->
                    [@ EXCEPT !.inFlight = FALSE, !.awaitingBusy = FALSE, !.composer = call.raw]
            [] call.kind = "queue" /\ call.at = "started" ->
                    [@ EXCEPT !.queued = <<>>, !.awaitingBusy = FALSE]
            [] call.kind = "queue" /\ call.at = "failed" -> [@ EXCEPT !.composer = call.raw]
            [] OTHER -> @]
    /\ UNCHANGED <<queuedTurn, turn, sight, typed, acked, begun>>

\* A chat snapshot is published to a tab.
SnapshotPublished(t) ==
    /\ sight[t] = NoSnapshot
    /\ sight' = [sight EXCEPT ![t] = [busy |-> turn.observed, queued |-> queuedTurn.text]]
    /\ UNCHANGED <<tabs, calls, queuedTurn, turn, typed, acked, begun>>

\* updateSubmitPipelineFromSnapshot: a busy chat with nothing queued keeps what the
\* tab has queued; an idle one clears it.
SnapshotShown(t) ==
    /\ sight[t] # NoSnapshot
    /\ LET s == sight[t]
           tab == [tabs[t] EXCEPT !.busy = s.busy, !.awaitingBusy = @ /\ ~s.busy]
       IN tabs' = [tabs EXCEPT ![t] =
             IF s.queued # <<>> THEN [tab EXCEPT !.queued = s.queued]
             ELSE IF ~s.busy THEN [tab EXCEPT !.queued = <<>>, !.awaitingBusy = FALSE]
             ELSE tab]
    /\ sight' = [sight EXCEPT ![t] = NoSnapshot]
    /\ UNCHANGED <<calls, queuedTurn, turn, typed, acked, begun>>

\* ArrowUp takes the queued text into an empty composer, Clear drops it: in the tab alone.
QueuedTaken(t, keep) ==
    /\ tabs[t].queued # <<>> /\ (keep => tabs[t].composer = <<>>)
    /\ tabs' = [tabs EXCEPT ![t].queued = <<>>, ![t].awaitingBusy = FALSE,
                            ![t].composer = IF keep THEN tabs[t].queued ELSE @]
    /\ UNCHANGED <<calls, queuedTurn, turn, sight, typed, acked, begun>>

SubmitStep ==
    \/ \E t \in Tabs : \/ SubmitMessage(t) \/ SnapshotPublished(t) \/ SnapshotShown(t)
                       \/ \E keep \in BOOLEAN : QueuedTaken(t, keep)
    \/ \E call \in calls : \/ HubTakesUp(call) \/ CallReturns(call)
                           \/ \E ok \in BOOLEAN : StartAnswered(call, ok)
    \/ TurnSeen \/ TurnEnds \/ \E ok \in BOOLEAN : DrainAnswered(ok)

SubmitSpec == SubmitInit /\ [][SubmitStep]_submitVars

-----------------------------------------------------------------------------
(* Properties *)

Text == Seq(1..MaxMessages)

\* Texts are of messages that were typed; a call is where its two ends know it to be.
SubmitTypeOK ==
    /\ tabs \in [Tabs -> [composer: Text, queued: Text, inFlight: BOOLEAN,
                          awaitingBusy: BOOLEAN, busy: BOOLEAN]]
    /\ \A c \in calls :
          /\ c.at \in {"sent", "starting", "queued", "started", "failed"}
          /\ {c.raw, c.text} \subseteq Text /\ c.tab \in Tabs
    /\ queuedTurn \in [text: Text, draining: Text]
    /\ turn \in [running: BOOLEAN, observed: BOOLEAN, recent: BOOLEAN]
    /\ {acked, begun} \subseteq SUBSET (1..typed)

\* A message whose submit was answered with success is in a turn or still queued,
\* however the calls of one tab overlap, whatever it takes back or clears of what it
\* shows, and however often the start of the drained turn fails.
AckedIsKept == acked \subseteq begun \union ToSet(queuedTurn.text \o queuedTurn.draining)
=============================================================================
