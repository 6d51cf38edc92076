--------------------------- MODULE TranscriptView ---------------------------
(***************************************************************************)
(* The transcript a tab shows: the effect of useTranscriptLifecycle        *)
(* (src/client/app/useTranscriptLifecycle.ts) with the cache of            *)
(* src/client/app/chatCache.ts, against the hub's chat snapshots           *)
(* (src/server/nats-publisher.ts), chat.getRenderUnits                     *)
(* (src/server/nats-responders.ts) and the stream of message events.       *)
(*                                                                         *)
(* A transcript is the chat it is of and how many of its entries it has;   *)
(* chats are shorter than the window of 200 entries, so a fetch returns    *)
(* what there is when the hub handles it.  Snapshots and replies come in   *)
(* the order the hub sent them; message events come by JetStream, in no    *)
(* order with the others.  A visit is one run of the effect: of a chat, or *)
(* of the same chat again after a resume.                                  *)
(***************************************************************************)
EXTENDS Naturals, Sequences

CONSTANTS
    Viewable,       \* the chats there are
    MaxVisits,      \* bounds the runs of the effect
    MaxEntries,     \* bounds the entries of a chat
    First,          \* the chat the tab was opened on
    NoneShown

ASSUME ViewConstants == First \in Viewable /\ NoneShown \notin Viewable /\ {MaxVisits, MaxEntries} \subseteq Nat \ {0}

VARIABLES
    visit,          \* the current run: its number, chat and local variables
    screen,         \* messages, with messagesChatIdRef and chatReady
    cache,          \* chatCache: what is kept of each chat
    fetches,        \* fetchRenderWindow calls in flight
    inbox,          \* snapshots and replies on their way to the tab
    hub             \* entries of each chat; whether a broadcast is due; the visit subscribed

viewVars == <<visit, screen, cache, fetches, inbox, hub>>

Transcript == [chat: Viewable \cup {NoneShown}, upto: 0..MaxEntries]
Nothing    == [chat |-> NoneShown, upto |-> 0]
Message    == [kind: {"snapshot", "reply"}, visit: 0..MaxVisits, chat: Viewable, upto: 0..MaxEntries]
Fetch      == [visit: 1..MaxVisits, chat: Viewable, source: {"snapshot_recovery", "live_event"}]

\* The tab was opened on some chat.
ViewInit ==
    /\ visit = [number |-> 1, chat |-> First, asked |-> TRUE, applied |-> FALSE, timer |-> TRUE,
                fetchTriggered |-> FALSE, events |-> 0, raf |-> FALSE]
    /\ screen = [owner |-> NoneShown, shown |-> Nothing, ready |-> FALSE]
    /\ cache = [c \in Viewable |-> Nothing]
    /\ fetches = {} /\ inbox = <<>>
    /\ hub = [entries |-> [c \in Viewable |-> 1], due |-> {}, subscribed |-> 0]

-----------------------------------------------------------------------------
(* The effect and its cleanup *)

\* The cleanup keeps what the screen shows, if it is known to be of the chat left.
CacheOnLeave ==
    IF visit.chat # NoneShown /\ screen.owner = visit.chat /\ screen.shown.upto > 0
    THEN [cache EXCEPT ![visit.chat] = screen.shown] ELSE cache

\* The next run: with what the cache has, or empty and with the recovery timer.
\* (The branch that keeps the messages of the same chat is never taken: the
\* cleanup has just cached them.)
Visit(c) ==
    /\ visit.number < MaxVisits
    /\ LET kept == CacheOnLeave[c]
       IN /\ cache' = CacheOnLeave
          /\ screen' = IF kept # Nothing THEN [owner |-> c, shown |-> kept, ready |-> TRUE]
                       ELSE [owner |-> NoneShown, shown |-> Nothing, ready |-> FALSE]
          /\ visit' = [number |-> visit.number + 1, chat |-> c, asked |-> TRUE, applied |-> FALSE,
                       timer |-> kept = Nothing, fetchTriggered |-> FALSE, events |-> 0, raf |-> FALSE]
    /\ hub' = [hub EXCEPT !.subscribed = 0]
    /\ UNCHANGED <<fetches, inbox>>

\* A route without a chat.
LeaveChats ==
    /\ visit.chat # NoneShown
    /\ cache' = CacheOnLeave
    /\ screen' = [owner |-> NoneShown, shown |-> Nothing, ready |-> TRUE]
    /\ visit' = [visit EXCEPT !.chat = NoneShown, !.asked = FALSE, !.timer = FALSE, !.events = 0, !.raf = FALSE]
    /\ hub' = [hub EXCEPT !.subscribed = 0]
    /\ UNCHANGED <<fetches, inbox>>

\* useAppState: the connection is lost; handleDeleteChat, for one chat.
ForgetCached(cs) ==
    /\ cache' = [c \in Viewable |-> IF c \in cs THEN Nothing ELSE cache[c]]
    /\ UNCHANGED <<visit, screen, fetches, inbox, hub>>

\* cancelled: the run it belongs to is over.
Cancelled(v) == v # visit.number \/ visit.chat = NoneShown

-----------------------------------------------------------------------------
(* What the tab is sent *)

\* Fault seeded in ApplyRenderUnits: the check of cancelled is left out.
ApplyRenderUnitsAlways(v, c, n) ==
    [owner |-> c, shown |-> [chat |-> c, upto |-> n], ready |-> TRUE]

\* A snapshot of a run that is over is ignored.  A fetch that is answered sets
\* chatReady even then.
ApplyRenderUnits(v, c, n) ==
    IF Cancelled(v) THEN screen ELSE [owner |-> c, shown |-> [chat |-> c, upto |-> n], ready |-> TRUE]

\* Fault seeded in SnapshotArrives: only the first snapshot of a run is applied.
SnapshotArrivesOnce ==
    /\ inbox # <<>> /\ Head(inbox).kind = "snapshot"
    /\ LET m == Head(inbox)
       IN /\ screen' = IF visit.applied THEN screen ELSE ApplyRenderUnits(m.visit, m.chat, m.upto)
          /\ visit' = IF Cancelled(m.visit) THEN visit ELSE [visit EXCEPT !.applied = TRUE]
    /\ inbox' = Tail(inbox)
    /\ UNCHANGED <<cache, fetches, hub>>

SnapshotArrives ==
    /\ inbox # <<>> /\ Head(inbox).kind = "snapshot"
    /\ LET m == Head(inbox)
       IN /\ screen' = ApplyRenderUnits(m.visit, m.chat, m.upto)
          /\ visit' = IF Cancelled(m.visit) THEN visit ELSE [visit EXCEPT !.applied = TRUE]
    /\ inbox' = Tail(inbox)
    /\ UNCHANGED <<cache, fetches, hub>>

FetchAnswered ==
    /\ inbox # <<>> /\ Head(inbox).kind = "reply"
    /\ LET m == Head(inbox)
       IN /\ screen' = [ApplyRenderUnits(m.visit, m.chat, m.upto) EXCEPT !.ready = TRUE]
          /\ visit' = IF Cancelled(m.visit) THEN visit ELSE [visit EXCEPT !.applied = TRUE]
    /\ inbox' = Tail(inbox)
    /\ UNCHANGED <<cache, fetches, hub>>

\* A fetch fails: a recovery then shows an empty transcript, unless the socket
\* was not connected; a live event's is dropped.
FetchFails(f, connected) ==
    /\ f \in fetches /\ fetches' = fetches \ {f}
    /\ IF f.source = "live_event" THEN UNCHANGED <<screen, visit>>
       ELSE IF ~connected
            THEN /\ visit' = IF Cancelled(f.visit) THEN visit ELSE [visit EXCEPT !.fetchTriggered = FALSE]
                 /\ UNCHANGED screen
            ELSE /\ screen' = [ApplyRenderUnits(f.visit, f.chat, 0) EXCEPT !.ready = TRUE]
                 /\ visit' = IF Cancelled(f.visit) THEN visit ELSE [visit EXCEPT !.applied = TRUE]
    /\ UNCHANGED <<cache, inbox, hub>>

\* A message event: one frame later everything is fetched, once for all the
\* events of that frame.
EventArrives ==
    /\ visit.events > 0
    /\ visit' = [visit EXCEPT !.events = @ - 1, !.raf = TRUE]
    /\ UNCHANGED <<screen, cache, fetches, inbox, hub>>

FrameFetches ==
    /\ visit.raf
    /\ visit' = [visit EXCEPT !.raf = FALSE]
    /\ fetches' = fetches \cup {[visit |-> visit.number, chat |-> visit.chat, source |-> "live_event"]}
    /\ UNCHANGED <<screen, cache, inbox, hub>>

\* The recovery timer fires once, five seconds into the run.
RecoveryTimer ==
    /\ visit.timer
    /\ LET fetch == ~visit.applied /\ ~visit.fetchTriggered
       IN /\ visit' = [visit EXCEPT !.timer = FALSE, !.fetchTriggered = @ \/ fetch]
          /\ fetches' = IF fetch THEN fetches \cup {[visit |-> visit.number, chat |-> visit.chat,
                                                     source |-> "snapshot_recovery"]}
                        ELSE fetches
    /\ UNCHANGED <<screen, cache, inbox, hub>>

-----------------------------------------------------------------------------
(* The hub *)

Sent(kind, v, c) == Append(inbox, [kind |-> kind, visit |-> v, chat |-> c, upto |-> hub.entries[c]])

\* snapshot.subscribe: the topic is tracked and its snapshot is the reply; the
\* JetStream consumer of the run is taken to be there when the reply is.
SubscribeHandled ==
    /\ visit.asked
    /\ visit' = [visit EXCEPT !.asked = FALSE]
    /\ hub' = [hub EXCEPT !.subscribed = visit.number]
    /\ inbox' = Sent("snapshot", visit.number, visit.chat)
    /\ UNCHANGED <<screen, cache, fetches>>

\* The request fails: that is logged.
SubscribeFails ==
    /\ visit.asked
    /\ visit' = [visit EXCEPT !.asked = FALSE]
    /\ UNCHANGED <<screen, cache, fetches, inbox, hub>>

FetchHandled(f) ==
    /\ f \in fetches /\ fetches' = fetches \ {f}
    /\ inbox' = Sent("reply", f.visit, f.chat)
    /\ UNCHANGED <<visit, screen, cache, hub>>

\* A turn of the chat adds an entry; when it ends, its snapshot is broadcast.
EntryAppended(c) ==
    /\ hub.entries[c] < MaxEntries
    /\ hub' = [hub EXCEPT !.entries[c] = @ + 1, !.due = @ \cup {c}]
    /\ visit' = IF hub.subscribed # 0 /\ visit.chat = c THEN [visit EXCEPT !.events = @ + 1] ELSE visit
    /\ UNCHANGED <<screen, cache, fetches, inbox>>

TurnEndBroadcast(c) ==
    /\ c \in hub.due
    /\ hub' = [hub EXCEPT !.due = @ \ {c}]
    /\ inbox' = IF hub.subscribed # 0 /\ visit.chat = c THEN Sent("snapshot", hub.subscribed, c) ELSE inbox
    /\ UNCHANGED <<visit, screen, cache, fetches>>

ViewStep ==
    \/ \E c \in Viewable : Visit(c) \/ EntryAppended(c) \/ TurnEndBroadcast(c) \/ ForgetCached({c})
    \/ LeaveChats \/ ForgetCached(Viewable)
    \/ SnapshotArrives \/ FetchAnswered \/ EventArrives \/ FrameFetches \/ RecoveryTimer
    \/ SubscribeHandled \/ SubscribeFails
    \/ \E f \in fetches : FetchHandled(f) \/ \E connected \in BOOLEAN : FetchFails(f, connected)

ViewSpec == ViewInit /\ [][ViewStep]_viewVars

-----------------------------------------------------------------------------
(* Properties *)

\* The local variables of the effect, the screen, the cache and what is on its way.
ViewTypeOK ==
    /\ visit \in [number: 0..MaxVisits, chat: Viewable \cup {NoneShown}, asked: BOOLEAN, applied: BOOLEAN,
                  timer: BOOLEAN, fetchTriggered: BOOLEAN, events: 0..MaxEntries, raf: BOOLEAN]
    /\ screen \in [owner: Viewable \cup {NoneShown}, shown: Transcript, ready: BOOLEAN]
    /\ cache \in [Viewable -> Transcript]
    /\ fetches \subseteq Fetch /\ \A i \in DOMAIN inbox : inbox[i] \in Message
    /\ hub \in [entries: [Viewable -> 0..MaxEntries], due: SUBSET Viewable, subscribed: 0..MaxVisits]

\* However quickly the user goes from chat to chat, whatever answers come late:
\* the screen shows the chat it is on or nothing, and the cache keeps under each
\* chat a transcript of that chat.
EachChatItsOwn ==
    /\ screen.shown.chat \in {NoneShown, visit.chat}
    /\ \A c \in Viewable : cache[c].chat \in {NoneShown, c}

\* Whatever order snapshots, fetches and events come in: once all have come and
\* the turn's end was broadcast, a chat that is subscribed shows every entry,
\* unless its recovery fetch failed and wiped the screen after the snapshot.
CompleteWhenQuiet ==
    (/\ visit.chat # NoneShown /\ hub.subscribed = visit.number /\ inbox = <<>> /\ fetches = {}
     /\ visit.events = 0 /\ ~visit.raf /\ visit.chat \notin hub.due)
    => screen.shown.upto \in {hub.entries[visit.chat]} \cup (IF visit.fetchTriggered THEN {0} ELSE {})

\* The screen is of its chat at any time, and shows all of it in the end.
ShowsItsChat == EachChatItsOwn /\ CompleteWhenQuiet
=============================================================================
