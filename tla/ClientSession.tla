--------------------------- MODULE ClientSession ---------------------------
(***************************************************************************)
(* One browser tab's subscriptions to one topic: NatsSocket                *)
(* (src/client/app/nats-socket.ts) with the hub's publisher                *)
(* (src/server/nats-publisher.ts) and the two responders it calls          *)
(* (src/server/nats-responders.ts).  NATS and its client library are       *)
(* external: core NATS keeps the order of a connection's messages and      *)
(* loses those sent while the connection is down; the library reconnects   *)
(* the connection object by itself.                                        *)
(*                                                                         *)
(* A snapshot is the version of the topic it was derived from, computed    *)
(* and published in one step, as it is for all topics but one.  The reads  *)
(* of a chat's are awaited (nats-publisher.ts:121), and of two rounds the  *)
(* older may then publish last: that is left out.  Payloads are taken to   *)
(* be small (no DecompressionStream), so they are applied in the order of  *)
(* their arrival, and every subscribe request is answered unless the hub   *)
(* restarts.                                                               *)
(***************************************************************************)
EXTENDS Naturals, SequencesExt

CONSTANTS
    Subs,           \* the subscription ids nextId() gives, in order
    Conns,          \* bounds the wsconnect calls
    MaxVersion,     \* bounds the changes of the topic's data
    MaxOutages      \* bounds the lost connections and hub restarts

ASSUME SessionConstants ==
    /\ Subs \subseteq Nat \ {0} /\ Conns \subseteq Nat \ {0} /\ IsFiniteSet(Subs) /\ IsFiniteSet(Conns)
    /\ {MaxVersion, MaxOutages} \subseteq Nat

VARIABLES
    socket,         \* nc, currentStatus, reconnectTimer, reconnecting, resetConnection
    conns,          \* the connection objects of wsconnect
    entries,        \* subscriptions: whether each id has an entry, its natsSubscription
    attached,       \* the NATS subscriptions that exist: which entry is fed by which connection
    requests,       \* snapshot.subscribe and .unsubscribe, not yet handled by the hub
    publisher,      \* activeSubscriptions and lastJsonByKey, the topic's data
    wire,           \* the messages of each connection, in order
    view,           \* what the listener of each subscription was last given
    outages

clientVars == <<socket, conns, entries, attached, requests, publisher, wire, view, outages>>

Versions == 0..MaxVersion
NoConn   == 0
Unseen   == MaxVersion + 1    \* no version: never published, never shown

\* "back": the transport is back, the "reconnect" status not yet handled.
ConnStates == {"unused", "connecting", "open", "lost", "back", "closed"}
Request_   == [op: {"subscribe", "unsubscribe"}, sub: Subs, conn: Conns]

ClientInit ==
    /\ socket = [nc |-> NoConn, status |-> "connecting", timer |-> FALSE,
                 reconnecting |-> FALSE, closing |-> NoConn]
    /\ conns = [c \in Conns |-> IF c = 1 THEN "connecting" ELSE "unused"]
    /\ entries = [s \in Subs |-> [state |-> "unused", on |-> NoConn]]
    /\ attached = {} /\ requests = {}
    /\ publisher = [tracked |-> {}, last |-> Unseen, data |-> 0, dirty |-> FALSE]
    /\ wire = [c \in Conns |-> <<>>]
    /\ view = [s \in Subs |-> Unseen]
    /\ outages = 0

LiveSubs == {s \in Subs : entries[s].state = "live"}
Up      == {c \in Conns : conns[c] \in {"open", "back"}}
Unused  == {c \in Conns : conns[c] = "unused" /\ \A d \in Conns : d < c => conns[d] # "unused"}

-----------------------------------------------------------------------------
(* The tab: activating subscriptions *)

\* activateSubscription of each of subs on conn c; the command goes out on nc.
Activate(subs, c, nc, kept) ==
    /\ entries' = [s \in Subs |-> IF s \in subs THEN [state |-> "live", on |-> c] ELSE entries[s]]
    /\ attached' = kept \cup {<<c, s>> : s \in subs}
    /\ requests' = IF nc = NoConn THEN requests
                   ELSE requests \cup {[op |-> "subscribe", sub |-> s, conn |-> nc] : s \in subs}

Detached(subs) == attached \ {<<entries[s].on, s>> : s \in subs}

Subscribe(s) ==
    /\ entries[s].state = "unused" /\ \A r \in Subs : r < s => entries[r].state # "unused"
    /\ IF socket.nc # NoConn THEN Activate({s}, socket.nc, socket.nc, attached)
       ELSE /\ entries' = [entries EXCEPT ![s].state = "live"]
            /\ UNCHANGED <<attached, requests>>
    /\ UNCHANGED <<socket, conns, publisher, wire, view, outages>>

Unsubscribe(s) ==
    /\ s \in LiveSubs
    /\ attached' = Detached({s})
    /\ entries' = [entries EXCEPT ![s] = [state |-> "gone", on |-> NoConn]]
    /\ requests' = IF socket.nc = NoConn THEN requests
                   ELSE requests \cup {[op |-> "unsubscribe", sub |-> s, conn |-> socket.nc]}
    /\ UNCHANGED <<socket, conns, publisher, wire, view, outages>>

\* consumeMessages and the answer of snapshot.subscribe: the listener is called
\* while the id has an entry.
DeliverNext(c) ==
    /\ conns[c] \in {"open", "back"} /\ wire[c] # <<>>
    /\ LET m == Head(wire[c])
       IN view' = IF m.sub \in LiveSubs THEN [view EXCEPT ![m.sub] = m.version] ELSE view
    /\ wire' = [wire EXCEPT ![c] = Tail(@)]
    /\ UNCHANGED <<socket, conns, entries, attached, requests, publisher, outages>>

-----------------------------------------------------------------------------
(* The tab: connecting *)

BeginConnect(changed) ==
    \E c \in Unused : conns' = [changed EXCEPT ![c] = "connecting"]

\* Every entry is activated on the new connection, whether or not a subscription
\* of it on another one is still there.
Connected(c) ==
    /\ conns[c] = "connecting"
    /\ conns' = [conns EXCEPT ![c] = "open"]
    /\ socket' = [socket EXCEPT !.nc = c, !.status = "connected"]
    /\ Activate(LiveSubs, c, c, attached)
    /\ UNCHANGED <<publisher, wire, view, outages>>

ScheduleReconnect(sock) == IF sock.timer THEN sock
                           ELSE [sock EXCEPT !.timer = TRUE, !.reconnecting = TRUE]

ConnectFailed(c) ==
    /\ conns[c] = "connecting"
    /\ conns' = [conns EXCEPT ![c] = "closed"]
    /\ socket' = ScheduleReconnect([socket EXCEPT !.status = "disconnected"])
    /\ UNCHANGED <<entries, attached, requests, publisher, wire, view, outages>>

\* resetConnection, then a new connect: nothing is reset, the timer included, if
\* another reset awaits nc.close() already.
ResetAndConnect ==
    /\ IF socket.closing # NoConn
       THEN /\ BeginConnect(conns) /\ socket' = [socket EXCEPT !.status = "connecting"]
            /\ UNCHANGED <<entries, attached>>
       ELSE /\ attached' = Detached(Subs)
            /\ entries' = [s \in Subs |-> [entries[s] EXCEPT !.on = NoConn]]
            /\ IF socket.nc = NoConn
               THEN /\ BeginConnect(conns)
                    /\ socket' = [socket EXCEPT !.timer = FALSE, !.reconnecting = FALSE, !.status = "connecting"]
               ELSE /\ Unused # {} /\ UNCHANGED conns
                    /\ socket' = [socket EXCEPT !.timer = FALSE, !.reconnecting = FALSE,
                                                !.nc = NoConn, !.closing = socket.nc]
    /\ UNCHANGED <<requests, publisher, wire, view, outages>>

TimerFires == socket.timer /\ ResetAndConnect
\* ensureHealthyConnection, from usePwaResume.
PwaResumes == (socket.nc = NoConn \/ socket.status # "connected") /\ ResetAndConnect

NcClosed ==
    /\ socket.closing # NoConn
    /\ BeginConnect([conns EXCEPT ![socket.closing] = "closed"])
    /\ attached' = {p \in attached : p[1] # socket.closing}
    /\ wire' = [wire EXCEPT ![socket.closing] = <<>>]
    /\ socket' = [socket EXCEPT !.closing = NoConn, !.status = "connecting"]
    /\ UNCHANGED <<entries, requests, publisher, view, outages>>

\* Only the connection in use is watched (monitorStatus) once it has been replaced.
StatusOf(c, status) == IF c = socket.nc THEN [socket EXCEPT !.status = status] ELSE socket

ConnectionLost(c) ==
    /\ c \in Up /\ outages < MaxOutages
    /\ outages' = outages + 1
    /\ conns' = [conns EXCEPT ![c] = "lost"]
    /\ wire' = [wire EXCEPT ![c] = <<>>]
    /\ socket' = StatusOf(c, "connecting")
    /\ UNCHANGED <<entries, attached, requests, publisher, view>>

TransportBack(c) ==
    /\ conns[c] = "lost"
    /\ conns' = [conns EXCEPT ![c] = "back"]
    /\ UNCHANGED <<socket, entries, attached, requests, publisher, wire, view, outages>>

\* Fault seeded in Reactivated: the library's own resubscribing is taken to do.
ReactivatedByLibrary(c) ==
    /\ conns[c] = "back"
    /\ conns' = [conns EXCEPT ![c] = "open"]
    /\ socket' = StatusOf(c, "connected")
    /\ UNCHANGED <<entries, attached, requests, publisher, wire, view, outages>>

\* The status "reconnect": every entry is dropped and activated again.
Reactivated(c) ==
    /\ conns[c] = "back"
    /\ conns' = [conns EXCEPT ![c] = "open"]
    /\ IF socket.closing = c THEN UNCHANGED <<socket, entries, attached, requests>>
       ELSE socket' = StatusOf(c, "connected") /\ Activate(LiveSubs, c, socket.nc, Detached(LiveSubs))
    /\ UNCHANGED <<publisher, wire, view, outages>>

\* The library gives the connection up: the status loop ends.
ConnectionDies(c) ==
    /\ conns[c] = "lost"
    /\ conns' = [conns EXCEPT ![c] = "closed"]
    /\ attached' = {p \in attached : p[1] # c}
    /\ socket' = IF c # socket.nc \/ socket.reconnecting THEN socket
                 ELSE ScheduleReconnect([socket EXCEPT !.status = "disconnected"])
    /\ UNCHANGED <<entries, requests, publisher, wire, view, outages>>

-----------------------------------------------------------------------------
(* The hub *)

\* One message for each subscription, in any order: no two are for the same.
ToAll(version) ==
    [c \in Conns |-> IF c \notin Up THEN wire[c]
                     ELSE LET order == SetToSeq({s \in Subs : <<c, s>> \in attached})
                          IN wire[c] \o [i \in DOMAIN order |-> [sub |-> order[i], version |-> version]]]

\* publishSnapshot, which does not repeat itself.
Publish(pub) == IF pub.last = pub.data THEN wire ELSE ToAll(pub.data)
Published(pub) == [pub EXCEPT !.last = pub.data]

DataChanges ==
    /\ publisher.data < MaxVersion
    /\ publisher' = [publisher EXCEPT !.data = @ + 1, !.dirty = TRUE]
    /\ UNCHANGED <<socket, conns, entries, attached, requests, wire, view, outages>>

\* broadcastSnapshots: only the topics somebody subscribes to.
Broadcast ==
    /\ publisher.dirty
    /\ LET pub == [publisher EXCEPT !.dirty = FALSE]
       IN IF pub.tracked = {} THEN publisher' = pub /\ UNCHANGED wire
          ELSE publisher' = Published(pub) /\ wire' = Publish(pub)
    /\ UNCHANGED <<socket, conns, entries, attached, requests, view, outages>>

HandleSubscribe(r) ==
    LET pub == [publisher EXCEPT !.tracked = @ \cup {r.sub}]
        out == Publish(pub)
    IN /\ r.op = "subscribe" /\ requests' = requests \ {r}
       /\ publisher' = Published(pub)
       /\ wire' = IF r.conn \notin Up THEN out
                  ELSE [out EXCEPT ![r.conn] = Append(@, [sub |-> r.sub, version |-> pub.data])]
       /\ UNCHANGED <<socket, conns, entries, attached, view, outages>>

RemoveSubscription(id) ==
    LET left == publisher.tracked \ {id}
    IN [publisher EXCEPT !.tracked = left,
                         !.last = IF id \in publisher.tracked /\ left = {} THEN Unseen ELSE @]

HandleUnsubscribe(r) ==
    /\ r.op = "unsubscribe" /\ requests' = requests \ {r}
    /\ publisher' = RemoveSubscription(r.sub)
    /\ UNCHANGED <<socket, conns, entries, attached, wire, view, outages>>

\* The hub and its NATS daemon go down and come back with what is stored.
HubRestarts ==
    /\ outages < MaxOutages /\ outages' = outages + 1
    /\ conns' = [c \in Conns |-> IF c \in Up THEN "lost" ELSE conns[c]]
    /\ socket' = IF socket.nc \in Up THEN [socket EXCEPT !.status = "connecting"] ELSE socket
    /\ requests' = {} /\ wire' = [c \in Conns |-> <<>>]
    /\ publisher' = [publisher EXCEPT !.tracked = {}, !.last = Unseen, !.dirty = FALSE]
    /\ UNCHANGED <<entries, attached, view>>

\* A resume while a connect is in flight leaves two connections behind, which feed
\* the same listeners: a behaviour is followed until there are two.
TwoConnections == Cardinality({c \in Conns : conns[c] \notin {"unused", "closed"}}) > 1

ClientStep ==
    \/ \E s \in Subs : Subscribe(s) \/ Unsubscribe(s)
    \/ \E c \in Conns : \/ DeliverNext(c) \/ Connected(c) \/ ConnectFailed(c) \/ ConnectionLost(c)
                        \/ TransportBack(c) \/ Reactivated(c) \/ ConnectionDies(c)
    \/ TimerFires \/ PwaResumes \/ NcClosed
    \/ DataChanges \/ Broadcast \/ HubRestarts
    \/ \E r \in requests : HandleSubscribe(r) \/ HandleUnsubscribe(r)

ClientNext == ~TwoConnections /\ ClientStep

ClientSpec == ClientInit /\ [][ClientNext]_clientVars

-----------------------------------------------------------------------------
(* Properties *)

\* The fields of NatsSocket and of the publisher, and what lies on the wire.
ClientTypeOK ==
    /\ socket \in [nc: Conns \cup {NoConn}, status: {"connected", "connecting", "disconnected"},
                   timer: BOOLEAN, reconnecting: BOOLEAN, closing: Conns \cup {NoConn}]
    /\ conns \in [Conns -> ConnStates]
    /\ entries \in [Subs -> [state: {"unused", "live", "gone"}, on: Conns \cup {NoConn}]]
    /\ attached \subseteq Conns \X Subs /\ requests \subseteq Request_
    /\ publisher \in [tracked: SUBSET Subs, last: Versions \cup {Unseen}, data: Versions, dirty: BOOLEAN]
    /\ \A c \in Conns : \A i \in DOMAIN wire[c] : wire[c][i] \in [sub: Subs, version: Versions]
    /\ view \in [Subs -> Versions \cup {Unseen}] /\ outages \in 0..MaxOutages

Settled ==
    /\ ~publisher.dirty /\ requests = {} /\ \A c \in Conns : wire[c] = <<>>
    /\ socket.nc \in Up /\ socket.closing = NoConn
    /\ \A c \in Conns : conns[c] \in {"unused", "open", "closed"}

\* Whatever connections were lost, hubs restarted and subscriptions of the same
\* topic came and went: once everything is delivered, every subscription of the
\* tab shows the topic as it is (unless it has two connections: their messages are
\* not ordered with each other).
ViewsCatchUp == Settled /\ ~TwoConnections => \A s \in LiveSubs : view[s] = publisher.data
=============================================================================
