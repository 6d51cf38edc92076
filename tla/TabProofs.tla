----------------------------- MODULE TabProofs -----------------------------
(***************************************************************************)
(* Proofs about what a browser tab is told: the views of a topic, for any  *)
(* subscriptions and connections; the transcript shown, for any chats,     *)
(* visits and entries; and the submits of the composers, for any tabs and  *)
(* messages; and about MCClient, which puts the parts of a tab side by     *)
(* side.                                                                   *)
(***************************************************************************)
EXTENDS MCClient, ClientProofs, NavigationProofs

-----------------------------------------------------------------------------
(* The connection: what a tab shows of a topic *)

Arrival == [sub: Subs, version: Versions]

\* What the variables are.
ClientTyped == ClientTypeOK /\ wire \in [Conns -> Seq(Arrival)]

\* The last message for s on a connection is of version v; where there is none, s shows v.
Ends(s, w, shown, v) ==
    /\ \A i \in 1..Len(w) : w[i].sub = s /\ (\A j \in 1..Len(w) : j > i => w[j].sub # s) => w[i].version = v
    /\ (\A i \in 1..Len(w) : w[i].sub # s) => shown = v

\* What is being closed, or in use, was connected once, and is not both.
ConnsInv ==
    /\ socket.nc # NoConn => conns[socket.nc] \notin {"unused", "connecting"}
    /\ socket.closing # NoConn => /\ conns[socket.closing] \notin {"unused", "connecting"}
                                  /\ socket.closing # socket.nc

\* The publisher remembers what it last sent while somebody subscribes, which is the
\* data unless a broadcast is due.
PublisherInv ==
    /\ publisher.tracked = {} <=> publisher.last = Unseen
    /\ ~publisher.dirty => publisher.last \in {publisher.data, Unseen}

\* Only a subscription that is gone is unsubscribed.
RequestsInv == \A r \in requests : r.op = "unsubscribe" => entries[r.sub].state = "gone"

\* On a connection that is in use each subscription is fed, and its request is on its
\* way or it will show what was sent last.
ServedOn(c) ==
    \A s \in LiveSubs :
        /\ <<c, s>> \in attached
        /\ \/ [op |-> "subscribe", sub |-> s, conn |-> c] \in requests
           \/ s \in publisher.tracked /\ Ends(s, wire[c], view[s], publisher.last)

ServedInv ==
    ~TwoConnections /\ socket.nc \in Conns /\ conns[socket.nc] = "open" => ServedOn(socket.nc)

\* The inductive invariant of the connection.
ClientInv == ClientTyped /\ ConnsInv /\ PublisherInv /\ RequestsInv /\ ServedInv

\* One more message.
LEMMA EndsAppend ==
    ASSUME NEW w \in Seq(Arrival), NEW m \in Arrival, NEW s, NEW shown, NEW v
    PROVE  /\ s = m.sub => Ends(s, Append(w, m), shown, m.version)
           /\ s # m.sub /\ Ends(s, w, shown, v) => Ends(s, Append(w, m), shown, v)
<1> DEFINE x == Append(w, m)
<1>1. /\ Len(x) = Len(w) + 1 /\ Len(w) \in Nat /\ x[Len(w) + 1] = m
      /\ \A i \in 1..Len(w) : x[i] = w[i]
  OBVIOUS
<1> HIDE DEF x
<1>2. ASSUME s = m.sub PROVE Ends(s, x, shown, m.version)
  BY <1>1, <1>2 DEF Ends
<1>3. ASSUME s # m.sub, Ends(s, w, shown, v) PROVE Ends(s, x, shown, v)
  BY <1>1, <1>3 DEF Ends
<1> QED BY <1>2, <1>3 DEF x

\* Messages of one version, one of them for s.
LEMMA EndsMany ==
    ASSUME NEW w \in Seq(Arrival), NEW x \in Seq(Arrival), NEW s, NEW shown, NEW v,
           \A i \in 1..Len(x) : x[i].version = v, \E i \in 1..Len(x) : x[i].sub = s
    PROVE  Ends(s, w \o x, shown, v)
<1> DEFINE y == w \o x
<1>1. /\ Len(y) = Len(w) + Len(x) /\ Len(w) \in Nat /\ Len(x) \in Nat
      /\ \A i \in 1..Len(x) : y[Len(w) + i] = x[i]
  OBVIOUS
<1> HIDE DEF y
<1>2. PICK k \in 1..Len(x) : x[k].sub = s
  OBVIOUS
<1>3. Len(w) + k \in 1..Len(y) /\ y[Len(w) + k].sub = s
  BY <1>1, <1>2
<1>4. ASSUME NEW i \in 1..Len(y), \A j \in 1..Len(y) : j > i => y[j].sub # s PROVE y[i].version = v
  <2>1. ~(Len(w) + k > i)
    BY <1>3, <1>4
  <2>2. i - Len(w) \in 1..Len(x) /\ i = Len(w) + (i - Len(w))
    BY <1>1, <1>3, <2>1
  <2>3. y[i] = x[i - Len(w)]
    BY <1>1, <2>2
  <2> QED BY <2>2, <2>3
<1>5. Ends(s, y, shown, v)
  BY <1>3, <1>4 DEF Ends
<1> QED BY <1>5 DEF y

\* The first message is delivered.
LEMMA EndsTail ==
    ASSUME NEW w \in Seq(Arrival), w # <<>>, NEW s, NEW shown, NEW v, Ends(s, w, shown, v)
    PROVE  Ends(s, Tail(w), IF Head(w).sub = s THEN Head(w).version ELSE shown, v)
<1> DEFINE x == Tail(w)
<1>1. /\ Len(w) = Len(x) + 1 /\ Len(x) \in Nat /\ Head(w) = w[1]
      /\ \A i \in 1..Len(x) : x[i] = w[i + 1]
  OBVIOUS
<1> HIDE DEF x
<1>2. ASSUME NEW i \in 1..Len(x), x[i].sub = s, \A j \in 1..Len(x) : j > i => x[j].sub # s
      PROVE  x[i].version = v
  <2>1. i + 1 \in 1..Len(w) /\ w[i + 1] = x[i]
    BY <1>1
  <2>2. ASSUME NEW j \in 1..Len(w), j > i + 1 PROVE w[j].sub # s
    <3>1. j - 1 \in 1..Len(x) /\ j - 1 > i /\ w[(j - 1) + 1] = x[j - 1] /\ (j - 1) + 1 = j
      BY <1>1, <2>2
    <3> QED BY <1>2, <3>1
  <2> QED BY <1>2, <2>1, <2>2 DEF Ends
<1>3. ASSUME \A i \in 1..Len(x) : x[i].sub # s
      PROVE  (IF Head(w).sub = s THEN Head(w).version ELSE shown) = v
  <2>1. ASSUME NEW j \in 1..Len(w), j > 1 PROVE w[j].sub # s
    <3>1. j - 1 \in 1..Len(x) /\ w[(j - 1) + 1] = x[j - 1] /\ (j - 1) + 1 = j
      BY <1>1, <2>1
    <3> QED BY <1>3, <3>1
  <2>2. 1 \in 1..Len(w)
    BY <1>1
  <2>3. CASE w[1].sub = s
    BY <1>1, <2>1, <2>2, <2>3 DEF Ends
  <2>4. CASE w[1].sub # s
    BY <2>1, <2>4, <1>1 DEF Ends
  <2> QED BY <2>3, <2>4
<1>4. Ends(s, x, IF Head(w).sub = s THEN Head(w).version ELSE shown, v)
  BY <1>2, <1>3 DEF Ends
<1> QED BY <1>4 DEF x

\* A sequence of a finite set has each of its members.
LEMMA ListsAll ==
    ASSUME NEW S, IsFiniteSet(S)
    PROVE  /\ SetToSeq(S) \in [1..Cardinality(S) -> S] /\ Cardinality(S) \in Nat
           /\ \A s \in S : \E i \in 1..Cardinality(S) : SetToSeq(S)[i] = s
<1> DEFINE D == 1..Cardinality(S)
<1>1. Cardinality(S) \in Nat /\ ExistsBijection(D, S)
  BY FS_CardinalityType
<1>2. IsFiniteSet(D) /\ Cardinality(D) = Cardinality(S)
  BY <1>1, FS_Interval
<1>3. \E f \in [D -> S] : IsInjective(f)
  BY <1>1 DEF ExistsBijection, Bijection, Injection
<1>4. SetToSeq(S) \in [D -> S] /\ IsInjective(SetToSeq(S))
  BY <1>3 DEF SetToSeq
<1>5. SetToSeq(S) \in Injection(D, S)
  BY <1>4 DEF Injection
<1>6. SetToSeq(S) \in Surjection(D, S)
  BY <1>2, <1>5, FS_Injection
<1> QED BY <1>1, <1>4, <1>6 DEF Surjection

\* An array is a sequence.
LEMMA ArrayIsSeq ==
    ASSUME NEW T, NEW n \in Nat, NEW y \in [1..n -> T]
    PROVE  y \in Seq(T) /\ Len(y) = n
  OBVIOUS

\* One more at the end of one of many sequences.
LEMMA AppendOne ==
    ASSUME NEW T, NEW D, NEW f \in [D -> Seq(T)], NEW d \in D, NEW m \in T
    PROVE  Append(f[d], m) \in Seq(T)
OBVIOUS

\* One of many is replaced.
LEMMA PutOne ==
    ASSUME NEW T, NEW D, NEW f \in [D -> T], NEW d \in D, NEW e \in T
    PROVE  /\ [f EXCEPT ![d] = e] \in [D -> T]
           /\ \A c \in D : [f EXCEPT ![d] = e][c] = IF c = d THEN e ELSE f[c]
  OBVIOUS

\* What is published goes to each subscription of a connection that is up.
LEMMA GoesToAll ==
    ASSUME ClientTyped, NEW v \in Versions
    PROVE  /\ ToAll(v) \in [Conns -> Seq(Arrival)]
           /\ \A c \in Conns \ Up : ToAll(v)[c] = wire[c]
           /\ \A c \in Up : \A s \in Subs : <<c, s>> \in attached =>
                 \E x \in Seq(Arrival) : /\ ToAll(v)[c] = wire[c] \o x
                                         /\ \A i \in 1..Len(x) : x[i].version = v
                                         /\ \E i \in 1..Len(x) : x[i].sub = s
<1> DEFINE Fed(c) == {s \in Subs : <<c, s>> \in attached}
           Copies(c) == [i \in DOMAIN SetToSeq(Fed(c)) |-> [sub |-> SetToSeq(Fed(c))[i], version |-> v]]
<1>1. ASSUME NEW c \in Conns
      PROVE  /\ Copies(c) \in Seq(Arrival) /\ \A i \in 1..Len(Copies(c)) : Copies(c)[i].version = v
             /\ \A s \in Fed(c) : \E i \in 1..Len(Copies(c)) : Copies(c)[i].sub = s
  <2> PICK n : n = Cardinality(Fed(c))
    OBVIOUS
  <2> PICK f : f = SetToSeq(Fed(c))
    OBVIOUS
  <2>1. n \in Nat /\ f \in [1..n -> Fed(c)] /\ \A s \in Fed(c) : \E i \in 1..n : f[i] = s
    BY SessionConstants, FS_Subset, ListsAll
  <2>2. Copies(c) = [i \in 1..n |-> [sub |-> f[i], version |-> v]]
    BY <2>1
  <2>3. \A i \in 1..n : [sub |-> f[i], version |-> v] \in Arrival
    BY <2>1 DEF Arrival
  <2> PICK y : y = Copies(c)
    OBVIOUS
  <2>4. y = [i \in 1..n |-> [sub |-> f[i], version |-> v]]
    BY <2>2
  <2> HIDE DEF Copies
  <2>5. DOMAIN y = 1..n /\ \A i \in 1..n : y[i] = [sub |-> f[i], version |-> v]
    BY <2>4
  <2>6. \A i \in 1..n : y[i] \in Arrival /\ y[i].sub = f[i] /\ y[i].version = v
    BY <2>3, <2>5
  <2>7. y \in [1..n -> Arrival]
    BY <2>4, <2>5, <2>6
  <2>8. y \in Seq(Arrival) /\ Len(y) = n
    BY <2>1, <2>7, ArrayIsSeq, Zenon
  <2> QED BY SMTT(30), <2>1, <2>6, <2>8
<1>2. ToAll(v) = [c \in Conns |-> IF c \notin Up THEN wire[c] ELSE wire[c] \o Copies(c)]
  BY DEF ToAll
<1> HIDE DEF Copies
<1>3. \A c \in Conns : wire[c] \in Seq(Arrival)
  BY DEF ClientTyped
<1>4. \A c \in Conns : wire[c] \o Copies(c) \in Seq(Arrival)
  BY <1>1, <1>3
<1>5. \A c \in Up : c \in Conns /\ ToAll(v)[c] = wire[c] \o Copies(c)
  BY <1>2 DEF Up
<1>6. ToAll(v) \in [Conns -> Seq(Arrival)] /\ \A c \in Conns \ Up : ToAll(v)[c] = wire[c]
  BY <1>2, <1>3, <1>4
<1> QED BY ZenonT(30), <1>1, <1>5, <1>6

\* While a tab has one connection, what is not unused or closed is that one.
LEMMA OneConnection ==
    ASSUME ClientTyped, ~TwoConnections, NEW c \in Conns, NEW d \in Conns,
           conns[c] \notin {"unused", "closed"}, conns[d] \notin {"unused", "closed"}
    PROVE  c = d
<1> DEFINE S == {e \in Conns : conns[e] \notin {"unused", "closed"}}
<1>1. IsFiniteSet(S)
  BY SessionConstants, FS_Subset
<1>2. SUFFICES ASSUME c # d PROVE FALSE
  OBVIOUS
<1>3. IsFiniteSet({c}) /\ Cardinality({c}) = 1
  BY FS_Singleton
<1>4. Cardinality({c} \cup {d}) = 2
  BY <1>2, <1>3, FS_AddElement
<1>5. Cardinality({c} \cup {d}) <= Cardinality(S) /\ Cardinality(S) \in Nat
  BY <1>1, FS_Subset, FS_CardinalityType
<1> QED BY <1>4, <1>5 DEF TwoConnections

\* Steps that leave the subscriptions on the connection in use.
LEMMA StillServed ==
    ASSUME ClientInv, ~TwoConnections, socket'.nc = socket.nc, UNCHANGED <<entries, publisher, view>>,
           requests \subseteq requests',
           socket.nc \in Conns /\ conns'[socket.nc] = "open" =>
               /\ conns[socket.nc] = "open" /\ wire'[socket.nc] = wire[socket.nc]
               /\ \A s \in Subs : <<socket.nc, s>> \in attached => <<socket.nc, s>> \in attached'
    PROVE  ServedInv'
BY DEF ServedInv, ClientInv, LiveSubs, ServedOn

\* No connection in use is open after the step.
LEMMA NotServed ==
    ASSUME socket'.nc \in Conns => conns'[socket'.nc] # "open"
    PROVE  ServedInv'
  BY DEF ServedInv

\* Everything is requested anew.
LEMMA AllRequested ==
    ASSUME NEW c \in Conns, \A s \in LiveSubs' : /\ <<c, s>> \in attached'
                                                 /\ [op |-> "subscribe", sub |-> s, conn |-> c] \in requests',
           socket'.nc = c
    PROVE  ServedInv'
BY DEF ServedOn, ServedInv

\* What activating does to the entries.
LEMMA Activated ==
    ASSUME ClientTyped, NEW subs \in SUBSET Subs, NEW c \in Conns, NEW nc \in Conns \cup {NoConn},
           NEW kept \in SUBSET (Conns \X Subs), Activate(subs, c, nc, kept)
    PROVE  /\ entries' \in [Subs -> [state: {"unused", "live", "gone"}, on: Conns \cup {NoConn}]]
           /\ attached' \subseteq Conns \X Subs /\ kept \subseteq attached'
           /\ requests' \subseteq Request_ /\ requests \subseteq requests'
           /\ \A s \in subs : /\ <<c, s>> \in attached' /\ entries'[s].state = "live"
                              /\ nc # NoConn => [op |-> "subscribe", sub |-> s, conn |-> nc] \in requests'
           /\ \A s \in Subs \ subs : entries'[s] = entries[s]
           /\ \A r \in requests' : r \in requests \/ r.op = "subscribe"
BY DEF Activate, ClientTyped, ClientTypeOK, Request_

\* The types of the variables, one by one.
SocketRecord == [nc: Conns \cup {NoConn}, status: {"connected", "connecting", "disconnected"},
                 timer: BOOLEAN, reconnecting: BOOLEAN, closing: Conns \cup {NoConn}]
EntryTable == [Subs -> [state: {"unused", "live", "gone"}, on: Conns \cup {NoConn}]]
PublisherRecord == [tracked: SUBSET Subs, last: Versions \cup {Unseen}, data: Versions, dirty: BOOLEAN]

\* The type invariant, variable by variable.
LEMMA TypedParts ==
    ClientTyped => /\ socket \in SocketRecord /\ conns \in [Conns -> ConnStates] /\ entries \in EntryTable
                   /\ attached \subseteq Conns \X Subs /\ requests \subseteq Request_
                   /\ publisher \in PublisherRecord /\ wire \in [Conns -> Seq(Arrival)]
                   /\ view \in [Subs -> Versions \cup {Unseen}] /\ outages \in 0..MaxOutages
  BY DEF ClientTyped, ClientTypeOK, SocketRecord, EntryTable, PublisherRecord

\* Variables of these types make the type invariant.
LEMMA PartsTyped ==
    ASSUME socket \in SocketRecord, conns \in [Conns -> ConnStates], entries \in EntryTable,
           attached \subseteq Conns \X Subs, requests \subseteq Request_, publisher \in PublisherRecord,
           wire \in [Conns -> Seq(Arrival)], view \in [Subs -> Versions \cup {Unseen}],
           outages \in 0..MaxOutages
    PROVE  ClientTyped
<1>1. ASSUME NEW c \in Conns, NEW i \in DOMAIN wire[c] PROVE wire[c][i] \in [sub: Subs, version: Versions]
  BY LenProperties, ElementOfSeq DEF Arrival
<1> QED BY <1>1 DEF ClientTyped, ClientTypeOK, SocketRecord, EntryTable, PublisherRecord

\* The same of the next state.
LEMMA PartsTypedNext ==
    ASSUME socket' \in SocketRecord, conns' \in [Conns -> ConnStates], entries' \in EntryTable,
           attached' \subseteq Conns \X Subs, requests' \subseteq Request_, publisher' \in PublisherRecord,
           wire' \in [Conns -> Seq(Arrival)], view' \in [Subs -> Versions \cup {Unseen}],
           outages' \in 0..MaxOutages
    PROVE  ClientTyped'
<1>1. ASSUME NEW c \in Conns, NEW i \in DOMAIN wire'[c] PROVE wire'[c][i] \in [sub: Subs, version: Versions]
  BY LenProperties, ElementOfSeq DEF Arrival
<1> QED BY <1>1 DEF ClientTyped, ClientTypeOK, SocketRecord, EntryTable, PublisherRecord

\* A subscription is made.
LEMMA SubscribeStep ==
    ASSUME ClientInv, NEW s \in Subs, Subscribe(s)
    PROVE  ClientInv'
<1> USE TypedParts, PartsTypedNext DEF ClientInv
<1>1. /\ UNCHANGED <<socket, conns, publisher, wire, view, outages>> /\ entries[s].state = "unused"
      /\ socket.nc \in Conns \cup {NoConn}
  BY DEF Subscribe, SocketRecord
<1>2. CASE socket.nc # NoConn
  <2> PICK c \in Conns : c = socket.nc
    BY <1>1, <1>2
  <2>1. Activate({s}, c, c, attached)
    BY <1>2 DEF Subscribe
  <2>2. attached \in SUBSET (Conns \X Subs) /\ {s} \in SUBSET Subs
    OBVIOUS
  <2>3. /\ entries' \in EntryTable /\ attached' \subseteq Conns \X Subs /\ attached \subseteq attached'
        /\ requests' \subseteq Request_ /\ requests \subseteq requests'
        /\ <<c, s>> \in attached' /\ [op |-> "subscribe", sub |-> s, conn |-> c] \in requests'
        /\ \A t \in Subs \ {s} : entries'[t] = entries[t]
        /\ \A r \in requests' : r \in requests \/ r.op = "subscribe"
    BY <2>1, <2>2, Activated, SessionConstants, ZenonT(60) DEF EntryTable, NoConn
  <2>4. ClientTyped'
    BY <1>1, <2>3
  <2>5. RequestsInv'
    BY <1>1, <2>3 DEF RequestsInv, Request_
  <2>6. ServedInv'
    BY <1>1, <2>3 DEF ServedInv, ServedOn, TwoConnections, LiveSubs
  <2> QED BY <1>1, <2>4, <2>5, <2>6 DEF ConnsInv, PublisherInv
<1>3. CASE socket.nc = NoConn
  <2>1. entries' = [entries EXCEPT ![s].state = "live"] /\ UNCHANGED <<attached, requests>>
    BY <1>3 DEF Subscribe
  <2>2. entries' \in EntryTable /\ \A t \in Subs \ {s} : entries'[t] = entries[t]
    BY <2>1 DEF EntryTable
  <2>3. ClientTyped'
    BY <1>1, <2>1, <2>2
  <2>4. RequestsInv'
    BY <1>1, <2>1, <2>2 DEF RequestsInv, Request_
  <2>5. ServedInv'
    BY <1>1, <1>3, SessionConstants, NotServed DEF NoConn
  <2> QED BY <1>1, <2>3, <2>4, <2>5 DEF ConnsInv, PublisherInv
<1> QED BY <1>2, <1>3

\* A subscription is given up.
LEMMA UnsubscribeStep ==
    ASSUME ClientInv, NEW s \in Subs, Unsubscribe(s)
    PROVE  ClientInv'
<1> USE TypedParts, PartsTypedNext DEF ClientInv
<1>1. /\ UNCHANGED <<socket, conns, publisher, wire, view, outages>>
      /\ entries' = [entries EXCEPT ![s] = [state |-> "gone", on |-> NoConn]]
      /\ attached' = attached \ {<<entries[t].on, t>> : t \in {s}}
      /\ requests' = IF socket.nc = NoConn THEN requests
                     ELSE requests \cup {[op |-> "unsubscribe", sub |-> s, conn |-> socket.nc]}
  BY DEF Unsubscribe, Detached
<1>2. /\ entries' \in EntryTable /\ entries'[s].state = "gone"
      /\ \A t \in Subs \ {s} : entries'[t] = entries[t]
  BY <1>1 DEF EntryTable
<1>3. requests \subseteq requests' /\ requests' \subseteq Request_
  BY <1>1 DEF SocketRecord, Request_
<1>4. \A r \in requests' : r \in requests \/ r.sub = s
  BY <1>1
<1>5. ClientTyped'
  BY <1>1, <1>2, <1>3
<1>6. RequestsInv'
  BY <1>2, <1>3, <1>4 DEF RequestsInv, Request_
<1>7. ServedInv'
  BY <1>1, <1>2, <1>3 DEF ServedInv, ServedOn, TwoConnections, LiveSubs
<1> QED BY <1>1, <1>5, <1>6, <1>7 DEF ConnsInv, PublisherInv

\* A message comes to the listener of its subscription.
LEMMA DeliverStep ==
    ASSUME ClientInv, ~TwoConnections, NEW c \in Conns, DeliverNext(c)
    PROVE  ClientInv'
<1> USE TypedParts, PartsTypedNext DEF ClientInv
<1> PICK m : m = Head(wire[c])
  OBVIOUS
<1>1. /\ conns[c] \in {"open", "back"} /\ wire[c] # <<>> /\ wire[c] \in Seq(Arrival) /\ m \in Arrival
      /\ view' = IF m.sub \in LiveSubs THEN [view EXCEPT ![m.sub] = m.version] ELSE view
      /\ wire' = [wire EXCEPT ![c] = Tail(@)]
      /\ UNCHANGED <<socket, conns, entries, attached, requests, publisher, outages>>
  BY DEF DeliverNext
<1>2. wire' \in [Conns -> Seq(Arrival)] /\ view' \in [Subs -> Versions \cup {Unseen}]
  <2>1. Tail(wire[c]) \in Seq(Arrival)
    BY <1>1
  <2>2. m.sub \in Subs /\ m.version \in Versions
    BY <1>1 DEF Arrival
  <2> QED BY <1>1, <2>1, <2>2
<1>3. ClientTyped'
  BY <1>1, <1>2
<1>4. ServedInv'
  BY <1>1, OneConnection, EndsTail DEF ServedInv, ServedOn, LiveSubs
<1> QED BY <1>1, <1>3, <1>4 DEF ConnsInv, PublisherInv, RequestsInv

\* A connection changes its state and nothing is asked of the hub: the subscriptions of
\* the one in use stay.
LEMMA ConnsChange ==
    ASSUME ClientInv, ~TwoConnections, UNCHANGED <<entries, requests, publisher, view>>,
           socket' \in SocketRecord, conns' \in [Conns -> ConnStates], attached' \subseteq Conns \X Subs,
           wire' \in [Conns -> Seq(Arrival)], outages' \in 0..MaxOutages,
           socket'.nc = socket.nc, socket'.closing \in {socket.closing, NoConn},
           \A d \in Conns : conns'[d] \in {"unused", "connecting"} => conns[d] \in {"unused", "connecting"},
           socket.nc \in Conns /\ conns'[socket.nc] = "open" =>
               /\ conns[socket.nc] = "open" /\ wire'[socket.nc] = wire[socket.nc]
               /\ \A s \in Subs : <<socket.nc, s>> \in attached => <<socket.nc, s>> \in attached'
    PROVE  ClientInv'
BY TypedParts, PartsTypedNext, StillServed DEF ClientInv, SocketRecord, ConnsInv, PublisherInv, RequestsInv

\* The steps of a connection that is lost, fails or comes back.
LEMMA LostStep ==
    ASSUME ClientInv, ~TwoConnections, NEW c \in Conns,
           ConnectFailed(c) \/ ConnectionLost(c) \/ TransportBack(c) \/ ConnectionDies(c)
    PROVE  ClientInv'
<1> USE TypedParts, PartsTypedNext DEF ClientInv
<1>t. /\ socket \in SocketRecord /\ conns \in [Conns -> ConnStates] /\ attached \subseteq Conns \X Subs
      /\ wire \in [Conns -> Seq(Arrival)] /\ outages \in 0..MaxOutages /\ MaxOutages \in Nat
  BY SessionConstants
<1>e. <<>> \in Seq(Arrival)
  OBVIOUS
<1>1. CASE ConnectFailed(c)
  BY <1>1, <1>t, ConnsChange DEF ConnectFailed, ScheduleReconnect, SocketRecord, ConnStates
<1>2. CASE ConnectionLost(c)
  <2>1. /\ c \in Up /\ outages < MaxOutages /\ outages' = outages + 1
        /\ conns' = [conns EXCEPT ![c] = "lost"] /\ wire' = [wire EXCEPT ![c] = <<>>]
        /\ UNCHANGED <<entries, attached, requests, publisher, view>>
    BY <1>2 DEF ConnectionLost
  <2>2. socket' \in SocketRecord /\ socket'.nc = socket.nc /\ socket'.closing = socket.closing
    BY <1>2, <1>t DEF ConnectionLost, StatusOf, SocketRecord
  <2>3. conns' \in [Conns -> ConnStates] /\ \A d \in Conns : conns'[d] = IF d = c THEN "lost" ELSE conns[d]
    BY <1>t, <2>1 DEF ConnStates
  <2>4. wire' \in [Conns -> Seq(Arrival)] /\ \A d \in Conns : d # c => wire'[d] = wire[d]
    BY <1>e, <1>t, <2>1
  <2>5. outages' \in 0..MaxOutages
    BY <1>t, <2>1
  <2> QED BY <1>t, <2>1, <2>2, <2>3, <2>4, <2>5, ConnsChange
<1>3. CASE TransportBack(c)
  BY <1>3, <1>t, ConnsChange DEF TransportBack, ConnStates
<1>4. CASE ConnectionDies(c)
  BY <1>4, <1>t, ConnsChange DEF ConnectionDies, ScheduleReconnect, SocketRecord, ConnStates
<1> QED BY <1>1, <1>2, <1>3, <1>4

\* A connect begins; what was being closed is closed.
LEMMA ConnectingStep ==
    ASSUME ClientInv, ~TwoConnections, ResetAndConnect \/ NcClosed
    PROVE  ClientInv'
<1> USE TypedParts, PartsTypedNext DEF ClientInv
<1>t. /\ socket \in SocketRecord /\ conns \in [Conns -> ConnStates] /\ attached \subseteq Conns \X Subs
      /\ wire \in [Conns -> Seq(Arrival)] /\ outages \in 0..MaxOutages /\ entries \in EntryTable
      /\ socket.nc \in Conns \cup {NoConn} /\ socket.closing \in Conns \cup {NoConn} /\ NoConn \notin Conns
  BY SessionConstants DEF SocketRecord, NoConn
<1>b. ASSUME NEW changed \in [Conns -> ConnStates], BeginConnect(changed)
      PROVE  /\ conns' \in [Conns -> ConnStates]
             /\ \A d \in Conns : conns'[d] = changed[d] \/ (conns[d] = "unused" /\ conns'[d] = "connecting")
  BY <1>b DEF BeginConnect, Unused, ConnStates
<1>1. CASE ResetAndConnect /\ socket.closing # NoConn
  BY <1>1, <1>t, <1>b, ConnsChange DEF ResetAndConnect, SocketRecord
<1>2. CASE ResetAndConnect /\ socket.closing = NoConn
  <2>1. /\ attached' = attached \ {<<entries[s].on, s>> : s \in Subs}
        /\ entries' = [s \in Subs |-> [entries[s] EXCEPT !.on = NoConn]]
        /\ UNCHANGED <<requests, publisher, wire, view, outages>>
    BY <1>2 DEF ResetAndConnect, Detached
  <2>2. /\ entries' \in EntryTable /\ \A s \in Subs : entries'[s].state = entries[s].state
        /\ attached' \subseteq Conns \X Subs
    BY <1>t, <2>1 DEF EntryTable
  <2>3. \/ /\ socket.nc = NoConn /\ BeginConnect(conns)
           /\ socket' = [socket EXCEPT !.timer = FALSE, !.reconnecting = FALSE, !.status = "connecting"]
        \/ /\ socket.nc # NoConn /\ conns' = conns
           /\ socket' = [socket EXCEPT !.timer = FALSE, !.reconnecting = FALSE,
                                       !.nc = NoConn, !.closing = socket.nc]
    BY <1>2 DEF ResetAndConnect
  <2>4. /\ socket' \in SocketRecord /\ socket'.nc = NoConn
        /\ socket'.closing # NoConn => socket'.closing = socket.nc /\ conns' = conns
    BY <1>2, <1>t, <2>3 DEF SocketRecord
  <2>5. conns' \in [Conns -> ConnStates]
    BY <1>b, <1>t, <2>3
  <2>6. ClientTyped'
    BY <2>1, <2>2, <2>4, <2>5
  <2>7. ConnsInv'
    BY <1>t, <2>3, <2>4 DEF ConnsInv
  <2>8. ServedInv'
    BY <1>t, <2>4, NotServed
  <2>9. RequestsInv' /\ PublisherInv'
    BY <2>1, <2>2 DEF RequestsInv, PublisherInv, Request_
  <2> QED BY <2>6, <2>7, <2>8, <2>9
<1>3. CASE NcClosed
  <2> PICK c : c = socket.closing
    OBVIOUS
  <2>1. /\ c \in Conns /\ BeginConnect([conns EXCEPT ![c] = "closed"])
        /\ attached' = {p \in attached : p[1] # c} /\ wire' = [wire EXCEPT ![c] = <<>>]
        /\ socket' = [socket EXCEPT !.closing = NoConn, !.status = "connecting"]
        /\ UNCHANGED <<entries, requests, publisher, view, outages>>
    BY <1>3, <1>t DEF NcClosed
  <2>2. socket' \in SocketRecord /\ socket'.nc = socket.nc /\ socket'.closing = NoConn
    BY <1>t, <2>1 DEF SocketRecord
  <2>3. /\ [conns EXCEPT ![c] = "closed"] \in [Conns -> ConnStates]
        /\ \A d \in Conns : [conns EXCEPT ![c] = "closed"][d] = IF d = c THEN "closed" ELSE conns[d]
    BY <1>t, <2>1 DEF ConnStates
  <2>4. /\ conns' \in [Conns -> ConnStates]
        /\ \A d \in Conns : \/ conns'[d] = IF d = c THEN "closed" ELSE conns[d]
                            \/ conns[d] = "unused" /\ conns'[d] = "connecting"
    BY <1>b, <2>1, <2>3
  <2>5. wire' \in [Conns -> Seq(Arrival)] /\ \A d \in Conns : d # c => wire'[d] = wire[d]
    BY <1>t, <2>1
  <2>6. attached' \subseteq Conns \X Subs /\ \A d, s : <<d, s>> \in attached /\ d # c => <<d, s>> \in attached'
    BY <1>t, <2>1
  <2>7. c # socket.nc
    BY <1>t, <2>1 DEF ConnsInv
  <2> QED BY <1>t, <2>1, <2>2, <2>4, <2>5, <2>6, <2>7, ConnsChange
<1> QED BY <1>1, <1>2, <1>3

\* A connection opens, or the library says that it is back.
LEMMA OpenStep ==
    ASSUME ClientInv, ~TwoConnections, NEW c \in Conns, Connected(c) \/ Reactivated(c)
    PROVE  ClientInv'
<1> USE TypedParts, PartsTypedNext DEF ClientInv
<1>t. /\ socket \in SocketRecord /\ conns \in [Conns -> ConnStates] /\ attached \in SUBSET (Conns \X Subs)
      /\ LiveSubs \in SUBSET Subs /\ socket.nc \in Conns \cup {NoConn} /\ NoConn \notin Conns
      /\ socket.closing \in Conns \cup {NoConn}
  BY SessionConstants DEF SocketRecord, NoConn, LiveSubs
<1>1. conns' = [conns EXCEPT ![c] = "open"] /\ UNCHANGED <<publisher, wire, view, outages>>
  BY DEF Connected, Reactivated
<1>2. conns' \in [Conns -> ConnStates] /\ \A d \in Conns : conns'[d] = IF d = c THEN "open" ELSE conns[d]
  BY <1>1, <1>t DEF ConnStates
<1>3. ASSUME NEW nc \in Conns \cup {NoConn}, NEW kept \in SUBSET (Conns \X Subs),
             Activate(LiveSubs, c, nc, kept)
      PROVE  /\ entries' \in EntryTable /\ attached' \subseteq Conns \X Subs /\ requests' \subseteq Request_
             /\ RequestsInv' /\ LiveSubs' = LiveSubs
             /\ \A s \in LiveSubs' : /\ <<c, s>> \in attached'
                                     /\ nc # NoConn => [op |-> "subscribe", sub |-> s, conn |-> nc] \in requests'
  <2>1. /\ entries' \in EntryTable /\ attached' \subseteq Conns \X Subs
        /\ requests' \subseteq Request_
        /\ \A s \in LiveSubs : /\ <<c, s>> \in attached' /\ entries'[s].state = "live"
                               /\ nc # NoConn => [op |-> "subscribe", sub |-> s, conn |-> nc] \in requests'
        /\ \A s \in Subs \ LiveSubs : entries'[s] = entries[s]
        /\ \A r \in requests' : r \in requests \/ r.op = "subscribe"
    BY <1>3, <1>t, Activated DEF EntryTable
  <2>2. LiveSubs' = LiveSubs
    BY <2>1 DEF LiveSubs
  <2>3. RequestsInv'
    BY <2>1 DEF RequestsInv, Request_, LiveSubs
  <2> QED BY <2>1, <2>2, <2>3
<1>4. CASE Connected(c)
  BY <1>4, <1>t, <1>3, <1>1, <1>2, AllRequested DEF Connected, SocketRecord, ConnsInv, PublisherInv
<1>5. CASE Reactivated(c)
  <2>1. conns[c] = "back"
    BY <1>5 DEF Reactivated
  <2>2. CASE socket.closing = c
    BY <1>5, <2>2, <1>t, <1>1, <1>2, <2>1, ConnsChange DEF Reactivated, ConnsInv
  <2>3. CASE socket.closing # c
    <3>1. socket' = StatusOf(c, "connected") /\ Activate(LiveSubs, c, socket.nc, Detached(LiveSubs))
      BY <1>5, <2>3 DEF Reactivated
    <3>2. socket' \in SocketRecord /\ socket'.nc = socket.nc /\ socket'.closing = socket.closing
      BY <1>t, <3>1 DEF SocketRecord, StatusOf
    <3>3. Detached(LiveSubs) \in SUBSET (Conns \X Subs)
      BY <1>t DEF Detached
    <3>4. /\ entries' \in EntryTable /\ attached' \subseteq Conns \X Subs /\ requests' \subseteq Request_
          /\ RequestsInv'
          /\ \A s \in LiveSubs' : /\ <<c, s>> \in attached'
                                  /\ socket.nc # NoConn =>
                                        [op |-> "subscribe", sub |-> s, conn |-> socket.nc] \in requests'
      BY <1>3, <1>t, <3>1, <3>3
    <3>5. ClientTyped'
      BY <1>1, <1>2, <3>2, <3>4
    <3>6. ConnsInv'
      BY <1>2, <1>t, <2>1, <3>2 DEF ConnsInv
    <3>7. ServedInv'
      <4>1. CASE socket.nc = c
        BY <1>t, <3>2, <3>4, <4>1, AllRequested
      <4>2. CASE socket.nc # c
        BY <2>1, <4>2, OneConnection, <1>2, <3>2, NotServed
      <4> QED BY <4>1, <4>2
    <3> QED BY <1>1, <3>4, <3>5, <3>6, <3>7 DEF PublisherInv
  <2> QED BY <2>2, <2>3
<1> QED BY <1>4, <1>5

\* What the publisher sends to all: each subscription that is served stays so.
LEMMA PublishStep ==
    ASSUME ClientInv, NEW pub \in PublisherRecord, pub.last = publisher.last, pub.data = publisher.data,
           NEW c \in Conns, conns[c] = "open", ServedOn(c), NEW s \in LiveSubs,
           [op |-> "subscribe", sub |-> s, conn |-> c] \notin requests
    PROVE  Ends(s, Publish(pub)[c], view[s], pub.data)
<1> USE TypedParts, PartsTypedNext DEF ClientInv
<1>1. s \in Subs /\ <<c, s>> \in attached /\ Ends(s, wire[c], view[s], publisher.last)
  BY DEF ServedOn, LiveSubs
<1>2. CASE pub.last = pub.data
  BY <1>1, <1>2 DEF Publish
<1>3. CASE pub.last # pub.data
  <2>1. Publish(pub) = ToAll(pub.data) /\ pub.data \in Versions
    BY <1>3 DEF Publish, PublisherRecord
  <2>2. c \in Up
    BY DEF Up
  <2>3. PICK x \in Seq(Arrival) : /\ ToAll(pub.data)[c] = wire[c] \o x
                                  /\ \A i \in 1..Len(x) : x[i].version = pub.data
                                  /\ \E i \in 1..Len(x) : x[i].sub = s
    <3>1. ClientTyped
      OBVIOUS
    <3>2. \A d \in Up : \A t \in Subs : <<d, t>> \in attached =>
              \E x \in Seq(Arrival) : /\ ToAll(pub.data)[d] = wire[d] \o x
                                      /\ \A i \in 1..Len(x) : x[i].version = pub.data
                                      /\ \E i \in 1..Len(x) : x[i].sub = t
      BY <2>1, <3>1, GoesToAll
    <3> HIDE DEF ClientInv
    <3> QED BY <1>1, <2>2, <3>2
  <2> PICK w \in Seq(Arrival) : w = wire[c]
    OBVIOUS
  <2>4. Ends(s, w \o x, view[s], pub.data)
    BY <2>3, EndsMany
  <2> QED BY <2>1, <2>3, <2>4
<1> QED BY <1>2, <1>3

\* Publishing sends messages of the right shape and remembers what was sent.
LEMMA PublishTyped ==
    ASSUME ClientInv, NEW pub \in PublisherRecord
    PROVE  /\ Publish(pub) \in [Conns -> Seq(Arrival)] /\ Published(pub) \in PublisherRecord
           /\ Published(pub).last = pub.data /\ Published(pub).data = pub.data
           /\ Published(pub).tracked = pub.tracked /\ Published(pub).dirty = pub.dirty
BY TypedParts, GoesToAll DEF ClientInv, PublisherRecord, Publish, Published

\* No data is of no version.
LEMMA UnseenIsNone == Unseen \notin Versions
  BY SessionConstants DEF Unseen, Versions

\* The topic changes, and is broadcast.
LEMMA BroadcastStep ==
    ASSUME ClientInv, ~TwoConnections, DataChanges \/ Broadcast
    PROVE  ClientInv'
<1> USE TypedParts, PartsTypedNext DEF ClientInv
<1>t. publisher \in PublisherRecord /\ UNCHANGED <<socket, conns, entries, attached, requests, view, outages>>
  BY DEF DataChanges, Broadcast
<1>1. CASE DataChanges
  <2>1. /\ publisher.data < MaxVersion /\ publisher' = [publisher EXCEPT !.data = @ + 1, !.dirty = TRUE]
        /\ wire' = wire
    BY <1>1 DEF DataChanges
  <2>2. /\ publisher' \in PublisherRecord /\ publisher'.dirty = TRUE
        /\ publisher'.tracked = publisher.tracked /\ publisher'.last = publisher.last
    <3>1. publisher.data + 1 \in Versions
      BY <1>t, <2>1, SessionConstants DEF PublisherRecord, Versions
    <3> QED BY <1>t, <2>1, <3>1 DEF PublisherRecord
  <2>3. ClientTyped'
    BY <1>t, <2>1, <2>2
  <2>4. ServedInv'
    BY <1>t, <2>1, <2>2 DEF ServedInv, ServedOn, LiveSubs, TwoConnections
  <2> QED BY <1>t, <2>2, <2>3, <2>4 DEF ConnsInv, PublisherInv, RequestsInv
<1>2. CASE Broadcast
  <2> PICK pub : pub = [publisher EXCEPT !.dirty = FALSE]
    OBVIOUS
  <2>1. /\ pub \in PublisherRecord /\ pub.tracked = publisher.tracked /\ pub.last = publisher.last
        /\ pub.data = publisher.data /\ pub.dirty = FALSE
    BY <1>t DEF PublisherRecord
  <2>2. IF pub.tracked = {} THEN publisher' = pub /\ wire' = wire
        ELSE publisher' = Published(pub) /\ wire' = Publish(pub)
    BY <1>2 DEF Broadcast
  <2>3. CASE pub.tracked = {}
    BY <2>2, <2>3, <1>t, <2>1 DEF PublisherInv, ServedInv, ServedOn, LiveSubs, TwoConnections, ConnsInv, RequestsInv
  <2>4. CASE pub.tracked # {}
    <3>1. /\ publisher' = Published(pub) /\ wire' = Publish(pub)
          /\ wire' \in [Conns -> Seq(Arrival)] /\ publisher' \in PublisherRecord
          /\ publisher'.last = pub.data /\ publisher'.data = pub.data /\ publisher'.tracked = pub.tracked
      BY <2>1, <2>2, <2>4, PublishTyped
    <3>2. ClientTyped'
      BY <1>t, <3>1
    <3>3. PublisherInv'
      BY <2>1, <3>1, <2>4, UnseenIsNone DEF PublisherRecord, PublisherInv
    <3>4. ServedInv'
      BY <1>t, <2>1, PublishStep, <3>1 DEF ServedInv, LiveSubs, ServedOn
    <3> QED BY <1>t, <3>2, <3>3, <3>4 DEF ConnsInv, RequestsInv
  <2> QED BY <2>3, <2>4
<1> QED BY <1>1, <1>2

\* The hub handles a snapshot.subscribe.
LEMMA SubscribedStep ==
    ASSUME ClientInv, ~TwoConnections, NEW r \in requests, HandleSubscribe(r)
    PROVE  ClientInv'
<1> USE TypedParts, PartsTypedNext DEF ClientInv
<1> PICK pub : pub = [publisher EXCEPT !.tracked = @ \cup {r.sub}]
  OBVIOUS
<1> PICK m : m = [sub |-> r.sub, version |-> pub.data]
  OBVIOUS
<1> PICK out : out = Publish(pub)
  OBVIOUS
<1>t. r \in Request_ /\ r.sub \in Subs /\ r.conn \in Conns /\ r.op = "subscribe"
  BY DEF HandleSubscribe, Request_
<1>1. /\ pub \in PublisherRecord /\ pub.tracked = publisher.tracked \cup {r.sub} /\ pub.last = publisher.last
      /\ pub.data = publisher.data /\ pub.dirty = publisher.dirty
  BY <1>t DEF PublisherRecord
<1>2. m \in Arrival /\ m.sub = r.sub /\ m.version = pub.data
  BY <1>1, <1>t DEF Arrival, PublisherRecord
<1>3. /\ requests' = requests \ {r} /\ publisher' = Published(pub)
      /\ wire' = IF r.conn \notin Up THEN out ELSE [out EXCEPT ![r.conn] = Append(@, m)]
      /\ UNCHANGED <<socket, conns, entries, attached, view, outages>>
  BY DEF HandleSubscribe
<1>4. /\ out \in [Conns -> Seq(Arrival)] /\ publisher' \in PublisherRecord
      /\ publisher'.last = pub.data /\ publisher'.data = pub.data
      /\ publisher'.tracked = pub.tracked /\ publisher'.dirty = pub.dirty
  BY <1>1, <1>3, PublishTyped
<1>5. /\ wire' \in [Conns -> Seq(Arrival)]
      /\ \A c \in Conns : wire'[c] = IF r.conn \in Up /\ c = r.conn THEN Append(out[c], m) ELSE out[c]
  <2> HIDE DEF ClientInv
  <2>d. PICK d : d = r.conn
    OBVIOUS
  <2>1. d \in Conns /\ (d \in Up <=> r.conn \in Up)
    BY <1>t, <2>d
  <2>e. PICK e : e = Append(out[d], m)
    OBVIOUS
  <2>2. e \in Seq(Arrival)
    BY <1>2, <1>4, <2>1, <2>e, AppendOne, Zenon
  <2>3. wire' = IF d \notin Up THEN out ELSE [out EXCEPT ![d] = e]
    BY <1>3, <2>d, <2>e
  <2>4. out \in [Conns -> Seq(Arrival)]
    BY <1>4
  <2>g. PICK g : g = [out EXCEPT ![d] = e]
    OBVIOUS
  <2>5. g \in [Conns -> Seq(Arrival)] /\ \A c \in Conns : g[c] = IF c = d THEN e ELSE out[c]
    BY <2>1, <2>2, <2>4, <2>g, PutOne, Zenon
  <2>6. CASE d \in Up
    <3>1. wire' = g
      BY <2>3, <2>6, <2>g
    <3>2. ASSUME NEW c \in Conns PROVE g[c] = IF r.conn \in Up /\ c = r.conn THEN Append(out[c], m) ELSE out[c]
      BY <2>1, <2>5, <2>6, <2>d, <2>e
    <3> QED BY <2>5, <3>1, <3>2, Zenon
  <2>7. CASE d \notin Up
    BY <2>1, <2>3, <2>4, <2>7, Zenon
  <2> QED BY <2>6, <2>7
<1>6. ClientTyped'
  BY <1>3, <1>4, <1>5
<1>7. PublisherInv'
  BY <1>1, <1>4, UnseenIsNone DEF PublisherRecord, PublisherInv
<1>8. RequestsInv' /\ ConnsInv'
  BY <1>3 DEF RequestsInv, ConnsInv
<1>9. ServedInv'
  <2> SUFFICES ASSUME socket.nc \in Conns, conns[socket.nc] = "open" PROVE ServedOn(socket.nc)'
    BY <1>3 DEF ServedInv
  <2> PICK c : c = socket.nc
    OBVIOUS
  <2>1. ServedOn(c) /\ c \in Up /\ out[c] \in Seq(Arrival)
    BY <1>4 DEF ServedInv, Up
  <2>2. ASSUME NEW s \in LiveSubs', [op |-> "subscribe", sub |-> s, conn |-> c] \notin requests'
        PROVE  s \in publisher'.tracked /\ Ends(s, wire'[c], view'[s], publisher'.last)
    <3>1. s \in LiveSubs
      BY <1>3 DEF LiveSubs
    <3>2. CASE r = [op |-> "subscribe", sub |-> s, conn |-> c]
      BY <3>2, <1>2, <2>1, EndsAppend, <1>3, <1>5, <1>1, <1>4
    <3>3. CASE r # [op |-> "subscribe", sub |-> s, conn |-> c]
      <4>1. [op |-> "subscribe", sub |-> s, conn |-> c] \notin requests
        BY <1>3, <2>2, <3>3
      <4>2. s \in publisher.tracked
        BY <2>1, <3>1, <4>1 DEF ServedOn
      <4>3. Ends(s, out[c], view[s], pub.data)
        BY <1>1, <2>1, <3>1, <4>1, PublishStep
      <4>4. r.conn = c => r.sub # s
        BY <1>t, <3>3 DEF Request_
      <4>5. r.conn = c => Ends(s, Append(out[c], m), view[s], pub.data)
        BY <1>2, <2>1, <4>3, <4>4, EndsAppend
      <4> QED BY <1>1, <1>3, <1>4, <1>5, <4>2, <4>3, <4>5
    <3> QED BY <3>2, <3>3
  <2>3. \A s \in LiveSubs' : <<c, s>> \in attached'
    BY <1>3, <2>1 DEF ServedOn, LiveSubs
  <2>4. ServedOn(c)'
    BY <2>2, <2>3 DEF ServedOn
  <2> QED BY <1>3, <2>4
<1> QED BY <1>6, <1>7, <1>8, <1>9

\* The hub handles a snapshot.unsubscribe.
LEMMA UnsubscribedStep ==
    ASSUME ClientInv, ~TwoConnections, NEW r \in requests, HandleUnsubscribe(r)
    PROVE  ClientInv'
<1> USE TypedParts, PartsTypedNext DEF ClientInv
<1>1. /\ requests' = requests \ {r} /\ publisher' = RemoveSubscription(r.sub) /\ r.op = "unsubscribe"
      /\ UNCHANGED <<socket, conns, entries, attached, wire, view, outages>>
  BY DEF HandleUnsubscribe
<1>2. /\ publisher' \in PublisherRecord /\ publisher'.tracked = publisher.tracked \ {r.sub}
      /\ publisher'.data = publisher.data /\ publisher'.dirty = publisher.dirty
      /\ publisher'.last = IF r.sub \in publisher.tracked /\ publisher'.tracked = {} THEN Unseen
                           ELSE publisher.last
  BY <1>1 DEF RemoveSubscription, PublisherRecord
<1>3. ClientTyped'
  BY <1>1, <1>2
<1>4. PublisherInv'
  BY <1>2 DEF PublisherInv
<1>5. RequestsInv' /\ ConnsInv'
  BY <1>1 DEF RequestsInv, ConnsInv
<1>6. entries[r.sub].state = "gone"
  BY <1>1 DEF RequestsInv
<1>7. ServedInv'
  <2> SUFFICES ASSUME socket.nc \in Conns, conns[socket.nc] = "open" PROVE ServedOn(socket.nc)'
    BY <1>1 DEF ServedInv
  <2> PICK c : c = socket.nc
    OBVIOUS
  <2>1. ServedOn(c)
    BY DEF ServedInv
  <2>2. ASSUME NEW s \in LiveSubs', [op |-> "subscribe", sub |-> s, conn |-> c] \notin requests'
        PROVE  s \in publisher'.tracked /\ Ends(s, wire'[c], view'[s], publisher'.last)
    <3>1. s \in LiveSubs /\ s # r.sub
      BY <1>1, <1>6 DEF LiveSubs
    <3>2. [op |-> "subscribe", sub |-> s, conn |-> c] \notin requests
      BY <1>1, <2>2, <3>1
    <3>3. s \in publisher.tracked /\ Ends(s, wire[c], view[s], publisher.last)
      BY <2>1, <3>1, <3>2 DEF ServedOn
    <3> QED BY <1>1, <1>2, <3>1, <3>3
  <2>3. \A s \in LiveSubs' : <<c, s>> \in attached'
    BY <1>1, <2>1 DEF ServedOn, LiveSubs
  <2>4. ServedOn(c)'
    BY <2>2, <2>3 DEF ServedOn
  <2> QED BY <1>1, <2>4
<1> QED BY <1>3, <1>4, <1>5, <1>7

\* The hub goes down and comes back.
LEMMA HubStep ==
    ASSUME ClientInv, HubRestarts
    PROVE  ClientInv'
<1> USE TypedParts, PartsTypedNext DEF ClientInv
<1>1. /\ outages < MaxOutages /\ outages' = outages + 1
      /\ conns' = [c \in Conns |-> IF c \in Up THEN "lost" ELSE conns[c]]
      /\ socket' = IF socket.nc \in Up THEN [socket EXCEPT !.status = "connecting"] ELSE socket
      /\ requests' = {} /\ wire' = [c \in Conns |-> <<>>]
      /\ publisher' = [publisher EXCEPT !.tracked = {}, !.last = Unseen, !.dirty = FALSE]
      /\ UNCHANGED <<entries, attached, view>>
  BY DEF HubRestarts
<1>2. conns' \in [Conns -> ConnStates] /\ \A c \in Conns : conns'[c] = IF c \in Up THEN "lost" ELSE conns[c]
  BY <1>1 DEF ConnStates
<1>3. socket' \in SocketRecord /\ socket'.nc = socket.nc /\ socket'.closing = socket.closing
  BY <1>1 DEF SocketRecord
<1>4. publisher' \in PublisherRecord /\ publisher'.tracked = {} /\ publisher'.last = Unseen
  BY <1>1 DEF PublisherRecord
<1>5. wire' \in [Conns -> Seq(Arrival)] /\ outages' \in 0..MaxOutages /\ requests' \subseteq Request_
  BY <1>1, SessionConstants
<1>6. ClientTyped'
  BY <1>1, <1>2, <1>3, <1>4, <1>5
<1>7. ConnsInv'
  BY <1>2, <1>3 DEF SocketRecord, ConnsInv
<1>8. ServedInv'
  BY <1>2, NotServed DEF Up
<1>9. PublisherInv' /\ RequestsInv'
  BY <1>1, <1>4 DEF PublisherInv, RequestsInv
<1> QED BY <1>6, <1>7, <1>8, <1>9

\* Each step keeps the invariant.
LEMMA ClientInvStep == ClientInv /\ [ClientNext]_clientVars => ClientInv'
<1> SUFFICES ASSUME ClientInv, [ClientNext]_clientVars PROVE ClientInv'
  OBVIOUS
<1>1. CASE UNCHANGED clientVars
  BY <1>1 DEF clientVars, ClientInv, ClientTyped, ClientTypeOK, ConnsInv, PublisherInv, RequestsInv, ServedInv,
     ServedOn, LiveSubs, TwoConnections
<1>2. ASSUME ~TwoConnections, ClientStep PROVE ClientInv'
  <2>1. ASSUME NEW s \in Subs, Subscribe(s) \/ Unsubscribe(s) PROVE ClientInv'
    BY <2>1, SubscribeStep, UnsubscribeStep
  <2>2. ASSUME NEW c \in Conns, DeliverNext(c) PROVE ClientInv'
    BY <1>2, <2>2, DeliverStep
  <2>3. ASSUME NEW c \in Conns, Connected(c) \/ Reactivated(c) PROVE ClientInv'
    BY <1>2, <2>3, OpenStep
  <2>4. ASSUME NEW c \in Conns, ConnectFailed(c) \/ ConnectionLost(c) \/ TransportBack(c) \/ ConnectionDies(c)
        PROVE  ClientInv'
    BY <1>2, <2>4, LostStep
  <2>5. ASSUME TimerFires \/ PwaResumes \/ NcClosed PROVE ClientInv'
    BY <2>5, <1>2, ConnectingStep DEF TimerFires, PwaResumes
  <2>6. ASSUME DataChanges \/ Broadcast PROVE ClientInv'
    BY <1>2, <2>6, BroadcastStep
  <2>7. ASSUME HubRestarts PROVE ClientInv'
    BY <2>7, HubStep
  <2>8. ASSUME NEW r \in requests, HandleSubscribe(r) \/ HandleUnsubscribe(r) PROVE ClientInv'
    BY <1>2, <2>8, SubscribedStep, UnsubscribedStep
  <2> QED BY <1>2, <2>1, <2>2, <2>3, <2>4, <2>5, <2>6, <2>7, <2>8 DEF ClientStep
<1> QED BY <1>1, <1>2 DEF ClientNext

\* A tab that has just been opened.
LEMMA ClientInvInit == ClientInit => ClientInv
<1> SUFFICES ASSUME ClientInit PROVE ClientInv
  OBVIOUS
<1>1. ClientTyped
  BY SessionConstants, PartsTyped DEF ClientInit, SocketRecord, ConnStates, EntryTable, PublisherRecord, Versions
<1>2. ConnsInv /\ PublisherInv /\ RequestsInv
  BY DEF ClientInit, ConnsInv, PublisherInv, RequestsInv
<1>3. ServedInv
  BY SessionConstants DEF ClientInit, ServedInv, NoConn
<1> QED BY <1>1, <1>2, <1>3 DEF ClientInv

\* Whatever connections are lost and made again, and whatever subscriptions come and go,
\* a tab that has heard everything shows the topic as it is (nats-socket.ts with
\* nats-publisher.ts).
THEOREM ViewsAreCurrent == ClientSpec => [](ClientTypeOK /\ ViewsCatchUp)
<1>1. ClientInv => ViewsCatchUp
  <2> SUFFICES ASSUME ClientInv, Settled, ~TwoConnections, NEW s \in LiveSubs
               PROVE  view[s] = publisher.data
    BY DEF ViewsCatchUp
  <2> PICK c : c = socket.nc
    OBVIOUS
  <2>1. c \in Conns /\ conns[c] = "open" /\ wire[c] = <<>> /\ requests = {} /\ ~publisher.dirty
    BY DEF Settled, Up
  <2>2. s \in publisher.tracked /\ Ends(s, <<>>, view[s], publisher.last)
    BY <2>1 DEF ClientInv, ServedInv, ServedOn
  <2>3. view[s] = publisher.last
    BY <2>2 DEF Ends
  <2>4. publisher.last = publisher.data
    BY <2>1, <2>2 DEF ClientInv, PublisherInv
  <2> QED BY <2>3, <2>4
<1>2. ClientInv => ClientTypeOK /\ ViewsCatchUp
  BY <1>1 DEF ClientInv, ClientTyped
<1> QED BY ClientInvInit, ClientInvStep, <1>2, PTL DEF ClientSpec

-----------------------------------------------------------------------------
(* The transcript a tab shows *)

VisitRecord ==
    [number: 1..MaxVisits, chat: Viewable \cup {NoneShown}, asked: BOOLEAN, applied: BOOLEAN,
     timer: BOOLEAN, fetchTriggered: BOOLEAN, events: 0..MaxEntries, raf: BOOLEAN]
ScreenRecord == [owner: Viewable \cup {NoneShown}, shown: Transcript, ready: BOOLEAN]
ViewHubRecord == [entries: [Viewable -> 0..MaxEntries], due: SUBSET Viewable, subscribed: 0..MaxVisits]

\* What the variables are.
ViewTyped ==
    /\ visit \in VisitRecord /\ screen \in ScreenRecord /\ cache \in [Viewable -> Transcript]
    /\ fetches \subseteq Fetch /\ inbox \in Seq(Message) /\ hub \in ViewHubRecord

\* The last message to a visit is of n entries; there is none.
EndsAt(w, v, n) ==
    \A i \in 1..Len(w) : w[i].visit = v /\ (\A j \in 1..Len(w) : j > i => w[j].visit # v) => w[i].upto = n
NoneFor(w, v) == \A i \in 1..Len(w) : w[i].visit # v

\* Only the visit of a chat asks, waits and is told; it is told no more than there is.
VisitInv ==
    /\ hub.subscribed \in {0, visit.number}
    /\ visit.chat = NoneShown => ~visit.asked /\ ~visit.timer /\ ~visit.raf /\ visit.events = 0 /\ hub.subscribed = 0
    /\ visit.chat # NoneShown => visit.events <= hub.entries[visit.chat]

\* What is on its way is of an earlier visit or of the chat of this one.
Fits(x) == x.visit <= visit.number /\ (~Cancelled(x.visit) => x.chat = visit.chat)
OnItsWay == (\A f \in fetches : Fits(f)) /\ \A i \in 1..Len(inbox) : Fits(inbox[i])

\* A recovery that the visit awaits was started by its timer, which fires once.
Recovers(f) == f.source = "snapshot_recovery" /\ ~Cancelled(f.visit)
RecoveryInv == \A f \in fetches : Recovers(f) => visit.fetchTriggered /\ ~visit.timer

\* The screen has every entry, or its recovery has failed and wiped it.
Complete ==
    \/ screen.shown.upto = hub.entries[visit.chat]
    \/ screen.shown.upto = 0 /\ visit.fetchTriggered /\ \A f \in fetches : ~Recovers(f)

\* What a subscribed chat is sent last is all there is, unless a broadcast is due.
CompleteInv ==
    visit.chat # NoneShown /\ hub.subscribed = visit.number /\ visit.chat \notin hub.due =>
        /\ EndsAt(inbox, visit.number, hub.entries[visit.chat])
        /\ NoneFor(inbox, visit.number) => Complete

\* The inductive invariant.
ViewInv == ViewTyped /\ VisitInv /\ OnItsWay /\ RecoveryInv /\ CompleteInv /\ EachChatItsOwn

\* One more message.
LEMMA EndsAtAppend ==
    ASSUME NEW w \in Seq(Message), NEW m \in Message, NEW v, NEW n
    PROVE  /\ v = m.visit => EndsAt(Append(w, m), v, m.upto) /\ ~NoneFor(Append(w, m), v)
           /\ v # m.visit => /\ EndsAt(w, v, n) => EndsAt(Append(w, m), v, n)
                             /\ NoneFor(Append(w, m), v) => NoneFor(w, v)
<1> DEFINE x == Append(w, m)
<1>1. /\ Len(x) = Len(w) + 1 /\ Len(w) \in Nat /\ x[Len(w) + 1] = m
      /\ \A i \in 1..Len(w) : x[i] = w[i]
  OBVIOUS
<1> HIDE DEF x
<1>2. ASSUME v = m.visit PROVE EndsAt(x, v, m.upto) /\ ~NoneFor(x, v)
  BY <1>1, <1>2 DEF EndsAt, NoneFor
<1>3. ASSUME v # m.visit PROVE (EndsAt(w, v, n) => EndsAt(x, v, n)) /\ (NoneFor(x, v) => NoneFor(w, v))
  BY <1>1, <1>3 DEF EndsAt, NoneFor
<1> QED BY <1>2, <1>3 DEF x

\* The first message is taken.
LEMMA EndsAtTail ==
    ASSUME NEW w \in Seq(Message), w # <<>>, NEW v, NEW n, EndsAt(w, v, n)
    PROVE  /\ EndsAt(Tail(w), v, n)
           /\ NoneFor(Tail(w), v) => IF Head(w).visit = v THEN Head(w).upto = n ELSE NoneFor(w, v)
<1> DEFINE x == Tail(w)
<1>1. /\ Len(w) = Len(x) + 1 /\ Len(x) \in Nat /\ Head(w) = w[1]
      /\ \A i \in 1..Len(x) : x[i] = w[i + 1]
  OBVIOUS
<1> HIDE DEF x
<1>2. ASSUME NEW i \in 1..Len(x), x[i].visit = v, \A j \in 1..Len(x) : j > i => x[j].visit # v
      PROVE  x[i].upto = n
  <2>1. i + 1 \in 1..Len(w) /\ w[i + 1] = x[i]
    BY <1>1
  <2>2. ASSUME NEW j \in 1..Len(w), j > i + 1 PROVE w[j].visit # v
    <3>1. j - 1 \in 1..Len(x) /\ j - 1 > i /\ w[(j - 1) + 1] = x[j - 1] /\ (j - 1) + 1 = j
      BY <1>1, <2>2
    <3> QED BY <1>2, <3>1
  <2> QED BY <1>2, <2>1, <2>2 DEF EndsAt
<1>3. ASSUME NoneFor(x, v) PROVE IF w[1].visit = v THEN w[1].upto = n ELSE NoneFor(w, v)
  <2>1. ASSUME NEW j \in 1..Len(w), j > 1 PROVE w[j].visit # v
    <3>1. j - 1 \in 1..Len(x) /\ w[(j - 1) + 1] = x[j - 1] /\ (j - 1) + 1 = j
      BY <1>1, <2>1
    <3> QED BY <1>3, <3>1 DEF NoneFor
  <2>2. 1 \in 1..Len(w)
    BY <1>1
  <2>3. w[1].visit = v => w[1].upto = n
    BY <2>1, <2>2 DEF EndsAt
  <2>4. w[1].visit # v => NoneFor(w, v)
    BY <1>1, <2>1 DEF NoneFor
  <2> QED BY <2>3, <2>4
<1> QED BY <1>1, <1>2, <1>3 DEF EndsAt, x

\* What is cached when a chat is left is of that chat.
LEMMA CachedOnLeave ==
    ASSUME ViewTyped, EachChatItsOwn
    PROVE  CacheOnLeave \in [Viewable -> Transcript] /\ \A c \in Viewable : CacheOnLeave[c].chat \in {NoneShown, c}
BY DEF ViewTyped, VisitRecord, ScreenRecord, CacheOnLeave, EachChatItsOwn

\* What is cached is the chat's own, and of no chat when nothing is.
LEMMA NothingIsTyped == Nothing \in Transcript
  BY ViewConstants DEF Nothing, Transcript

\* What is applied is of the chat shown.
LEMMA Applied ==
    ASSUME ViewTyped, EachChatItsOwn, NEW v, NEW c \in Viewable, NEW n \in 0..MaxEntries,
           ~Cancelled(v) => c = visit.chat
    PROVE  /\ ApplyRenderUnits(v, c, n) \in ScreenRecord
           /\ ApplyRenderUnits(v, c, n).shown.chat \in {NoneShown, visit.chat}
           /\ Cancelled(v) => ApplyRenderUnits(v, c, n) = screen
           /\ ~Cancelled(v) => ApplyRenderUnits(v, c, n).shown.upto = n
BY DEF ViewTyped, ScreenRecord, Transcript, ApplyRenderUnits, EachChatItsOwn

\* The screen of a visit is ready, whatever it shows.
LEMMA MadeReady ==
    ASSUME NEW r \in ScreenRecord
    PROVE  [r EXCEPT !.ready = TRUE] \in ScreenRecord /\ [r EXCEPT !.ready = TRUE].shown = r.shown
  BY DEF ScreenRecord

\* The hub has no subscription of the tab.
LEMMA Unsubscribed ==
    ASSUME NEW h \in ViewHubRecord
    PROVE  /\ [h EXCEPT !.subscribed = 0] \in ViewHubRecord /\ [h EXCEPT !.subscribed = 0].subscribed = 0
           /\ [h EXCEPT !.subscribed = 0].entries = h.entries
BY ViewConstants DEF ViewHubRecord

\* A run of the effect begins.
LEMMA VisitStep ==
    ASSUME ViewInv, NEW c \in Viewable, Visit(c)
    PROVE  ViewInv'
<1> USE DEF ViewInv
<1> PICK kept : kept = CacheOnLeave[c]
  OBVIOUS
<1>1. kept \in Transcript /\ kept.chat \in {NoneShown, c} /\ cache' \in [Viewable -> Transcript]
      /\ \A d \in Viewable : cache'[d].chat \in {NoneShown, d}
  BY CachedOnLeave DEF Visit
<1>2. /\ screen' = IF kept # Nothing THEN [owner |-> c, shown |-> kept, ready |-> TRUE]
                   ELSE [owner |-> NoneShown, shown |-> Nothing, ready |-> FALSE]
      /\ visit' = [number |-> visit.number + 1, chat |-> c, asked |-> TRUE, applied |-> FALSE,
                   timer |-> kept = Nothing, fetchTriggered |-> FALSE, events |-> 0, raf |-> FALSE]
      /\ hub' = [hub EXCEPT !.subscribed = 0] /\ UNCHANGED <<fetches, inbox>> /\ visit.number < MaxVisits
  BY DEF Visit
<1>3. visit.number \in 1..MaxVisits /\ MaxVisits \in Nat /\ MaxEntries \in Nat
  BY ViewConstants DEF ViewTyped, VisitRecord
<1>4. /\ visit' \in VisitRecord /\ visit'.number = visit.number + 1 /\ visit'.chat = c /\ visit'.events = 0
      /\ c # NoneShown
  BY <1>2, <1>3, ViewConstants DEF VisitRecord
<1>5. screen' \in ScreenRecord /\ screen'.shown.chat \in {NoneShown, c}
  BY <1>1, <1>2, NothingIsTyped DEF ScreenRecord, Nothing
<1>6. hub' \in ViewHubRecord /\ hub'.subscribed = 0 /\ hub'.entries = hub.entries
  BY <1>2, Unsubscribed DEF ViewTyped
<1>7. ViewTyped'
  BY <1>1, <1>2, <1>4, <1>5, <1>6 DEF ViewTyped
<1>8. VisitInv'
  BY <1>4, <1>6 DEF ViewTyped, ViewHubRecord, VisitInv
<1>9. \A v \in 0..MaxVisits : v <= visit.number => v < visit'.number /\ Cancelled(v)'
  BY <1>3, <1>4 DEF Cancelled
<1>10. OnItsWay'
  <2>1. ASSUME NEW f \in fetches PROVE Fits(f)'
    BY <1>3, <1>4, <1>9 DEF ViewTyped, Fetch, OnItsWay, Fits
  <2>2. ASSUME NEW i \in 1..Len(inbox) PROVE Fits(inbox[i])'
    <3>1. inbox[i] \in Message
      BY DEF ViewTyped
    <3>2. inbox[i].visit \in 0..MaxVisits
      BY <3>1 DEF Message
    <3> QED BY <1>2, <1>3, <1>4, <1>9, <3>2 DEF OnItsWay, Fits
  <2> QED BY <1>2, <2>1, <2>2 DEF OnItsWay
<1>11. RecoveryInv'
  BY <1>2, <1>3, <1>9 DEF RecoveryInv, Recovers, ViewTyped, Fetch, OnItsWay, Fits
<1>12. CompleteInv'
  BY <1>3, <1>4, <1>6 DEF CompleteInv
<1>13. EachChatItsOwn'
  BY <1>1, <1>4, <1>5 DEF EachChatItsOwn
<1> QED BY <1>7, <1>8, <1>10, <1>11, <1>12, <1>13

\* A route without a chat.
LEMMA LeaveStep ==
    ASSUME ViewInv, LeaveChats
    PROVE  ViewInv'
<1> USE DEF ViewInv
<1>1. cache' \in [Viewable -> Transcript] /\ \A d \in Viewable : cache'[d].chat \in {NoneShown, d}
  BY CachedOnLeave DEF LeaveChats
<1>2. /\ screen' = [owner |-> NoneShown, shown |-> Nothing, ready |-> TRUE]
      /\ visit' = [visit EXCEPT !.chat = NoneShown, !.asked = FALSE, !.timer = FALSE, !.events = 0, !.raf = FALSE]
      /\ hub' = [hub EXCEPT !.subscribed = 0] /\ UNCHANGED <<fetches, inbox>>
  BY DEF LeaveChats
<1>3. MaxVisits \in Nat /\ MaxEntries \in Nat
  BY ViewConstants
<1>4. /\ visit' \in VisitRecord /\ visit'.number = visit.number /\ visit'.chat = NoneShown
      /\ ~visit'.asked /\ ~visit'.timer /\ visit'.events = 0 /\ ~visit'.raf
  <2> PICK r : r = visit
    OBVIOUS
  <2>1. r \in VisitRecord /\ 0 \in 0..MaxEntries
    BY <1>3 DEF ViewTyped
  <2>2. visit' = [r EXCEPT !.chat = NoneShown, !.asked = FALSE, !.timer = FALSE, !.events = 0, !.raf = FALSE]
    BY <1>2
  <2> HIDE DEF ViewInv
  <2>3. /\ visit' \in VisitRecord /\ visit'.number = r.number /\ visit'.chat = NoneShown
        /\ visit'.asked = FALSE /\ visit'.timer = FALSE /\ visit'.events = 0 /\ visit'.raf = FALSE
    BY <2>1, <2>2 DEF VisitRecord
  <2> QED BY <2>3
<1>5. screen' \in ScreenRecord /\ screen'.shown.chat = NoneShown
  BY <1>2, NothingIsTyped DEF ScreenRecord, Nothing
<1>6. hub' \in ViewHubRecord /\ hub'.subscribed = 0
  BY <1>2, Unsubscribed DEF ViewTyped
<1>7. ViewTyped'
  BY <1>1, <1>2, <1>4, <1>5, <1>6 DEF ViewTyped
<1>8. VisitInv'
  BY <1>4, <1>6 DEF VisitInv
<1>9. \A v : Cancelled(v)'
  BY <1>4 DEF Cancelled
<1>10. OnItsWay' /\ RecoveryInv'
  BY <1>2, <1>4, <1>9 DEF OnItsWay, RecoveryInv, Recovers, Fits
<1>11. CompleteInv' /\ EachChatItsOwn'
  BY <1>1, <1>4, <1>5 DEF CompleteInv, EachChatItsOwn
<1> QED BY <1>7, <1>8, <1>10, <1>11

\* Nothing is kept of some chats.
LEMMA ForgetStep ==
    ASSUME ViewInv, NEW cs \in SUBSET Viewable, ForgetCached(cs)
    PROVE  ViewInv'
<1> USE DEF ViewInv
<1>1. /\ cache' = [c \in Viewable |-> IF c \in cs THEN Nothing ELSE cache[c]]
      /\ UNCHANGED <<visit, screen, fetches, inbox, hub>>
  BY DEF ForgetCached
<1>2. cache' \in [Viewable -> Transcript] /\ \A c \in Viewable : cache'[c].chat \in {NoneShown, cache[c].chat}
  BY <1>1, NothingIsTyped DEF Nothing, ViewTyped
<1>3. ViewTyped'
  BY <1>1, <1>2 DEF ViewTyped
<1>4. VisitInv' /\ OnItsWay' /\ RecoveryInv' /\ CompleteInv'
  BY <1>1 DEF VisitInv, OnItsWay, Fits, Cancelled, RecoveryInv, Recovers, CompleteInv, Complete
<1>5. EachChatItsOwn'
  BY <1>1, <1>2 DEF EachChatItsOwn
<1> QED BY <1>3, <1>4, <1>5

\* The visit goes on.
GoesOn == /\ visit' \in VisitRecord /\ visit'.number = visit.number /\ visit'.chat = visit.chat

\* A step that does not leave the chat keeps what was owed to the visit.
LEMMA SameVisit ==
    ASSUME GoesOn
    PROVE  /\ \A v : Cancelled(v)' <=> Cancelled(v)
           /\ \A x : Fits(x) => Fits(x)'
           /\ \A x : Recovers(x)' <=> Recovers(x)
BY DEF GoesOn, Cancelled, Fits, Recovers

\* A snapshot or a reply has come.
LEMMA ToldStep ==
    ASSUME ViewInv, GoesOn, inbox # <<>>, inbox' = Tail(inbox), NEW m, m = Head(inbox),
           screen' \in ScreenRecord, screen'.shown = ApplyRenderUnits(m.visit, m.chat, m.upto).shown,
           /\ visit'.asked = visit.asked /\ visit'.timer = visit.timer /\ visit'.raf = visit.raf
           /\ visit'.events = visit.events /\ visit'.fetchTriggered = visit.fetchTriggered,
           UNCHANGED <<cache, fetches, hub>>
    PROVE  ViewInv'
<1> USE DEF ViewInv
<1>1. inbox \in Seq(Message)
  BY DEF ViewTyped
<1>2. /\ inbox' \in Seq(Message) /\ Len(inbox') = Len(inbox) - 1 /\ Len(inbox) \in Nat
      /\ m = inbox[1] /\ 1 \in 1..Len(inbox) /\ \A i \in 1..Len(inbox') : inbox'[i] = inbox[i + 1]
  BY <1>1
<1>3. m \in Message /\ Fits(m)
  BY <1>1, <1>2 DEF OnItsWay
<1>4. m.chat \in Viewable /\ m.upto \in 0..MaxEntries /\ (~Cancelled(m.visit) => m.chat = visit.chat)
  BY <1>3 DEF Message, Fits
<1>5. /\ screen'.shown.chat \in {NoneShown, visit.chat}
      /\ Cancelled(m.visit) => screen'.shown = screen.shown
      /\ ~Cancelled(m.visit) => screen'.shown.upto = m.upto
  BY <1>4, Applied
<1>6. ViewTyped'
  BY <1>2 DEF ViewTyped, GoesOn
<1>7. VisitInv'
  BY DEF VisitInv, GoesOn
<1>8. OnItsWay'
  BY SameVisit, <1>2 DEF OnItsWay, Fits, Cancelled
<1>9. RecoveryInv'
  BY SameVisit DEF RecoveryInv
<1>10. EachChatItsOwn'
  BY <1>5 DEF EachChatItsOwn, GoesOn
<1>11. CompleteInv'
  BY <1>1, EndsAtTail, <1>5, SameVisit DEF CompleteInv, GoesOn, Complete, Cancelled
<1> QED BY <1>6, <1>7, <1>8, <1>9, <1>10, <1>11

\* What comes changes the visit but little.
LEMMA VisitApplied ==
    ASSUME ViewTyped, NEW b, visit' = IF b THEN visit ELSE [visit EXCEPT !.applied = TRUE]
    PROVE  /\ GoesOn /\ visit'.asked = visit.asked /\ visit'.timer = visit.timer /\ visit'.raf = visit.raf
           /\ visit'.events = visit.events /\ visit'.fetchTriggered = visit.fetchTriggered
BY DEF ViewTyped, GoesOn, VisitRecord

\* A snapshot of the chat arrives.
LEMMA SnapshotStep ==
    ASSUME ViewInv, SnapshotArrives
    PROVE  ViewInv'
<1> PICK m : m = Head(inbox)
  OBVIOUS
<1>1. /\ inbox # <<>> /\ inbox' = Tail(inbox) /\ UNCHANGED <<cache, fetches, hub>>
      /\ screen' = ApplyRenderUnits(m.visit, m.chat, m.upto)
      /\ visit' = IF Cancelled(m.visit) THEN visit ELSE [visit EXCEPT !.applied = TRUE]
  BY DEF SnapshotArrives
<1>2. m \in Message /\ Fits(m)
  BY <1>1 DEF ViewInv, ViewTyped, OnItsWay
<1>3. m.chat \in Viewable /\ m.upto \in 0..MaxEntries /\ (~Cancelled(m.visit) => m.chat = visit.chat)
  BY <1>2 DEF Message, Fits
<1>4. screen' \in ScreenRecord
  BY <1>1, <1>3, Applied DEF ViewInv
<1> QED BY <1>1, <1>4, VisitApplied, ToldStep DEF ViewInv

\* The answer to a fetch arrives.
LEMMA AnswerStep ==
    ASSUME ViewInv, FetchAnswered
    PROVE  ViewInv'
<1> PICK m : m = Head(inbox)
  OBVIOUS
<1> PICK r : r = ApplyRenderUnits(m.visit, m.chat, m.upto)
  OBVIOUS
<1>1. /\ inbox # <<>> /\ inbox' = Tail(inbox) /\ UNCHANGED <<cache, fetches, hub>>
      /\ screen' = [r EXCEPT !.ready = TRUE]
      /\ visit' = IF Cancelled(m.visit) THEN visit ELSE [visit EXCEPT !.applied = TRUE]
  BY DEF FetchAnswered
<1>2. m \in Message /\ Fits(m)
  BY <1>1 DEF ViewInv, ViewTyped, OnItsWay
<1>3. m.chat \in Viewable /\ m.upto \in 0..MaxEntries /\ (~Cancelled(m.visit) => m.chat = visit.chat)
  BY <1>2 DEF Message, Fits
<1>4. r \in ScreenRecord
  BY <1>3, Applied DEF ViewInv
<1>5. screen' \in ScreenRecord /\ screen'.shown = r.shown
  BY <1>1, <1>4, MadeReady
<1> QED BY <1>1, <1>5, VisitApplied, ToldStep DEF ViewInv

\* A fetch of this visit by its timer is one.
LEMMA OneRecovery ==
    ASSUME ViewInv, NEW f \in fetches, NEW g \in fetches, Recovers(f), Recovers(g)
    PROVE  f = g
BY DEF ViewInv, ViewTyped, OnItsWay, Recovers, Fits, Cancelled, Fetch

\* The fetches there are, or fewer; none that is of this visit's timer is lost.
LEMMA FewerFetches ==
    ASSUME ViewInv, GoesOn, fetches' \subseteq fetches,
           UNCHANGED <<screen, cache, inbox, hub>>,
           /\ (visit'.asked => visit.asked) /\ (visit'.timer => visit.timer)
           /\ visit'.fetchTriggered = visit.fetchTriggered,
           \/ visit.chat # NoneShown /\ visit'.events <= visit.events
           \/ visit'.raf = visit.raf /\ visit'.events = visit.events
    PROVE  ViewInv'
<1> USE DEF ViewInv
<1>1. ViewTyped'
  BY DEF ViewTyped, GoesOn
<1>2. VisitInv'
  BY ViewConstants DEF ViewTyped, VisitRecord, ViewHubRecord, GoesOn, VisitInv
<1>3. OnItsWay'
  BY SameVisit DEF OnItsWay, Fits, Cancelled, GoesOn
<1>4. RecoveryInv'
  BY SameVisit DEF RecoveryInv
<1>5. Complete => Complete'
  BY SameVisit DEF Complete, GoesOn
<1>6. CompleteInv'
  BY <1>5 DEF CompleteInv, GoesOn
<1>7. EachChatItsOwn'
  BY DEF EachChatItsOwn, GoesOn
<1> QED BY <1>1, <1>2, <1>3, <1>4, <1>6, <1>7

\* A fetch fails.
LEMMA FailStep ==
    ASSUME ViewInv, NEW f \in fetches, NEW connected \in BOOLEAN, FetchFails(f, connected)
    PROVE  ViewInv'
<1> USE DEF ViewInv
<1>1. fetches' = fetches \ {f} /\ UNCHANGED <<cache, inbox, hub>> /\ f \in Fetch /\ Fits(f)
  BY DEF FetchFails, ViewTyped, OnItsWay
<1>2. CASE f.source = "live_event" \/ (~connected /\ Cancelled(f.visit))
  BY <1>2, <1>1, FewerFetches DEF FetchFails, GoesOn, ViewTyped
<1>3. CASE f.source # "live_event" /\ ~connected /\ ~Cancelled(f.visit)
  <2>1. visit' = [visit EXCEPT !.fetchTriggered = FALSE] /\ screen' = screen
    BY <1>3 DEF FetchFails
  <2>2. /\ GoesOn /\ visit'.asked = visit.asked /\ visit'.timer = visit.timer /\ visit'.raf = visit.raf
        /\ visit'.events = visit.events
    BY <2>1 DEF GoesOn, ViewTyped, VisitRecord
  <2>3. Recovers(f) /\ \A g \in fetches' : ~Recovers(g)
    BY <1>1, <1>3, OneRecovery DEF Recovers, Fetch
  <2>4. ViewTyped' /\ VisitInv' /\ EachChatItsOwn'
    BY <1>1, <2>1, <2>2 DEF ViewTyped, VisitInv, EachChatItsOwn, GoesOn
  <2>5. OnItsWay'
    BY <1>1, <2>2, SameVisit DEF OnItsWay, Fits, Cancelled, GoesOn
  <2>6. RecoveryInv'
    BY <2>2, <2>3, SameVisit DEF RecoveryInv
  <2>7. Complete => Complete'
    BY <1>1, <2>1, <2>2, <2>3 DEF Complete, GoesOn
  <2>8. CompleteInv'
    BY <1>1, <2>2, <2>7 DEF CompleteInv, GoesOn
  <2> QED BY <2>4, <2>5, <2>6, <2>8
<1>4. CASE f.source # "live_event" /\ connected
  <2> PICK r : r = ApplyRenderUnits(f.visit, f.chat, 0)
    OBVIOUS
  <2>1. /\ screen' = [r EXCEPT !.ready = TRUE]
        /\ visit' = IF Cancelled(f.visit) THEN visit ELSE [visit EXCEPT !.applied = TRUE]
    BY <1>4 DEF FetchFails
  <2>2. /\ GoesOn /\ visit'.asked = visit.asked /\ visit'.timer = visit.timer /\ visit'.raf = visit.raf
        /\ visit'.events = visit.events /\ visit'.fetchTriggered = visit.fetchTriggered
    BY <2>1, VisitApplied
  <2>3. f.chat \in Viewable /\ 0 \in 0..MaxEntries /\ (~Cancelled(f.visit) => f.chat = visit.chat)
    BY <1>1, ViewConstants DEF Fetch, Fits
  <2>4. /\ r \in ScreenRecord /\ r.shown.chat \in {NoneShown, visit.chat}
        /\ Cancelled(f.visit) => r = screen
        /\ ~Cancelled(f.visit) => r.shown.upto = 0
    BY <2>3, Applied
  <2>5. screen' \in ScreenRecord /\ screen'.shown = r.shown
    BY <2>1, <2>4, MadeReady
  <2>6. ViewTyped' /\ VisitInv' /\ EachChatItsOwn'
    BY <1>1, <2>2, <2>4, <2>5 DEF ViewTyped, VisitInv, EachChatItsOwn, GoesOn
  <2>7. OnItsWay'
    BY <1>1, <2>2, SameVisit DEF OnItsWay, Fits, Cancelled, GoesOn
  <2>8. RecoveryInv'
    BY <1>1, <2>2, SameVisit DEF RecoveryInv
  <2>9. Complete => Complete'
    BY <1>1, <2>2, <2>4, <2>5, SameVisit, <1>4, OneRecovery DEF Complete, GoesOn, Recovers, Fetch, RecoveryInv
  <2>10. CompleteInv'
    BY <1>1, <2>2, <2>9 DEF CompleteInv, GoesOn
  <2> QED BY <2>6, <2>7, <2>8, <2>10
<1> QED BY <1>2, <1>3, <1>4

\* One more fetch.
LEMMA MoreFetches ==
    ASSUME ViewInv, GoesOn, NEW f, f \in Fetch, fetches' = fetches \cup {f},
           f.visit = visit.number /\ f.chat = visit.chat,
           UNCHANGED <<screen, cache, inbox, hub>>,
           /\ visit'.asked = visit.asked /\ visit'.events = visit.events
           /\ (visit'.timer => visit.timer) /\ (visit.fetchTriggered => visit'.fetchTriggered),
           f.source = "snapshot_recovery" => ~visit.fetchTriggered /\ visit'.fetchTriggered /\ ~visit'.timer
    PROVE  ViewInv'
<1> USE DEF ViewInv
<1>1. ViewTyped' /\ EachChatItsOwn'
  BY DEF ViewTyped, EachChatItsOwn, GoesOn
<1>2. visit.chat \in Viewable /\ visit.chat # NoneShown /\ visit.number \in Nat
  BY ViewConstants DEF Fetch, ViewTyped, VisitRecord
<1>3. VisitInv'
  BY <1>2 DEF VisitInv, GoesOn
<1>4. OnItsWay'
  BY <1>2, SameVisit DEF Fits, OnItsWay, Cancelled, GoesOn
<1>5. RecoveryInv'
  BY SameVisit DEF Recovers, RecoveryInv
<1>6. Complete => Complete'
  BY SameVisit DEF Recovers, Complete, GoesOn
<1>7. CompleteInv'
  BY <1>6 DEF CompleteInv, GoesOn
<1> QED BY <1>1, <1>3, <1>4, <1>5, <1>7

\* A message event is heard.
LEMMA EventStep ==
    ASSUME ViewInv, EventArrives
    PROVE  ViewInv'
<1>1. /\ visit' = [visit EXCEPT !.events = @ - 1, !.raf = TRUE] /\ visit.events > 0
      /\ UNCHANGED <<screen, cache, fetches, inbox, hub>>
  BY DEF EventArrives
<1>2. visit.events \in 0..MaxEntries /\ MaxEntries \in Nat /\ visit \in VisitRecord
  BY ViewConstants DEF ViewInv, ViewTyped, VisitRecord
<1>3. visit.chat # NoneShown
  BY <1>1, <1>2 DEF ViewInv, VisitInv
<1>4. /\ GoesOn /\ visit'.asked = visit.asked /\ visit'.timer = visit.timer
      /\ visit'.fetchTriggered = visit.fetchTriggered /\ visit'.events = visit.events - 1
  <2> PICK r : r = visit
    OBVIOUS
  <2> PICK e : e = r.events - 1
    OBVIOUS
  <2>1. r \in VisitRecord /\ e \in 0..MaxEntries
    BY <1>1, <1>2
  <2>2. visit' = [r EXCEPT !.events = e, !.raf = TRUE]
    BY <1>1
  <2>3. /\ visit' \in VisitRecord /\ visit'.number = r.number /\ visit'.chat = r.chat
        /\ visit'.asked = r.asked /\ visit'.timer = r.timer
        /\ visit'.fetchTriggered = r.fetchTriggered /\ visit'.events = e
    BY <2>1, <2>2 DEF VisitRecord
  <2> QED BY <2>3 DEF GoesOn
<1>5. visit'.events <= visit.events /\ fetches' \subseteq fetches
  BY <1>1, <1>2, <1>4
<1> QED BY <1>1, <1>3, <1>4, <1>5, FewerFetches

\* A frame later everything is fetched.
LEMMA FrameStep ==
    ASSUME ViewInv, FrameFetches
    PROVE  ViewInv'
BY MoreFetches DEF FrameFetches, ViewInv, ViewTyped, VisitInv, Fetch, VisitRecord, GoesOn

\* The timer fires.
LEMMA TimerStep ==
    ASSUME ViewInv, RecoveryTimer
    PROVE  ViewInv'
BY MoreFetches, FewerFetches DEF RecoveryTimer, ViewInv, ViewTyped, VisitInv, Fetch, VisitRecord, GoesOn

\* The request to subscribe is lost.
LEMMA SubscribeLostStep ==
    ASSUME ViewInv, SubscribeFails
    PROVE  ViewInv'
BY FewerFetches DEF SubscribeFails, ViewInv, ViewTyped, GoesOn, VisitRecord

\* Something is sent to the tab: what there is of its chat.
LEMMA SentStep ==
    ASSUME ViewInv, GoesOn, NEW m \in Message, Fits(m), m.upto = hub.entries[m.chat],
           inbox' = Append(inbox, m), fetches' = fetches \/ \E f \in fetches : fetches' = fetches \ {f},
           UNCHANGED <<screen, cache>>,
           /\ (visit'.asked => visit.asked) /\ visit'.timer = visit.timer /\ visit'.raf = visit.raf
           /\ visit'.fetchTriggered = visit.fetchTriggered /\ visit'.events = visit.events,
           hub' \in ViewHubRecord /\ hub'.entries = hub.entries,
           \/ m.visit = visit.number /\ visit.chat # NoneShown /\ hub'.subscribed \in {0, visit.number}
           \/ hub'.subscribed = hub.subscribed /\ hub'.due = hub.due
    PROVE  ViewInv'
<1> USE DEF ViewInv
<1>1. inbox \in Seq(Message) /\ fetches' \subseteq fetches
  BY DEF ViewTyped
<1>2. /\ inbox' \in Seq(Message) /\ Len(inbox') = Len(inbox) + 1 /\ Len(inbox) \in Nat
      /\ inbox'[Len(inbox) + 1] = m /\ \A i \in 1..Len(inbox) : inbox'[i] = inbox[i]
  BY <1>1
<1>3. ViewTyped' /\ EachChatItsOwn'
  BY <1>1, <1>2 DEF ViewTyped, EachChatItsOwn, GoesOn
<1>4. VisitInv'
  BY DEF VisitInv, GoesOn
<1>5. OnItsWay'
  BY <1>1, SameVisit, <1>2 DEF OnItsWay, Fits, Cancelled
<1>6. RecoveryInv'
  BY <1>1, SameVisit DEF RecoveryInv
<1>7. Complete => Complete'
  BY <1>1, SameVisit DEF Complete, GoesOn
<1>8. CompleteInv'
  <2> SUFFICES ASSUME visit.chat # NoneShown, hub'.subscribed = visit.number, visit.chat \notin hub'.due
               PROVE  /\ EndsAt(inbox', visit.number, hub.entries[visit.chat])
                      /\ NoneFor(inbox', visit.number) => Complete'
    BY DEF CompleteInv, GoesOn
  <2> PICK n : n = hub.entries[visit.chat]
    OBVIOUS
  <2> PICK v : v = visit.number
    OBVIOUS
  <2> PICK w : w = Append(inbox, m)
    OBVIOUS
  <2>1. /\ v = m.visit => EndsAt(w, v, m.upto) /\ ~NoneFor(w, v)
        /\ v # m.visit => /\ EndsAt(inbox, v, n) => EndsAt(w, v, n)
                          /\ NoneFor(w, v) => NoneFor(inbox, v)
    BY <1>1, EndsAtAppend
  <2>2. CASE m.visit = v
    <3>1. m.upto = n
      BY <2>2 DEF Fits, Cancelled
    <3>2. EndsAt(w, v, n) /\ ~NoneFor(w, v)
      BY <2>1, <2>2, <3>1
    <3> QED BY <3>2 DEF EndsAt, NoneFor
  <2>3. CASE m.visit # v
    <3>1. EndsAt(inbox, v, n) /\ (NoneFor(inbox, v) => Complete)
      BY <2>3 DEF CompleteInv
    <3>2. EndsAt(w, v, n) /\ (NoneFor(w, v) => Complete')
      BY <1>7, <2>1, <2>3, <3>1
    <3> QED BY <3>2 DEF EndsAt, NoneFor
  <2> QED BY <2>2, <2>3
<1> QED BY <1>3, <1>4, <1>5, <1>6, <1>8

\* What is sent is a message.
LEMMA SentIsMessage ==
    ASSUME ViewTyped, NEW kind \in {"snapshot", "reply"}, NEW v \in 0..MaxVisits, NEW c \in Viewable
    PROVE  \E m \in Message : /\ Sent(kind, v, c) = Append(inbox, m)
                              /\ m.visit = v /\ m.chat = c /\ m.upto = hub.entries[c]
<1> PICK m : m = [kind |-> kind, visit |-> v, chat |-> c, upto |-> hub.entries[c]]
  OBVIOUS
<1>1. hub.entries[c] \in 0..MaxEntries
  BY DEF ViewTyped, ViewHubRecord
<1>2. m \in Message /\ m.visit = v /\ m.chat = c /\ m.upto = hub.entries[c]
  BY <1>1 DEF Message
<1>3. Sent(kind, v, c) = Append(inbox, m)
  BY DEF Sent
<1> QED BY <1>2, <1>3

\* The hub handles the snapshot.subscribe.
LEMMA SubscribedToStep ==
    ASSUME ViewInv, SubscribeHandled
    PROVE  ViewInv'
<1>1. /\ visit.asked /\ visit' = [visit EXCEPT !.asked = FALSE] /\ hub' = [hub EXCEPT !.subscribed = visit.number]
      /\ inbox' = Sent("snapshot", visit.number, visit.chat) /\ UNCHANGED <<screen, cache, fetches>>
  BY DEF SubscribeHandled
<1>2. visit \in VisitRecord /\ visit.chat # NoneShown /\ hub \in ViewHubRecord
  BY <1>1 DEF ViewInv, ViewTyped, VisitInv
<1>3. visit.number \in 0..MaxVisits /\ visit.chat \in Viewable
  BY <1>2, ViewConstants DEF VisitRecord
<1>4. /\ GoesOn /\ ~visit'.asked /\ visit'.timer = visit.timer /\ visit'.raf = visit.raf
      /\ visit'.fetchTriggered = visit.fetchTriggered /\ visit'.events = visit.events
  BY <1>1, <1>2 DEF GoesOn, VisitRecord
<1>5. hub' \in ViewHubRecord /\ hub'.entries = hub.entries /\ hub'.subscribed = visit.number
  BY <1>1, <1>2, <1>3 DEF ViewHubRecord
<1>6. PICK m \in Message : /\ inbox' = Append(inbox, m)
                           /\ m.visit = visit.number /\ m.chat = visit.chat /\ m.upto = hub.entries[visit.chat]
  BY <1>1, <1>3, SentIsMessage DEF ViewInv
<1>7. Fits(m)
  BY <1>3, <1>6 DEF Fits
<1> QED BY <1>1, <1>2, <1>4, <1>5, <1>6, <1>7, SentStep

\* The hub handles a fetch.
LEMMA HandledStep ==
    ASSUME ViewInv, NEW f \in fetches, FetchHandled(f)
    PROVE  ViewInv'
BY ViewConstants, SentIsMessage, SentStep DEF FetchHandled, ViewInv, ViewTyped, OnItsWay, Fetch, Fits, GoesOn

\* The end of a turn is broadcast.
LEMMA TurnEndStep ==
    ASSUME ViewInv, NEW c \in Viewable, TurnEndBroadcast(c)
    PROVE  ViewInv'
<1>1. /\ hub' = [hub EXCEPT !.due = @ \ {c}] /\ UNCHANGED <<visit, screen, cache, fetches>>
      /\ inbox' = IF hub.subscribed # 0 /\ visit.chat = c THEN Sent("snapshot", hub.subscribed, c) ELSE inbox
  BY DEF TurnEndBroadcast
<1>2. hub \in ViewHubRecord /\ visit \in VisitRecord /\ VisitInv
  BY DEF ViewInv, ViewTyped
<1>3. /\ hub' \in ViewHubRecord /\ hub'.entries = hub.entries /\ hub'.subscribed = hub.subscribed
      /\ hub'.due = hub.due \ {c}
  BY <1>1, <1>2 DEF ViewHubRecord
<1>4. GoesOn
  BY <1>1, <1>2 DEF GoesOn
<1>5. CASE hub.subscribed # 0 /\ visit.chat = c
  <2>1. hub.subscribed = visit.number /\ visit.number \in 0..MaxVisits /\ c # NoneShown
    BY <1>2, <1>5, ViewConstants DEF VisitInv, VisitRecord
  <2>2. PICK m \in Message : /\ inbox' = Append(inbox, m)
                             /\ m.visit = visit.number /\ m.chat = c /\ m.upto = hub.entries[c]
    BY <1>1, <1>5, <2>1, SentIsMessage DEF ViewInv
  <2>3. Fits(m)
    BY <1>5, <2>1, <2>2 DEF Fits
  <2> QED BY <1>1, <1>3, <1>4, <1>5, <2>1, <2>2, <2>3, SentStep
<1>6. CASE ~(hub.subscribed # 0 /\ visit.chat = c)
  <2>1. inbox' = inbox /\ UNCHANGED <<visit, screen, cache, fetches>>
    BY <1>1, <1>6
  <2>2. ViewTyped' /\ VisitInv' /\ OnItsWay' /\ RecoveryInv' /\ EachChatItsOwn'
    BY <1>3, <2>1 DEF ViewInv, ViewTyped, VisitInv, OnItsWay, Fits, Cancelled, RecoveryInv, Recovers, EachChatItsOwn
  <2>3. Complete => Complete'
    BY <1>3, <2>1 DEF Complete, Recovers, Cancelled
  <2>4. visit.number # 0
    BY <1>2 DEF VisitRecord
  <2>5. CompleteInv'
    BY <1>3, <1>6, <2>1, <2>3, <2>4 DEF ViewInv, CompleteInv
  <2> QED BY <2>2, <2>5 DEF ViewInv
<1> QED BY <1>5, <1>6

\* A turn adds an entry.
LEMMA AppendedStep ==
    ASSUME ViewInv, NEW c \in Viewable, EntryAppended(c)
    PROVE  ViewInv'
<1>1. /\ hub.entries[c] < MaxEntries /\ hub' = [hub EXCEPT !.entries[c] = @ + 1, !.due = @ \cup {c}]
      /\ visit' = IF hub.subscribed # 0 /\ visit.chat = c THEN [visit EXCEPT !.events = @ + 1] ELSE visit
      /\ UNCHANGED <<screen, cache, fetches, inbox>>
  BY DEF EntryAppended
<1>2. hub \in ViewHubRecord /\ visit \in VisitRecord /\ VisitInv /\ MaxEntries \in Nat
  BY ViewConstants DEF ViewInv, ViewTyped
<1> PICK e : e = hub.entries
  OBVIOUS
<1>3. e \in [Viewable -> 0..MaxEntries] /\ e[c] + 1 \in 0..MaxEntries
  BY <1>1, <1>2 DEF ViewHubRecord
<1> PICK en : en = [e EXCEPT ![c] = e[c] + 1]
  OBVIOUS
<1>4. en \in [Viewable -> 0..MaxEntries] /\ en[c] = e[c] + 1 /\ \A d \in Viewable \ {c} : en[d] = e[d]
  BY <1>3
<1>5. hub' \in ViewHubRecord /\ hub'.entries = en /\ hub'.subscribed = hub.subscribed /\ hub'.due = hub.due \cup {c}
  BY <1>1, <1>2, <1>4 DEF ViewHubRecord
<1>6. /\ GoesOn /\ visit'.asked = visit.asked /\ visit'.timer = visit.timer /\ visit'.raf = visit.raf
      /\ visit'.fetchTriggered = visit.fetchTriggered
      /\ visit'.events = IF hub.subscribed # 0 /\ visit.chat = c THEN visit.events + 1 ELSE visit.events
  BY <1>2, ViewConstants, <1>3, <1>1 DEF VisitRecord, VisitInv, GoesOn
<1>7. ViewTyped' /\ RecoveryInv' /\ EachChatItsOwn'
  BY <1>1, <1>5, <1>6, SameVisit DEF ViewInv, ViewTyped, RecoveryInv, EachChatItsOwn, GoesOn
<1>8. VisitInv'
  BY <1>2, <1>3, <1>4, <1>6, <1>5 DEF VisitRecord, VisitInv, GoesOn
<1>9. OnItsWay'
  BY <1>1, <1>6 DEF ViewInv, OnItsWay, Fits, Cancelled, GoesOn
<1>10. visit.chat # c /\ visit.chat # NoneShown /\ Complete => Complete'
  BY <1>2, <1>4, <1>6, SameVisit, <1>1, <1>5 DEF VisitRecord, Complete, GoesOn
<1>11. CompleteInv'
  BY <1>2, <1>4, <1>1, <1>5, <1>6, <1>10 DEF VisitRecord, ViewInv, CompleteInv, GoesOn
<1> QED BY <1>7, <1>8, <1>9, <1>11 DEF ViewInv

-----------------------------------------------------------------------------

\* The invariant of the transcript shown holds at first ...
LEMMA ViewInvInit == ViewInit => ViewInv
<1> SUFFICES ASSUME ViewInit PROVE ViewInv
  OBVIOUS
<1>1. 1 \in 1..MaxVisits /\ 0 \in 0..MaxVisits /\ 1 \in 0..MaxEntries /\ 0 \in 0..MaxEntries /\ First \in Viewable
  BY ViewConstants
<1>2. /\ visit \in VisitRecord /\ visit.number = 1 /\ visit.chat = First /\ visit.events = 0 /\ First # NoneShown
  BY <1>1, ViewConstants DEF ViewInit, VisitRecord
<1>3. screen \in ScreenRecord /\ screen.shown = Nothing
  BY NothingIsTyped DEF ViewInit, ScreenRecord
<1>4. hub \in ViewHubRecord /\ hub.subscribed = 0 /\ hub.entries[First] = 1
  BY <1>1 DEF ViewInit, ViewHubRecord
<1>5. fetches = {} /\ inbox = <<>> /\ cache = [c \in Viewable |-> Nothing]
  BY DEF ViewInit
<1>6. ViewTyped
  BY <1>2, <1>3, <1>4, <1>5, NothingIsTyped DEF ViewTyped
<1>7. VisitInv /\ OnItsWay /\ RecoveryInv /\ CompleteInv
  BY <1>2, <1>4, <1>5 DEF VisitInv, OnItsWay, RecoveryInv, CompleteInv
<1>8. EachChatItsOwn
  BY <1>3, <1>5 DEF EachChatItsOwn, Nothing
<1> QED BY <1>6, <1>7, <1>8 DEF ViewInv

\* ... and is kept by every step.
LEMMA ViewInvStep == ViewInv /\ [ViewStep]_viewVars => ViewInv'
<1> SUFFICES ASSUME ViewInv, [ViewStep]_viewVars PROVE ViewInv'
  OBVIOUS
<1>1. ASSUME NEW c \in Viewable, Visit(c) \/ EntryAppended(c) \/ TurnEndBroadcast(c) \/ ForgetCached({c}) PROVE ViewInv'
  BY <1>1, VisitStep, AppendedStep, TurnEndStep, ForgetStep
<1>2. CASE LeaveChats
  BY <1>2, LeaveStep
<1>3. CASE ForgetCached(Viewable)
  BY <1>3, ForgetStep
<1>4. CASE SnapshotArrives \/ FetchAnswered \/ EventArrives \/ FrameFetches \/ RecoveryTimer
  BY <1>4, SnapshotStep, AnswerStep, EventStep, FrameStep, TimerStep
<1>5. CASE SubscribeHandled \/ SubscribeFails
  BY <1>5, SubscribedToStep, SubscribeLostStep
<1>6. ASSUME NEW f \in fetches, FetchHandled(f) \/ \E connected \in BOOLEAN : FetchFails(f, connected) PROVE ViewInv'
  BY <1>6, HandledStep, FailStep
<1>7. CASE UNCHANGED viewVars
  BY <1>7 DEF viewVars, ViewInv, ViewTyped, VisitInv, OnItsWay, Fits, Cancelled, RecoveryInv, Recovers,
              CompleteInv, Complete, EachChatItsOwn
<1> QED BY <1>1, <1>2, <1>3, <1>4, <1>5, <1>6, <1>7 DEF ViewStep

\* However quickly a user goes from chat to chat and however late answers, events and
\* failures come, the screen and the cache are each chat's own, and a subscribed chat with
\* nothing on its way is shown whole (useTranscriptLifecycle.ts with chatCache.ts).
THEOREM ScreenIsOfItsChat == ViewSpec => [](ViewTypeOK /\ ShowsItsChat)
<1>1. ViewInv => CompleteWhenQuiet
  BY DEF CompleteWhenQuiet, NoneFor, ViewInv, CompleteInv, Complete
<1>2. ViewInv => ViewTypeOK
  BY DEF ViewInv, ViewTyped, VisitRecord, ViewTypeOK, ScreenRecord, ViewHubRecord
<1>3. ViewInv => ViewTypeOK /\ ShowsItsChat
  BY <1>1, <1>2 DEF ViewInv, ShowsItsChat
<1> QED BY ViewInvInit, ViewInvStep, <1>3, PTL DEF ViewSpec

-----------------------------------------------------------------------------
(* What users submit *)

\* The types, of texts of the messages typed so far.
TextOf(n) == Seq(1..n)
TabRecord(n) == [composer: TextOf(n), queued: TextOf(n), inFlight: BOOLEAN, awaitingBusy: BOOLEAN, busy: BOOLEAN]
CallRecord(n) == [tab: Tabs, raw: TextOf(n), at: {"sent", "starting", "queued", "started", "failed"},
                  kind: {"send", "queue"}, text: TextOf(n)]
QueuedRecord(n) == [text: TextOf(n), draining: TextOf(n)]
SightRecord(n) == [busy: BOOLEAN, queued: TextOf(n)] \cup {NoSnapshot}
TurnRecord == [running: BOOLEAN, observed: BOOLEAN, recent: BOOLEAN]

SubmitTyped ==
    /\ typed \in 0..MaxMessages
    /\ tabs \in [Tabs -> TabRecord(typed)] /\ calls \subseteq CallRecord(typed)
    /\ queuedTurn \in QueuedRecord(typed) /\ turn \in TurnRecord
    /\ sight \in [Tabs -> SightRecord(typed)]
    /\ acked \subseteq 1..typed /\ begun \subseteq 1..typed

\* The inductive invariant: what was answered is in a turn or queued, because a text
\* leaves the queue only for a turn or to be put back.
SubmitInv == SubmitTyped /\ AckedIsKept

\* The messages of a text.
LEMMA MessagesOf ==
    ASSUME NEW n \in Nat, NEW s \in TextOf(n), NEW t \in TextOf(n)
    PROVE  /\ s \o t \in TextOf(n) /\ ToSet(s) \subseteq 1..n
           /\ ToSet(s \o t) = ToSet(s) \cup ToSet(t)
<1>1. s \o t \in Seq(1..n) /\ Len(s \o t) = Len(s) + Len(t) /\ Len(s) \in Nat /\ Len(t) \in Nat
  BY DEF TextOf
<1>2. \A i \in 1..Len(s) : (s \o t)[i] = s[i] /\ s[i] \in 1..n
  BY DEF TextOf
<1>3. \A i \in 1..Len(t) : (s \o t)[Len(s) + i] = t[i]
  BY DEF TextOf
<1>4. \A i \in 1..Len(s \o t) : i \in 1..Len(s) \/ (i - Len(s) \in 1..Len(t) /\ i = Len(s) + (i - Len(s)))
  BY <1>1
<1>5. DOMAIN s = 1..Len(s) /\ DOMAIN t = 1..Len(t) /\ DOMAIN (s \o t) = 1..Len(s \o t)
  BY <1>1 DEF TextOf
<1> PICK u : u = s \o t
  OBVIOUS
<1>6. ToSet(u) \subseteq ToSet(s) \cup ToSet(t)
  BY <1>5, <1>2, <1>3, <1>4 DEF ToSet
<1>7. ToSet(s) \subseteq ToSet(u)
  BY <1>1, <1>2, <1>5 DEF ToSet
<1>8. ToSet(t) \subseteq ToSet(u)
  <2>1. \A i \in 1..Len(t) : Len(s) + i \in 1..Len(u) /\ u[Len(s) + i] = t[i]
    BY <1>1, <1>3
  <2> QED BY <1>5, <2>1 DEF ToSet
<1>9. ToSet(s) \subseteq 1..n
  BY <1>2, <1>5 DEF ToSet
<1>10. s \o t \in TextOf(n)
  BY <1>1 DEF TextOf
<1> QED BY <1>6, <1>7, <1>8, <1>9, <1>10

\* A text stays one when more is typed.
LEMMA MoreTyped ==
    ASSUME NEW n \in Nat
    PROVE  /\ TextOf(n) \subseteq TextOf(n + 1) /\ TabRecord(n) \subseteq TabRecord(n + 1)
           /\ CallRecord(n) \subseteq CallRecord(n + 1) /\ QueuedRecord(n) \subseteq QueuedRecord(n + 1)
           /\ SightRecord(n) \subseteq SightRecord(n + 1) /\ 1..n \subseteq 1..(n + 1)
BY SeqMonotonic DEF TextOf, TabRecord, CallRecord, QueuedRecord, SightRecord

\* No text, and one message.
LEMMA NoTextOf ==
    ASSUME NEW n \in Nat
    PROVE  /\ <<>> \in TextOf(n) /\ ToSet(<<>>) = {}
           /\ \A s \in TextOf(n) : Append(s, n + 1) \in TextOf(n + 1)
BY MoreTyped DEF TextOf, ToSet

\* What is kept, of the text that waits and the one a drain has taken out.
LEMMA KeptApart ==
    ASSUME NEW n \in Nat, NEW q \in QueuedRecord(n)
    PROVE  ToSet(q.text \o q.draining) = ToSet(q.text) \cup ToSet(q.draining)
BY MessagesOf DEF QueuedRecord

\* A step of the tabs and the snapshots alone.
LEMMA TabStep ==
    ASSUME SubmitInv, tabs' \in [Tabs -> TabRecord(typed)], sight' \in [Tabs -> SightRecord(typed)],
           calls' \subseteq calls, UNCHANGED <<queuedTurn, turn, typed, acked, begun>>
    PROVE  SubmitInv'
BY DEF SubmitInv, SubmitTyped, AckedIsKept

\* A message is typed and submitted.
LEMMA SubmitMessageStep ==
    ASSUME SubmitInv, NEW t \in Tabs, SubmitMessage(t)
    PROVE  SubmitInv'
<1> USE DEF SubmitInv
<1> PICK n : n = typed
  OBVIOUS
<1> PICK raw : raw = Append(tabs[t].composer, typed')
  OBVIOUS
<1> PICK all : all = tabs[t].queued \o raw
  OBVIOUS
<1>1. n \in Nat /\ n < MaxMessages /\ MaxMessages \in Nat /\ typed' = n + 1 /\ tabs[t] \in TabRecord(n)
  BY SubmitConstants DEF SubmitMessage, SubmitTyped
<1>2. tabs[t].composer \in TextOf(n) /\ tabs[t].queued \in TextOf(n) /\ n + 1 \in Nat
  BY <1>1 DEF TabRecord
<1>3. raw \in TextOf(n + 1)
  BY <1>1, <1>2, NoTextOf
<1>4. all \in TextOf(n + 1)
  BY <1>1, <1>2, <1>3, MoreTyped, MessagesOf
<1>5. /\ tabs \in [Tabs -> TabRecord(n + 1)] /\ calls \subseteq CallRecord(n + 1)
      /\ queuedTurn \in QueuedRecord(n + 1) /\ sight \in [Tabs -> SightRecord(n + 1)]
      /\ acked \subseteq 1..(n + 1) /\ begun \subseteq 1..(n + 1)
  BY <1>1, MoreTyped DEF SubmitTyped
<1>6. UNCHANGED <<queuedTurn, turn, sight, acked, begun>>
  BY DEF SubmitMessage
<1> PICK none : none = <<>>
  OBVIOUS
<1>7. none \in TextOf(n + 1)
  BY <1>2, NoTextOf
<1> PICK mine : mine = tabs[t]
  OBVIOUS
<1>8. mine \in TabRecord(n + 1)
  BY <1>5
<1>9. tabs' \in [Tabs -> TabRecord(n + 1)] /\ calls' \subseteq CallRecord(n + 1)
  <2>1. CASE Queues(tabs[t])
    <3> PICK new : new = [mine EXCEPT !.composer = none, !.queued = all]
      OBVIOUS
    <3> PICK call : call = [tab |-> t, raw |-> raw, at |-> "sent", kind |-> "queue", text |-> all]
      OBVIOUS
    <3>1. tabs' = [tabs EXCEPT ![t] = new] /\ calls' = calls \cup {call}
      BY <2>1 DEF SubmitMessage
    <3>2. new \in TabRecord(n + 1)
      BY <1>4, <1>7, <1>8 DEF TabRecord
    <3>3. call \in CallRecord(n + 1)
      BY <1>3, <1>4 DEF CallRecord
    <3> QED BY <1>5, <3>1, <3>2, <3>3
  <2>2. CASE ~Queues(tabs[t])
    <3> PICK new : new = [mine EXCEPT !.composer = none, !.inFlight = TRUE, !.awaitingBusy = FALSE]
      OBVIOUS
    <3> PICK call : call = [tab |-> t, raw |-> raw, at |-> "sent", kind |-> "send", text |-> raw]
      OBVIOUS
    <3>1. tabs' = [tabs EXCEPT ![t] = new] /\ calls' = calls \cup {call}
      BY <2>2 DEF SubmitMessage
    <3>2. new \in TabRecord(n + 1)
      BY <1>7, <1>8 DEF TabRecord
    <3>3. call \in CallRecord(n + 1)
      BY <1>3 DEF CallRecord
    <3> QED BY <1>5, <3>1, <3>2, <3>3
  <2> QED BY <2>1, <2>2
<1>10. SubmitTyped'
  BY <1>1, <1>5, <1>6, <1>9 DEF SubmitTyped
<1>11. AckedIsKept'
  BY <1>6 DEF AckedIsKept
<1> QED BY <1>10, <1>11

\* A call moves on.
LEMMA MovedOn ==
    ASSUME NEW n, NEW call \in CallRecord(n),
           NEW at \in {"sent", "starting", "queued", "started", "failed"}
    PROVE  [call EXCEPT !.at = at] \in CallRecord(n)
  BY DEF CallRecord

\* A call that moves on stays one of the calls of the messages typed.
LEMMA CallsTyped ==
    ASSUME SubmitTyped, NEW call \in calls, NEW at \in {"sent", "starting", "queued", "started", "failed"},
           Moved(call, at)
    PROVE  calls' \subseteq CallRecord(typed)
<1>1. call \in CallRecord(typed) /\ [call EXCEPT !.at = at] \in CallRecord(typed)
  BY MovedOn DEF SubmitTyped
<1> QED BY <1>1 DEF Moved, SubmitTyped

\* More text is queued.
LEMMA CoalescedText ==
    ASSUME NEW n \in Nat, queuedTurn \in QueuedRecord(n), NEW x \in TextOf(n)
    PROVE  /\ Coalesced(x) \in QueuedRecord(n) /\ Coalesced(x).draining = queuedTurn.draining
           /\ ToSet(Coalesced(x).text) = ToSet(queuedTurn.text) \cup ToSet(x)
BY MessagesOf DEF QueuedRecord, Coalesced

\* The hub takes a call up: it starts the turn or queues the message.
LEMMA TakenUpStep ==
    ASSUME SubmitInv, NEW call \in calls, HubTakesUp(call)
    PROVE  SubmitInv'
<1> USE DEF SubmitInv
<1>1. typed \in Nat /\ call \in CallRecord(typed) /\ UNCHANGED <<tabs, turn, sight, typed, begun>>
  BY SubmitConstants DEF HubTakesUp, SubmitTyped
<1>2. call.text \in TextOf(typed) /\ ToSet(call.text) \subseteq 1..typed
  BY <1>1, MessagesOf DEF CallRecord
<1>3. CASE call.kind = "queue" /\ HubBusy
  <2>1. /\ queuedTurn' = Coalesced(call.text) /\ acked' = acked \cup ToSet(call.text)
        /\ Moved(call, "queued")
    BY <1>3 DEF HubTakesUp
  <2>2. calls' \subseteq CallRecord(typed)
    BY <2>1, CallsTyped
  <2>3. /\ queuedTurn' \in QueuedRecord(typed) /\ queuedTurn'.draining = queuedTurn.draining
        /\ ToSet(queuedTurn'.text) = ToSet(queuedTurn.text) \cup ToSet(call.text)
    BY <1>1, <1>2, <2>1, CoalescedText DEF SubmitTyped
  <2>4. SubmitTyped'
    BY <1>1, <1>2, <2>1, <2>2, <2>3 DEF SubmitTyped
  <2>5. AckedIsKept'
    BY <1>1, KeptApart, <2>3, <2>1 DEF AckedIsKept, SubmitTyped
  <2> QED BY <2>4, <2>5
<1>4. CASE ~(call.kind = "queue" /\ HubBusy)
  BY <1>4, CallsTyped, <1>1 DEF HubTakesUp, SubmitTyped, AckedIsKept
<1> QED BY <1>3, <1>4

\* The runner answers the start of a turn.
LEMMA StartAnsweredStep ==
    ASSUME SubmitInv, NEW call \in calls, NEW ok \in BOOLEAN, StartAnswered(call, ok)
    PROVE  SubmitInv'
<1> USE DEF SubmitInv
<1>1. typed \in Nat /\ call \in CallRecord(typed) /\ UNCHANGED <<tabs, queuedTurn, sight, typed>>
  BY SubmitConstants DEF StartAnswered, SubmitTyped
<1>2. call.text \in TextOf(typed) /\ ToSet(call.text) \subseteq 1..typed
  BY <1>1, MessagesOf DEF CallRecord
<1>3. CASE ok
  BY <1>3, CallsTyped, <1>1, <1>2 DEF StartAnswered, TurnBegins, SubmitTyped, TurnRecord, AckedIsKept
<1>4. CASE ~ok
  BY <1>4, CallsTyped, <1>1 DEF StartAnswered, SubmitTyped, AckedIsKept
<1> QED BY <1>3, <1>4

\* The turn is seen, or ends and the hub drains.
LEMMA TurnStep ==
    ASSUME SubmitInv, TurnSeen \/ TurnEnds
    PROVE  SubmitInv'
<1> USE DEF SubmitInv
<1>1. CASE TurnSeen
  BY <1>1 DEF TurnSeen, SubmitTyped, TurnRecord, AckedIsKept
<1>2. CASE TurnEnds
  BY <1>2, SubmitConstants, NoTextOf, KeptApart DEF TurnEnds, TurnRecord, SubmitTyped, QueuedRecord, AckedIsKept
<1> QED BY <1>1, <1>2

\* What was drained is started, or queued again.
LEMMA DrainStep ==
    ASSUME SubmitInv, NEW ok \in BOOLEAN, DrainAnswered(ok)
    PROVE  SubmitInv'
<1> USE DEF SubmitInv
<1> PICK q : q = queuedTurn
  OBVIOUS
<1> PICK none : none = <<>>
  OBVIOUS
<1> PICK x : x = q.draining
  OBVIOUS
<1>1. typed \in Nat /\ q \in QueuedRecord(typed) /\ UNCHANGED <<tabs, calls, sight, typed, acked>>
  BY SubmitConstants DEF DrainAnswered, SubmitTyped
<1>2. x \in TextOf(typed) /\ ToSet(x) \subseteq 1..typed /\ none \in TextOf(typed) /\ ToSet(none) = {}
  BY <1>1, MessagesOf, NoTextOf DEF QueuedRecord
<1>3. acked \subseteq begun \cup ToSet(q.text) \cup ToSet(x)
  BY <1>1, KeptApart DEF AckedIsKept
<1>4. CASE ok
  <2>1. /\ begun' = begun \cup ToSet(x) /\ turn' = [turn EXCEPT !.running = TRUE, !.recent = TRUE]
        /\ queuedTurn' = [q EXCEPT !.draining = none]
    BY <1>4 DEF DrainAnswered, TurnBegins
  <2>2. turn' \in TurnRecord
    BY <2>1 DEF SubmitTyped, TurnRecord
  <2>3. queuedTurn' \in QueuedRecord(typed) /\ queuedTurn'.text = q.text /\ queuedTurn'.draining = none
    BY <1>1, <1>2, <2>1 DEF QueuedRecord
  <2>4. SubmitTyped'
    BY <1>1, <1>2, <2>1, <2>2, <2>3 DEF SubmitTyped
  <2>5. ToSet(queuedTurn'.text \o queuedTurn'.draining) = ToSet(queuedTurn'.text) \cup ToSet(queuedTurn'.draining)
    BY <1>1, <2>3, KeptApart
  <2>6. AckedIsKept'
    BY <1>1, <1>3, <2>1, <2>3, <2>5 DEF AckedIsKept
  <2> QED BY <2>4, <2>6
<1>5. CASE ~ok
  <2> PICK r : r = Coalesced(x)
    OBVIOUS
  <2>1. queuedTurn' = [r EXCEPT !.draining = none] /\ UNCHANGED <<turn, begun>>
    BY <1>5 DEF DrainAnswered
  <2>2. r \in QueuedRecord(typed) /\ ToSet(r.text) = ToSet(q.text) \cup ToSet(x)
    BY <1>1, <1>2, CoalescedText
  <2>3. queuedTurn' \in QueuedRecord(typed) /\ queuedTurn'.text = r.text /\ queuedTurn'.draining = none
    BY <1>2, <2>1, <2>2 DEF QueuedRecord
  <2>4. SubmitTyped'
    BY <1>1, <2>1, <2>3 DEF SubmitTyped
  <2>5. ToSet(queuedTurn'.text \o queuedTurn'.draining) = ToSet(queuedTurn'.text) \cup ToSet(queuedTurn'.draining)
    BY <1>1, <2>3, KeptApart
  <2>6. AckedIsKept'
    BY <1>1, <1>3, <2>1, <2>2, <2>3, <2>5 DEF AckedIsKept
  <2> QED BY <2>4, <2>6
<1> QED BY <1>4, <1>5

\* A call returns to its tab.
LEMMA ReturnStep ==
    ASSUME SubmitInv, NEW call \in calls, CallReturns(call)
    PROVE  SubmitInv'
<1> PICK t : t = call.tab
  OBVIOUS
<1> PICK mine : mine = tabs[t]
  OBVIOUS
<1> PICK none : none = <<>>
  OBVIOUS
<1> PICK raw : raw = call.raw
  OBVIOUS
<1> PICK new : new = CASE call.kind = "send" /\ call.at = "started" ->
                            [mine EXCEPT !.inFlight = FALSE, !.awaitingBusy = TRUE]
                       [] call.kind = "send" /\ call.at = "failed" ->
                            [mine EXCEPT !.inFlight = FALSE, !.awaitingBusy = FALSE, !.composer = raw]
                       [] call.kind = "queue" /\ call.at = "started" ->
                            [mine EXCEPT !.queued = none, !.awaitingBusy = FALSE]
                       [] call.kind = "queue" /\ call.at = "failed" -> [mine EXCEPT !.composer = raw]
                       [] OTHER -> mine
  OBVIOUS
<1>1. typed \in Nat /\ call \in CallRecord(typed) /\ tabs \in [Tabs -> TabRecord(typed)] /\ sight \in [Tabs -> SightRecord(typed)]
  BY SubmitConstants DEF SubmitInv, SubmitTyped
<1>2. t \in Tabs /\ raw \in TextOf(typed) /\ none \in TextOf(typed) /\ mine \in TabRecord(typed)
  BY <1>1, NoTextOf DEF CallRecord
<1>3. new \in TabRecord(typed)
  BY <1>2 DEF TabRecord
<1>4. tabs' = [tabs EXCEPT ![t] = new] /\ calls' = calls \ {call} /\ UNCHANGED <<queuedTurn, turn, sight, typed, acked, begun>>
  BY DEF CallReturns
<1>5. tabs' \in [Tabs -> TabRecord(typed)]
  BY <1>1, <1>2, <1>3, <1>4
<1> QED BY <1>1, <1>4, <1>5, TabStep

\* The hub publishes what it runs and queues.
LEMMA PublishedStep ==
    ASSUME SubmitInv, NEW t \in Tabs, SnapshotPublished(t)
    PROVE  SubmitInv'
BY TabStep DEF SubmitInv, SubmitTyped, SightRecord, QueuedRecord, TurnRecord, SnapshotPublished

\* A tab shows another text as queued.
LEMMA QueuedHere ==
    ASSUME NEW n, NEW mine \in TabRecord(n), NEW x \in TextOf(n)
    PROVE  [mine EXCEPT !.queued = x] \in TabRecord(n)
  BY DEF TabRecord

\* A tab is shown a snapshot.
LEMMA ShownStep ==
    ASSUME SubmitInv, NEW t \in Tabs, SnapshotShown(t)
    PROVE  SubmitInv'
<1> PICK old : old = tabs[t]
  OBVIOUS
<1> PICK s : s = sight[t]
  OBVIOUS
<1> PICK none : none = <<>>
  OBVIOUS
<1> PICK mine : mine = [old EXCEPT !.busy = s.busy, !.awaitingBusy = @ /\ ~s.busy]
  OBVIOUS
<1> PICK new : new = IF s.queued # none THEN [mine EXCEPT !.queued = s.queued]
                     ELSE IF ~s.busy THEN [mine EXCEPT !.queued = none, !.awaitingBusy = FALSE]
                     ELSE mine
  OBVIOUS
<1> PICK off : off = NoSnapshot
  OBVIOUS
<1>1. /\ typed \in Nat /\ tabs \in [Tabs -> TabRecord(typed)] /\ sight \in [Tabs -> SightRecord(typed)]
      /\ s # off
  BY SubmitConstants DEF SubmitInv, SubmitTyped, SnapshotShown
<1>2. old \in TabRecord(typed) /\ none \in TextOf(typed)
  BY <1>1, NoTextOf
<1>3. s \in [busy: BOOLEAN, queued: TextOf(typed)]
  BY <1>1 DEF SightRecord
<1>4. mine \in TabRecord(typed)
  BY <1>3, <1>2 DEF TabRecord
<1>5. new \in TabRecord(typed)
  <2> PICK queued : queued = s.queued
    OBVIOUS
  <2>1. queued \in TextOf(typed)
    BY <1>3
  <2>2. [mine EXCEPT !.queued = queued] \in TabRecord(typed)
    BY <1>4, <2>1, QueuedHere
  <2>3. [mine EXCEPT !.queued = none, !.awaitingBusy = FALSE] \in TabRecord(typed)
    BY ZenonT(30), <1>2, <1>4 DEF TabRecord
  <2> QED BY <1>4, <2>2, <2>3
<1>6. /\ tabs' = [tabs EXCEPT ![t] = new] /\ sight' = [sight EXCEPT ![t] = off]
      /\ UNCHANGED <<calls, queuedTurn, turn, typed, acked, begun>>
  BY DEF SnapshotShown
<1>7. tabs' \in [Tabs -> TabRecord(typed)]
  BY <1>1, <1>5, <1>6
<1>8. sight' \in [Tabs -> SightRecord(typed)]
  BY <1>1, <1>6 DEF SightRecord
<1> QED BY <1>6, <1>7, <1>8, TabStep

\* A tab takes its queued message back.
LEMMA TakenStep ==
    ASSUME SubmitInv, NEW t \in Tabs, NEW keep \in BOOLEAN, QueuedTaken(t, keep)
    PROVE  SubmitInv'
<1> PICK old : old = tabs[t]
  OBVIOUS
<1> PICK none : none = <<>>
  OBVIOUS
<1> PICK text : text = IF keep THEN old.queued ELSE old.composer
  OBVIOUS
<1> PICK new : new = [old EXCEPT !.queued = none, !.awaitingBusy = FALSE, !.composer = text]
  OBVIOUS
<1>1. typed \in Nat /\ tabs \in [Tabs -> TabRecord(typed)] /\ sight \in [Tabs -> SightRecord(typed)]
  BY SubmitConstants DEF SubmitInv, SubmitTyped
<1>2. old \in TabRecord(typed) /\ none \in TextOf(typed)
  BY <1>1, NoTextOf
<1>3. text \in TextOf(typed)
  BY <1>2 DEF TabRecord
<1>4. new \in TabRecord(typed)
  BY <1>2, <1>3 DEF TabRecord
<1>5. tabs' = [tabs EXCEPT ![t] = new] /\ UNCHANGED <<calls, queuedTurn, turn, sight, typed, acked, begun>>
  BY DEF QueuedTaken
<1>6. tabs' \in [Tabs -> TabRecord(typed)]
  BY <1>1, <1>4, <1>5
<1> QED BY <1>1, <1>5, <1>6, TabStep

\* The invariant of the submits holds at first ...
LEMMA SubmitInvInit == SubmitInit => SubmitInv
BY SubmitConstants, NoTextOf DEF SubmitInit, TabRecord, QueuedRecord, TurnRecord, SightRecord, SubmitInv, SubmitTyped,
   AckedIsKept

\* ... and is kept by every step.
LEMMA SubmitInvStep == SubmitInv /\ [SubmitStep]_submitVars => SubmitInv'
BY SubmitMessageStep, PublishedStep, ShownStep, TakenStep, TakenUpStep, ReturnStep, StartAnsweredStep, TurnStep,
   DrainStep DEF submitVars, SubmitInv, SubmitTyped, AckedIsKept, SubmitStep

\* A message whose submit was answered with success is in a turn or still queued
\* (useChatCommands.ts with RunnerProxy's send, queue and drainQueuedTurn), for any tabs
\* and messages.
THEOREM AckedStaysKept == SubmitSpec => [](SubmitTypeOK /\ AckedIsKept)
<1>1. SubmitInv => SubmitTypeOK
  <2> SUFFICES ASSUME SubmitTyped PROVE SubmitTypeOK
    BY DEF SubmitInv
  <2>1. typed \in 0..MaxMessages /\ MaxMessages \in Nat /\ 1..typed \subseteq 1..MaxMessages
    BY SubmitConstants DEF SubmitTyped
  <2>2. TextOf(typed) \subseteq Text
    BY <2>1, SeqMonotonic DEF TextOf, Text
  <2>3. tabs \in [Tabs -> [composer: Text, queued: Text, inFlight: BOOLEAN, awaitingBusy: BOOLEAN, busy: BOOLEAN]]
    BY <2>2 DEF TabRecord, SubmitTyped
  <2>4. ASSUME NEW c \in calls
        PROVE  /\ c.at \in {"sent", "starting", "queued", "started", "failed"}
               /\ {c.raw, c.text} \subseteq Text /\ c.tab \in Tabs
    BY <2>2 DEF SubmitTyped, CallRecord
  <2>5. queuedTurn \in [text: Text, draining: Text]
    BY <2>2 DEF SubmitTyped, QueuedRecord
  <2> QED BY <2>3, <2>4, <2>5 DEF SubmitTyped, SubmitTypeOK, TurnRecord
<1>2. SubmitInv => SubmitTypeOK /\ AckedIsKept
  BY <1>1 DEF SubmitInv
<1> QED BY SubmitInvInit, SubmitInvStep, <1>2, PTL DEF SubmitSpec

-----------------------------------------------------------------------------
(* The transcript that is folded, and the template that is written *)

\* The entries of a transcript, and that a result comes after its call.
LogEntry ==
    {e \in [kind: EntryKinds \cup {"tool_call", "tool_result"}, tool: ToolKinds \cup {""}, of: Nat, error: BOOLEAN] :
        IF e.kind = "tool_call" THEN e.tool \in ToolKinds ELSE e.tool = ""}
Refers(l) ==
    \A i \in 1..Len(l) : l[i].kind = "tool_result" => l[i].of \in 1..(i - 1) /\ l[l[i].of].kind = "tool_call"

\* The transcript of a chat is a sequence of them.
FoldInv == log \in Seq(LogEntry) /\ Len(log) <= MaxLog /\ loading \in BOOLEAN /\ Refers(log)

\* A sequence below its bound has room for an element.
LEMMA RoomForOne ==
    ASSUME NEW S, NEW l \in Seq(S), NEW e \in S, NEW n \in Nat, Len(l) < n
    PROVE  Append(l, e) \in Seq(S) /\ Len(Append(l, e)) <= n
OBVIOUS

\* An entry more refers to what was there.
LEMMA RefersStill ==
    ASSUME NEW S, NEW l \in Seq(S), NEW e \in S, Refers(l),
           e.kind = "tool_result" => e.of \in 1..Len(l) /\ l[e.of].kind = "tool_call"
    PROVE  Refers(Append(l, e))
BY DEF Refers

\* The invariant stays.
LEMMA FoldStays == FoldInv /\ [FoldStep]_foldVars => FoldInv'
<1> SUFFICES ASSUME FoldInv, [FoldStep]_foldVars PROVE FoldInv'
  OBVIOUS
<1>1. ASSUME NEW kind \in EntryKinds \cup {"tool_call", "tool_result"}, NEW tool \in ToolKinds \cup {""}, NEW of \in Nat,
             NEW error \in BOOLEAN, AppendEntry(Entry(kind, tool, of, error)),
             kind = "tool_result" => of \in 1..Len(log) /\ log[of].kind = "tool_call",
             IF kind = "tool_call" THEN tool \in ToolKinds ELSE tool = ""
      PROVE  FoldInv'
  <2> DEFINE e == Entry(kind, tool, of, error)
  <2>1. e \in LogEntry /\ e.kind = kind /\ e.of = of
    BY <1>1 DEF Entry, LogEntry
  <2>2. log' = Append(log, e) /\ Len(log) < MaxLog /\ loading' = loading /\ MaxLog \in Nat
    BY <1>1, FoldConstants DEF AppendEntry
  <2>3. log \in Seq(LogEntry) /\ Refers(log)
    BY DEF FoldInv
  <2>6. loading' \in BOOLEAN
    BY <2>2, Zenon DEF FoldInv
  <2> HIDE DEF e
  <2>4. Refers(Append(log, e))
    BY <1>1, <2>1, <2>3, RefersStill
  <2>5. ASSUME NEW l \in Seq(LogEntry), Len(l) < MaxLog
        PROVE  Append(l, e) \in Seq(LogEntry) /\ Len(Append(l, e)) <= MaxLog
    BY <2>1, <2>2, <2>5, RoomForOne
  <2> QED BY <2>2, <2>3, <2>4, <2>5, <2>6, Zenon DEF FoldInv
<1>2. CASE Says
  BY <1>2, FoldConstants, <1>1 DEF Says, None
<1>3. CASE CallsTool
  BY <1>3, <1>1 DEF CallsTool, None
<1>4. CASE ToolReturns
  <2>1. PICK call \in DOMAIN log, error \in BOOLEAN :
           log[call].kind = "tool_call" /\ AppendEntry(Entry("tool_result", "", call, error))
    BY <1>4 DEF ToolReturns
  <2>2. call \in 1..Len(log) /\ call \in Nat
    BY DEF FoldInv
  <2> QED BY <1>1, <2>1, <2>2
<1>5. CASE TurnToggles \/ UNCHANGED foldVars
  BY <1>5 DEF TurnToggles, foldVars, FoldInv
<1> QED BY <1>2, <1>3, <1>4, <1>5 DEF FoldStep

\* An empty transcript refers to nothing.
LEMMA FoldStarts == FoldInit => FoldInv
<1>1. <<>> \in Seq(LogEntry) /\ Len(<<>>) = 0 /\ Len(<<>>) <= MaxLog
  BY FoldConstants
<1>2. Refers(<<>>)
  BY DEF Refers
<1> QED BY <1>1, <1>2, Zenon DEF FoldInit, FoldInv

\* Entries and what they refer to are as the runner and the harnesses write them
\* (transcript-render.ts reads them): a result of a call that is in the transcript before it.
THEOREM FoldTypeCorrect == FoldSpec => []FoldTypeOK
<1>1. FoldInit => FoldInv
  BY FoldStarts
<1>2. FoldInv => FoldTypeOK
  <2> SUFFICES ASSUME FoldInv PROVE FoldTypeOK
    OBVIOUS
  <2>0. log \in Seq(LogEntry)
    BY DEF FoldInv
  <2>1. \A i \in DOMAIN log : i \in 1..Len(log) /\ log[i] \in LogEntry
    BY <2>0
  <2>2. ASSUME NEW i \in DOMAIN log, log[i].kind = "tool_result"
        PROVE  log[i].of < i /\ log[log[i].of].kind = "tool_call"
    BY <2>1, <2>2 DEF FoldInv, Refers
  <2>3. \A i \in DOMAIN log : log[i].kind \in EntryKinds \cup {"tool_call", "tool_result"}
    BY <2>1 DEF LogEntry
  <2> QED BY <2>2, <2>3 DEF FoldInv, FoldTypeOK
<1> QED BY <1>1, <1>2, FoldStays, PTL DEF FoldSpec

\* A set of numbers has a least one.
LEMMA LeastOf ==
    ASSUME NEW S \in SUBSET Nat, S # {}
    PROVE  Min(S) \in S /\ \A y \in S : Min(S) <= y
<1> DEFINE T == {n \in Nat : (\E k \in S : k <= n) => \E x \in S : \A y \in S : x <= y}
<1>1. 0 \in T
  OBVIOUS
<1>2. ASSUME NEW n \in Nat, n \in T PROVE n + 1 \in T
  BY <1>2
<1>3. \A n \in Nat : n \in T
  <2> HIDE DEF T
  <2> QED BY <1>1, <1>2, NumberByNumber
<1>4. PICK k \in S : TRUE
  OBVIOUS
<1>a. k \in Nat /\ k <= k /\ k \in T
  BY <1>3
<1>5. \E x \in S : \A y \in S : x <= y
  BY <1>a
<1> QED BY <1>5 DEF Min

\* And a greatest one, if it has a bound.
LEMMA GreatestOf ==
    ASSUME NEW n \in Nat, NEW S \in SUBSET (0..n), S # {}
    PROVE  Max(S) \in S /\ \A y \in S : Max(S) >= y
<1> DEFINE T == {n - y : y \in S}
<1>1. T \in SUBSET Nat /\ T # {}
  <2>1. \A y \in S : n - y \in Nat
    OBVIOUS
  <2>2. PICK y : y \in S
    OBVIOUS
  <2>3. n - y \in T
    BY <2>2
  <2> QED BY <2>1, <2>3
<1>2. Min(T) \in T /\ \A y \in T : Min(T) <= y
  <2> HIDE DEF T
  <2> QED BY <1>1, LeastOf
<1>3. PICK x \in S : Min(T) = n - x
  BY <1>2
<1>4. \A y \in S : x >= y
  BY <1>2, <1>3
<1>5. \E z \in S : \A y \in S : z >= y
  BY <1>4
<1> QED BY <1>5 DEF Max

\* The numbers of a finite set below one of them.
Below(S, x) == {y \in S : y < x}

\* There are more of them below a greater one.
LEMMA MoreBelow ==
    ASSUME NEW S \in SUBSET Nat, IsFiniteSet(S)
    PROVE  /\ Cardinality(S) \in Nat
           /\ \A x \in S : Cardinality(Below(S, x)) \in Nat /\ Cardinality(Below(S, x)) < Cardinality(S)
           /\ \A x, z \in S : x < z => Cardinality(Below(S, x)) < Cardinality(Below(S, z))
<1>1. \A A \in SUBSET S : IsFiniteSet(A) /\ Cardinality(A) \in Nat /\ Cardinality(A) <= Cardinality(S)
  BY FS_Subset, FS_CardinalityType
<1>2. ASSUME NEW A \in SUBSET S, NEW B \in SUBSET A, NEW x \in A, x \notin B PROVE Cardinality(B) < Cardinality(A)
  <2>1. IsFiniteSet(A) /\ Cardinality(A) \in Nat /\ Cardinality(B) \in Nat
    BY <1>1, <1>2
  <2>2. Cardinality(B) <= Cardinality(A) /\ (Cardinality(A) = Cardinality(B) => A = B)
    BY <2>1, FS_Subset
  <2>3. Cardinality(A) # Cardinality(B)
    BY <1>2, <2>2
  <2> QED BY <2>1, <2>2, <2>3
<1>3. \A x \in S : Below(S, x) \in SUBSET S /\ x \notin Below(S, x)
  BY DEF Below
<1>4. ASSUME NEW x \in S, NEW z \in S, x < z
      PROVE  Below(S, x) \in SUBSET Below(S, z) /\ x \in Below(S, z)
  <2>1. \A y \in S : y < x => y < z
    BY <1>4
  <2> QED BY <1>4, <2>1, Zenon DEF Below
<1>5. Cardinality(S) \in Nat
  BY <1>1
<1>6. \A x \in S : Cardinality(Below(S, x)) \in Nat
  BY <1>1, <1>3
<1>7. \A x \in S : Cardinality(Below(S, x)) < Cardinality(S)
  BY <1>2, <1>3
<1>8. ASSUME NEW x \in S, NEW z \in S, x < z PROVE Cardinality(Below(S, x)) < Cardinality(Below(S, z))
  BY <1>2, <1>3, <1>4, <1>8
<1> QED BY <1>5, <1>6, <1>7, <1>8

\* There is one for each number of numbers below.
LEMMA EachPlaceTaken ==
    ASSUME NEW S \in SUBSET Nat, IsFiniteSet(S), NEW k \in Nat, k < Cardinality(S)
    PROVE  \E x \in S : Cardinality(Below(S, x)) = k
<1> DEFINE T == {n \in Nat : n < Cardinality(S) => \E x \in S : Cardinality(Below(S, x)) = n}
<1>0. Cardinality(S) \in Nat
  BY MoreBelow
<1>1. 0 \in T
  <2> SUFFICES ASSUME 0 < Cardinality(S) PROVE \E x \in S : Cardinality(Below(S, x)) = 0
    OBVIOUS
  <2>1. S # {}
    BY <1>0, FS_EmptySet
  <2> PICK x : x = Min(S)
    OBVIOUS
  <2>2. x \in S /\ \A y \in S : x <= y
    BY <2>1, LeastOf
  <2>3. Below(S, x) = {}
    <3>1. \A y \in S : ~(y < x)
      BY <2>2
    <3> QED BY <3>1, Zenon DEF Below
  <2> QED BY <2>2, <2>3, FS_EmptySet
<1>2. ASSUME NEW n \in Nat, n \in T PROVE n + 1 \in T
  <2> SUFFICES ASSUME n + 1 < Cardinality(S) PROVE \E x \in S : Cardinality(Below(S, x)) = n + 1
    OBVIOUS
  <2>1. PICK x \in S : Cardinality(Below(S, x)) = n
    BY <1>0, <1>2
  <2> PICK A : A = Below(S, x) \cup {x}
    OBVIOUS
  <2>2. A \in SUBSET S /\ x \notin Below(S, x)
    BY DEF Below
  <2>3. IsFiniteSet(Below(S, x))
    BY FS_Subset DEF Below
  <2>4. Cardinality(A) = n + 1
    BY <2>1, <2>2, <2>3, FS_AddElement
  <2>5. S \ A # {}
    <3>1. Cardinality(A) # Cardinality(S)
      BY <1>0, <2>4
    <3> QED BY <2>2, <3>1
  <2> PICK z : z = Min(S \ A)
    OBVIOUS
  <2>6. z \in S /\ z \notin A /\ \A y \in S \ A : z <= y
    BY <2>5, LeastOf
  <2>7. z > x
    BY <2>6 DEF Below
  <2>8. Below(S, z) = A
    <3>1. \A y \in S : y \in A <=> y < x \/ y = x
      BY DEF Below
    <3>2. \A y \in S : y < x \/ y = x <=> y < z
      BY <2>6, <2>7, <3>1
    <3>3. \A y : y \in A => y \in S
      BY <2>2
    <3>4. \A y : y \in Below(S, z) <=> y \in S /\ y < z
      BY Zenon DEF Below
    <3> QED BY <3>1, <3>2, <3>3, <3>4, Zenon
  <2> QED BY <2>4, <2>6, <2>8
<1>3. \A n \in Nat : n \in T
  <2> HIDE DEF T
  <2> QED BY <1>1, <1>2, NumberByNumber
<1> QED BY <1>3

\* Ascending lists the numbers of a set, each once and the lesser first.
LEMMA InOrder ==
    ASSUME NEW S \in SUBSET Nat, IsFiniteSet(S)
    PROVE  /\ Ascending(S) \in Seq(Nat)
           /\ \A i \in 1..Len(Ascending(S)) : Ascending(S)[i] \in S
           /\ \A i, j \in 1..Len(Ascending(S)) : i < j => Ascending(S)[i] < Ascending(S)[j]
           /\ \A x \in S : \E i \in 1..Len(Ascending(S)) : Ascending(S)[i] = x
<1> PICK n, s : n = Cardinality(S) /\ s = Ascending(S)
  OBVIOUS
<1>0. n \in Nat
  BY MoreBelow
<1>1. s = [k \in 1..n |-> CHOOSE x \in S : Cardinality(Below(S, x)) = k - 1]
  BY Zenon DEF Ascending, Below
<1>2. \A k \in 1..n : s[k] \in S /\ Cardinality(Below(S, s[k])) = k - 1
  <2> TAKE k \in 1..n
  <2>1. \E x \in S : Cardinality(Below(S, x)) = k - 1
    BY <1>0, EachPlaceTaken
  <2>2. s[k] = CHOOSE x \in S : Cardinality(Below(S, x)) = k - 1
    BY <1>1
  <2> QED BY <2>1, <2>2, Zenon
<1>3. s \in Seq(Nat) /\ Len(s) = n
  <2>1. \A k \in 1..n : s[k] \in Nat
    BY <1>2
  <2>2. s = [k \in 1..n |-> s[k]]
    BY <1>1, Zenon
  <2> QED BY <1>0, <2>1, <2>2
<1>4. ASSUME NEW i \in 1..n, NEW j \in 1..n, i < j PROVE s[i] < s[j]
  <2>1. s[i] \in S /\ s[j] \in S /\ s[i] \in Nat /\ s[j] \in Nat
    BY <1>2
  <2>2. Cardinality(Below(S, s[i])) < Cardinality(Below(S, s[j]))
    BY <1>0, <1>2, <1>4
  <2>3. \A x, z \in S : x < z => Cardinality(Below(S, x)) < Cardinality(Below(S, z))
    BY MoreBelow
  <2>4. \A x \in S : Cardinality(Below(S, x)) \in Nat
    BY MoreBelow
  <2>5. \A a, b \in Nat : ~(a < b) => a = b \/ b < a
    OBVIOUS
  <2> QED BY <2>1, <2>2, <2>3, <2>4, <2>5
<1>5. ASSUME NEW x \in S PROVE \E i \in 1..n : s[i] = x
  <2> PICK k : k = Cardinality(Below(S, x))
    OBVIOUS
  <2>1. k \in Nat /\ k < n
    BY MoreBelow
  <2>2. k + 1 \in 1..n /\ (k + 1) - 1 = k
    BY <1>0, <2>1
  <2>3. s[k + 1] \in S /\ Cardinality(Below(S, s[k + 1])) = Cardinality(Below(S, x))
    BY <1>2, <2>2
  <2>4. \A y, z \in S : y < z => Cardinality(Below(S, y)) < Cardinality(Below(S, z))
    BY MoreBelow
  <2>5. \A y \in S : Cardinality(Below(S, y)) \in Nat
    BY MoreBelow
  <2>6. s[k + 1] = x
    <3>1. \A a, b \in Nat : a = b \/ b < a \/ a < b
      OBVIOUS
    <3>2. \A a, b \in Nat : a = b => ~(a < b)
      OBVIOUS
    <3> QED BY <2>3, <2>4, <2>5, <3>1, <3>2
  <2> QED BY <2>2, <2>6
<1> QED BY <1>2, <1>3, <1>4, <1>5

\* f is what FlattenSeq is defined by, of the first n parts.
Flattens(f, ss, n) == f = [i \in 1..n |-> IF i = 1 THEN ss[i] ELSE f[i - 1] \o ss[i]]

\* The equation that defines what is flattened has a solution.
LEMMA FlatteningExists ==
    ASSUME NEW ss, Len(ss) \in Nat
    PROVE  \E f : Flattens(f, ss, Len(ss))
<1> DEFINE S == {m \in Nat : \E f : Flattens(f, ss, m)}
<1>1. 0 \in S
  <2>1. Flattens([i \in 1..0 |-> <<>>], ss, 0)
    BY DEF Flattens
  <2> QED BY <2>1
<1>2. ASSUME NEW m \in Nat, m \in S PROVE m + 1 \in S
  <2>1. PICK f : Flattens(f, ss, m)
    BY <1>2
  <2> DEFINE g == [i \in 1..m + 1 |-> IF i = m + 1 THEN (IF i = 1 THEN ss[i] ELSE f[m] \o ss[i]) ELSE f[i]]
  <2>2. \A i \in 1..m : f[i] = IF i = 1 THEN ss[i] ELSE f[i - 1] \o ss[i]
    BY <2>1 DEF Flattens
  <2>3. \A i \in 1..m + 1 : g[i] = IF i = 1 THEN ss[i] ELSE g[i - 1] \o ss[i]
    BY <2>2
  <2>4. Flattens(g, ss, m + 1)
    <3>1. g = [i \in 1..m + 1 |-> g[i]]
      OBVIOUS
    <3> HIDE DEF g
    <3> QED BY <2>3, <3>1 DEF Flattens
  <2>5. \E h : Flattens(h, ss, m + 1)
    <3> HIDE DEF g
    <3> QED BY <2>4
  <2> QED BY <2>5
<1>3. Len(ss) \in S
  <2> HIDE DEF S
  <2> QED BY <1>1, <1>2, NumberByNumber
<1> QED BY <1>3

\* No number is in two places of the parts.
Apart(ss) ==
    \A i, j \in 1..Len(ss) : \A p \in 1..Len(ss[i]), q \in 1..Len(ss[j]) : ss[i][p] = ss[j][q] => i = j /\ p = q

\* The sequence s is of the numbers of the first n parts, from the first of them on, none twice.
FlatOf(s, ss, n) ==
    /\ s \in Seq(Nat)
    /\ \A p \in 1..Len(s) : \E i \in 1..n : \E q \in 1..Len(ss[i]) : s[p] = ss[i][q]
    /\ \A i \in 1..n : \A q \in 1..Len(ss[i]) : \E p \in 1..Len(s) : s[p] = ss[i][q]
    /\ Len(ss[1]) > 0 => Len(s) > 0 /\ s[1] = ss[1][1]
    /\ Apart(ss) => \A p, q \in 1..Len(s) : s[p] = s[q] => p = q

\* The sequence t is s and then x.
JoinOf(t, s, x) ==
    /\ t \in Seq(Nat) /\ Len(s) \in Nat /\ Len(x) \in Nat /\ Len(t) = Len(s) + Len(x)
    /\ \A p \in 1..Len(s) : t[p] = s[p]
    /\ \A p \in 1..Len(x) : t[Len(s) + p] = x[p]

LEMMA JoinedUp == ASSUME NEW s \in Seq(Nat), NEW x \in Seq(Nat) PROVE JoinOf(s \o x, s, x)
BY DEF JoinOf

\* A place of a joined sequence is in the one or in the other.
LEMMA PlaceOfJoin ==
    ASSUME NEW t, NEW s, NEW x, JoinOf(t, s, x)
    PROVE  \A p \in 1..Len(t) : \/ p \in 1..Len(s) /\ t[p] = s[p]
                                \/ p - Len(s) \in 1..Len(x) /\ t[p] = x[p - Len(s)] /\ p = Len(s) + (p - Len(s))
<1> TAKE p \in 1..Len(t)
<1>1. Len(s) \in Nat /\ Len(x) \in Nat /\ Len(t) = Len(s) + Len(x)
  BY Zenon DEF JoinOf
<1>2. CASE p \in 1..Len(s)
  BY <1>2 DEF JoinOf
<1>3. CASE p \notin 1..Len(s)
  <2>1. p - Len(s) \in 1..Len(x) /\ p = Len(s) + (p - Len(s))
    BY <1>1, <1>3
  <2>2. \A q \in 1..Len(x) : t[Len(s) + q] = x[q]
    BY Zenon DEF JoinOf
  <2> QED BY <2>1, <2>2
<1> QED BY <1>2, <1>3

\* A part more.
LEMMA FlatMore ==
    ASSUME NEW ss \in Seq(Seq(Nat)), NEW n \in Nat, n >= 1, n < Len(ss), NEW s, FlatOf(s, ss, n),
           NEW t, JoinOf(t, s, ss[n + 1])
    PROVE  FlatOf(t, ss, n + 1)
<1> PICK x : x = ss[n + 1]
  OBVIOUS
<1>0. n + 1 \in 1..Len(ss) /\ \A i \in 1..n : i \in 1..(n + 1) /\ i \in 1..Len(ss) /\ i # n + 1
  OBVIOUS
<1>1. /\ t \in Seq(Nat) /\ Len(s) \in Nat /\ Len(x) \in Nat /\ Len(t) = Len(s) + Len(x)
      /\ \A p \in 1..Len(s) : t[p] = s[p]
      /\ \A p \in 1..Len(x) : t[Len(s) + p] = x[p]
  BY Zenon DEF JoinOf
<1>2. /\ s \in Seq(Nat)
      /\ \A p \in 1..Len(s) : \E i \in 1..n : \E q \in 1..Len(ss[i]) : s[p] = ss[i][q]
      /\ \A i \in 1..n : \A q \in 1..Len(ss[i]) : \E p \in 1..Len(s) : s[p] = ss[i][q]
      /\ Len(ss[1]) > 0 => Len(s) > 0 /\ s[1] = ss[1][1]
      /\ Apart(ss) => \A p, q \in 1..Len(s) : s[p] = s[q] => p = q
  BY Zenon DEF FlatOf
<1>3. \A p \in 1..Len(s) : p \in 1..Len(t)
  BY <1>1
<1>4. \A p \in 1..Len(x) : Len(s) + p \in 1..Len(t)
  BY SMTT(30), <1>1
<1>9. \A p \in 1..Len(t) : \/ p \in 1..Len(s) /\ t[p] = s[p]
                           \/ p - Len(s) \in 1..Len(x) /\ t[p] = x[p - Len(s)] /\ p = Len(s) + (p - Len(s))
  <2>1. JoinOf(t, s, x)
    OBVIOUS
  <2> HIDE DEF JoinOf
  <2> QED BY <2>1, PlaceOfJoin
<1>5. ASSUME NEW p \in 1..Len(t) PROVE \E i \in 1..(n + 1) : \E q \in 1..Len(ss[i]) : t[p] = ss[i][q]
  <2>1. CASE p \in 1..Len(s) /\ t[p] = s[p]
    <3>1. PICK i \in 1..n : \E q \in 1..Len(ss[i]) : s[p] = ss[i][q]
      BY <1>2, <2>1
    <3> QED BY <1>0, <2>1, <3>1, Zenon
  <2>2. CASE p - Len(s) \in 1..Len(x) /\ t[p] = x[p - Len(s)]
    <3>1. n + 1 \in 1..(n + 1)
      OBVIOUS
    <3> QED BY <2>2, <3>1, Zenon
  <2> QED BY <1>9, <2>1, <2>2, Zenon
<1>6. ASSUME NEW i \in 1..(n + 1), NEW q \in 1..Len(ss[i]) PROVE \E p \in 1..Len(t) : t[p] = ss[i][q]
  <2>1. CASE i = n + 1
    BY <2>1, <1>1, <1>4
  <2>2. CASE i \in 1..n
    <3>1. PICK p \in 1..Len(s) : s[p] = ss[i][q]
      BY <1>2, <2>2, Zenon
    <3> QED BY <1>1, <1>3, <3>1, Zenon
  <2>3. i = n + 1 \/ i \in 1..n
    OBVIOUS
  <2> QED BY <2>1, <2>2, <2>3
<1>7. Len(ss[1]) > 0 => Len(t) > 0 /\ t[1] = ss[1][1]
  <2> SUFFICES ASSUME Len(ss[1]) > 0 PROVE Len(t) > 0 /\ t[1] = ss[1][1]
    OBVIOUS
  <2>1. Len(s) > 0 /\ s[1] = ss[1][1]
    BY <1>2
  <2>2. 1 \in 1..Len(s) /\ Len(t) > 0
    BY SMTT(30), <1>1, <2>1
  <2> QED BY <1>1, <2>1, <2>2
<1>8. ASSUME Apart(ss), NEW p \in 1..Len(t), NEW q \in 1..Len(t), t[p] = t[q] PROVE p = q
  <2>1. ASSUME NEW y \in 1..Len(s), NEW z \in 1..Len(x), s[y] = x[z] PROVE FALSE
    <3>1. PICK i \in 1..n : \E r \in 1..Len(ss[i]) : s[y] = ss[i][r]
      BY <1>2
    <3>2. PICK r \in 1..Len(ss[i]) : s[y] = ss[i][r]
      BY <3>1
    <3>3. z \in 1..Len(ss[n + 1]) /\ ss[i][r] = ss[n + 1][z] /\ i \in 1..Len(ss) /\ n + 1 \in 1..Len(ss) /\ i # n + 1
      BY <1>0, <2>1, <3>2, Zenon
    <3> QED BY <1>8, <3>3, Zenon DEF Apart
  <2>2. \A y, z \in 1..Len(x) : x[y] = x[z] => y = z
    BY <1>0, <1>8, Zenon DEF Apart
  <2>3. CASE p \in 1..Len(s) /\ q \in 1..Len(s) /\ t[p] = s[p] /\ t[q] = s[q]
    <3>1. s[p] = s[q]
      BY <1>8, <2>3, Zenon
    <3> QED BY <1>2, <1>8, <2>3, <3>1, Zenon
  <2>4. CASE /\ p - Len(s) \in 1..Len(x) /\ t[p] = x[p - Len(s)] /\ p = Len(s) + (p - Len(s))
             /\ q - Len(s) \in 1..Len(x) /\ t[q] = x[q - Len(s)] /\ q = Len(s) + (q - Len(s))
    BY <1>8, <2>2, <2>4
  <2>5. CASE p \in 1..Len(s) /\ t[p] = s[p] /\ q - Len(s) \in 1..Len(x) /\ t[q] = x[q - Len(s)]
    BY <1>8, <2>1, <2>5, Zenon
  <2>6. CASE q \in 1..Len(s) /\ t[q] = s[q] /\ p - Len(s) \in 1..Len(x) /\ t[p] = x[p - Len(s)]
    BY <1>8, <2>1, <2>6, Zenon
  <2>7. \/ p \in 1..Len(s) /\ t[p] = s[p]
        \/ p - Len(s) \in 1..Len(x) /\ t[p] = x[p - Len(s)] /\ p = Len(s) + (p - Len(s))
    BY <1>9, Zenon
  <2>8. \/ q \in 1..Len(s) /\ t[q] = s[q]
        \/ q - Len(s) \in 1..Len(x) /\ t[q] = x[q - Len(s)] /\ q = Len(s) + (q - Len(s))
    BY <1>9, Zenon
  <2> QED BY <2>3, <2>4, <2>5, <2>6, <2>7, <2>8, Zenon
<1> QED BY <1>1, <1>5, <1>6, <1>7, <1>8, Zenon DEF FlatOf

\* What is flattened are the numbers of all parts.
LEMMA Flattened ==
    ASSUME NEW ss \in Seq(Seq(Nat))
    PROVE  ss # <<>> => FlatOf(FlattenSeq(ss), ss, Len(ss))
<1> SUFFICES ASSUME ss # <<>> PROVE FlatOf(FlattenSeq(ss), ss, Len(ss))
  OBVIOUS
<1>1. Len(ss) \in Nat /\ Len(ss) >= 1 /\ Len(ss) # 0
  OBVIOUS
<1> PICK f : f = CHOOSE g : Flattens(g, ss, Len(ss))
  OBVIOUS
<1>2. FlattenSeq(ss) = f[Len(ss)]
  BY <1>1, Zenon DEF FlattenSeq, Flattens
<1>3. Flattens(f, ss, Len(ss))
  BY <1>1, FlatteningExists, Zenon
<1>4. \A i \in 1..Len(ss) : f[i] = IF i = 1 THEN ss[i] ELSE f[i - 1] \o ss[i]
  BY <1>3 DEF Flattens
<1>5. \A i \in 1..Len(ss) : ss[i] \in Seq(Nat)
  OBVIOUS
<1> DEFINE T == {n \in Nat : n < Len(ss) => FlatOf(f[n + 1], ss, n + 1)}
<1>6. 0 \in T
  <2>1. f[1] = ss[1] /\ ss[1] \in Seq(Nat) /\ 1 \in 1..1 /\ 1 \in 1..Len(ss) /\ \A i \in 1..1 : i = 1
    BY <1>1, <1>4, <1>5
  <2> PICK s : s = ss[1]
    OBVIOUS
  <2>2. ASSUME Apart(ss), NEW p \in 1..Len(s), NEW q \in 1..Len(s), s[p] = s[q] PROVE p = q
    BY <2>2, <2>1 DEF Apart
  <2>3. FlatOf(s, ss, 1)
    BY <2>1, <2>2 DEF FlatOf
  <2>4. FlatOf(f[0 + 1], ss, 0 + 1)
    BY <2>1, <2>3
  <2> QED BY <2>4
<1>7. ASSUME NEW n \in Nat, n \in T PROVE n + 1 \in T
  <2> SUFFICES ASSUME n + 1 < Len(ss) PROVE FlatOf(f[(n + 1) + 1], ss, (n + 1) + 1)
    OBVIOUS
  <2> PICK m, s : m = n + 1 /\ s = f[m]
    OBVIOUS
  <2>1. m \in Nat /\ m >= 1 /\ m < Len(ss) /\ m + 1 \in 1..Len(ss) /\ m + 1 # 1 /\ (m + 1) - 1 = m
    BY <1>1
  <2>2. FlatOf(s, ss, m)
    BY <1>1, <1>7
  <2>3. f[m + 1] = s \o ss[m + 1]
    BY <1>4, <2>1
  <2>4. s \in Seq(Nat) /\ ss[m + 1] \in Seq(Nat)
    BY <1>5, <2>1, <2>2, Zenon DEF FlatOf
  <2>5. JoinOf(f[m + 1], s, ss[m + 1])
    BY <2>3, <2>4, JoinedUp, Zenon
  <2>6. FlatOf(f[m + 1], ss, m + 1)
    BY <2>1, <2>2, <2>5, FlatMore
  <2> QED BY <2>6
<1>8. \A n \in Nat : n \in T
  <2> HIDE DEF T
  <2> QED BY <1>6, <1>7, NumberByNumber
<1>9. Len(ss) - 1 \in Nat /\ Len(ss) - 1 < Len(ss) /\ (Len(ss) - 1) + 1 = Len(ss)
  BY <1>1
<1>10. FlatOf(f[Len(ss)], ss, Len(ss))
  <2>1. Len(ss) - 1 \in T
    <3> HIDE DEF T
    <3> QED BY <1>8, <1>9
  <2> QED BY <1>9, <2>1
<1> QED BY <1>2, <1>10

\* The entries that make a message.
Made == {i \in InWindow : log[i].kind \notin {"tool_result", "context_usage"}}

\* What a message is.
TabMessage == [kind: EntryKinds \cup {"tool"}, tool: ToolKinds \cup {""}, error: BOOLEAN, sources: Seq(Nat)]

\* What the p-th source of the message m says of it.
SourceTold(m, p) ==
    /\ m.sources[p] \in InWindow
    /\ log[m.sources[p]].kind = "tool_call" =>
          m.kind = "tool" /\ m.tool = log[m.sources[p]].tool /\ (~m.error => ~IsError(m.sources[p]))
    /\ log[m.sources[p]].kind = "assistant_text" => m.kind = "assistant_text" /\ p = 1

\* The message m is that of the entry i.
MessageIs(m, i) ==
    /\ m \in TabMessage /\ Len(m.sources) > 0 /\ m.sources[1] = i
    /\ log[i].kind = "tool_call" => m.kind = "tool" /\ m.tool = log[i].tool /\ (~m.error => ~IsError(i))
    /\ log[i].kind # "tool_call" => m.kind = log[i].kind /\ m.tool = ""
    /\ \A p \in 1..Len(m.sources) : p # 1 => m.sources[p] \in ResultsOf(i)
    /\ \A p, q \in 1..Len(m.sources) : m.sources[p] = m.sources[q] => p = q

\* The messages of a window: sources apart, from the first of each on in the order of the
\* chat, and told of by their messages.
ItemsInv(items) ==
    /\ items \in Seq(TabMessage)
    /\ \A m \in 1..Len(items) : Len(items[m].sources) > 0 /\ (items[m].kind = "status" => items[m].tool = "")
    /\ \A m, n \in 1..Len(items) : m < n => items[m].sources[1] < items[n].sources[1]
    /\ \A m, n \in 1..Len(items) : \A p \in 1..Len(items[m].sources), q \in 1..Len(items[n].sources) :
          items[m].sources[p] = items[n].sources[q] => m = n /\ p = q
    /\ \A m \in 1..Len(items) : items[m].kind = "assistant_text" =>
          items[m].sources[1] \in InWindow /\ log[items[m].sources[1]].kind = "assistant_text"
    /\ \A m \in 1..Len(items) : \A p \in 1..Len(items[m].sources) : SourceTold(items[m], p)

\* The positions of the transcript are numbers, and few.
LEMMA WindowFinite ==
    ASSUME log \in Seq(LogEntry)
    PROVE  /\ InWindow \in SUBSET (1..Len(log)) /\ Len(log) \in Nat
           /\ \A S \in SUBSET InWindow : S \in SUBSET Nat /\ IsFiniteSet(S)
           /\ \A i \in InWindow : log[i] \in LogEntry
BY FS_Interval, FS_Subset DEF InWindow

\* A number and more of them.
LEMMA OneAndMore ==
    ASSUME NEW i \in Nat, NEW s \in Seq(Nat)
    PROVE  /\ <<i>> \o s \in Seq(Nat) /\ Len(<<i>> \o s) = Len(s) + 1 /\ (<<i>> \o s)[1] = i
           /\ \A p \in 1..Len(<<i>> \o s) : p # 1 => p - 1 \in 1..Len(s) /\ (<<i>> \o s)[p] = s[p - 1]
OBVIOUS

\* What the message of an entry is.
LEMMA MessageMade ==
    ASSUME log \in Seq(LogEntry), NEW i \in Made
    PROVE  MessageIs(MessageOf(i), i)
<1>1. i \in InWindow /\ i \in Nat /\ log[i] \in LogEntry /\ log[i].kind \notin {"tool_result", "context_usage"}
  BY WindowFinite DEF Made
<1>2. /\ log[i].kind \in EntryKinds \cup {"tool_call"} /\ log[i].tool \in ToolKinds \cup {""}
      /\ log[i].kind # "tool_call" => log[i].tool = ""
  BY <1>1 DEF LogEntry
<1>3. ResultsOf(i) \in SUBSET Nat /\ IsFiniteSet(ResultsOf(i)) /\ i \notin ResultsOf(i)
  BY <1>1, WindowFinite DEF ResultsOf
<1> PICK more : more = IF log[i].kind = "tool_call" THEN Ascending(ResultsOf(i)) ELSE <<>>
  OBVIOUS
<1>4. /\ more \in Seq(Nat) /\ \A p \in 1..Len(more) : more[p] \in ResultsOf(i)
      /\ \A p, q \in 1..Len(more) : p < q => more[p] < more[q]
  BY <1>3, InOrder
<1> PICK s : s = <<i>> \o more
  OBVIOUS
<1>5. /\ s \in Seq(Nat) /\ Len(s) = Len(more) + 1 /\ s[1] = i
      /\ \A p \in 1..Len(s) : p # 1 => p - 1 \in 1..Len(more) /\ s[p] = more[p - 1]
  BY <1>1, <1>4, OneAndMore
<1>6. \A p \in 1..Len(s) : p # 1 => s[p] \in ResultsOf(i)
  BY <1>4, <1>5
<1>7. ASSUME NEW p \in 1..Len(s), NEW q \in 1..Len(s), p < q PROVE s[p] # s[q]
  <2>1. q # 1 /\ s[q] = more[q - 1] /\ q - 1 \in 1..Len(more) /\ s[q] \in ResultsOf(i) /\ Len(more) \in Nat
    BY <1>4, <1>5, <1>6, <1>7
  <2>2. CASE p = 1
    BY <1>3, <1>5, <2>1, <2>2
  <2>3. CASE p # 1
    <3>1. s[p] = more[p - 1] /\ p - 1 \in 1..Len(more) /\ p - 1 < q - 1
      BY <1>5, <1>7, <2>3
    <3>2. more[p - 1] < more[q - 1]
      BY <1>4, <2>1, <3>1
    <3>3. more[p - 1] \in Nat /\ more[q - 1] \in Nat
      BY <1>4, <2>1, <3>1
    <3> QED BY <2>1, <3>1, <3>2, <3>3
  <2> QED BY <2>2, <2>3
<1>8. \A p, q \in 1..Len(s) : s[p] = s[q] => p = q
  <2> SUFFICES ASSUME NEW p \in 1..Len(s), NEW q \in 1..Len(s), s[p] = s[q] PROVE p = q
    OBVIOUS
  <2>1. ~(p < q)
    BY <1>7, Zenon
  <2>2. ~(q < p)
    BY <1>7, Zenon
  <2> QED BY <2>1, <2>2
<1> PICK m : m = MessageOf(i)
  OBVIOUS
<1>9. /\ m.sources = s
      /\ m.kind = IF log[i].kind = "tool_call" THEN "tool" ELSE log[i].kind
      /\ m.tool = log[i].tool
  BY DEF MessageOf
<1>10. m.error = (log[i].kind = "tool_call" /\ IsError(i))
  BY Zenon DEF MessageOf
<1>11. m.error \in BOOLEAN
  BY <1>10, Zenon
<1>12. m \in TabMessage
  BY <1>2, <1>5, <1>9, <1>11 DEF MessageOf, TabMessage
<1>13. log[i].kind = "tool_call" => m.kind = "tool" /\ m.tool = log[i].tool
  BY <1>9
<1>14. log[i].kind = "tool_call" => (~m.error => ~IsError(i))
  BY <1>10, Zenon
<1>15. log[i].kind # "tool_call" => m.kind = log[i].kind /\ m.tool = ""
  BY <1>2, <1>9
<1>16. Len(m.sources) > 0 /\ m.sources[1] = i
  BY <1>4, <1>5, <1>9
<1>17. /\ \A p \in 1..Len(m.sources) : p # 1 => m.sources[p] \in ResultsOf(i)
       /\ \A p, q \in 1..Len(m.sources) : m.sources[p] = m.sources[q] => p = q
  BY <1>6, <1>8, <1>9
<1>18. MessageIs(m, i)
  BY <1>12, <1>13, <1>14, <1>15, <1>16, <1>17, Zenon DEF MessageIs
<1> QED BY <1>18

\* The sources of a message tell of it.
LEMMA SourcesTell ==
    ASSUME log \in Seq(LogEntry), NEW i \in Made, NEW m, MessageIs(m, i), NEW p \in 1..Len(m.sources)
    PROVE  SourceTold(m, p)
BY DEF Made, MessageIs, SourceTold, ResultsOf

\* Sources of two messages are apart.
LEMMA MessagesApart ==
    ASSUME NEW i \in Made, NEW j \in Made, NEW m, MessageIs(m, i), NEW n, MessageIs(n, j),
           NEW p \in 1..Len(m.sources), NEW q \in 1..Len(n.sources), m.sources[p] = n.sources[q]
    PROVE  i = j
<1>1. /\ m.sources[1] = i /\ (p # 1 => m.sources[p] \in ResultsOf(i))
      /\ n.sources[1] = j /\ (q # 1 => n.sources[q] \in ResultsOf(j))
  BY Zenon DEF MessageIs
<1>2. log[i].kind # "tool_result" /\ log[j].kind # "tool_result"
  BY DEF Made
<1>3. \A x, c : x \in ResultsOf(c) => log[x].kind = "tool_result" /\ log[x].of = c
  BY Zenon DEF ResultsOf
<1>4. CASE p = 1
  BY <1>1, <1>2, <1>3, <1>4, Zenon
<1>5. CASE q = 1
  BY <1>1, <1>2, <1>3, <1>5, Zenon
<1>6. CASE p # 1 /\ q # 1
  BY <1>1, <1>6, <1>3
<1> QED BY <1>4, <1>5, <1>6

\* What is made of a transcript.
LEMMA ItemsMade == ASSUME log \in Seq(LogEntry) PROVE ItemsInv(Items)
<1>1. Made \in SUBSET Nat /\ IsFiniteSet(Made)
  BY WindowFinite DEF Made
<1> PICK order : order = Ascending(Made)
  OBVIOUS
<1>2. /\ order \in Seq(Nat) /\ \A k \in 1..Len(order) : order[k] \in Made
      /\ \A j, k \in 1..Len(order) : j < k => order[j] < order[k]
  BY <1>1, InOrder
<1> PICK items : items = Items
  OBVIOUS
<1>3. items = [k \in DOMAIN order |-> MessageOf(order[k])]
  BY Zenon DEF Items, Made
<1> PICK n : n = Len(order)
  OBVIOUS
<1>4. n \in Nat /\ DOMAIN order = 1..n
  BY <1>2
<1>5. \A k \in 1..n : items[k] = MessageOf(order[k]) /\ order[k] \in Made
  BY <1>2, <1>3, <1>4
<1>6. \A k \in 1..n : MessageIs(items[k], order[k])
  <2> TAKE k \in 1..n
  <2>1. MessageIs(MessageOf(order[k]), order[k])
    BY <1>5, MessageMade
  <2> QED BY <1>5, <2>1
<1>7. items \in Seq(TabMessage) /\ Len(items) = n
  <2>1. \A k \in 1..n : items[k] \in TabMessage
    BY <1>6, Zenon DEF MessageIs
  <2>2. items = [k \in 1..n |-> items[k]]
    BY <1>3, <1>4, Zenon
  <2> QED BY <1>4, <2>1, <2>2
<1>a. /\ \A k \in 1..Len(items) : order[k] \in Made /\ order[k] \in Nat /\ MessageIs(items[k], order[k])
      /\ \A j, k \in 1..Len(items) : j < k => order[j] < order[k]
  BY <1>2, <1>5, <1>6, <1>7
<1>8. ASSUME NEW m \in 1..Len(items)
      PROVE  Len(items[m].sources) > 0 /\ (items[m].kind = "status" => items[m].tool = "")
  BY <1>a DEF MessageIs
<1>9. ASSUME NEW m \in 1..Len(items), NEW k \in 1..Len(items), m < k PROVE items[m].sources[1] < items[k].sources[1]
  <2>1. items[m].sources[1] = order[m] /\ items[k].sources[1] = order[k]
    BY <1>a, Zenon DEF MessageIs
  <2>2. order[m] < order[k]
    BY <1>a, <1>9
  <2> QED BY <2>1, <2>2, Zenon
<1>10. ASSUME NEW m \in 1..Len(items), NEW k \in 1..Len(items), NEW p \in 1..Len(items[m].sources), NEW q \in 1..Len(items[k].sources),
              items[m].sources[p] = items[k].sources[q]
       PROVE  m = k /\ p = q
  <2>1. order[m] = order[k]
    BY SMTT(30), <1>a, <1>10, MessagesApart
  <2>2. \A x, y \in Nat : x < y => x # y
    OBVIOUS
  <2>3. order[m] \in Nat /\ order[k] \in Nat /\ (m < k \/ k < m \/ m = k)
    BY <1>a, <1>7
  <2>4. m = k
    BY <1>a, <2>1, <2>2, <2>3
  <2>5. \A x, y \in 1..Len(items[m].sources) : items[m].sources[x] = items[m].sources[y] => x = y
    BY <1>a, Zenon DEF MessageIs
  <2> QED BY <1>10, <2>4, <2>5, Zenon
<1>11. ASSUME NEW m \in 1..Len(items), items[m].kind = "assistant_text"
       PROVE  items[m].sources[1] \in InWindow /\ log[items[m].sources[1]].kind = "assistant_text"
  <2>1. /\ items[m].sources[1] = order[m]
        /\ log[order[m]].kind = "tool_call" => items[m].kind = "tool"
        /\ log[order[m]].kind # "tool_call" => items[m].kind = log[order[m]].kind
    BY <1>a, Zenon DEF MessageIs
  <2>2. order[m] \in InWindow
    BY <1>a DEF Made
  <2> QED BY <1>11, <2>1, <2>2
<1>12. ASSUME NEW m \in 1..Len(items), NEW p \in 1..Len(items[m].sources) PROVE SourceTold(items[m], p)
  BY <1>a, SourcesTell
<1>13. ItemsInv(items)
  BY <1>7, <1>8, <1>9, <1>10, <1>11, <1>12, Zenon DEF ItemsInv
<1> QED BY <1>13

\* What a unit is.
RenderUnit ==
    [kind: EntryKinds \cup {"assistant_response", "artifact", "standalone_tool", "wip_block", "tool_group"},
     sources: Seq(Nat)]

\* A message that may be folded away, and one that has its place among the units.
Foldable(items, m) == IsWorkTool(items[m]) \/ (items[m].kind = "assistant_text" /\ m # AnswerIndex(items))
Plain(items, m) == ~Skipped(items, m) /\ items[m].kind # "status"

\* The sources of the messages from a to b.
PartsOf(items, a, b) == [m \in 1..(b - a + 1) |-> items[a + m - 1].sources]

\* A unit that shows the messages from a to b.
Shows(u, items, a, b) ==
    /\ u.sources = FlattenSeq(PartsOf(items, a, b))
    /\ u.kind \in {"wip_block", "tool_group"} => \A m \in a..b : Foldable(items, m)

\* The unit row[j] shows the messages from lo[j] to hi[j], one after the other, and together
\* they show all from a to b.
Lays(row, items, a, b, lo, hi) ==
    /\ \A j \in 1..Len(row) : /\ lo[j] \in a..b /\ hi[j] \in lo[j]..b
                              /\ Shows(row[j], items, lo[j], hi[j]) /\ row[j].kind # "status"
    /\ \A i, j \in 1..Len(row) : i < j => hi[i] < lo[j]
    /\ \A m \in a..b : \E j \in 1..Len(row) : m \in lo[j]..hi[j]

LaidOut(row, items, a, b) == row \in Seq(RenderUnit) /\ \E lo, hi : Lays(row, items, a, b, lo, hi)

\* The last status of the messages.
LastStatus(items) == Max({0} \cup {k \in DOMAIN items : items[k].kind = "status"})

\* They show those from k on that have their place, and at the end the last status.
LaysFrom(row, items, k, lo, hi) ==
    /\ \A j \in 1..Len(row) : /\ lo[j] \in 1..Len(items) /\ hi[j] \in lo[j]..Len(items)
                              /\ Shows(row[j], items, lo[j], hi[j])
    /\ \A j \in 1..Len(row) : row[j].kind = "status" =>
          j = Len(row) /\ lo[j] = LastStatus(items) /\ hi[j] = LastStatus(items)
    /\ \A j \in 1..Len(row) : row[j].kind # "status" => k <= lo[j] /\ \A m \in lo[j]..hi[j] : Plain(items, m)
    /\ \A i, j \in 1..Len(row) : i < j /\ row[j].kind # "status" => hi[i] < lo[j]
    /\ \A m \in k..Len(items) : Plain(items, m) => \E j \in 1..Len(row) : m \in lo[j]..hi[j]
    /\ LastStatus(items) # 0 => \E j \in 1..Len(row) : row[j].kind = "status"

LaidFrom(items, row, k) == row \in Seq(RenderUnit) /\ \E lo, hi : LaysFrom(row, items, k, lo, hi)

\* What messages are.
LEMMA ItemsTyped ==
    ASSUME NEW items, ItemsInv(items)
    PROVE  /\ items \in Seq(TabMessage) /\ Len(items) \in Nat
           /\ \A m \in 1..Len(items) : items[m] \in TabMessage /\ items[m].sources \in Seq(Nat)
<1>1. items \in Seq(TabMessage)
  BY Zenon DEF ItemsInv
<1>2. \A m \in 1..Len(items) : items[m] \in TabMessage
  BY <1>1
<1>3. \A x \in TabMessage : x.sources \in Seq(Nat)
  BY DEF TabMessage
<1>4. Len(items) \in Nat
  BY <1>1
<1> QED BY <1>1, <1>2, <1>3, <1>4

\* The parts of a unit.
LEMMA PartsAreSequences ==
    ASSUME NEW items, ItemsInv(items), NEW a \in 1..Len(items), NEW b \in a..Len(items)
    PROVE  /\ PartsOf(items, a, b) \in Seq(Seq(Nat)) /\ Len(PartsOf(items, a, b)) = b - a + 1
           /\ PartsOf(items, a, b) # <<>>
           /\ \A m \in 1..(b - a + 1) : a + m - 1 \in a..b /\ PartsOf(items, a, b)[m] = items[a + m - 1].sources
<1>0. Len(items) \in Nat
  BY ItemsTyped
<1>1. \A m \in 1..(b - a + 1) : a + m - 1 \in a..b /\ a + m - 1 \in 1..Len(items)
  BY <1>0
<1>2. \A m \in 1..Len(items) : items[m].sources \in Seq(Nat)
  BY ItemsTyped
<1> PICK n : n = b - a + 1
  OBVIOUS
<1>3. n \in Nat /\ n > 0
  BY <1>0
<1> PICK ss : ss = PartsOf(items, a, b)
  OBVIOUS
<1>4. ss = [m \in 1..n |-> items[a + m - 1].sources]
  BY Zenon DEF PartsOf
<1>5. \A m \in 1..n : ss[m] = items[a + m - 1].sources /\ ss[m] \in Seq(Nat)
  BY <1>1, <1>2, <1>4
<1>6. ss \in [1..n -> Seq(Nat)]
  BY <1>4, <1>5
<1>7. ASSUME NEW S, NEW f \in [1..n -> S] PROVE f \in Seq(S) /\ Len(f) = n /\ f # <<>>
  BY <1>3
<1>8. ss \in Seq(Seq(Nat)) /\ Len(ss) = n /\ ss # <<>>
  BY <1>6, <1>7
<1> QED BY <1>1, <1>5, <1>8

\* A place of a joined sequence is in the one or in the other.
LEMMA PlaceOfUnit ==
    ASSUME NEW S, NEW P \in Seq(S), NEW W \in Seq(S)
    PROVE  LET V == P \o W IN
           /\ V \in Seq(S) /\ Len(P) \in Nat /\ Len(W) \in Nat /\ Len(V) = Len(P) + Len(W)
           /\ \A j \in 1..Len(P) : j \in 1..Len(V) /\ V[j] = P[j]
           /\ \A j \in 1..Len(W) : j + Len(P) \in 1..Len(V) /\ V[j + Len(P)] = W[j]
           /\ \A j \in 1..Len(V) : j \in 1..Len(P) \/ \E i \in 1..Len(W) : j = i + Len(P)
<1> DEFINE V == P \o W
<1>1. V \in Seq(S) /\ Len(P) \in Nat /\ Len(W) \in Nat /\ Len(V) = Len(P) + Len(W)
  OBVIOUS
<1>2. \A j \in 1..Len(P) : j \in 1..Len(V) /\ V[j] = P[j]
  OBVIOUS
<1>3. \A j \in 1..Len(W) : j + Len(P) \in 1..Len(V) /\ V[j + Len(P)] = W[j]
  OBVIOUS
<1>4. ASSUME NEW j \in 1..Len(V), j \notin 1..Len(P) PROVE \E i \in 1..Len(W) : j = i + Len(P)
  <2>1. j - Len(P) \in 1..Len(W) /\ j = (j - Len(P)) + Len(P)
    BY <1>1, <1>4
  <2> QED BY <2>1, Zenon
<1> QED BY <1>1, <1>2, <1>3, <1>4, Zenon

\* What f says of the first p places, and g of the n after them.
Both(f, g, p, n) == [j \in 1..(p + n) |-> IF j <= p THEN f[j] ELSE g[j - p]]

LEMMA PlacesOfBoth ==
    ASSUME NEW p \in Nat, NEW n \in Nat, NEW f, NEW g
    PROVE  (\A j \in 1..p : Both(f, g, p, n)[j] = f[j]) /\ (\A j \in 1..n : Both(f, g, p, n)[j + p] = g[j])
BY DEF Both

\* A block before what follows.
LEMMA LaidMore ==
    ASSUME NEW items, ItemsInv(items), NEW k \in 1..(Len(items) + 1), NEW e \in (k - 1)..Len(items),
           \A m \in k..e : Plain(items, m),
           NEW P, LaidOut(P, items, k, e), NEW W, LaidFrom(items, W, e + 1)
    PROVE  LaidFrom(items, P \o W, k)
<1>0. Len(items) \in Nat /\ e \in Int /\ k \in Int
  BY ItemsTyped
<1>1. P \in Seq(RenderUnit) /\ W \in Seq(RenderUnit)
  BY Zenon DEF LaidOut, LaidFrom
<1>2. PICK lo1, hi1 : Lays(P, items, k, e, lo1, hi1)
  BY Zenon DEF LaidOut
<1>3. PICK lo2, hi2 : LaysFrom(W, items, e + 1, lo2, hi2)
  BY Zenon DEF LaidFrom
<1>e. PICK V : V = P \o W
  OBVIOUS
<1>a. /\ V \in Seq(RenderUnit) /\ Len(P) \in Nat /\ Len(W) \in Nat /\ Len(V) = Len(P) + Len(W)
      /\ \A j \in 1..Len(P) : j \in 1..Len(V) /\ V[j] = P[j]
      /\ \A j \in 1..Len(W) : j + Len(P) \in 1..Len(V) /\ V[j + Len(P)] = W[j]
      /\ \A j \in 1..Len(V) : j \in 1..Len(P) \/ \E i \in 1..Len(W) : j = i + Len(P)
  BY <1>1, <1>e, PlaceOfUnit
<1>f. PICK lo, hi : lo = Both(lo1, lo2, Len(P), Len(W)) /\ hi = Both(hi1, hi2, Len(P), Len(W))
  OBVIOUS
<1>c. (\A j \in 1..Len(P) : lo[j] = lo1[j]) /\ (\A j \in 1..Len(W) : lo[j + Len(P)] = lo2[j])
  BY <1>a, <1>f, PlacesOfBoth
<1>d. (\A j \in 1..Len(P) : hi[j] = hi1[j]) /\ (\A j \in 1..Len(W) : hi[j + Len(P)] = hi2[j])
  BY <1>a, <1>f, PlacesOfBoth
<1> PICK p, n, L : p = Len(P) /\ n = Len(W) /\ L = Len(items)
  OBVIOUS
<1>4. /\ V \in Seq(RenderUnit) /\ p \in Nat /\ n \in Nat /\ Len(V) = p + n /\ L \in Nat
      /\ \A j \in 1..p : j \in 1..Len(V) /\ V[j] = P[j]
      /\ \A j \in 1..n : j + p \in 1..Len(V) /\ V[j + p] = W[j]
      /\ \A j \in 1..Len(V) : j \in 1..p \/ \E i \in 1..n : j = i + p
  BY <1>0, <1>a, Zenon
<1>5. (\A j \in 1..p : lo[j] = lo1[j]) /\ (\A j \in 1..n : lo[j + p] = lo2[j])
  BY <1>c, Zenon
<1>6. (\A j \in 1..p : hi[j] = hi1[j]) /\ (\A j \in 1..n : hi[j + p] = hi2[j])
  BY <1>d, Zenon
<1>7. /\ \A j \in 1..p : /\ lo1[j] \in k..e /\ hi1[j] \in lo1[j]..e
                         /\ Shows(P[j], items, lo1[j], hi1[j]) /\ P[j].kind # "status"
      /\ \A i, j \in 1..p : i < j => hi1[i] < lo1[j]
      /\ \A m \in k..e : \E j \in 1..p : m \in lo1[j]..hi1[j]
  BY <1>2, Zenon DEF Lays
<1>8. /\ \A j \in 1..n : lo2[j] \in 1..L /\ hi2[j] \in lo2[j]..L /\ Shows(W[j], items, lo2[j], hi2[j])
      /\ \A j \in 1..n : W[j].kind = "status" => j = n /\ lo2[j] = LastStatus(items) /\ hi2[j] = LastStatus(items)
      /\ \A j \in 1..n : W[j].kind # "status" => e + 1 <= lo2[j] /\ \A m \in lo2[j]..hi2[j] : Plain(items, m)
      /\ \A i, j \in 1..n : i < j /\ W[j].kind # "status" => hi2[i] < lo2[j]
      /\ \A m \in (e + 1)..L : Plain(items, m) => \E j \in 1..n : m \in lo2[j]..hi2[j]
      /\ LastStatus(items) # 0 => \E j \in 1..n : W[j].kind = "status"
  BY <1>3, Zenon DEF LaysFrom
\* The places of the block, and those that follow.
<1>9. \A j \in 1..p : /\ lo[j] \in 1..L /\ hi[j] \in lo[j]..L /\ Shows(V[j], items, lo[j], hi[j]) /\ V[j].kind # "status"
                      /\ k <= lo[j] /\ hi[j] <= e /\ lo[j] \in Int /\ hi[j] \in Int
                      /\ \A m \in lo[j]..hi[j] : m \in k..e
  <2> TAKE j \in 1..p
  <2>1. lo[j] = lo1[j] /\ hi[j] = hi1[j] /\ V[j] = P[j]
    BY <1>4, <1>5, <1>6
  <2>2. lo1[j] \in k..e /\ hi1[j] \in lo1[j]..e /\ Shows(P[j], items, lo1[j], hi1[j]) /\ P[j].kind # "status"
    BY <1>7
  <2>3. ASSUME NEW x \in k..e, NEW y \in x..e
        PROVE  x \in 1..L /\ y \in x..L /\ k <= x /\ y <= e /\ x \in Int /\ y \in Int /\ \A m \in x..y : m \in k..e
    BY <1>0, <1>4
  <2> QED BY <2>1, <2>2, <2>3
<1>10. \A j \in 1..n : /\ lo[j + p] = lo2[j] /\ hi[j + p] = hi2[j] /\ V[j + p] = W[j] /\ j + p \in 1..Len(V)
                       /\ lo2[j] \in Int /\ hi2[j] \in Int
  <2> TAKE j \in 1..n
  <2>1. lo2[j] \in 1..L /\ hi2[j] \in lo2[j]..L
    BY <1>8
  <2> QED BY <1>4, <1>5, <1>6, <2>1
<1>11. ASSUME NEW j \in 1..Len(V)
       PROVE  /\ lo[j] \in 1..L /\ hi[j] \in lo[j]..L /\ Shows(V[j], items, lo[j], hi[j])
              /\ V[j].kind = "status" => j = Len(V) /\ lo[j] = LastStatus(items) /\ hi[j] = LastStatus(items)
              /\ V[j].kind # "status" => k <= lo[j] /\ \A m \in lo[j]..hi[j] : Plain(items, m)
  <2>1. CASE j \in 1..p
    BY <1>9, <2>1
  <2>2. CASE \E i \in 1..n : j = i + p
    <3>1. PICK i \in 1..n : j = i + p
      BY <2>2
    <3>2. lo[j] = lo2[i] /\ hi[j] = hi2[i] /\ V[j] = W[i] /\ lo2[i] \in Int
      BY <1>10, <3>1
    <3>3. i = n => j = Len(V)
      BY <1>4, <3>1
    <3>4. e + 1 <= lo2[i] => k <= lo2[i]
      BY <1>0, <3>2
    <3>5. /\ lo2[i] \in 1..L /\ hi2[i] \in lo2[i]..L /\ Shows(W[i], items, lo2[i], hi2[i])
          /\ W[i].kind = "status" => i = n /\ lo2[i] = LastStatus(items) /\ hi2[i] = LastStatus(items)
          /\ W[i].kind # "status" => e + 1 <= lo2[i] /\ \A m \in lo2[i]..hi2[i] : Plain(items, m)
      BY <1>8
    <3> QED BY <3>2, <3>3, <3>4, <3>5, Zenon
  <2> QED BY <1>4, <2>1, <2>2
<1>12. ASSUME NEW i \in 1..Len(V), NEW j \in 1..Len(V), i < j, V[j].kind # "status" PROVE hi[i] < lo[j]
  <2>1. CASE i \in 1..p /\ j \in 1..p
    BY <1>5, <1>6, <1>7, <1>12, <2>1
  <2>2. ASSUME i \in 1..p, NEW y \in 1..n, j = y + p PROVE hi[i] < lo[j]
    <3>1. hi[i] <= e /\ hi[i] \in Int
      BY <1>9, <2>2
    <3>2. lo[j] = lo2[y] /\ lo2[y] \in Int /\ V[j] = W[y]
      BY <1>10, <2>2
    <3>3. e + 1 <= lo2[y]
      BY <1>8, <1>12, <3>2
    <3> QED BY <1>0, <3>1, <3>2, <3>3
  <2>3. ASSUME NEW x \in 1..n, i = x + p, NEW y \in 1..n, j = y + p PROVE hi[i] < lo[j]
    BY <1>4, <1>10, <1>12, <2>3, <1>8
  <2>4. ASSUME NEW x \in 1..n, i = x + p, j \in 1..p PROVE FALSE
    BY <1>4, <1>12, <2>4
  <2> QED BY <1>4, <2>1, <2>2, <2>3, <2>4
<1>13. ASSUME NEW m \in k..L, Plain(items, m) PROVE \E j \in 1..Len(V) : m \in lo[j]..hi[j]
  <2>1. CASE m \in k..e
    BY <1>7, <2>1, <1>4, <1>5, <1>6
  <2>2. CASE m \in (e + 1)..L
    <3>1. PICK j \in 1..n : m \in lo2[j]..hi2[j]
      BY <1>8, <1>13, <2>2
    <3>2. m \in lo[j + p]..hi[j + p] /\ j + p \in 1..Len(V)
      BY <1>10, <3>1
    <3> QED BY <3>2
  <2>3. m \in k..e \/ m \in (e + 1)..L
    BY <1>0, <1>4
  <2> QED BY <2>1, <2>2, <2>3
<1>14. ASSUME LastStatus(items) # 0 PROVE \E j \in 1..Len(V) : V[j].kind = "status"
  <2>1. PICK j \in 1..n : W[j].kind = "status"
    BY <1>8, <1>14
  <2>2. j + p \in 1..Len(V) /\ V[j + p].kind = "status"
    BY <1>10, <2>1
  <2> QED BY <2>2
<1>15. LaysFrom(V, items, k, lo, hi)
  BY <1>11, <1>12, <1>13, <1>14, Zenon DEF LaysFrom
<1>16. LaidFrom(items, V, k)
  BY <1>4, <1>15, Zenon DEF LaidFrom
<1> QED BY <1>16, <1>e

\* A message without a place.
LEMMA LaidSkip ==
    ASSUME NEW items, ItemsInv(items), NEW k \in 1..Len(items), ~Plain(items, k), NEW W, LaidFrom(items, W, k + 1)
    PROVE  LaidFrom(items, W, k)
<1>0. Len(items) \in Nat /\ k \in Int
  BY ItemsTyped
<1>1. PICK lo, hi : LaysFrom(W, items, k + 1, lo, hi)
  BY Zenon DEF LaidFrom
<1>2. \A j \in 1..Len(W) : lo[j] \in 1..Len(items)
  BY <1>1, Zenon DEF LaysFrom
<1>3. \A j \in 1..Len(W) : k + 1 <= lo[j] => k <= lo[j]
  BY <1>0, <1>2
<1>4. \A m \in k..Len(items) : m = k \/ m \in (k + 1)..Len(items)
  BY <1>0
<1>5. \A j \in 1..Len(W) : W[j].kind # "status" => k + 1 <= lo[j] /\ \A m \in lo[j]..hi[j] : Plain(items, m)
  BY <1>1, Zenon DEF LaysFrom
<1>6. \A j \in 1..Len(W) : W[j].kind # "status" => k <= lo[j] /\ \A m \in lo[j]..hi[j] : Plain(items, m)
  BY <1>3, <1>5, Zenon
<1>7. \A m \in (k + 1)..Len(items) : Plain(items, m) => \E j \in 1..Len(W) : m \in lo[j]..hi[j]
  BY <1>1, Zenon DEF LaysFrom
<1>8. \A m \in k..Len(items) : Plain(items, m) => \E j \in 1..Len(W) : m \in lo[j]..hi[j]
  <2> TAKE m \in k..Len(items)
  <2> HAVE Plain(items, m)
  <2>1. m # k
    BY Zenon
  <2> QED BY <1>4, <1>7, <2>1, Zenon
<1>9. LaysFrom(W, items, k, lo, hi)
  BY <1>1, <1>6, <1>8, Zenon DEF LaysFrom
<1> QED BY <1>9, Zenon DEF LaidFrom

\* The messages from a to b.
PieceOf(members, items, a, b) ==
    /\ members \in Seq(TabMessage) /\ Len(members) = b - a + 1
    /\ \A j \in 1..(b - a + 1) : members[j] = items[a + j - 1]

LEMMA SomeMessages ==
    ASSUME NEW items, ItemsInv(items), NEW a \in 1..(Len(items) + 1), NEW b \in (a - 1)..Len(items)
    PROVE  PieceOf(SubSeq(items, a, b), items, a, b)
BY ItemsTyped DEF PieceOf

LEMMA OneMessage ==
    ASSUME NEW items, ItemsInv(items), NEW k \in 1..Len(items)
    PROVE  PieceOf(<<items[k]>>, items, k, k)
BY ItemsTyped DEF PieceOf

\* A unit of them.
LEMMA UnitOf ==
    ASSUME NEW items, ItemsInv(items), NEW a \in 1..Len(items), NEW b \in a..Len(items),
           NEW members, PieceOf(members, items, a, b),
           NEW kind \in EntryKinds \cup {"assistant_response", "artifact", "standalone_tool", "wip_block", "tool_group"},
           kind \in {"wip_block", "tool_group"} => \A m \in a..b : Foldable(items, m)
    PROVE  LET u == Unit(kind, members) IN u \in RenderUnit /\ u.kind = kind /\ Shows(u, items, a, b)
<1> PICK n, u : n = b - a + 1 /\ u = Unit(kind, members)
  OBVIOUS
<1>1. members \in Seq(TabMessage) /\ Len(members) = n /\ \A j \in 1..n : members[j] = items[a + j - 1]
  BY Zenon DEF PieceOf
<1>2. DOMAIN members = 1..n
  BY <1>1
<1>3. [j \in DOMAIN members |-> members[j].sources] = PartsOf(items, a, b)
  BY <1>1, <1>2 DEF PartsOf
<1>4. u = [kind |-> kind, sources |-> FlattenSeq(PartsOf(items, a, b))]
  BY <1>3, Zenon DEF Unit
<1>5. FlattenSeq(PartsOf(items, a, b)) \in Seq(Nat)
  BY PartsAreSequences, Flattened DEF FlatOf
<1>6. u \in RenderUnit /\ u.kind = kind /\ u.sources = FlattenSeq(PartsOf(items, a, b))
  BY <1>4, <1>5 DEF RenderUnit
<1>7. Shows(u, items, a, b)
  BY <1>6, Zenon DEF Shows
<1> QED BY <1>6, <1>7

\* A unit of a message on its own.
LEMMA OneSingle ==
    ASSUME NEW items, ItemsInv(items), NEW k \in 1..Len(items)
    PROVE  LET u == Unit(SingleKind(items[k]), <<items[k]>>)
           IN u \in RenderUnit /\ Shows(u, items, k, k) /\ (u.kind = "status" <=> items[k].kind = "status")
<1>0. Len(items) \in Nat /\ items[k] \in TabMessage
  BY ItemsTyped
<1> PICK kind : kind = SingleKind(items[k])
  OBVIOUS
<1>1. items[k].kind \in EntryKinds \cup {"tool"}
  BY <1>0 DEF TabMessage
<1>2. CASE items[k].kind = "assistant_text"
  BY <1>2, <1>0, OneMessage, UnitOf DEF SingleKind
<1>3. CASE items[k].kind = "tool"
  <2>1. kind \in {"artifact", "standalone_tool"}
    BY <1>3 DEF SingleKind
  <2>2. kind \in EntryKinds \cup {"assistant_response", "artifact", "standalone_tool"}
        /\ kind \notin {"wip_block", "tool_group"} /\ (kind = "status" <=> items[k].kind = "status")
    BY <1>3, <2>1
  <2>3. PieceOf(<<items[k]>>, items, k, k) /\ k \in k..Len(items)
    BY <1>0, OneMessage
  <2> QED BY <2>2, <2>3, UnitOf
<1>4. CASE items[k].kind \notin {"assistant_text", "tool"}
  <2>1. kind = items[k].kind
    BY <1>4 DEF SingleKind
  <2>2. kind \in EntryKinds \cup {"assistant_response", "artifact", "standalone_tool"}
        /\ kind \notin {"wip_block", "tool_group"} /\ (kind = "status" <=> items[k].kind = "status")
    BY <1>1, <1>4, <2>1, FoldConstants
  <2>3. PieceOf(<<items[k]>>, items, k, k) /\ k \in k..Len(items)
    BY <1>0, OneMessage
  <2> QED BY <2>2, <2>3, UnitOf
<1> QED BY <1>2, <1>3, <1>4

\* Messages each on its own.
LEMMA LaySingles ==
    ASSUME NEW items, ItemsInv(items), NEW a \in 1..(Len(items) + 1), NEW b \in (a - 1)..Len(items),
           NEW members, PieceOf(members, items, a, b), \A m \in a..b : Plain(items, m)
    PROVE  LaidOut(Singles(members), items, a, b)
<1>0. Len(items) \in Nat /\ a \in Int /\ b \in Int /\ b - a + 1 \in Nat
  BY ItemsTyped
<1>1. members \in Seq(TabMessage) /\ Len(members) = b - a + 1
      /\ \A j \in 1..(b - a + 1) : members[j] = items[a + j - 1]
  BY Zenon DEF PieceOf
<1> PICK n, W : n = b - a + 1 /\ W = Singles(members)
  OBVIOUS
<1>2. DOMAIN members = 1..n
  BY <1>1
<1>3. W = [j \in 1..n |-> Unit(SingleKind(members[j]), <<members[j]>>)]
  BY <1>2, Zenon DEF Singles
<1>4. ASSUME NEW j \in 1..n
      PROVE  W[j] \in RenderUnit /\ Shows(W[j], items, a + j - 1, a + j - 1) /\ W[j].kind # "status" /\ a + j - 1 \in a..b
  <2> PICK k : k = a + j - 1
    OBVIOUS
  <2>1. k \in a..b /\ k \in 1..Len(items)
    BY <1>0
  <2>2. W[j] = Unit(SingleKind(items[k]), <<items[k]>>)
    BY <1>1, <1>3
  <2>3. items[k].kind # "status"
    BY <2>1, Zenon DEF Plain
  <2>4. W[j] \in RenderUnit /\ Shows(W[j], items, k, k) /\ (W[j].kind = "status" <=> items[k].kind = "status")
    BY <2>1, <2>2, OneSingle
  <2> QED BY <2>1, <2>3, <2>4
<1>5. W \in Seq(RenderUnit) /\ Len(W) = n
  BY <1>3, <1>0, <1>4
<1> PICK lo : lo = [j \in 1..n |-> a + j - 1]
  OBVIOUS
<1>6. \A j \in 1..n : lo[j] = a + j - 1 /\ lo[j] \in a..b /\ lo[j] \in lo[j]..b
  BY <1>0, <1>4
<1>7. \A j \in 1..Len(W) : lo[j] \in a..b /\ lo[j] \in lo[j]..b /\ Shows(W[j], items, lo[j], lo[j]) /\ W[j].kind # "status"
  BY <1>4, <1>5, <1>6
<1>8. \A i, j \in 1..Len(W) : i < j => lo[i] < lo[j]
  BY <1>0, <1>5, <1>6
<1>9. ASSUME NEW m \in a..b PROVE \E j \in 1..Len(W) : m \in lo[j]..lo[j]
  BY <1>0, <1>6, <1>5
<1>10. Lays(W, items, a, b, lo, lo)
  BY <1>7, <1>8, <1>9, Zenon DEF Lays
<1> QED BY <1>5, <1>10, Zenon DEF LaidOut

\* Messages folded into one unit.
LEMMA LayFolded ==
    ASSUME NEW items, ItemsInv(items), NEW a \in 1..Len(items), NEW b \in a..Len(items),
           NEW members, PieceOf(members, items, a, b), NEW kind \in {"wip_block", "tool_group"},
           \A m \in a..b : Foldable(items, m)
    PROVE  LaidOut(<<Unit(kind, members)>>, items, a, b)
<1>0. Len(items) \in Nat
  BY ItemsTyped
<1> PICK u, W : u = Unit(kind, members) /\ W = <<Unit(kind, members)>>
  OBVIOUS
<1>1. u \in RenderUnit /\ u.kind = kind /\ Shows(u, items, a, b)
  BY UnitOf
<1>2. u.kind # "status"
  BY <1>1
<1>3. W \in Seq(RenderUnit) /\ Len(W) = 1 /\ W[1] = u /\ 1 \in 1..1 /\ \A j \in 1..1 : j = 1
  BY <1>1
<1> PICK lo, hi : lo = [j \in 1..1 |-> a] /\ hi = [j \in 1..1 |-> b]
  OBVIOUS
<1>4. lo[1] = a /\ hi[1] = b /\ a \in a..b /\ b \in a..b
  BY <1>0
<1>5. \A j \in 1..Len(W) : lo[j] \in a..b /\ hi[j] \in lo[j]..b /\ Shows(W[j], items, lo[j], hi[j]) /\ W[j].kind # "status"
  BY <1>1, <1>2, <1>3, <1>4, Zenon
<1>6. \A i, j \in 1..Len(W) : i < j => hi[i] < lo[j]
  BY <1>3
<1>7. \A m \in a..b : \E j \in 1..Len(W) : m \in lo[j]..hi[j]
  BY <1>3, <1>4, Zenon
<1>8. Lays(W, items, a, b, lo, hi)
  BY <1>5, <1>6, <1>7, Zenon DEF Lays
<1> QED BY <1>3, <1>8, Zenon DEF LaidOut

\* The messages that a loop takes up together with that at k.
LEMMA RunOf ==
    ASSUME NEW items, ItemsInv(items), NEW k \in 1..Len(items), NEW belonging
    PROVE  /\ RunEnd(items, k, belonging) \in k..Len(items)
           /\ \A j \in (k + 1)..RunEnd(items, k, belonging) : ~Skipped(items, j) /\ j \in belonging
<1>0. Len(items) \in Nat
  BY ItemsTyped
<1> PICK stops, S : /\ stops = {j \in (k + 1)..Len(items) : Skipped(items, j) \/ j \notin belonging}
                    /\ S = {Len(items) + 1} \cup stops
  OBVIOUS
<1>1. RunEnd(items, k, belonging) = Min(S) - 1
  BY Zenon DEF RunEnd
<1>2. S \in SUBSET Nat /\ S # {} /\ \A x \in S : x \in (k + 1)..(Len(items) + 1)
  BY <1>0
<1>3. Min(S) \in S /\ \A y \in S : Min(S) <= y
  BY <1>2, LeastOf
<1> PICK e : e = Min(S) - 1
  OBVIOUS
<1>4. e \in k..Len(items) /\ \A y \in S : e < y
  <2> PICK x : x = Min(S)
    OBVIOUS
  <2>1. x \in (k + 1)..(Len(items) + 1) /\ e = x - 1 /\ \A y \in S : x <= y
    BY <1>2, <1>3
  <2>2. e \in k..Len(items)
    BY <1>0, <2>1
  <2>3. \A y \in S : y \in (k + 1)..(Len(items) + 1)
    BY <1>2
  <2>4. ASSUME NEW y \in S PROVE e < y
    BY <2>1, <2>3, <1>0
  <2> QED BY <2>2, <2>4
<1>5. ASSUME NEW j \in (k + 1)..e PROVE ~Skipped(items, j) /\ j \in belonging
  BY <1>0, <1>2, <1>4
<1> QED BY <1>1, <1>4, <1>5

\* Blocks one after the other.
LEMMA LaidTwice ==
    ASSUME NEW items, ItemsInv(items), NEW k \in 1..(Len(items) + 1), NEW c \in (k - 1)..Len(items), NEW e \in c..Len(items),
           \A m \in k..e : Plain(items, m),
           NEW P, LaidOut(P, items, k, c), NEW Q, LaidOut(Q, items, c + 1, e), NEW W, LaidFrom(items, W, e + 1)
    PROVE  LaidFrom(items, (P \o Q) \o W, k)
<1>0. Len(items) \in Nat /\ k \in Int /\ c \in Int /\ e \in Int
  BY ItemsTyped
<1>1. c + 1 \in 1..(Len(items) + 1) /\ e \in ((c + 1) - 1)..Len(items)
      /\ (\A m \in (c + 1)..e : m \in k..e) /\ (\A m \in k..c : m \in k..e)
  BY <1>0
<1>2. LaidFrom(items, Q \o W, c + 1)
  BY <1>1, LaidMore
<1>3. LaidFrom(items, P \o (Q \o W), k)
  BY <1>1, <1>2, LaidMore
<1>4. P \in Seq(RenderUnit) /\ Q \in Seq(RenderUnit) /\ W \in Seq(RenderUnit)
  BY Zenon DEF LaidOut, LaidFrom
<1>5. (P \o Q) \o W = P \o (Q \o W)
  BY <1>4, ConcatAssociative
<1> QED BY <1>3, <1>5

\* Some messages on their own, or folded into a unit if it is so decided.
LEMMA LayBlock ==
    ASSUME NEW items, ItemsInv(items), NEW a \in 1..(Len(items) + 1), NEW b \in (a - 1)..Len(items),
           \A m \in a..b : Plain(items, m) /\ Foldable(items, m),
           NEW kind \in {"wip_block", "tool_group"}, NEW fold \in BOOLEAN,
           NEW members, PieceOf(members, items, a, b), fold => b # a - 1
    PROVE  LaidOut(IF fold THEN <<Unit(kind, members)>> ELSE Singles(members), items, a, b)
<1>0. Len(items) \in Nat /\ a \in Int /\ b \in Int
  BY ItemsTyped
<1>1. CASE fold
  <2>1. a \in 1..Len(items) /\ b \in a..Len(items)
    BY <1>0, <1>1
  <2>2. LaidOut(<<Unit(kind, members)>>, items, a, b)
    BY <2>1, LayFolded
  <2> QED BY <1>1, <2>2
<1>2. CASE ~fold
  BY LaySingles, <1>2
<1> QED BY <1>1, <1>2

\* A block of narration and work before what follows.
LEMMA LayWip ==
    ASSUME NEW items, ItemsInv(items), NEW k \in 1..Len(items), NEW e \in k..Len(items),
           \A m \in k..e : Plain(items, m) /\ Foldable(items, m), NEW W, LaidFrom(items, W, e + 1)
    PROVE  LaidFrom(items, WipUnits(items, k, e) \o W, k)
<1>0. Len(items) \in Nat /\ k \in Int /\ e \in Int
  BY ItemsTyped
<1> PICK work : work = {j \in k..e : items[j].kind # "assistant_text"}
  OBVIOUS
<1> PICK ejects : ejects = (e < Len(items) /\ ShouldEjectRationaleBefore(items[e + 1]))
  OBVIOUS
<1> PICK cut : cut = IF ejects THEN Max({k - 1} \cup work) ELSE e
  OBVIOUS
<1>1. cut \in (k - 1)..e
  <2> PICK S : S = {k - 1} \cup work
    OBVIOUS
  <2>1. S \in SUBSET (0..e) /\ S # {} /\ k - 1 \in S /\ e \in Nat
    BY <1>0
  <2>2. Max(S) \in S /\ \A y \in S : Max(S) >= y
    BY <2>1, GreatestOf
  <2>3. Max(S) \in (k - 1)..e
    BY <1>0, <2>1, <2>2
  <2>4. e \in (k - 1)..e
    BY <1>0
  <2> QED BY <2>3, <2>4
<1> PICK steps, rest : steps = SubSeq(items, k, cut) /\ rest = SubSeq(items, cut + 1, e)
  OBVIOUS
<1> PICK fold : fold = (Len(steps) >= 2 \/ (loading /\ steps # <<>>))
  OBVIOUS
<1> PICK P : P = IF fold THEN <<Unit("wip_block", steps)>> ELSE Singles(steps)
  OBVIOUS
<1>2. WipUnits(items, k, e) = P \o Singles(rest)
  BY Zenon DEF WipUnits
<1>3. fold \in BOOLEAN
  BY Zenon
<1>4. /\ k \in 1..(Len(items) + 1) /\ cut \in (k - 1)..Len(items) /\ e \in cut..Len(items) /\ cut \in Int
      /\ cut + 1 \in 1..(Len(items) + 1) /\ e \in ((cut + 1) - 1)..Len(items)
      /\ (\A m \in k..cut : m \in k..e) /\ (\A m \in (cut + 1)..e : m \in k..e)
  <2>1. ASSUME NEW x \in (k - 1)..e
        PROVE  /\ k \in 1..(Len(items) + 1) /\ x \in (k - 1)..Len(items) /\ e \in x..Len(items) /\ x \in Int
               /\ x + 1 \in 1..(Len(items) + 1) /\ e \in ((x + 1) - 1)..Len(items)
    BY <1>0
  <2>2. ASSUME NEW x \in (k - 1)..e PROVE (\A m \in k..x : m \in k..e) /\ (\A m \in (x + 1)..e : m \in k..e)
    BY <1>0
  <2> QED BY <1>1, <2>1, <2>2, Zenon
<1>5. PieceOf(steps, items, k, cut) /\ PieceOf(rest, items, cut + 1, e)
  BY <1>4, SomeMessages
<1>6. fold => cut # k - 1
  <2>1. Len(steps) = cut - k + 1 /\ steps \in Seq(TabMessage)
    BY <1>5, Zenon DEF PieceOf
  <2>2. ASSUME cut = k - 1 PROVE Len(steps) = 0
    BY <1>0, <2>1, <2>2
  <2>3. \A s \in Seq(TabMessage) : Len(s) = 0 => s = <<>> /\ ~(Len(s) >= 2)
    OBVIOUS
  <2> QED BY <2>1, <2>2, <2>3, Zenon
<1>7. LaidOut(P, items, k, cut)
  BY <1>4, <1>3, <1>5, <1>6, LayBlock
<1>8. LaidOut(Singles(rest), items, cut + 1, e)
  BY <1>4, <1>5, LaySingles
<1>9. LaidFrom(items, (P \o Singles(rest)) \o W, k)
  BY <1>4, <1>7, <1>8, LaidTwice
<1> QED BY <1>2, <1>9

\* A group of tools before what follows.
LEMMA LayTools ==
    ASSUME NEW items, ItemsInv(items), NEW k \in 1..Len(items), NEW e \in k..Len(items),
           \A m \in k..e : Plain(items, m) /\ Foldable(items, m), NEW W, LaidFrom(items, W, e + 1)
    PROVE  LaidFrom(items, ToolUnits(items, k, e) \o W, k)
<1>0. Len(items) \in Nat /\ k \in Int /\ e \in Int
  BY ItemsTyped
<1> PICK tools : tools = SubSeq(items, k, e)
  OBVIOUS
<1> PICK fold : fold = (Len(tools) >= 2)
  OBVIOUS
<1> PICK P : P = IF fold THEN <<Unit("tool_group", tools)>> ELSE Singles(tools)
  OBVIOUS
<1>1. ToolUnits(items, k, e) = P
  BY Zenon DEF ToolUnits
<1>2. k \in 1..(Len(items) + 1) /\ e \in (k - 1)..Len(items) /\ e # k - 1 /\ fold \in BOOLEAN
  BY <1>0
<1>3. PieceOf(tools, items, k, e)
  BY <1>2, SomeMessages
<1>4. LaidOut(P, items, k, e)
  BY <1>2, <1>3, LayBlock
<1>5. LaidFrom(items, P \o W, k)
  BY <1>2, <1>4, LaidMore
<1> QED BY <1>1, <1>5

\* A message on its own before what follows.
LEMMA LayOne ==
    ASSUME NEW items, ItemsInv(items), NEW k \in 1..Len(items), Plain(items, k), NEW W, LaidFrom(items, W, k + 1)
    PROVE  LaidFrom(items, Singles(<<items[k]>>) \o W, k)
<1>0. Len(items) \in Nat /\ k \in 1..(Len(items) + 1) /\ k \in (k - 1)..Len(items) /\ \A m \in k..k : m = k
  BY ItemsTyped
<1>1. PieceOf(<<items[k]>>, items, k, k)
  BY OneMessage
<1>2. \A m \in k..k : Plain(items, m)
  BY <1>0, Zenon
<1>3. LaidOut(Singles(<<items[k]>>), items, k, k)
  BY <1>0, <1>1, <1>2, LaySingles
<1> QED BY <1>0, <1>2, <1>3, LaidMore

\* The units that close a transcript.
Closing(items) == IF LastStatus(items) = 0 THEN <<>> ELSE Singles(<<items[LastStatus(items)]>>)

\* The messages that are narration or work, but for the answer, and those that are work.
NarrationOrWork(items) == {j \in DOMAIN items : IsWipAbsorbable(items[j])} \ {AnswerIndex(items)}
Work(items) == {j \in DOMAIN items : IsWorkTool(items[j])}

\* The units from the message k on, when f gives those from later ones on.
Round(items, f, k) ==
    IF k > Len(items) THEN Closing(items)
    ELSE IF Skipped(items, k) \/ items[k].kind = "status" THEN f[k + 1]
    ELSE IF items[k].kind = "assistant_text" /\ k # AnswerIndex(items)
         THEN WipUnits(items, k, RunEnd(items, k, NarrationOrWork(items))) \o f[RunEnd(items, k, NarrationOrWork(items)) + 1]
    ELSE IF IsWorkTool(items[k])
         THEN ToolUnits(items, k, RunEnd(items, k, Work(items))) \o f[RunEnd(items, k, Work(items)) + 1]
    ELSE Singles(<<items[k]>>) \o f[k + 1]

\* f gives them from k on.
Rounds(items, f, k) == f = [j \in k..(Len(items) + 1) |-> Round(items, f, j)]

LEMMA UnitsAreRounds == ASSUME NEW items PROVE UnitsFrom(items) = (CHOOSE f : Rounds(items, f, 1))[1]
BY Zenon DEF UnitsFrom, Rounds, Round, Closing, LastStatus, NarrationOrWork, Work

\* A round looks at later ones only.
LEMMA RoundLooksAhead ==
    ASSUME NEW items, ItemsInv(items), NEW k \in 1..(Len(items) + 1), NEW f, NEW g,
           \A j \in (k + 1)..(Len(items) + 1) : f[j] = g[j]
    PROVE  Round(items, f, k) = Round(items, g, k)
<1>0. Len(items) \in Nat
  BY ItemsTyped
<1>1. CASE k > Len(items)
  BY <1>1 DEF Round
<1>2. CASE ~(k > Len(items))
  BY <1>0, <1>2, RunOf DEF Round
<1> QED BY <1>1, <1>2

\* The equation that defines the units has a solution.
LEMMA RoundsExist == ASSUME NEW items, ItemsInv(items) PROVE \E f : Rounds(items, f, 1)
<1> PICK L : L = Len(items)
  OBVIOUS
<1>0. L \in Nat /\ L = Len(items)
  BY ItemsTyped
<1> DEFINE S == {n \in Nat : n <= L => \E f : Rounds(items, f, L + 1 - n)}
<1>1. 0 \in S
  <2> DEFINE f == [j \in (L + 1)..(L + 1) |-> Round(items, <<>>, j)]
  <2>1. \A j \in (L + 1)..(L + 1) : j \in 1..(Len(items) + 1) /\ (j + 1)..(Len(items) + 1) = {}
    BY <1>0
  <2>2. ASSUME NEW g, NEW j \in (L + 1)..(L + 1) PROVE Round(items, <<>>, j) = Round(items, g, j)
    BY <2>1, RoundLooksAhead
  <2>3. \A j \in (L + 1)..(L + 1) : f[j] = Round(items, f, j)
    BY <2>2
  <2>4. f = [j \in (L + 1)..(L + 1) |-> f[j]]
    OBVIOUS
  <2> HIDE DEF f
  <2>5. f = [j \in (L + 1)..(Len(items) + 1) |-> Round(items, f, j)]
    BY <1>0, <2>3, <2>4
  <2>6. Rounds(items, f, L + 1 - 0)
    BY <1>0, <2>5 DEF Rounds
  <2> QED BY <2>6
<1>2. ASSUME NEW n \in Nat, n \in S PROVE n + 1 \in S
  <2> SUFFICES ASSUME n + 1 <= L PROVE \E f : Rounds(items, f, L + 1 - (n + 1))
    OBVIOUS
  <2> PICK k : k = L + 1 - (n + 1)
    OBVIOUS
  <2>1. k \in 1..L /\ L + 1 - n = k + 1
    BY <1>0
  <2>2. PICK f : Rounds(items, f, k + 1)
    BY <1>0, <1>2, <2>1
  <2>3. \A j \in (k + 1)..(L + 1) : f[j] = Round(items, f, j)
    BY <1>0, <2>2 DEF Rounds
  <2> DEFINE g == [j \in k..(L + 1) |-> IF j = k THEN Round(items, f, k) ELSE f[j]]
  <2>4. \A j \in (k + 1)..(L + 1) : g[j] = f[j]
    BY <1>0, <2>1
  <2>5. g[k] = Round(items, f, k)
    BY <1>0, <2>1
  <2>6. g = [j \in k..(L + 1) |-> g[j]]
    OBVIOUS
  <2> HIDE DEF g
  <2>7. ASSUME NEW j \in k..(L + 1) PROVE Round(items, f, j) = Round(items, g, j)
    BY <1>0, <2>1, <2>4, RoundLooksAhead
  <2>8. \A j \in k..(L + 1) : g[j] = Round(items, g, j)
    <3> TAKE j \in k..(L + 1)
    <3>1. j = k \/ j \in (k + 1)..(L + 1)
      BY <1>0, <2>1
    <3> QED BY <2>3, <2>4, <2>5, <2>7, <3>1
  <2>9. g = [j \in k..(L + 1) |-> Round(items, g, j)]
    BY <2>6, <2>8, Zenon
  <2>10. Rounds(items, g, k)
    BY <1>0, <2>9, Zenon DEF Rounds
  <2> QED BY <2>10
<1>3. \A n \in Nat : n \in S
  <2> HIDE DEF S
  <2> QED BY <1>1, <1>2, NumberByNumber
<1>4. L \in S /\ L <= L /\ L + 1 - L = 1
  <2>1. L \in S
    <3> HIDE DEF S
    <3> QED BY <1>0, <1>3
  <2> HIDE DEF S
  <2> QED BY <1>0, <2>1
<1>5. \E f : Rounds(items, f, L + 1 - L)
  BY <1>4
<1> QED BY <1>4, <1>5, Zenon

\* The last status is one, and the last.
LEMMA LastStatusIs ==
    ASSUME NEW items, ItemsInv(items)
    PROVE  /\ LastStatus(items) # 0 => LastStatus(items) \in 1..Len(items) /\ items[LastStatus(items)].kind = "status"
           /\ \A j \in 1..Len(items) : items[j].kind = "status" => LastStatus(items) # 0 /\ j <= LastStatus(items)
<1>0. Len(items) \in Nat /\ DOMAIN items = 1..Len(items)
  BY ItemsTyped
<1> PICK st, S, l : st = {k \in DOMAIN items : items[k].kind = "status"} /\ S = {0} \cup st /\ l = Max(S)
  OBVIOUS
<1>1. LastStatus(items) = l
  BY Zenon DEF LastStatus
<1>2. S \in SUBSET (0..Len(items)) /\ S # {}
  BY <1>0
<1>3. l \in S /\ \A y \in S : l >= y
  BY <1>0, <1>2, GreatestOf
<1>4. l # 0 => l \in 1..Len(items) /\ items[l].kind = "status"
  BY <1>0, <1>3
<1>5. ASSUME NEW j \in 1..Len(items), items[j].kind = "status" PROVE l # 0 /\ j <= l
  BY <1>0, <1>5, <1>2, <1>3
<1> QED BY <1>1, <1>4, <1>5

\* What closes a transcript shows the last status.
LEMMA ClosingLaid == ASSUME NEW items, ItemsInv(items) PROVE LaidFrom(items, Closing(items), Len(items) + 1)
<1>0. Len(items) \in Nat /\ (Len(items) + 1)..Len(items) = {}
  BY ItemsTyped
<1> PICK W, l : W = Closing(items) /\ l = LastStatus(items)
  OBVIOUS
<1>1. CASE l = 0
  BY <1>1, <1>0 DEF Closing, LaysFrom, LaidFrom
<1>2. CASE l # 0
  <2>1. l \in 1..Len(items) /\ items[l].kind = "status" /\ l \in l..Len(items)
    BY <1>0, <1>2, LastStatusIs
  <2> PICK u : u = Unit(SingleKind(items[l]), <<items[l]>>)
    OBVIOUS
  <2>2. u \in RenderUnit /\ Shows(u, items, l, l) /\ u.kind = "status"
    BY <2>1, OneSingle
  <2>3. W = Singles(<<items[l]>>)
    BY <1>2, Zenon DEF Closing
  <2>4. W = <<u>>
    BY <2>3 DEF Singles
  <2>5. W \in Seq(RenderUnit) /\ Len(W) = 1 /\ W[1] = u /\ 1 \in 1..1 /\ \A j \in 1..1 : j = 1
    BY <2>2, <2>4
  <2> PICK lo : lo = [j \in 1..1 |-> l]
    OBVIOUS
  <2>6. lo[1] = l
    OBVIOUS
  <2>7. \A j \in 1..Len(W) : lo[j] \in 1..Len(items) /\ lo[j] \in lo[j]..Len(items) /\ Shows(W[j], items, lo[j], lo[j])
    BY <2>1, <2>2, <2>5, <2>6, Zenon
  <2>8. \A j \in 1..Len(W) : j = Len(W) /\ W[j].kind = "status" /\ lo[j] = LastStatus(items)
    BY <2>2, <2>5, <2>6, Zenon
  <2>9. 1 \in 1..Len(W)
    BY <2>5
  <2>10. LaysFrom(W, items, Len(items) + 1, lo, lo)
    BY <1>0, <2>7, <2>8, <2>9, Zenon DEF LaysFrom
  <2> QED BY <2>5, <2>10, Zenon DEF LaidFrom
<1> QED BY <1>1, <1>2

\* What may be folded away has its place.
LEMMA FoldablesPlain ==
    ASSUME NEW items, NEW m, Foldable(items, m), ~Skipped(items, m)
    PROVE  Plain(items, m)
BY DEF Foldable, IsWorkTool, Plain

\* What a loop takes up may be folded away.
LEMMA RunPlain ==
    ASSUME NEW items, ItemsInv(items), NEW k \in 1..Len(items), Foldable(items, k), ~Skipped(items, k), NEW belonging,
           \A j \in belonging : Foldable(items, j)
    PROVE  \A j \in k..RunEnd(items, k, belonging) : Plain(items, j) /\ Foldable(items, j)
BY ItemsTyped, RunOf, FoldablesPlain

\* A round shows the messages from its own on.
LEMMA RoundLays ==
    ASSUME NEW items, ItemsInv(items), NEW k \in 1..(Len(items) + 1), NEW f,
           \A j \in (k + 1)..(Len(items) + 1) : LaidFrom(items, f[j], j)
    PROVE  LaidFrom(items, Round(items, f, k), k)
<1>0. Len(items) \in Nat /\ DOMAIN items = 1..Len(items)
  BY ItemsTyped
<1>1. CASE k > Len(items)
  BY <1>0, <1>1, ClosingLaid DEF Round
<1>2. ASSUME ~(k > Len(items)) PROVE k \in 1..Len(items) /\ LaidFrom(items, f[k + 1], k + 1)
  BY <1>0, <1>2
<1>3. CASE ~(k > Len(items)) /\ (Skipped(items, k) \/ items[k].kind = "status")
  BY <1>3, <1>2, LaidSkip DEF Plain, Round
<1>4. ASSUME NEW belonging, k \in 1..Len(items), Foldable(items, k), ~Skipped(items, k), \A j \in belonging : Foldable(items, j)
      PROVE  LET e == RunEnd(items, k, belonging)
             IN /\ LaidFrom(items, WipUnits(items, k, e) \o f[e + 1], k)
                /\ LaidFrom(items, ToolUnits(items, k, e) \o f[e + 1], k)
  BY <1>4, RunOf, RunPlain, <1>0, LayWip, LayTools
<1>5. CASE /\ ~(k > Len(items)) /\ ~(Skipped(items, k) \/ items[k].kind = "status")
           /\ items[k].kind = "assistant_text" /\ k # AnswerIndex(items)
  BY <1>5, <1>2, <1>4 DEF Round, Foldable, NarrationOrWork, IsWipAbsorbable
<1>6. CASE /\ ~(k > Len(items)) /\ ~(Skipped(items, k) \/ items[k].kind = "status")
           /\ ~(items[k].kind = "assistant_text" /\ k # AnswerIndex(items)) /\ IsWorkTool(items[k])
  BY <1>6, <1>2, <1>4 DEF Round, Foldable, Work
<1>7. CASE /\ ~(k > Len(items)) /\ ~(Skipped(items, k) \/ items[k].kind = "status")
           /\ ~(items[k].kind = "assistant_text" /\ k # AnswerIndex(items)) /\ ~IsWorkTool(items[k])
  BY <1>7, <1>2, LayOne DEF Round, Plain
<1> QED BY <1>1, <1>3, <1>5, <1>6, <1>7, Zenon

\* The units of a transcript show its messages.
LEMMA UnitsLaid == ASSUME NEW items, ItemsInv(items) PROVE LaidFrom(items, UnitsFrom(items), 1)
<1> PICK f, L : f = (CHOOSE g : Rounds(items, g, 1)) /\ L = Len(items)
  OBVIOUS
<1>0. L \in Nat /\ L = Len(items)
  BY ItemsTyped
<1>1. UnitsFrom(items) = f[1]
  BY UnitsAreRounds
<1>2. Rounds(items, f, 1)
  BY RoundsExist, Zenon
<1>3. \A j \in 1..(L + 1) : f[j] = Round(items, f, j)
  BY <1>0, <1>2 DEF Rounds
<1> DEFINE S == {n \in Nat : n <= L => \A j \in (L + 1 - n)..(L + 1) : LaidFrom(items, f[j], j)}
<1>4. ASSUME NEW k \in 1..(L + 1), \A j \in (k + 1)..(L + 1) : LaidFrom(items, f[j], j) PROVE LaidFrom(items, f[k], k)
  BY <1>0, <1>4, RoundLays, <1>3
<1>5. 0 \in S
  BY <1>0, <1>4
<1>6. ASSUME NEW n \in Nat, n \in S PROVE n + 1 \in S
  BY <1>0, <1>6, <1>4
<1>7. L \in S
  <2>1. \A n \in Nat : n \in S
    <3> HIDE DEF S
    <3> QED BY <1>5, <1>6, NumberByNumber
  <2> HIDE DEF S
  <2> QED BY <1>0, <2>1
<1>8. \A j \in (L + 1 - L)..(L + 1) : LaidFrom(items, f[j], j)
  BY <1>0, <1>7
<1>9. 1 \in (L + 1 - L)..(L + 1)
  BY <1>0
<1> QED BY <1>1, <1>8, <1>9

\* The unit row[j] shows the messages from lo[j] to hi[j]: each that is not skipped, once, in
\* the order of the chat but for the last status.
Whole(row, items, lo, hi) ==
    /\ \A j \in 1..Len(row) : lo[j] \in 1..Len(items) /\ hi[j] \in lo[j]..Len(items) /\ Shows(row[j], items, lo[j], hi[j])
    /\ \A i, j \in 1..Len(row) : \A m \in lo[i]..hi[i] : m \in lo[j]..hi[j] => i = j
    /\ \A i, j \in 1..Len(row) : i < j /\ row[j].kind # "status" => lo[i] < lo[j]
    /\ \A m \in 1..Len(items) : ~Skipped(items, m) => \E j \in 1..Len(row) : m \in lo[j]..hi[j]
    /\ \A j \in 1..Len(row) : \A m \in lo[j]..hi[j] : ~Skipped(items, m)

\* The last status is not skipped, the others are.
LEMMA StatusShown ==
    ASSUME NEW items, ItemsInv(items), NEW m \in 1..Len(items), items[m].kind = "status"
    PROVE  LastStatus(items) # 0 /\ (Skipped(items, m) <=> m # LastStatus(items))
<1>0. Len(items) \in Nat /\ DOMAIN items = 1..Len(items)
  BY ItemsTyped
<1> PICK l : l = LastStatus(items)
  OBVIOUS
<1>1. /\ l # 0 => l \in 1..Len(items) /\ items[l].kind = "status"
      /\ \A j \in 1..Len(items) : items[j].kind = "status" => l # 0 /\ j <= l
  BY LastStatusIs
<1>2. items[m].tool = ""
  BY Zenon DEF ItemsInv
<1>3. Skipped(items, m) <=> \E j \in DOMAIN items : j > m /\ items[j].kind = "status"
  BY <1>2 DEF Skipped
<1>4. l # 0 /\ m <= l /\ l \in 1..Len(items) /\ items[l].kind = "status"
  BY <1>1
<1>5. ASSUME m # l PROVE Skipped(items, m)
  BY <1>0, <1>4, <1>5, <1>3
<1>6. ASSUME m = l, Skipped(items, m) PROVE FALSE
  BY <1>0, <1>3, <1>6, <1>1
<1> QED BY <1>4, <1>5, <1>6, Zenon

\* Units from the first message on are of the whole transcript.
LEMMA LaidWhole ==
    ASSUME NEW items, ItemsInv(items), NEW W, LaidFrom(items, W, 1)
    PROVE  W \in Seq(RenderUnit) /\ \E lo, hi : Whole(W, items, lo, hi)
<1>0. Len(items) \in Nat
  BY ItemsTyped
<1>1. W \in Seq(RenderUnit) /\ Len(W) \in Nat
  BY DEF LaidFrom
<1>2. PICK lo, hi : LaysFrom(W, items, 1, lo, hi)
  BY Zenon DEF LaidFrom
<1> PICK l : l = LastStatus(items)
  OBVIOUS
<1>3. /\ \A j \in 1..Len(W) : lo[j] \in 1..Len(items) /\ hi[j] \in lo[j]..Len(items) /\ Shows(W[j], items, lo[j], hi[j])
      /\ \A j \in 1..Len(W) : W[j].kind = "status" => j = Len(W) /\ lo[j] = l /\ hi[j] = l
      /\ \A j \in 1..Len(W) : W[j].kind # "status" => \A m \in lo[j]..hi[j] : Plain(items, m)
      /\ \A i, j \in 1..Len(W) : i < j /\ W[j].kind # "status" => hi[i] < lo[j]
      /\ \A m \in 1..Len(items) : Plain(items, m) => \E j \in 1..Len(W) : m \in lo[j]..hi[j]
      /\ l # 0 => \E j \in 1..Len(W) : W[j].kind = "status"
  BY <1>2, Zenon DEF LaysFrom
<1>4. \A j \in 1..Len(W) : /\ lo[j] \in Int /\ hi[j] \in Int /\ lo[j] <= hi[j] /\ lo[j] # 0
                           /\ \A m \in lo[j]..hi[j] : m \in 1..Len(items) /\ m \in Int
  <2> TAKE j \in 1..Len(W)
  <2>1. lo[j] \in 1..Len(items) /\ hi[j] \in lo[j]..Len(items)
    BY <1>3
  <2> QED BY <1>0, <2>1
<1>5. l # 0 => l \in 1..Len(items) /\ items[l].kind = "status" /\ ~Skipped(items, l)
  BY LastStatusIs, StatusShown
<1>6. \A j \in 1..Len(W) : W[j].kind = "status" => \A m \in lo[j]..hi[j] : m = l /\ l # 0
  BY <1>3, <1>4
<1>7. ASSUME NEW j \in 1..Len(W), NEW m \in lo[j]..hi[j] PROVE ~Skipped(items, m) /\ (items[m].kind = "status" <=> W[j].kind = "status")
  BY <1>5, <1>6, <1>3 DEF Plain
<1>8. ASSUME NEW i \in 1..Len(W), NEW j \in 1..Len(W), i < j, NEW m \in lo[i]..hi[i], m \in lo[j]..hi[j] PROVE FALSE
  BY <1>1, <1>3, <1>8, <1>7, <1>4
<1>9. \A i, j \in 1..Len(W) : \A m \in lo[i]..hi[i] : m \in lo[j]..hi[j] => i = j
  BY <1>1, <1>8
<1>10. ASSUME NEW i \in 1..Len(W), NEW j \in 1..Len(W), i < j, W[j].kind # "status" PROVE lo[i] < lo[j]
  BY <1>3, <1>4, <1>10
<1>11. ASSUME NEW m \in 1..Len(items), ~Skipped(items, m) PROVE \E j \in 1..Len(W) : m \in lo[j]..hi[j]
  BY <1>11, StatusShown, <1>3, <1>4 DEF Plain
<1>12. Whole(W, items, lo, hi)
  BY <1>3, <1>7, <1>9, <1>10, <1>11, Zenon DEF Whole
<1> QED BY <1>1, <1>12, Zenon

\* The numbers s are the sources of the messages from a to b, from the first one on, none twice.
SourcesOf(s, items, a, b) ==
    /\ s \in Seq(Nat) /\ Len(s) > 0 /\ s[1] = items[a].sources[1]
    /\ \A p \in 1..Len(s) : \E m \in a..b : \E q \in 1..Len(items[m].sources) : s[p] = items[m].sources[q]
    /\ \A m \in a..b : \A q \in 1..Len(items[m].sources) : \E p \in 1..Len(s) : s[p] = items[m].sources[q]
    /\ \A p, q \in 1..Len(s) : s[p] = s[q] => p = q

\* What is known of the sources of messages.
LEMMA SourcesApart ==
    ASSUME NEW items, ItemsInv(items)
    PROVE  \A m, n \in 1..Len(items) : \A p \in 1..Len(items[m].sources), q \in 1..Len(items[n].sources) :
              items[m].sources[p] = items[n].sources[q] => m = n /\ p = q
BY Zenon DEF ItemsInv

LEMMA HeadsRise ==
    ASSUME NEW items, ItemsInv(items)
    PROVE  \A m, n \in 1..Len(items) : m < n => items[m].sources[1] < items[n].sources[1]
BY Zenon DEF ItemsInv

LEMMA SourcesStart == ASSUME NEW items, ItemsInv(items) PROVE \A m \in 1..Len(items) : Len(items[m].sources) > 0
BY Zenon DEF ItemsInv

\* A unit shows the sources of its messages.
LEMMA SourcesShown ==
    ASSUME NEW items, ItemsInv(items), NEW a \in 1..Len(items), NEW b \in a..Len(items), NEW u, Shows(u, items, a, b)
    PROVE  SourcesOf(u.sources, items, a, b)
<1>0. Len(items) \in Nat /\ a \in Int /\ b \in Int
      /\ \A m \in a..b : m \in 1..Len(items) /\ m - a + 1 \in 1..(b - a + 1) /\ a + (m - a + 1) - 1 = m
  BY ItemsTyped
<1> PICK ss : ss = PartsOf(items, a, b)
  OBVIOUS
<1>1. /\ ss \in Seq(Seq(Nat)) /\ Len(ss) = b - a + 1 /\ ss # <<>>
      /\ \A m \in 1..(b - a + 1) : a + m - 1 \in a..b /\ ss[m] = items[a + m - 1].sources
  BY PartsAreSequences
<1>2. Apart(ss)
  <2> SUFFICES ASSUME NEW i \in 1..Len(ss), NEW j \in 1..Len(ss), NEW p \in 1..Len(ss[i]), NEW q \in 1..Len(ss[j]),
                      ss[i][p] = ss[j][q]
               PROVE  i = j /\ p = q
    BY Zenon DEF Apart
  <2>1. \A x \in 1..Len(ss) : a + x - 1 \in a..b /\ ss[x] = items[a + x - 1].sources
    BY <1>1
  <2>a. PICK m, n : m = a + i - 1 /\ n = a + j - 1
    OBVIOUS
  <2>2. m \in 1..Len(items) /\ n \in 1..Len(items) /\ ss[i] = items[m].sources /\ ss[j] = items[n].sources
    BY <1>0, <2>1, <2>a
  <2>3. p \in 1..Len(items[m].sources) /\ q \in 1..Len(items[n].sources) /\ items[m].sources[p] = items[n].sources[q]
    BY <2>2, Zenon
  <2>b. \A x, y \in 1..Len(items) : \A v \in 1..Len(items[x].sources), w \in 1..Len(items[y].sources) :
           items[x].sources[v] = items[y].sources[w] => x = y /\ v = w
    BY SourcesApart
  <2>c. \A v \in 1..Len(items[m].sources), w \in 1..Len(items[n].sources) :
           items[m].sources[v] = items[n].sources[w] => m = n /\ v = w
    BY <2>2, <2>b
  <2>4. m = n /\ p = q
    BY <2>3, <2>c, Zenon
  <2>5. i \in Int /\ j \in Int
    BY <1>1
  <2>6. a + i - 1 = a + j - 1
    BY <2>a, <2>4, Zenon
  <2>7. i = j
    BY <1>0, <2>5, <2>6
  <2> QED BY <2>4, <2>7, Zenon
<1> PICK s : s = u.sources
  OBVIOUS
<1> PICK n : n = b - a + 1
  OBVIOUS
<1>3. FlatOf(s, ss, n)
  BY <1>1, Flattened DEF Shows
<1>4. /\ s \in Seq(Nat)
      /\ \A p \in 1..Len(s) : \E i \in 1..n : \E q \in 1..Len(ss[i]) : s[p] = ss[i][q]
      /\ \A i \in 1..n : \A q \in 1..Len(ss[i]) : \E p \in 1..Len(s) : s[p] = ss[i][q]
      /\ Len(ss[1]) > 0 => Len(s) > 0 /\ s[1] = ss[1][1]
      /\ \A p, q \in 1..Len(s) : s[p] = s[q] => p = q
  BY <1>2, <1>3, Zenon DEF FlatOf
<1>5. 1 \in 1..n /\ a + 1 - 1 = a /\ a \in 1..Len(items)
  BY <1>0
<1>6. ss[1] = items[a].sources /\ Len(ss[1]) > 0
  BY <1>1, <1>5, SourcesStart
<1>7. ASSUME NEW p \in 1..Len(s) PROVE \E m \in a..b : \E q \in 1..Len(items[m].sources) : s[p] = items[m].sources[q]
  <2>1. PICK i \in 1..n : \E q \in 1..Len(ss[i]) : s[p] = ss[i][q]
    BY <1>4
  <2>2. a + i - 1 \in a..b /\ ss[i] = items[a + i - 1].sources
    BY <1>1
  <2> QED BY <2>1, <2>2
<1>8. ASSUME NEW m \in a..b, NEW q \in 1..Len(items[m].sources) PROVE \E p \in 1..Len(s) : s[p] = items[m].sources[q]
  <2> PICK i : i = m - a + 1
    OBVIOUS
  <2>1. i \in 1..n /\ ss[i] = items[m].sources
    BY <1>0, <1>1
  <2>2. q \in 1..Len(ss[i]) /\ ss[i][q] = items[m].sources[q]
    BY <2>1, Zenon
  <2>3. \E p \in 1..Len(s) : s[p] = ss[i][q]
    BY <1>4, <2>1, <2>2, Zenon
  <2> QED BY <2>2, <2>3, Zenon
<1>9. s[1] = items[a].sources[1] /\ Len(s) > 0
  BY <1>4, <1>6
<1>10. SourcesOf(s, items, a, b)
  BY <1>4, <1>7, <1>8, <1>9, Zenon DEF SourcesOf
<1> QED BY <1>10

\* No message is shown twice.
LEMMA UnitsApart ==
    ASSUME NEW items, ItemsInv(items), NEW W \in Seq(RenderUnit), NEW lo, NEW hi, Whole(W, items, lo, hi)
    PROVE  /\ \A j \in 1..Len(W) : SourcesOf(W[j].sources, items, lo[j], hi[j])
           /\ \A i, j \in 1..Len(W) : \A p \in 1..Len(W[i].sources), q \in 1..Len(W[j].sources) :
                 W[i].sources[p] = W[j].sources[q] => i = j /\ p = q
           /\ \A j \in 1..Len(W) : \A m \in lo[j]..hi[j] : m \in 1..Len(items)
<1>0. Len(items) \in Nat
  BY ItemsTyped
<1>1. /\ \A j \in 1..Len(W) : lo[j] \in 1..Len(items) /\ hi[j] \in lo[j]..Len(items) /\ Shows(W[j], items, lo[j], hi[j])
      /\ \A i, j \in 1..Len(W) : \A m \in lo[i]..hi[i] : m \in lo[j]..hi[j] => i = j
  BY Zenon DEF Whole
<1>2. \A j \in 1..Len(W) : SourcesOf(W[j].sources, items, lo[j], hi[j])
  BY <1>1, SourcesShown
<1>3. \A j \in 1..Len(W) : \A m \in lo[j]..hi[j] : m \in 1..Len(items)
  BY <1>1, <1>0
<1>4. ASSUME NEW i \in 1..Len(W), NEW j \in 1..Len(W), NEW p \in 1..Len(W[i].sources), NEW q \in 1..Len(W[j].sources),
             W[i].sources[p] = W[j].sources[q]
      PROVE  i = j /\ p = q
  <2>a. SourcesOf(W[i].sources, items, lo[i], hi[i]) /\ SourcesOf(W[j].sources, items, lo[j], hi[j])
    BY <1>2
  <2>1. PICK m \in lo[i]..hi[i] : \E r \in 1..Len(items[m].sources) : W[i].sources[p] = items[m].sources[r]
    BY <2>a, Zenon DEF SourcesOf
  <2>2. PICK r \in 1..Len(items[m].sources) : W[i].sources[p] = items[m].sources[r]
    BY <2>1
  <2>3. PICK k \in lo[j]..hi[j] : \E t \in 1..Len(items[k].sources) : W[j].sources[q] = items[k].sources[t]
    BY <2>a, Zenon DEF SourcesOf
  <2>4. PICK t \in 1..Len(items[k].sources) : W[j].sources[q] = items[k].sources[t]
    BY <2>3
  <2>5. m \in 1..Len(items) /\ k \in 1..Len(items) /\ items[m].sources[r] = items[k].sources[t]
    BY <1>3, <1>4, <2>2, <2>4, Zenon
  <2>6. m = k
    BY <2>5, SourcesApart
  <2>7. i = j
    BY <1>1, <2>6, Zenon
  <2>8. \A x, y \in 1..Len(W[i].sources) : W[i].sources[x] = W[i].sources[y] => x = y
    BY <2>a, Zenon DEF SourcesOf
  <2> QED BY <1>4, <2>7, <2>8
<1> QED BY <1>2, <1>3, <1>4, Zenon

\* The numbers shown are the sources of the units, none twice.
UnitsTold(shown, W) ==
    /\ shown \in Seq(Nat)
    /\ \A p \in 1..Len(shown) : \E i \in 1..Len(W) : \E q \in 1..Len(W[i].sources) : shown[p] = W[i].sources[q]
    /\ \A i \in 1..Len(W) : \A q \in 1..Len(W[i].sources) : \E p \in 1..Len(shown) : shown[p] = W[i].sources[q]
    /\ \A p, q \in 1..Len(shown) : shown[p] = shown[q] => p = q

\* The sources of all units, one after the other.
LEMMA AllShown ==
    ASSUME NEW items, ItemsInv(items), NEW W \in Seq(RenderUnit), NEW lo, NEW hi, Whole(W, items, lo, hi),
           NEW shown, shown = FlattenSeq([j \in DOMAIN W |-> W[j].sources])
    PROVE  UnitsTold(shown, W)
<1> PICK k : k = Len(W)
  OBVIOUS
<1>0. k = Len(W) /\ k \in Nat /\ DOMAIN W = 1..k
  OBVIOUS
<1>1. \A i, j \in 1..k : \A p \in 1..Len(W[i].sources), q \in 1..Len(W[j].sources) :
          W[i].sources[p] = W[j].sources[q] => i = j /\ p = q
  BY UnitsApart
<1>2. \A j \in 1..k : W[j].sources \in Seq(Nat)
  BY UnitsApart DEF SourcesOf
<1>3. PICK ss : ss = [j \in DOMAIN W |-> W[j].sources]
  OBVIOUS
<1>4. ss \in Seq(Seq(Nat)) /\ Len(ss) = k /\ \A j \in 1..k : ss[j] = W[j].sources
  BY <1>0, <1>2, <1>3
<1>5. shown = FlattenSeq(ss)
  BY <1>3
<1>6. CASE ss = <<>>
  BY <1>6, <1>5, <1>4, <1>0 DEF FlattenSeq, UnitsTold
<1>7. CASE ss # <<>>
  <2>1. FlatOf(shown, ss, k)
    BY <1>4, <1>7, Flattened, <1>5
  <2>2. Apart(ss)
    <3> SUFFICES ASSUME NEW i \in 1..Len(ss), NEW j \in 1..Len(ss), NEW p \in 1..Len(ss[i]), NEW q \in 1..Len(ss[j]),
                        ss[i][p] = ss[j][q]
                 PROVE  i = j /\ p = q
      BY Zenon DEF Apart
    <3>1. i \in 1..k /\ j \in 1..k /\ ss[i] = W[i].sources /\ ss[j] = W[j].sources
      BY <1>4
    <3>2. p \in 1..Len(W[i].sources) /\ q \in 1..Len(W[j].sources) /\ W[i].sources[p] = W[j].sources[q]
      BY <3>1, Zenon
    <3>3. \A x \in 1..Len(W[i].sources), y \in 1..Len(W[j].sources) : W[i].sources[x] = W[j].sources[y] => i = j /\ x = y
      BY <1>1, <3>1
    <3> QED BY <3>2, <3>3, Zenon
  <2>3. /\ shown \in Seq(Nat)
        /\ \A p \in 1..Len(shown) : \E i \in 1..k : \E q \in 1..Len(ss[i]) : shown[p] = ss[i][q]
        /\ \A i \in 1..k : \A q \in 1..Len(ss[i]) : \E p \in 1..Len(shown) : shown[p] = ss[i][q]
        /\ \A p, q \in 1..Len(shown) : shown[p] = shown[q] => p = q
    BY <2>1, <2>2, Zenon DEF FlatOf
  <2>4. ASSUME NEW p \in 1..Len(shown) PROVE \E i \in 1..Len(W) : \E q \in 1..Len(W[i].sources) : shown[p] = W[i].sources[q]
    <3>1. PICK i \in 1..k : \E q \in 1..Len(ss[i]) : shown[p] = ss[i][q]
      BY <2>3, Zenon
    <3>2. ss[i] = W[i].sources /\ i \in 1..Len(W)
      BY <1>0, <1>4
    <3> QED BY <3>1, <3>2, Zenon
  <2>5. ASSUME NEW i \in 1..Len(W), NEW q \in 1..Len(W[i].sources) PROVE \E p \in 1..Len(shown) : shown[p] = W[i].sources[q]
    <3>1. ss[i] = W[i].sources /\ i \in 1..k
      BY <1>0, <1>4
    <3>2. \A x \in 1..Len(ss[i]) : \E p \in 1..Len(shown) : shown[p] = ss[i][x]
      BY <2>3, <3>1, Zenon
    <3> QED BY <3>1, <3>2, Zenon
  <2> QED BY <2>3, <2>4, <2>5, Zenon DEF UnitsTold
<1> QED BY <1>6, <1>7

\* What is not superseded is shown once, in order.
LEMMA OnceInOrder ==
    ASSUME NEW items, ItemsInv(items), items = Items, NEW W \in Seq(RenderUnit), W = Units,
           NEW lo, NEW hi, Whole(W, items, lo, hi)
    PROVE  ShownOnceInOrder
<1> PICK k : k = Len(W)
  OBVIOUS
<1>0. /\ k = Len(W) /\ k \in Nat /\ DOMAIN W = 1..k
      /\ Len(items) \in Nat /\ DOMAIN items = 1..Len(items)
  BY ItemsTyped
<1>1. /\ \A j \in 1..k : SourcesOf(W[j].sources, items, lo[j], hi[j])
      /\ \A i, j \in 1..k : \A p \in 1..Len(W[i].sources), q \in 1..Len(W[j].sources) :
            W[i].sources[p] = W[j].sources[q] => i = j /\ p = q
      /\ \A j \in 1..k : \A m \in lo[j]..hi[j] : m \in 1..Len(items)
  BY UnitsApart
<1>2. /\ \A j \in 1..k : lo[j] \in 1..Len(items)
      /\ \A i, j \in 1..k : i < j /\ W[j].kind # "status" => lo[i] < lo[j]
      /\ \A m \in 1..Len(items) : ~Skipped(items, m) => \E j \in 1..k : m \in lo[j]..hi[j]
      /\ \A j \in 1..k : \A m \in lo[j]..hi[j] : ~Skipped(items, m)
  BY Zenon DEF Whole
<1>3. \A j \in 1..k : W[j].sources \in Seq(Nat) /\ Len(W[j].sources) > 0 /\ W[j].sources[1] = items[lo[j]].sources[1]
  BY SMTT(30), <1>1 DEF SourcesOf
<1>4. \A j \in 1..k : Head(W[j].sources) = W[j].sources[1] /\ 1 \in 1..Len(W[j].sources)
  BY <1>3
<1>5. PICK shown : shown = FlattenSeq([j \in DOMAIN W |-> W[j].sources])
  OBVIOUS
<1>6. /\ shown \in Seq(Nat)
      /\ \A p \in 1..Len(shown) : \E i \in 1..Len(W) : \E q \in 1..Len(W[i].sources) : shown[p] = W[i].sources[q]
      /\ \A i \in 1..Len(W) : \A q \in 1..Len(W[i].sources) : \E p \in 1..Len(shown) : shown[p] = W[i].sources[q]
      /\ \A p, q \in 1..Len(shown) : shown[p] = shown[q] => p = q
  <2>1. UnitsTold(shown, W)
    BY <1>5, AllShown
  <2> QED BY <2>1, Zenon DEF UnitsTold
<1>7. DOMAIN shown = 1..Len(shown)
  BY <1>6
<1>8. IsInjective(shown)
  BY <1>6, <1>7, Zenon DEF IsInjective
<1>a. PICK kept : kept = {m \in DOMAIN items : ~Skipped(items, m)}
  OBVIOUS
<1>b. \A m \in kept : m \in 1..Len(items) /\ ~Skipped(items, m)
  BY <1>0, <1>a, Zenon
<1>c. \A m \in 1..Len(items) : ~Skipped(items, m) => m \in kept
  BY <1>0, <1>a, Zenon
<1>9. \A m \in 1..Len(items) : DOMAIN items[m].sources = 1..Len(items[m].sources)
  BY ItemsTyped
<1>10. ToSet(shown) = UNION {ToSet(items[m].sources) : m \in kept}
  <2>1. ASSUME NEW x \in ToSet(shown) PROVE x \in UNION {ToSet(items[m].sources) : m \in kept}
    <3>1. PICK p \in 1..Len(shown) : x = shown[p]
      BY <1>7, Zenon DEF ToSet
    <3>2. PICK j \in 1..k : \E q \in 1..Len(W[j].sources) : shown[p] = W[j].sources[q]
      BY <1>0, <1>6
    <3>3. PICK y \in 1..Len(W[j].sources) : shown[p] = W[j].sources[y]
      BY <3>2
    <3>4. SourcesOf(W[j].sources, items, lo[j], hi[j])
      BY <1>1
    <3>5. PICK m \in lo[j]..hi[j] : \E q \in 1..Len(items[m].sources) : W[j].sources[y] = items[m].sources[q]
      BY <3>4, Zenon DEF SourcesOf
    <3>6. m \in kept /\ m \in 1..Len(items)
      BY <1>1, <1>2, <1>c, Zenon
    <3>7. x \in ToSet(items[m].sources)
      BY <3>5, <3>1, <3>3, <1>9, <3>6 DEF ToSet
    <3> QED BY <3>6, <3>7, Zenon
  <2>2. ASSUME NEW x \in UNION {ToSet(items[m].sources) : m \in kept} PROVE x \in ToSet(shown)
    <3>1. PICK m \in kept : x \in ToSet(items[m].sources)
      BY Zenon
    <3>2. m \in 1..Len(items) /\ ~Skipped(items, m)
      BY <1>b
    <3>3. PICK q \in 1..Len(items[m].sources) : x = items[m].sources[q]
      BY <1>9, <3>1, <3>2, Zenon DEF ToSet
    <3>4. PICK j \in 1..k : m \in lo[j]..hi[j]
      BY <1>2, <3>2
    <3>5. SourcesOf(W[j].sources, items, lo[j], hi[j])
      BY <1>1
    <3>6. PICK p \in 1..Len(W[j].sources) : W[j].sources[p] = items[m].sources[q]
      BY <3>4, <3>5, Zenon DEF SourcesOf
    <3>7. PICK y \in 1..Len(shown) : shown[y] = W[j].sources[p]
      BY <1>0, <1>6
    <3>8. shown[y] = x
      BY <3>3, <3>6, <3>7, Zenon
    <3> QED BY <1>7, <3>8, Zenon DEF ToSet
  <2> QED BY <2>1, <2>2
<1>11. \A i, j \in 1..k : i < j /\ W[j].kind # "status" => Head(W[i].sources) < Head(W[j].sources)
  <2> SUFFICES ASSUME NEW i \in 1..k, NEW j \in 1..k, i < j, W[j].kind # "status"
               PROVE  Head(W[i].sources) < Head(W[j].sources)
    OBVIOUS
  <2>1. Head(W[i].sources) = items[lo[i]].sources[1] /\ Head(W[j].sources) = items[lo[j]].sources[1]
    BY <1>3, <1>4
  <2>2. lo[i] < lo[j] /\ lo[i] \in 1..Len(items) /\ lo[j] \in 1..Len(items)
    BY <1>2
  <2>3. items[lo[i]].sources[1] < items[lo[j]].sources[1]
    BY <2>2, HeadsRise
  <2> QED BY <2>1, <2>3, Zenon
<1>d. PICK heads : heads = [j \in DOMAIN W |-> Head(W[j].sources)]
  OBVIOUS
<1>12. \A i, j \in DOMAIN W : i < j /\ W[j].kind # "status" => heads[i] < heads[j]
  BY <1>d, <1>0, <1>11
<1>e. PICK ids : ids = [j \in DOMAIN W |-> UnitId(W[j])]
  OBVIOUS
<1>13. IsInjective(ids)
  <2> SUFFICES ASSUME NEW i \in 1..k, NEW j \in 1..k, ids[i] = ids[j] PROVE i = j
    BY <1>0, <1>e DEF IsInjective
  <2>1. UnitId(W[i]) = UnitId(W[j])
    BY <1>0, <1>e
  <2>2. \A u : UnitId(u)[2] = Head(u.sources)
    BY DEF UnitId
  <2>3. Head(W[i].sources) = Head(W[j].sources)
    BY <2>1, <2>2
  <2>4. W[i].sources[1] = W[j].sources[1]
    BY <1>4, <2>3
  <2> QED BY <1>1, <1>4, <2>4
<1>14. /\ IsInjective(FlattenSeq([j \in DOMAIN W |-> W[j].sources]))
       /\ ToSet(FlattenSeq([j \in DOMAIN W |-> W[j].sources])) =
             UNION {ToSet(items[m].sources) : m \in {m \in DOMAIN items : ~Skipped(items, m)}}
  BY <1>5, <1>8, <1>10, <1>a, Zenon
<1>15. \A i, j \in DOMAIN W : i < j /\ W[j].kind # "status"
          => [x \in DOMAIN W |-> Head(W[x].sources)][i] < [x \in DOMAIN W |-> Head(W[x].sources)][j]
  BY <1>12, <1>d, Zenon
<1>16. IsInjective([j \in DOMAIN W |-> UnitId(W[j])])
  BY <1>13, <1>e, Zenon
<1> QED BY <1>14, <1>15, <1>16, Zenon DEF ShownOnceInOrder

\* What the user must see is not folded away.
LEMMA NothingFolded ==
    ASSUME log \in Seq(LogEntry), NEW items, ItemsInv(items), NEW W \in Seq(RenderUnit), W = Units,
           NEW lo, NEW hi, Whole(W, items, lo, hi)
    PROVE  NothingHidden
<1>f. PICK folded : folded = UNION {ToSet(W[k].sources) : k \in {j \in DOMAIN W : W[j].kind \in {"wip_block", "tool_group"}}}
  OBVIOUS
<1>0. DOMAIN W = 1..Len(W) /\ Len(items) \in Nat /\ DOMAIN items = 1..Len(items)
  BY ItemsTyped
<1>1. /\ \A j \in 1..Len(W) : SourcesOf(W[j].sources, items, lo[j], hi[j])
      /\ \A j \in 1..Len(W) : \A m \in lo[j]..hi[j] : m \in 1..Len(items)
  BY UnitsApart
<1>2. ASSUME NEW i \in folded
      PROVE  \E m \in 1..Len(items) : \E q \in 1..Len(items[m].sources) : i = items[m].sources[q] /\ Foldable(items, m)
  <2>1. PICK j \in {j \in DOMAIN W : W[j].kind \in {"wip_block", "tool_group"}} : i \in ToSet(W[j].sources)
    BY <1>f, Zenon
  <2>2. j \in 1..Len(W) /\ W[j].kind \in {"wip_block", "tool_group"}
    BY <1>0
  <2>3. SourcesOf(W[j].sources, items, lo[j], hi[j])
    BY <1>1, <2>2
  <2>4. DOMAIN W[j].sources = 1..Len(W[j].sources)
    BY <2>3 DEF SourcesOf
  <2>5. PICK p \in 1..Len(W[j].sources) : i = W[j].sources[p]
    BY <2>1, <2>4, Zenon DEF ToSet
  <2>6. PICK m \in lo[j]..hi[j] : \E q \in 1..Len(items[m].sources) : W[j].sources[p] = items[m].sources[q]
    BY <2>3, Zenon DEF SourcesOf
  <2>7. PICK q \in 1..Len(items[m].sources) : W[j].sources[p] = items[m].sources[q]
    BY <2>6
  <2>8. Foldable(items, m)
    BY <2>2 DEF Whole, Shows
  <2>9. m \in 1..Len(items) /\ i = items[m].sources[q]
    BY <1>1, <2>2, <2>5, <2>7, Zenon
  <2> QED BY <2>8, <2>9, Zenon
<1>3. \A m \in 1..Len(items) : \A q \in 1..Len(items[m].sources) : SourceTold(items[m], q)
  BY Zenon DEF ItemsInv
<1>4. ASSUME NEW i \in folded, log[i].kind = "tool_call" PROVE ~IsError(i) /\ log[i].tool = "work"
  <2>a. PICK m \in 1..Len(items) : \E q \in 1..Len(items[m].sources) : i = items[m].sources[q] /\ Foldable(items, m)
    BY <1>2, Zenon
  <2>1. PICK q \in 1..Len(items[m].sources) : i = items[m].sources[q] /\ Foldable(items, m)
    BY <2>a, Zenon
  <2>2. SourceTold(items[m], q)
    BY <1>3
  <2>b. /\ items[m].sources[q] \in InWindow
        /\ log[items[m].sources[q]].kind = "tool_call" =>
              /\ items[m].kind = "tool" /\ items[m].tool = log[items[m].sources[q]].tool
              /\ ~items[m].error => ~IsError(items[m].sources[q])
    BY <2>2, Zenon DEF SourceTold
  <2>3. items[m].kind = "tool" /\ items[m].tool = log[i].tool /\ i \in InWindow /\ (~items[m].error => ~IsError(i))
    BY <1>4, <2>1, <2>b, Zenon
  <2>4. IsWorkTool(items[m])
    BY <2>1, <2>3 DEF Foldable
  <2>5. ~items[m].error /\ items[m].tool \notin DEDICATED_TOOL_KINDS \cup {"unknown_tool"}
    BY <2>4, Zenon DEF IsWorkTool
  <2>6. log[i].tool \in ToolKinds
    BY <2>3, WindowFinite, <1>4 DEF LogEntry
  <2>7. log[i].tool \notin {"ask_user_question", "exit_plan_mode", "todo_write", "present_content", "unknown_tool"}
    BY <2>3, <2>5 DEF DEDICATED_TOOL_KINDS
  <2>8. ~IsError(i)
    BY <2>3, <2>5, Zenon
  <2>9. log[i].tool = "work"
    BY <2>6, <2>7, FoldConstants
  <2> QED BY <2>8, <2>9
<1>5. ASSUME ~loading, NEW i \in folded, log[i].kind = "assistant_text"
      PROVE  \E j \in InWindow : j > i /\ log[j].kind = "assistant_text"
  <2>a. PICK m \in 1..Len(items) : \E q \in 1..Len(items[m].sources) : i = items[m].sources[q] /\ Foldable(items, m)
    BY <1>2, Zenon
  <2>1. PICK q \in 1..Len(items[m].sources) : i = items[m].sources[q] /\ Foldable(items, m)
    BY <2>a, Zenon
  <2>2. SourceTold(items[m], q)
    BY <1>3
  <2>b. log[items[m].sources[q]].kind = "assistant_text" => items[m].kind = "assistant_text" /\ q = 1
    BY <2>2, Zenon DEF SourceTold
  <2>3. items[m].kind = "assistant_text" /\ i = items[m].sources[1]
    BY <1>5, <2>1, <2>b, Zenon
  <2>4. m # AnswerIndex(items)
    BY <2>3, <2>1 DEF IsWorkTool, Foldable
  <2>5. AnswerIndex(items) = Max({0} \cup Texts(items))
    BY <1>5, Zenon DEF AnswerIndex
  <2>c. PICK S, l : S = {0} \cup Texts(items) /\ l = Max(S)
    OBVIOUS
  <2>d. l # m
    BY <2>4, <2>5, <2>c
  <2>6. S \in SUBSET (0..Len(items)) /\ S # {} /\ m \in S
    BY <1>0, <2>3, <2>c DEF Texts
  <2>7. l \in S /\ \A y \in S : l >= y
    BY <1>0, <2>6, <2>c, GreatestOf
  <2>8. l \in Texts(items) /\ m < l
    <3>1. l \in 0..Len(items) /\ l >= m
      BY <2>6, <2>7
    <3>2. m < l /\ l # 0
      BY <1>0, <2>d, <3>1
    <3> QED BY <2>7, <2>c, <3>2
  <2>9. l \in 1..Len(items) /\ items[l].kind = "assistant_text"
    BY <1>0, <2>8 DEF Texts
  <2>10. items[l].sources[1] \in InWindow /\ log[items[l].sources[1]].kind = "assistant_text"
    BY <2>9, Zenon DEF ItemsInv
  <2>11. items[m].sources[1] < items[l].sources[1]
    BY <2>8, <2>9, HeadsRise
  <2>12. items[m].sources[1] \in Nat /\ items[l].sources[1] \in Nat
    <3>1. \A x \in 1..Len(items) : items[x].sources \in Seq(Nat) /\ Len(items[x].sources) > 0
      BY ItemsTyped, SourcesStart
    <3>2. \A s \in Seq(Nat) : Len(s) > 0 => s[1] \in Nat
      OBVIOUS
    <3> QED BY <2>9, <3>1, <3>2
  <2>13. items[l].sources[1] > i
    BY <2>3, <2>11, <2>12
  <2> QED BY <2>10, <2>13
<1>6. /\ \A i \in folded : log[i].kind = "tool_call" => ~IsError(i) /\ log[i].tool = "work"
      /\ ~loading => \A i \in {j \in folded : log[j].kind = "assistant_text"} :
                        \E j \in InWindow : j > i /\ log[j].kind = "assistant_text"
  BY <1>4, <1>5, Zenon
<1> QED BY <1>6, <1>f, Zenon DEF NothingHidden

\* The units a transcript is folded into.
LEMMA FoldIsFaithful == ASSUME log \in Seq(LogEntry) PROVE RenderedFaithfully
BY ItemsMade, UnitsLaid, LaidWhole, OnceInOrder, NothingFolded DEF Units, RenderedFaithfully

\* Whatever is written to a transcript, and from wherever the window into it starts,
\* foldTranscriptRenderUnits (transcript-render.ts) shows each entry that is kept once, in order
\* and under a key of its own, and folds away nothing the user has to see.
THEOREM TranscriptsAreShown == FoldSpec => []RenderedFaithfully
<1>1. FoldInit => FoldInv
  BY FoldStarts
<1>2. FoldInv => RenderedFaithfully
  BY FoldIsFaithful DEF FoldInv
<1> QED BY <1>1, <1>2, FoldStays, PTL DEF FoldSpec

-----------------------------------------------------------------------------
(* Templates: the tree that is parsed, and what the indentation shows *)

\* A template is written of the lines there are.
Written == template \in Seq(Lines) /\ Len(template) <= MaxTemplate /\ module \in Layouts

LEMMA LinesAreWritten == PuggySpec => []Written
<1>1. PuggyInit => Written
  BY PuggyConstants DEF Written, PuggyInit
<1>2. Written /\ [PuggyStep]_puggyVars => Written'
  BY PuggyConstants DEF Written, WriteLine, PuggyStep, puggyVars
<1> QED BY <1>1, <1>2, PTL DEF PuggySpec

LEMMA PuggyTyped == PuggySpec => []PuggyTypeOK
<1>1. Written => PuggyTypeOK
  BY DEF Written, PuggyTypeOK, ToSet
<1> QED BY <1>1, LinesAreWritten, PTL

LEMMA WrittenLines ==
    ASSUME Written
    PROVE  Len(template) \in Nat /\ DOMAIN template = 1..Len(template) /\ \A i \in 1..Len(template) : template[i].indent \in Nat
BY PuggyConstants DEF Written

\* Line r and all lines after it down to i are more indented than r.
Covers(r, i) == \A j \in (r + 1)..i : template[j].indent > template[r].indent

\* Raw text is what some raw line covers; the first such line is no raw text.
LEMMA RawCover ==
    ASSUME Written, NEW i \in 1..Len(template),
           NEW r \in 1..(i - 1), template[r].kind = "raw", Covers(r, i)
    PROVE  /\ InRaw(i)
           /\ \E q \in 1..r : template[q].kind = "raw" /\ Covers(q, i) /\ ~InRaw(q)
<1>0. Len(template) \in Nat /\ \A j \in 1..Len(template) : template[j].indent \in Nat
  BY WrittenLines
<1> DEFINE S == {q \in 1..(i - 1) : template[q].kind = "raw" /\ Covers(q, i)}
<1>1. S \in SUBSET Nat /\ S # {}
  BY <1>0
<1>2. PICK q \in S : \A y \in S : q <= y
  BY <1>1, LeastOf
<1>3. q \in 1..r /\ q \in 1..(i - 1) /\ template[q].kind = "raw" /\ Covers(q, i)
  BY <1>0, <1>2
<1>4. ASSUME NEW p \in 1..(q - 1), template[p].kind = "raw", Covers(p, q) PROVE FALSE
  <2>1. p \in 1..(i - 1)
    BY <1>0, <1>3
  <2>2. Covers(p, i)
    BY <1>0, <1>3, <1>4, <2>1 DEF Covers
  <2>3. q <= p
    BY <1>2, <1>4, <2>1, <2>2
  <2> QED BY <1>0, <1>3, <2>3
<1>5. ~InRaw(q)
  BY <1>4 DEF InRaw, Covers
<1>6. InRaw(i)
  BY <1>3, <1>4 DEF InRaw, Covers
<1> QED BY <1>3, <1>5, <1>6

\* Raw text is within a raw line, that is no raw text itself.
LEMMA RawWithin ==
    ASSUME Written, NEW i \in 1..Len(template), InRaw(i)
    PROVE  \E q \in 1..(i - 1) : template[q].kind = "raw" /\ Covers(q, i) /\ ~InRaw(q)
BY RawCover, WrittenLines DEF InRaw, Covers

\* The line above is the nearest that is less indented and no raw text.
LEMMA AboveIs ==
    ASSUME Written, NEW i \in 1..Len(template)
    PROVE  /\ Above(i) \in 0..(i - 1)
           /\ Above(i) # 0 => template[Above(i)].indent < template[i].indent /\ ~InRaw(Above(i))
           /\ \A j \in 1..(i - 1) : template[j].indent < template[i].indent /\ ~InRaw(j) => j <= Above(i)
<1>0. Len(template) \in Nat
  BY WrittenLines
<1> DEFINE S == {0} \cup {j \in 1..(i - 1) : template[j].indent < template[i].indent /\ ~InRaw(j)}
<1>1. i - 1 \in Nat /\ S \in SUBSET (0..(i - 1)) /\ S # {}
  BY <1>0
<1> PICK a : a = Max(S)
  OBVIOUS
<1>2. a \in S /\ \A y \in S : a >= y
  BY <1>1, GreatestOf
<1>3. Above(i) = a
  BY DEF Above
<1> QED BY <1>1, <1>2, <1>3

\* What a line is inside of covers it; it is raw text inside of a raw line, and otherwise no
\* line between is less indented.
LEMMA AboveCovers ==
    ASSUME Written, NEW i \in 1..Len(template)
    PROVE  /\ Above(i) # 0 => Covers(Above(i), i)
           /\ InRaw(i) <=> Above(i) # 0 /\ template[Above(i)].kind = "raw"
           /\ ~InRaw(i) => \A j \in (Above(i) + 1)..i : template[j].indent >= template[i].indent
<1>0. Len(template) \in Nat /\ \A j \in 1..Len(template) : template[j].indent \in Nat
  BY WrittenLines
<1> PICK a : a = Above(i)
  OBVIOUS
<1>1. /\ a \in 0..(i - 1)
      /\ a # 0 => template[a].indent < template[i].indent /\ ~InRaw(a)
      /\ \A j \in 1..(i - 1) : template[j].indent < template[i].indent /\ ~InRaw(j) => j <= a
  BY AboveIs
<1>2. ASSUME NEW r \in 1..(a - 1), template[r].kind = "raw", NEW j \in a..i, Covers(r, j) PROVE FALSE
  <2>1. a \in 1..Len(template) /\ r \in 1..(a - 1)
    BY <1>0, <1>1
  <2>2. Covers(r, a)
    BY <1>0, <1>1, <1>2 DEF Covers
  <2>3. InRaw(a)
    BY <1>2, <2>1, <2>2, RawCover
  <2> QED BY <1>0, <1>1, <2>1, <2>3
<1>3. ASSUME InRaw(i) PROVE a # 0 /\ template[a].kind = "raw" /\ Covers(a, i)
  <2>1. PICK r \in 1..(i - 1) : template[r].kind = "raw" /\ Covers(r, i) /\ ~InRaw(r)
    BY <1>3, RawWithin
  <2>2. template[r].indent < template[i].indent
    BY <1>0, <2>1 DEF Covers
  <2>3. r <= a
    BY <1>1, <2>1, <2>2
  <2>4. ~(r < a)
    BY <1>0, <1>1, <1>2, <2>1
  <2> QED BY <1>0, <1>1, <2>1, <2>3, <2>4
<1>4. ASSUME a # 0, template[a].kind = "raw", Covers(a, i) PROVE InRaw(i)
  BY <1>0, <1>1, <1>4, RawCover
<1>5. ASSUME ~InRaw(i) PROVE \A j \in (a + 1)..i : template[j].indent >= template[i].indent
  <2>1. ASSUME NEW j \in (a + 1)..(i - 1), template[j].indent < template[i].indent
        PROVE  a # 0 /\ template[a].kind = "raw" /\ template[j].indent > template[a].indent
    <3>1. j \in 1..(i - 1) /\ j \in 1..Len(template) /\ ~(j <= a)
      BY <1>0, <1>1
    <3>2. InRaw(j)
      BY <1>1, <2>1, <3>1
    <3>3. PICK r \in 1..(j - 1) : template[r].kind = "raw" /\ Covers(r, j) /\ ~InRaw(r)
      BY <3>1, <3>2, RawWithin
    <3>4. template[r].indent < template[j].indent /\ r \in 1..(i - 1) /\ r \in 1..Len(template)
      BY <1>0, <3>1, <3>3 DEF Covers
    <3>5. template[r].indent < template[i].indent
      BY <1>0, <2>1, <3>1, <3>4
    <3>6. r <= a
      BY <1>1, <3>3, <3>4, <3>5
    <3>7. ~(r < a)
      BY <1>0, <1>1, <1>2, <3>1, <3>3
    <3> QED BY <1>0, <1>1, <3>3, <3>4, <3>6, <3>7
  <2>2. ASSUME NEW k \in (a + 1)..(i - 1), template[k].indent < template[i].indent PROVE FALSE
    <3>1. a # 0 /\ template[a].kind = "raw" /\ a \in 1..Len(template)
      BY <1>0, <1>1, <2>1, <2>2
    <3>2. Covers(a, i)
      <4> SUFFICES ASSUME NEW j \in (a + 1)..i PROVE template[j].indent > template[a].indent
        BY DEF Covers
      <4>1. j \in 1..Len(template)
        BY <1>0, <3>1
      <4>2. CASE template[j].indent < template[i].indent
        <5>1. j \in (a + 1)..(i - 1)
          BY <1>0, <3>1, <4>2
        <5> QED BY <2>1, <4>2, <5>1
      <4> QED BY <1>0, <1>1, <3>1, <4>1, <4>2
    <3> QED BY <1>4, <1>5, <3>1, <3>2
  <2>3. \A j \in (a + 1)..i : j \in 1..Len(template) /\ (j = i \/ j \in (a + 1)..(i - 1))
    BY <1>0, <1>1
  <2> QED BY <1>0, <2>2, <2>3
<1>6. ASSUME ~InRaw(i), a # 0 PROVE Covers(a, i)
  BY <1>0, <1>1, <1>5, <1>6 DEF Covers
<1> QED BY <1>3, <1>4, <1>5, <1>6

\* The lines after the one above a line are inside of it, or of it in turn.
LEMMA AboveOrders ==
    ASSUME Written, NEW i \in 1..Len(template), NEW x \in (Above(i) + 1)..i
    PROVE  Above(x) >= Above(i) /\ (InRaw(i) => InRaw(x))
<1>0. Len(template) \in Nat
  BY WrittenLines
<1> PICK a : a = Above(i)
  OBVIOUS
<1>1. a \in 0..(i - 1) /\ (a # 0 => ~InRaw(a) /\ Covers(a, i))
  BY AboveIs, AboveCovers
<1>2. x \in 1..Len(template) /\ x \in (a + 1)..i
  BY <1>0, <1>1
<1>3. Above(x) \in Nat
  BY <1>0, <1>2, AboveIs
<1>4. ASSUME a # 0 PROVE a <= Above(x)
  BY <1>1, <1>2, <1>4, <1>0, AboveIs DEF Covers
<1>5. ASSUME InRaw(i) PROVE InRaw(x)
  BY <1>5, AboveCovers, <1>0, <1>1, <1>2, RawCover DEF Covers
<1> QED BY <1>1, <1>3, <1>4, <1>5

\* The list of nodes line i belongs to, by the lists of the lines before it.
ListAt(list, i) ==
    IF Above(i) # 0 /\ template[Above(i)].kind = "else"
    THEN <<Max({0} \cup NodesBefore(list, Above(i))), "alternate">>
    ELSE <<Above(i), "children">>
Lists(list, n) == list = [i \in 1..n |-> ListAt(list, i)]

LEMMA ListsAreChosen == Written => ListOf = CHOOSE list : Lists(list, Len(template))
BY WrittenLines DEF ListOf, ListAt, Lists

LEMMA ListLooksBehind ==
    ASSUME Written, NEW i \in 1..Len(template), NEW f, NEW g, \A j \in 1..(i - 1) : f[j] = g[j]
    PROVE  ListAt(f, i) = ListAt(g, i)
<1>0. Len(template) \in Nat
  BY WrittenLines
<1>1. Above(i) \in 0..(i - 1)
  BY AboveIs
<1>2. ASSUME Above(i) # 0 PROVE NodesBefore(f, Above(i)) = NodesBefore(g, Above(i))
  BY <1>0, <1>1, <1>2 DEF NodesBefore
<1> QED BY <1>2, Zenon DEF ListAt

\* The equation that defines the lists has a solution.
LEMMA ListsExist == Written => \E f : Lists(f, Len(template))
<1> SUFFICES ASSUME Written PROVE \E f : Lists(f, Len(template))
  OBVIOUS
<1>0. Len(template) \in Nat
  BY WrittenLines
<1> DEFINE S == {n \in Nat : n <= Len(template) => \E f : Lists(f, n)}
<1>1. 0 \in S
  <2> DEFINE f == [i \in 1..0 |-> ListAt(<<>>, i)]
  <2>0. \A i \in 1..0 : FALSE
    OBVIOUS
  <2>1. f = [i \in 1..0 |-> ListAt(f, i)]
    BY <2>0, Zenon
  <2> QED BY <2>1 DEF Lists
<1>2. ASSUME NEW n \in Nat, n \in S PROVE n + 1 \in S
  <2> SUFFICES ASSUME n + 1 <= Len(template) PROVE \E f : Lists(f, n + 1)
    OBVIOUS
  <2>1. PICK f : Lists(f, n)
    BY <1>0, <1>2
  <2>2. \A i \in 1..n : f[i] = ListAt(f, i)
    BY <2>1 DEF Lists
  <2> DEFINE g == [i \in 1..(n + 1) |-> IF i = n + 1 THEN ListAt(f, n + 1) ELSE f[i]]
  <2>3. g[n + 1] = ListAt(f, n + 1) /\ \A i \in 1..n : g[i] = f[i]
    OBVIOUS
  <2>4. g = [i \in 1..(n + 1) |-> g[i]]
    OBVIOUS
  <2> HIDE DEF g
  <2>5. ASSUME NEW i \in 1..(n + 1) PROVE g[i] = ListAt(g, i)
    BY <1>0, <2>3, ListLooksBehind, <2>2
  <2>6. g = [i \in 1..(n + 1) |-> ListAt(g, i)]
    BY <2>4, <2>5, Zenon
  <2> QED BY <2>6 DEF Lists
<1>3. Len(template) \in S
  <2> HIDE DEF S
  <2> QED BY <1>0, <1>1, <1>2, NumberByNumber
<1> QED BY <1>0, <1>3

\* A line belongs to the nodes inside the line above it or, if that is an else, to the
\* alternatives of the if before that.
LEMMA ListIs ==
    ASSUME Written, NEW i \in 1..Len(template)
    PROVE  ListOf[i] = IF Above(i) # 0 /\ template[Above(i)].kind = "else"
                       THEN <<Prior(Above(i)), "alternate">> ELSE <<Above(i), "children">>
BY ListsAreChosen, ListsExist DEF Lists, ListAt, Prior

\* What comes before a line in its list is the last of the nodes there.
LEMMA PriorIs ==
    ASSUME Written, NEW i \in 1..Len(template)
    PROVE  /\ Prior(i) \in 0..(i - 1)
           /\ NodesBefore(ListOf, i) = {} => Prior(i) = 0
           /\ NodesBefore(ListOf, i) # {} => Prior(i) # 0 /\ Max(NodesBefore(ListOf, i)) = Prior(i)
<1>0. Len(template) \in Nat
  BY WrittenLines
<1>1. PICK B : B = NodesBefore(ListOf, i)
  OBVIOUS
<1>2. B \in SUBSET (1..(i - 1)) /\ B \in SUBSET (0..(i - 1)) /\ {0} \cup B \in SUBSET (0..(i - 1)) /\ i - 1 \in Nat
  BY <1>0, <1>1 DEF NodesBefore
<1>3. PICK p : p = Prior(i) /\ p = Max({0} \cup B)
  BY <1>1 DEF Prior
<1>4. p \in {0} \cup B /\ \A y \in {0} \cup B : p >= y
  BY <1>2, <1>3, GreatestOf
<1>5. ASSUME B # {} PROVE p # 0 /\ Max(B) = p
  <2>1. Max(B) \in B /\ \A y \in B : Max(B) >= y
    BY <1>2, <1>5, GreatestOf
  <2>2. PICK m : m = Max(B)
    OBVIOUS
  <2>3. m \in B /\ (\A y \in B : m >= y) /\ p >= m /\ m \in 1..(i - 1)
    BY <1>2, <1>4, <2>1, <2>2
  <2>4. p \in B
    BY <1>2, <1>4, <2>3
  <2>5. p \in 1..(i - 1) /\ m >= p
    BY <1>2, <2>3, <2>4
  <2> QED BY <1>0, <2>2, <2>3, <2>5
<1> QED BY <1>1, <1>2, <1>3, <1>4, <1>5

\* What is parsed, line by line.
Parses(f, n) == f = [i \in 0..n |-> IF i = 0 THEN ParseInit ELSE ParseStep(template, f[i - 1], i)]

LEMMA ParsesExist == \A n \in Nat : \E f : Parses(f, n)
<1> DEFINE S == {n \in Nat : \E f : Parses(f, n)}
<1>1. 0 \in S
  <2> DEFINE f == [i \in 0..0 |-> ParseInit]
  <2>1. f = [i \in 0..0 |-> IF i = 0 THEN ParseInit ELSE ParseStep(template, f[i - 1], i)]
    OBVIOUS
  <2> QED BY <2>1 DEF Parses
<1>2. ASSUME NEW n \in Nat, n \in S PROVE n + 1 \in S
  <2>1. PICK f : Parses(f, n)
    BY <1>2
  <2>2. \A i \in 0..n : f[i] = IF i = 0 THEN ParseInit ELSE ParseStep(template, f[i - 1], i)
    BY <2>1 DEF Parses
  <2> DEFINE g == [i \in 0..(n + 1) |-> IF i = n + 1 THEN ParseStep(template, f[n], n + 1) ELSE f[i]]
  <2>3. g[n + 1] = ParseStep(template, f[n], n + 1) /\ \A i \in 0..n : g[i] = f[i]
    OBVIOUS
  <2>4. g = [i \in 0..(n + 1) |-> g[i]]
    OBVIOUS
  <2> HIDE DEF g
  <2>5. ASSUME NEW i \in 0..(n + 1) PROVE g[i] = IF i = 0 THEN ParseInit ELSE ParseStep(template, g[i - 1], i)
    BY <2>3, <2>2
  <2>6. g = [i \in 0..(n + 1) |-> IF i = 0 THEN ParseInit ELSE ParseStep(template, g[i - 1], i)]
    BY <2>4, <2>5, Zenon
  <2>7. Parses(g, n + 1)
    BY <2>6 DEF Parses
  <2> QED BY <2>7
<1>3. \A n \in Nat : n \in S
  <2> HIDE DEF S
  <2> QED BY <1>1, <1>2, NumberByNumber
<1> QED BY <1>3

LEMMA ParsedByLine ==
    ASSUME Written
    PROVE  \E f : /\ parsePuggy(template) = f[Len(template)] /\ f[0] = ParseInit
                  /\ \A i \in 1..Len(template) : f[i] = ParseStep(template, f[i - 1], i)
<1>0. Len(template) \in Nat
  BY WrittenLines
<1>1. PICK f : f = CHOOSE g : Parses(g, Len(template))
  OBVIOUS
<1>2. Parses(f, Len(template))
  BY <1>0, <1>1, ParsesExist, Zenon
<1>3. parsePuggy(template) = f[Len(template)]
  BY <1>1, Zenon DEF parsePuggy, Parses
<1>4. \A i \in 0..Len(template) : f[i] = IF i = 0 THEN ParseInit ELSE ParseStep(template, f[i - 1], i)
  BY <1>2 DEF Parses
<1>5. 0 \in 0..Len(template) /\ \A i \in 1..Len(template) : i \in 0..Len(template) /\ i # 0
  BY <1>0
<1> QED BY <1>3, <1>4, <1>5

\* Lines that can have others inside, and their frames.
Openers == Containers \cup {"else"}
Frames == [indent: Int, node: Nat, branch: {"children", "alternate"}]
FrameOf(l) ==
    IF l = 0 THEN RootFrame
    ELSE IF template[l].kind = "else" THEN [indent |-> template[l].indent, node |-> Prior(l), branch |-> "alternate"]
    ELSE [indent |-> template[l].indent, node |-> l, branch |-> "children"]

\* The line whose frame is on top after line i.
TopLine(i) == IF i = 0 THEN 0 ELSE IF ~InRaw(i) /\ template[i].kind \in Openers THEN i ELSE Above(i)

\* After line i the stack s is of the frames of the lines ls: each is inside the one below.
Stacked(s, ls, i) ==
    /\ s \in Seq(Frames) /\ ls \in Seq(0..i) /\ Len(s) = Len(ls)
    /\ Len(ls) > 0 /\ ls[1] = 0 /\ ls[Len(ls)] = TopLine(i)
    /\ \A k \in 1..Len(ls) : s[k] = FrameOf(ls[k])
    /\ \A k \in 2..Len(ls) : /\ ls[k] \in 1..i /\ ls[k - 1] = Above(ls[k])
                             /\ ~InRaw(ls[k]) /\ template[ls[k]].kind \in Openers

LEMMA FrameIs ==
    ASSUME Written, NEW l \in 0..Len(template)
    PROVE  /\ FrameOf(l) \in Frames
           /\ FrameOf(l).indent = IF l = 0 THEN -2 ELSE template[l].indent
           /\ \A i \in 1..Len(template) : Above(i) = l => <<FrameOf(l).node, FrameOf(l).branch>> = ListOf[i]
<1>0. Len(template) \in Nat /\ \A j \in 1..Len(template) : template[j].indent \in Nat
  BY WrittenLines
<1>1. CASE l = 0
  <2>1. \A i \in 1..Len(template) : Above(i) = 0 => ListOf[i] = <<0, "children">>
    BY ListIs
  <2> QED BY <1>1, <2>1 DEF FrameOf, Frames, RootFrame
<1>2. CASE l # 0
  <2>1. l \in 1..Len(template)
    BY <1>0, <1>2
  <2>2. Prior(l) \in Nat
    BY <1>0, <2>1, PriorIs
  <2>3. \A i \in 1..Len(template) : Above(i) = l =>
          ListOf[i] = IF template[l].kind = "else" THEN <<Prior(l), "alternate">> ELSE <<l, "children">>
    BY <1>2, ListIs
  <2> QED BY <1>0, <1>2, <2>1, <2>2, <2>3 DEF FrameOf, Frames
<1> QED BY <1>1, <1>2

\* What is popped, by where the less indented frames end.
LEMMA OpenTo ==
    ASSUME NEW s \in Seq(Frames), NEW indent \in Int, NEW m \in 1..Len(s), s[m].indent < indent,
           \A k \in (m + 1)..Len(s) : ~(s[k].indent < indent)
    PROVE  OpenFrames(s, indent) = SubSeq(s, 1, m)
<1> DEFINE S == {1} \cup {k \in DOMAIN s : s[k].indent < indent}
<1>1. Len(s) \in Nat /\ DOMAIN s = 1..Len(s) /\ S \in SUBSET (0..Len(s)) /\ S # {} /\ m \in S
  OBVIOUS
<1>2. PICK n : n = Max(S)
  OBVIOUS
<1>3. n \in S /\ n >= m
  BY <1>1, <1>2, GreatestOf
<1>4. n = m
  BY <1>1, <1>3
<1> QED BY <1>2, <1>4 DEF OpenFrames

\* A line is put inside the line above it, if others can be inside of that.
LEMMA Popped ==
    ASSUME Written, NEW i \in 1..Len(template), NEW s, NEW ls, Stacked(s, ls, i - 1),
           Above(i) = i - 1 => i = 1 \/ template[i - 1].kind \in Openers
    PROVE  \E m \in 1..Len(ls) : OpenFrames(s, template[i].indent) = SubSeq(s, 1, m) /\ ls[m] = Above(i)
<1>0. Len(template) \in Nat /\ \A j \in 1..Len(template) : template[j].indent \in Nat
  BY WrittenLines
<1>1. PICK a : a = Above(i)
  OBVIOUS
<1>2. a \in 0..(i - 1) /\ (a # 0 => template[a].indent < template[i].indent /\ ~InRaw(a))
  BY <1>1, AboveIs
<1>3. /\ ls \in Seq(0..(i - 1)) /\ Len(ls) \in Nat \ {0} /\ ls[1] = 0 /\ ls[Len(ls)] = TopLine(i - 1)
      /\ s \in Seq(Frames) /\ Len(s) = Len(ls)
  BY DEF Stacked
<1>4. TopLine(i - 1) >= a
  BY <1>0, <1>1, <1>2, AboveOrders DEF TopLine
<1> DEFINE S == {k \in 1..Len(ls) : ls[k] <= a}
<1>5. S \in SUBSET (0..Len(ls)) /\ 1 \in S
  BY <1>2, <1>3
<1>6. PICK m \in S : \A k \in S : m >= k
  BY <1>3, <1>5, GreatestOf
<1>7. m \in 1..Len(ls) /\ ls[m] <= a /\ \A k \in 1..Len(ls) : k > m => ls[k] > a
  BY <1>2, <1>3, <1>6
<1> HIDE DEF S
<1>8. ASSUME NEW k \in 1..Len(ls), k > m
      PROVE  /\ ls[k] \in (a + 1)..i /\ ls[k] \in 1..Len(template) /\ ls[k - 1] = Above(ls[k]) /\ ~InRaw(ls[k])
             /\ s[k] = FrameOf(ls[k])
  <2>1. k \in 2..Len(ls)
    BY <1>3, <1>7, <1>8
  <2>2. ls[k] \in 1..(i - 1) /\ ls[k - 1] = Above(ls[k]) /\ ~InRaw(ls[k]) /\ s[k] = FrameOf(ls[k])
    BY <2>1 DEF Stacked
  <2> QED BY <1>0, <1>2, <1>7, <1>8, <2>2
<1>9. ls[m] = a
  <2>1. ls[m] \in 0..(i - 1)
    BY <1>3, <1>7
  <2>2. CASE m = Len(ls)
    BY <1>2, <1>3, <1>4, <1>7, <2>1, <2>2
  <2>3. CASE m # Len(ls)
    <3>0. m + 1 \in 1..Len(ls) /\ m + 1 > m /\ (m + 1) - 1 = m
      BY <1>3, <1>7, <2>3
    <3>1. PICK k : k \in 1..Len(ls) /\ k > m /\ k - 1 = m
      BY <3>0
    <3>2. ls[k] \in (a + 1)..i /\ ls[m] = Above(ls[k])
      BY <1>8, <3>1
    <3>3. Above(ls[k]) >= a
      BY <1>1, <3>2, AboveOrders
    <3> QED BY <1>2, <1>7, <2>1, <3>2, <3>3
  <2> QED BY <2>2, <2>3
<1>10. s[m].indent < template[i].indent
  <2>1. s[m] = FrameOf(a) /\ a \in 0..Len(template)
    BY <1>0, <1>2, <1>7, <1>9 DEF Stacked
  <2>2. s[m].indent = IF a = 0 THEN -2 ELSE template[a].indent
    BY <2>1, FrameIs
  <2> QED BY <1>0, <1>2, <2>2
<1>11. ASSUME NEW k \in (m + 1)..Len(s) PROVE ~(s[k].indent < template[i].indent)
  <2>1. k \in 1..Len(ls) /\ k > m
    BY <1>3, <1>7
  <2>2. /\ ls[k] \in (a + 1)..i /\ ls[k] \in 1..Len(template) /\ ~InRaw(ls[k])
        /\ s[k] = FrameOf(ls[k])
    BY <1>8, <2>1
  <2>3. s[k].indent = template[ls[k]].indent
    BY <1>0, <2>2, FrameIs
  <2>4. ~InRaw(i)
    BY <1>1, <2>2, AboveOrders
  <2>5. template[ls[k]].indent >= template[i].indent
    BY <1>1, <2>2, <2>4, AboveCovers
  <2> QED BY <1>0, <2>2, <2>3, <2>5
<1>12. OpenFrames(s, template[i].indent) = SubSeq(s, 1, m)
  <2>1. template[i].indent \in Int /\ m \in 1..Len(s) /\ s \in Seq(Frames)
    BY <1>0, <1>3, <1>7
  <2> QED BY <1>10, <1>11, <2>1, OpenTo
<1> QED BY <1>1, <1>7, <1>9, <1>12

\* Under a line that can have none inside, nothing is popped for a deeper one.
LEMMA NonePopped ==
    ASSUME Written, NEW i \in 1..Len(template), NEW s, NEW ls, Stacked(s, ls, i - 1),
           Above(i) = i - 1, i # 1, template[i - 1].kind \notin Openers
    PROVE  OpenFrames(s, template[i].indent) = SubSeq(s, 1, Len(ls)) /\ ls[Len(ls)] = Above(i - 1)
<1>0. Len(template) \in Nat /\ \A j \in 1..Len(template) : template[j].indent \in Nat
  BY WrittenLines
<1>1. i - 1 \in 1..Len(template) /\ i - 1 # 0
  BY <1>0
<1>2. template[i - 1].indent < template[i].indent
  BY <1>1, AboveIs
<1>3. PICK b : b = Above(i - 1)
  OBVIOUS
<1>4. b \in 0..(i - 2) /\ (b # 0 => template[b].indent < template[i - 1].indent)
  BY <1>1, <1>3, AboveIs
<1>5. s \in Seq(Frames) /\ Len(s) = Len(ls) /\ Len(ls) \in Nat \ {0} /\ ls[Len(ls)] = b /\ s[Len(s)] = FrameOf(b)
  BY <1>1, <1>3 DEF Stacked, TopLine
<1>6. s[Len(s)].indent = IF b = 0 THEN -2 ELSE template[b].indent
  BY <1>0, <1>4, <1>5, FrameIs
<1>7. s[Len(s)].indent < template[i].indent
  BY <1>0, <1>1, <1>2, <1>4, <1>6
<1>8. Len(s) \in 1..Len(s) /\ \A k \in (Len(s) + 1)..Len(s) : FALSE
  BY <1>5
<1>9. OpenFrames(s, template[i].indent) = SubSeq(s, 1, Len(s))
  BY <1>0, <1>5, <1>7, <1>8, OpenTo
<1> QED BY <1>3, <1>5, <1>9

\* What is left of a stack, with a line on top of it.
LEMMA StackedTo ==
    ASSUME Written, NEW i \in 1..Len(template), NEW s, NEW ls, Stacked(s, ls, i - 1), NEW m \in 1..Len(ls), ls[m] = Above(i)
    PROVE  /\ Last(SubSeq(s, 1, m)) = FrameOf(Above(i))
           /\ TopLine(i) = Above(i) => \E new : Stacked(SubSeq(s, 1, m), new, i)
           /\ TopLine(i) = i => \E new : Stacked(Append(SubSeq(s, 1, m), FrameOf(i)), new, i)
<1>0. Len(template) \in Nat
  BY WrittenLines
<1>1. PICK t, us : t = SubSeq(s, 1, m) /\ us = SubSeq(ls, 1, m)
  OBVIOUS
<1>2. /\ s \in Seq(Frames) /\ ls \in Seq(0..(i - 1)) /\ Len(s) = Len(ls) /\ Len(ls) \in Nat \ {0} /\ ls[1] = 0
      /\ \A k \in 1..Len(ls) : s[k] = FrameOf(ls[k])
      /\ \A k \in 2..Len(ls) : /\ ls[k] \in 1..(i - 1) /\ ls[k - 1] = Above(ls[k])
                               /\ ~InRaw(ls[k]) /\ template[ls[k]].kind \in Openers
  BY DEF Stacked
<1>3. /\ t \in Seq(Frames) /\ us \in Seq(0..(i - 1)) /\ Len(t) = m /\ Len(us) = m /\ us[1] = 0
      /\ us[m] = Above(i) /\ \A k \in 1..m : us[k] = ls[k] /\ t[k] = s[k]
  <2>1. t \in Seq(Frames) /\ Len(t) = m /\ \A k \in 1..m : t[k] = s[k]
    BY <1>1, <1>2
  <2>2. us \in Seq(0..(i - 1)) /\ Len(us) = m /\ \A k \in 1..m : us[k] = ls[k]
    BY <1>1, <1>2
  <2> QED BY <1>2, <2>1, <2>2
<1>4. /\ \A k \in 1..m : t[k] = FrameOf(us[k])
      /\ \A k \in 2..m : /\ us[k] \in 1..(i - 1) /\ us[k - 1] = Above(us[k])
                         /\ ~InRaw(us[k]) /\ template[us[k]].kind \in Openers
  <2>1. \A k \in 2..m : k \in 1..m /\ k - 1 \in 1..m /\ k \in 2..Len(ls)
    BY <1>2
  <2>2. \A k \in 1..m : k \in 1..Len(ls)
    BY <1>2
  <2> QED BY <1>2, <1>3, <2>1, <2>2
<1>5. Last(t) = FrameOf(Above(i))
  BY <1>3, <1>4 DEF Last
<1>6. us \in Seq(0..i) /\ \A x \in 1..(i - 1) : x \in 1..i
  BY <1>0, <1>3
<1>7. ASSUME TopLine(i) = Above(i) PROVE Stacked(t, us, i)
  BY <1>2, <1>3, <1>4, <1>6, <1>7 DEF Stacked
<1>8. ASSUME TopLine(i) = i PROVE \E new : Stacked(Append(t, FrameOf(i)), new, i)
  <2>1. PICK u, vs : u = Append(t, FrameOf(i)) /\ vs = Append(us, i)
    OBVIOUS
  <2>2. FrameOf(i) \in Frames
    BY <1>0, FrameIs
  <2>3. /\ u \in Seq(Frames) /\ vs \in Seq(0..i) /\ Len(u) = m + 1 /\ Len(vs) = m + 1 /\ m + 1 > 0
        /\ vs[m + 1] = i /\ u[m + 1] = FrameOf(i) /\ \A k \in 1..m : vs[k] = us[k] /\ u[k] = t[k]
    BY <1>0, <1>2, <1>3, <1>6, <2>1, <2>2
  <2>4. ~InRaw(i) /\ template[i].kind \in Openers
    <3>1. Above(i) # i
      BY <1>0, AboveIs
    <3> QED BY <1>0, <1>8, <3>1 DEF TopLine
  <2>5. \A k \in 1..(m + 1) : u[k] = FrameOf(vs[k])
    <3>1. \A k \in 1..(m + 1) : k \in 1..m \/ k = m + 1
      BY <1>2
    <3> QED BY <1>4, <2>3, <3>1
  <2>6. ASSUME NEW k \in 2..(m + 1)
        PROVE  vs[k] \in 1..i /\ vs[k - 1] = Above(vs[k]) /\ ~InRaw(vs[k]) /\ template[vs[k]].kind \in Openers
    <3>1. CASE k = m + 1
      <4>1. k - 1 = m /\ m \in 1..m /\ i \in 1..i
        BY <1>0, <1>2, <3>1
      <4> QED BY <1>3, <2>3, <2>4, <3>1, <4>1
    <3>2. CASE k # m + 1
      <4>1. k \in 2..m /\ k \in 1..m /\ k - 1 \in 1..m
        BY <1>2, <3>2
      <4> QED BY <1>4, <1>6, <2>3, <4>1
    <3> QED BY <3>1, <3>2
  <2>7. vs[1] = 0
    BY <1>2, <1>3, <2>3
  <2>8. Stacked(u, vs, i)
    BY <1>8, <2>3, <2>5, <2>6, <2>7 DEF Stacked
  <2> QED BY <2>1, <2>8
<1> QED BY <1>1, <1>5, <1>7, <1>8

\* What a turn of the loop looks at, and what it makes of a line that is kept.
AtRaw(parent) == parent.node # 0 /\ template[parent.node].kind = "raw"
BadIndent(p, i) ==
    \/ template[i].indent % 2 # 0 \/ template[i].indent > p.indent + 2
    \/ template[i].indent > p.indent /\ ~p.open
Siblings(p, parent) == {j \in DOMAIN p.parents : p.parents[j] = <<parent.node, parent.branch>>}
Framed(i, node, branch) == [indent |-> template[i].indent, node |-> node, branch |-> branch]
Keeps(p, i, where, frames, open) ==
    [p EXCEPT !.stack = frames, !.indent = template[i].indent, !.open = open, !.parents = Append(@, where)]

LEMMA RawTurn ==
    ASSUME NEW p, p.ok, NEW i, NEW s, s = OpenFrames(p.stack, template[i].indent), NEW f, f = Last(s),
           AtRaw(f)
    PROVE  ParseStep(template, p, i) = Keeps(p, i, <<f.node, "text">>, s, TRUE)
BY DEF ParseStep, AtRaw, BadIndent, Siblings, Framed, Keeps

LEMMA BadTurn ==
    ASSUME NEW p, p.ok, NEW i, NEW s, s = OpenFrames(p.stack, template[i].indent), NEW f, f = Last(s),
           ~AtRaw(f),
           \/ BadIndent(p, i) \/ template[i].kind = "unknown"
           \/ template[i].kind = "else" /\ (Siblings(p, f) = {} \/ template[Max(Siblings(p, f))].kind # "if")
    PROVE  ParseStep(template, p, i) = [p EXCEPT !.ok = FALSE]
BY DEF ParseStep, AtRaw, BadIndent, Siblings, Framed, Keeps

LEMMA ElseTurn ==
    ASSUME NEW p, p.ok, NEW i, NEW s, s = OpenFrames(p.stack, template[i].indent), NEW f, f = Last(s),
           ~AtRaw(f), ~BadIndent(p, i), template[i].kind = "else",
           Siblings(p, f) # {}, template[Max(Siblings(p, f))].kind = "if"
    PROVE  ParseStep(template, p, i) = Keeps(p, i, <<Max(Siblings(p, f)), "else">>,
                                             Append(s, Framed(i, Max(Siblings(p, f)), "alternate")), TRUE)
BY DEF ParseStep, AtRaw, BadIndent, Siblings, Framed, Keeps

LEMMA OpenTurn ==
    ASSUME NEW p, p.ok, NEW i, NEW s, s = OpenFrames(p.stack, template[i].indent), NEW f, f = Last(s),
           ~AtRaw(f), ~BadIndent(p, i), template[i].kind \in Containers
    PROVE  ParseStep(template, p, i) =
             Keeps(p, i, <<f.node, f.branch>>, Append(s, Framed(i, i, "children")), TRUE)
BY DEF ParseStep, AtRaw, BadIndent, Siblings, Framed, Keeps, Containers

LEMMA LeafTurn ==
    ASSUME NEW p, p.ok, NEW i, NEW s, s = OpenFrames(p.stack, template[i].indent), NEW f, f = Last(s),
           ~AtRaw(f), ~BadIndent(p, i), template[i].kind \notin {"unknown", "else"}, template[i].kind \notin Containers
    PROVE  ParseStep(template, p, i) = Keeps(p, i, <<f.node, f.branch>>, s, FALSE)
<1>1. (template[i].kind \in Containers) = FALSE
  OBVIOUS
<1>2. ParseStep(template, p, i) = Keeps(p, i, <<f.node, f.branch>>, s, template[i].kind \in Containers)
  BY DEF ParseStep, AtRaw, BadIndent, Keeps
<1> QED BY <1>1, <1>2, Zenon

\* The indentation of a line, as a reader sees it.
Indented(i) ==
    IF Above(i) = 0 THEN template[i].indent \in {0, 2}
    ELSE template[i].indent = template[Above(i)].indent + 2 /\ template[Above(i)].kind \in Openers

LEMMA WellWrittenIs ==
    ASSUME NEW i
    PROVE  WellWritten(i) <=> \/ InRaw(i)
                              \/ /\ template[i].kind # "unknown" /\ Indented(i)
                                 /\ template[i].kind = "else" => Prior(i) # 0 /\ template[Prior(i)].kind = "if"
BY Zenon DEF WellWritten, Indented, Openers

\* The lines before i are well written, and what is remembered of the last.
Before(p, i) ==
    /\ \A j \in 1..i : WellWritten(j) /\ (~InRaw(j) => template[j].indent % 2 = 0)
    /\ p.indent = IF i = 0 THEN 0 ELSE template[i].indent
    /\ p.open <=> i = 0 \/ InRaw(i) \/ template[i].kind \in Openers

LEMMA NextEven ==
    ASSUME NEW x \in Nat, NEW y \in Nat, x % 2 = 0, y % 2 = 0, x < y, y <= x + 2
    PROVE  y = x + 2
OBVIOUS

\* The loop sees the indentation as a reader does.
LEMMA SeesIndent ==
    ASSUME Written, NEW i \in 1..Len(template), ~InRaw(i), NEW p, Before(p, i - 1)
    PROVE  (~BadIndent(p, i) <=> Indented(i)) /\ (Indented(i) => template[i].indent % 2 = 0)
<1>0. Len(template) \in Nat /\ \A j \in 1..Len(template) : template[j].indent \in Nat
  BY WrittenLines
<1>1. PICK a : a = Above(i)
  OBVIOUS
<1>2. a \in 0..(i - 1) /\ (a # 0 => template[a].indent < template[i].indent /\ ~InRaw(a))
  BY <1>1, AboveIs
<1>3. \A j \in (a + 1)..i : template[j].indent >= template[i].indent
  BY <1>1, AboveCovers
<1>4. \A j \in 1..(i - 1) : WellWritten(j) /\ (~InRaw(j) => template[j].indent % 2 = 0)
  BY DEF Before
<1>5. a # 0 => a \in 1..Len(template) /\ a \in 1..(i - 1) /\ template[a].indent % 2 = 0 /\ template[a].indent \in Nat
  BY <1>0, <1>2, <1>4
<1>6. i # 1 => i - 1 \in 1..Len(template) /\ p.indent = template[i - 1].indent
  BY <1>0 DEF Before
<1>7. ASSUME Indented(i) PROVE template[i].indent % 2 = 0
  BY <1>1, <1>7, <1>5 DEF Indented
<1>8. ASSUME Indented(i) PROVE ~BadIndent(p, i)
  <2>1. CASE i = 1
    <3>1. template[i].indent \in {0, 2} /\ p.indent = 0 /\ p.open
      BY <1>1, <1>2, <1>8, <2>1 DEF Indented, Before
    <3> QED BY <1>7, <1>8, <3>1 DEF BadIndent
  <2>2. CASE i # 1 /\ a = i - 1
    <3>1. template[i].indent = template[i - 1].indent + 2 /\ template[i - 1].kind \in Openers
      BY <1>0, <1>1, <1>8, <2>2 DEF Indented
    <3>2. p.open
      BY <3>1 DEF Before
    <3> QED BY <1>0, <1>6, <1>7, <1>8, <2>2, <3>1, <3>2 DEF BadIndent
  <2>3. CASE i # 1 /\ a # i - 1
    <3>1. i - 1 \in (a + 1)..i
      BY <1>0, <1>2, <2>3
    <3>2. ~(template[i].indent > p.indent) /\ ~(template[i].indent > p.indent + 2)
      BY <1>0, <1>3, <1>6, <2>3, <3>1
    <3> QED BY <1>7, <1>8, <3>2 DEF BadIndent
  <2> QED BY <2>1, <2>2, <2>3
<1>9. ASSUME ~BadIndent(p, i) PROVE Indented(i)
  <2>0. template[i].indent % 2 = 0 /\ ~(template[i].indent > p.indent + 2) /\ (template[i].indent > p.indent => p.open)
    BY <1>9 DEF BadIndent
  <2>1. CASE a = i - 1 /\ a = 0
    BY <2>1, <1>0, <2>0, <1>1 DEF Before, Indented
  <2>2. CASE a = i - 1 /\ a # 0
    <3>1. p.indent = template[a].indent /\ p.open
      BY <1>0, <1>2, <1>6, <2>0, <2>2
    <3>2. ~InRaw(a) /\ template[a].kind \in Openers
      BY <1>2, <2>2, <3>1 DEF Before
    <3>3. template[i].indent = template[a].indent + 2
      <4>1. template[i].indent <= template[a].indent + 2 /\ template[i].indent \in Nat
        BY <1>0, <1>5, <2>0, <2>2, <3>1
      <4> QED BY <1>2, <1>5, <2>0, <2>2, <4>1, NextEven
    <3> QED BY <1>1, <2>2, <3>2, <3>3 DEF Indented
  <2>3. CASE a # i - 1
    <3>1. PICK x : x = a + 1
      OBVIOUS
    <3>2. x \in (a + 1)..i /\ x \in 1..(i - 1) /\ x \in 1..Len(template) /\ a = x - 1
      BY <1>0, <1>2, <2>3, <3>1
    <3>3. Above(x) = a
      <4>1. Above(x) >= a
        BY <1>1, <3>2, AboveOrders
      <4>2. Above(x) \in 0..(x - 1)
        BY <3>2, AboveIs
      <4> QED BY <1>2, <3>2, <4>1, <4>2
    <3>4. ~InRaw(x)
      BY <1>1, <3>2, <3>3, AboveCovers
    <3>5. Indented(x)
      BY <1>4, <3>2, <3>4, WellWrittenIs
    <3>6. template[i].indent <= template[x].indent
      BY <1>0, <1>3, <3>2
    <3>7. CASE a = 0
      BY <3>3, <3>5, <3>7, <1>0, <2>0, <3>6, <1>1 DEF Indented
    <3>8. CASE a # 0
      <4>1. template[x].indent = template[a].indent + 2 /\ template[a].kind \in Openers
        BY <3>3, <3>5, <3>8 DEF Indented
      <4>2. template[i].indent = template[a].indent + 2
        BY <1>0, <1>5, <3>6, <3>8, <4>1, <1>2, <2>0, NextEven
      <4> QED BY <1>1, <3>8, <4>1, <4>2 DEF Indented
    <3> QED BY <3>7, <3>8
  <2> QED BY <2>1, <2>2, <2>3
<1> QED BY <1>7, <1>8, <1>9

\* Of the nodes of the list the line goes to, those before it.
LEMMA SiblingsAre ==
    ASSUME Written, NEW i \in 1..Len(template), NEW p, DOMAIN p.parents = 1..(i - 1),
           \A j \in 1..(i - 1) : p.parents[j] = TreePlace(j)
    PROVE  Siblings(p, FrameOf(Above(i))) = NodesBefore(ListOf, i)
<1>0. Len(template) \in Nat
  BY WrittenLines
<1>1. Above(i) \in 0..Len(template)
  BY <1>0, AboveIs
<1>2. <<FrameOf(Above(i)).node, FrameOf(Above(i)).branch>> = ListOf[i]
  BY <1>1, FrameIs
<1>3. PICK x, b : ListOf[i] = <<x, b>> /\ b \in {"children", "alternate"}
  BY ListIs
<1>4. ASSUME NEW j \in 1..(i - 1)
      PROVE  p.parents[j] = ListOf[i] <=> ~InRaw(j) /\ template[j].kind # "else" /\ ListOf[j] = ListOf[i]
  <2>1. CASE InRaw(j)
    <3>1. TreePlace(j) = <<Above(j), "text">>
      BY <2>1 DEF TreePlace
    <3> QED BY <1>3, <1>4, <2>1, <3>1
  <2>2. CASE ~InRaw(j) /\ template[j].kind = "else"
    <3>1. TreePlace(j) = <<Prior(j), "else">>
      BY <2>2 DEF TreePlace
    <3> QED BY <1>3, <1>4, <2>2, <3>1
  <2>3. CASE ~InRaw(j) /\ template[j].kind # "else"
    BY <1>4, <2>3 DEF TreePlace
  <2> QED BY <2>1, <2>2, <2>3
<1> QED BY <1>2, <1>4 DEF Siblings, NodesBefore

\* Where a line can be put.
TreePlaces == Nat \X {"children", "alternate", "text", "else"}

\* While all is well the parser holds the places of the lines so far, the frames they are
\* inside of and what the next line's indentation is seen by; it stops at the first bad line.
ParsedTo(p, i) ==
    IF p.ok
    THEN /\ p \in [ok: BOOLEAN, stack: Seq(Frames), indent: Int, open: BOOLEAN, parents: Seq(TreePlaces)]
         /\ Before(p, i)
         /\ Len(p.parents) = i /\ \A j \in 1..i : p.parents[j] = TreePlace(j)
         /\ \E ls : Stacked(p.stack, ls, i)
    ELSE \E j \in 1..i : ~WellWritten(j)

LEMMA LinePlaced == ASSUME Written, NEW i \in 1..Len(template) PROVE TreePlace(i) \in TreePlaces
<1>0. Len(template) \in Nat
  BY WrittenLines
<1>1. Above(i) \in 0..(i - 1) /\ Prior(i) \in 0..(i - 1)
  BY AboveIs, PriorIs
<1>2. Above(i) # 0 => Prior(Above(i)) \in 0..(Above(i) - 1)
  BY <1>0, <1>1, PriorIs
<1>3. Above(i) \in Nat /\ Prior(i) \in Nat /\ (Above(i) # 0 => Prior(Above(i)) \in Nat)
  BY <1>0, <1>1, <1>2
<1>4. PICK x, y : x = <<Prior(Above(i)), "alternate">> /\ y = <<Above(i), "children">>
  OBVIOUS
<1>5. ListOf[i] \in TreePlaces
  BY <1>4, ListIs, <1>3 DEF TreePlaces
<1>6. TreePlace(i) = <<Above(i), "text">> \/ TreePlace(i) = <<Prior(i), "else">> \/ TreePlace(i) = ListOf[i]
  BY DEF TreePlace
<1> QED BY <1>3, <1>5, <1>6 DEF TreePlaces

\* A frame is of a raw element when its line is.
LEMMA RawFrame ==
    ASSUME NEW l, l # 0 => WellWritten(l) /\ ~InRaw(l)
    PROVE  /\ AtRaw(FrameOf(l)) <=> l # 0 /\ template[l].kind = "raw"
           /\ l # 0 /\ template[l].kind = "raw" => FrameOf(l).node = l
BY WellWrittenIs DEF FrameOf, RootFrame, AtRaw

\* A line that is well written and kept in its place.
LEMMA LineKept ==
    ASSUME Written, NEW i \in 1..Len(template), NEW p, p.ok, ParsedTo(p, i - 1),
           WellWritten(i), ~InRaw(i) => template[i].indent % 2 = 0,
           NEW s, NEW ls, Stacked(s, ls, i),
           NEW open \in BOOLEAN, open <=> InRaw(i) \/ template[i].kind \in Openers
    PROVE  ParsedTo(Keeps(p, i, TreePlace(i), s, open), i)
<1>0. Len(template) \in Nat /\ template[i].indent \in Int
  BY WrittenLines
<1>1. /\ p \in [ok: BOOLEAN, stack: Seq(Frames), indent: Int, open: BOOLEAN, parents: Seq(TreePlaces)]
      /\ Before(p, i - 1) /\ Len(p.parents) = i - 1 /\ \A j \in 1..(i - 1) : p.parents[j] = TreePlace(j)
  BY DEF ParsedTo
<1>2. PICK q : q = Keeps(p, i, TreePlace(i), s, open)
  OBVIOUS
<1>3. TreePlace(i) \in TreePlaces /\ s \in Seq(Frames)
  BY LinePlaced DEF Stacked
<1>4. /\ q = [p EXCEPT !.stack = s, !.indent = template[i].indent, !.open = open,
                       !.parents = Append(p.parents, TreePlace(i))]
  BY <1>2 DEF Keeps
<1>5. /\ q.ok /\ q.stack = s /\ q.indent = template[i].indent /\ q.open = open
      /\ q.parents = Append(p.parents, TreePlace(i))
      /\ q \in [ok: BOOLEAN, stack: Seq(Frames), indent: Int, open: BOOLEAN, parents: Seq(TreePlaces)]
  <2>1. Append(p.parents, TreePlace(i)) \in Seq(TreePlaces)
    BY <1>1, <1>3
  <2> QED BY <1>0, <1>1, <1>3, <1>4, <2>1
<1>6. Len(q.parents) = i /\ \A j \in 1..i : q.parents[j] = TreePlace(j)
  BY <1>1, <1>0, <1>3, <1>5
<1>7. Before(q, i)
  BY <1>0, <1>1, <1>5 DEF Before
<1> QED BY <1>2, <1>5, <1>6, <1>7 DEF ParsedTo

\* One turn of the loop.
LEMMA TurnParses ==
    ASSUME Written, NEW i \in 1..Len(template), NEW p, ParsedTo(p, i - 1)
    PROVE  ParsedTo(ParseStep(template, p, i), i)
<1>0. Len(template) \in Nat
  BY WrittenLines
<1>1. CASE ~p.ok
  <2>1. ParseStep(template, p, i) = p
    BY <1>1 DEF ParseStep
  <2>2. \E j \in 1..(i - 1) : ~WellWritten(j)
    BY <1>1 DEF ParsedTo
  <2>3. \A j \in 1..(i - 1) : j \in 1..i
    BY <1>0
  <2> QED BY <1>1, <2>1, <2>2, <2>3 DEF ParsedTo
<1>2. CASE p.ok
  <2>1. /\ p \in [ok: BOOLEAN, stack: Seq(Frames), indent: Int, open: BOOLEAN, parents: Seq(TreePlaces)]
        /\ Before(p, i - 1) /\ Len(p.parents) = i - 1 /\ \A j \in 1..(i - 1) : p.parents[j] = TreePlace(j)
    BY <1>2 DEF ParsedTo
  <2>2. PICK ls : Stacked(p.stack, ls, i - 1)
    BY <1>2 DEF ParsedTo
  <2>3. PICK a : a = Above(i)
    OBVIOUS
  <2>4. a \in 0..(i - 1) /\ (a # 0 => ~InRaw(a) /\ WellWritten(a)) /\ (InRaw(i) <=> a # 0 /\ template[a].kind = "raw")
    BY <2>3, AboveIs, <1>0, <2>1, AboveCovers DEF Before
  <2>5. \A j \in 1..(i - 1) : WellWritten(j)
    BY <2>1 DEF Before
  <2>6. PICK s, f : s = OpenFrames(p.stack, template[i].indent) /\ f = Last(s)
    OBVIOUS
  <2>7. ASSUME ParseStep(template, p, i) = [p EXCEPT !.ok = FALSE], ~WellWritten(i)
        PROVE  ParsedTo(ParseStep(template, p, i), i)
    BY <1>0, <2>1, <2>7 DEF ParsedTo
  <2>8. CASE a = i - 1 /\ i # 1 /\ template[i - 1].kind \notin Openers
    <3>1. s = SubSeq(p.stack, 1, Len(ls)) /\ ls[Len(ls)] = Above(i - 1)
      BY <2>2, <2>3, <2>6, <2>8, NonePopped
    <3>2. PICK b : b = Above(i - 1)
      OBVIOUS
    <3>3. i - 1 \in 1..Len(template) /\ a # 0
      BY <1>0, <2>8
    <3>4. b \in 0..(i - 2) /\ (b # 0 => ~InRaw(b)) /\ (InRaw(i - 1) <=> b # 0 /\ template[b].kind = "raw")
      BY <3>2, <3>3, AboveIs, AboveCovers
    <3>5. f = FrameOf(b)
      BY <2>2, <3>1, <2>6, <3>2 DEF Stacked, Last
    <3>6. b # 0 => WellWritten(b)
      BY <1>0, <2>5, <3>4
    <3>7. ~AtRaw(f)
      BY <2>4, <2>8, <3>3, <3>4, <3>5, <3>6, RawFrame
    <3>8. ~InRaw(i) /\ ~Indented(i)
      BY <2>8, <2>3, <2>4, <3>3 DEF Indented, Openers, Containers
    <3>9. BadIndent(p, i)
      BY <2>1, <3>8, SeesIndent
    <3>10. ~WellWritten(i)
      BY <3>8, WellWrittenIs
    <3>11. ParseStep(template, p, i) = [p EXCEPT !.ok = FALSE]
      BY <1>2, <2>6, <3>7, <3>9, BadTurn
    <3> QED BY <2>7, <3>10, <3>11
  <2>9. CASE ~(a = i - 1 /\ i # 1 /\ template[i - 1].kind \notin Openers)
    <3>1. PICK m \in 1..Len(ls) : s = SubSeq(p.stack, 1, m) /\ ls[m] = a
      <4>1. Above(i) = i - 1 => i = 1 \/ template[i - 1].kind \in Openers
        BY <2>3, <2>9
      <4> QED BY <2>2, <2>3, <2>6, <4>1, Popped
    <3>2. f = FrameOf(a)
      BY <2>2, <2>3, <2>6, <3>1, StackedTo
    <3>3. TopLine(i) = a => \E new : Stacked(s, new, i)
      BY <2>2, <2>3, <3>1, StackedTo
    <3>4. TopLine(i) = i => \E new : Stacked(Append(s, FrameOf(i)), new, i)
      BY <2>2, <2>3, <3>1, StackedTo
    <3>5. (AtRaw(f) <=> InRaw(i)) /\ (InRaw(i) => f.node = a)
      BY <2>4, <3>2, RawFrame
    <3>6. CASE InRaw(i)
      <4>1. ParseStep(template, p, i) = Keeps(p, i, <<a, "text">>, s, TRUE)
        BY <3>5, <3>6, <1>2, <2>6, RawTurn
      <4>2. TreePlace(i) = <<a, "text">>
        BY <2>3, <3>6 DEF TreePlace
      <4>3. WellWritten(i)
        BY <3>6, WellWrittenIs
      <4>4. PICK new : Stacked(s, new, i)
        BY <1>0, <2>3, <3>6, <3>3 DEF TopLine
      <4>5. ParsedTo(Keeps(p, i, TreePlace(i), s, TRUE), i)
        BY <1>2, <3>6, <4>3, <4>4, LineKept
      <4> QED BY <4>1, <4>2, <4>5
    <3>7. CASE ~InRaw(i) /\ (BadIndent(p, i) \/ template[i].kind = "unknown")
      BY <1>2, <2>6, <3>5, <3>7, BadTurn, <2>1, SeesIndent, WellWrittenIs, <2>7
    <3>8. CASE ~InRaw(i) /\ ~BadIndent(p, i) /\ template[i].kind = "else"
      <4>1. PICK B : B = Siblings(p, f)
        OBVIOUS
      <4>2. B = NodesBefore(ListOf, i)
        BY <1>0, <2>1, <2>3, <3>2, <4>1, SiblingsAre
      <4>3. /\ B = {} => Prior(i) = 0
            /\ B # {} => Prior(i) # 0 /\ Max(B) = Prior(i)
        BY <4>2, PriorIs
      <4>4. Indented(i) /\ template[i].indent % 2 = 0
        BY <2>1, <3>8, SeesIndent
      <4>5. CASE B = {} \/ template[Max(B)].kind # "if"
        <5>1. ParseStep(template, p, i) = [p EXCEPT !.ok = FALSE]
          BY <1>2, <2>6, <3>5, <3>8, <4>1, <4>5, BadTurn
        <5>2. ~WellWritten(i)
          BY <3>8, <4>3, <4>5, WellWrittenIs
        <5> QED BY <2>7, <5>1, <5>2
      <4>6. CASE ~(B = {} \/ template[Max(B)].kind # "if")
        <5>1. Max(B) = Prior(i) /\ Prior(i) # 0 /\ template[Prior(i)].kind = "if"
          BY <4>3, <4>6
        <5>2. ParseStep(template, p, i) =
                Keeps(p, i, <<Prior(i), "else">>, Append(s, Framed(i, Prior(i), "alternate")), TRUE)
          BY <3>5, <3>8, <1>2, <2>6, <4>1, <4>6, ElseTurn, <5>1
        <5>3. WellWritten(i)
          BY <3>8, <4>4, <5>1, WellWrittenIs
        <5>4. TreePlace(i) = <<Prior(i), "else">>
          BY <3>8 DEF TreePlace
        <5>5. Framed(i, Prior(i), "alternate") = FrameOf(i)
          BY <1>0, <3>8 DEF FrameOf, Framed
        <5>6. template[i].kind \in Openers
          BY <3>8 DEF Openers
        <5>7. TopLine(i) = i
          BY <1>0, <3>8, <5>6 DEF TopLine
        <5>8. PICK new : Stacked(Append(s, FrameOf(i)), new, i)
          BY <3>4, <5>7
        <5>9. ParsedTo(Keeps(p, i, TreePlace(i), Append(s, FrameOf(i)), TRUE), i)
          BY <1>2, <4>4, <5>3, <5>6, <5>8, LineKept
        <5> QED BY <5>2, <5>4, <5>5, <5>9
      <4> QED BY <4>5, <4>6
    <3>9. CASE ~InRaw(i) /\ ~BadIndent(p, i) /\ template[i].kind \notin {"unknown", "else"}
      <4>1. ~AtRaw(f)
        BY <3>5, <3>9
      <4>2. Indented(i) /\ template[i].indent % 2 = 0
        BY <2>1, <3>9, SeesIndent
      <4>3. WellWritten(i)
        BY <3>9, <4>2, WellWrittenIs
      <4>4. TreePlace(i) = <<f.node, f.branch>>
        BY <1>0, <2>4, <2>3, <3>2, FrameIs, <3>9 DEF TreePlace
      <4>5. CASE template[i].kind \in Containers
        <5>1. ParseStep(template, p, i) = Keeps(p, i, TreePlace(i), Append(s, Framed(i, i, "children")), TRUE)
          BY <1>2, <2>6, <3>9, <4>1, <4>4, <4>5, OpenTurn, Zenon
        <5>2. template[i].kind \in Openers
          BY <4>5 DEF Openers
        <5>3. TopLine(i) = i
          BY <1>0, <3>9, <5>2 DEF TopLine
        <5>4. Framed(i, i, "children") = FrameOf(i)
          BY <1>0, <3>9 DEF FrameOf, Framed
        <5>5. PICK us : Stacked(Append(s, FrameOf(i)), us, i)
          BY <3>4, <5>3
        <5>6. ParsedTo(Keeps(p, i, TreePlace(i), Append(s, FrameOf(i)), TRUE), i)
          BY <1>2, <4>2, <4>3, <5>2, <5>5, LineKept
        <5> QED BY <5>1, <5>4, <5>6
      <4>6. CASE template[i].kind \notin Containers
        <5>1. ParseStep(template, p, i) = Keeps(p, i, TreePlace(i), s, FALSE)
          BY <1>2, <2>6, <3>9, <4>1, <4>4, <4>6, LeafTurn, Zenon
        <5>2. template[i].kind \notin Openers
          BY <3>9, <4>6 DEF Openers
        <5>3. TopLine(i) = a
          BY <1>0, <2>3, <3>9, <5>2 DEF TopLine
        <5>4. PICK us : Stacked(s, us, i)
          BY <3>3, <5>3
        <5>5. ParsedTo(Keeps(p, i, TreePlace(i), s, FALSE), i)
          BY <1>2, <3>9, <4>2, <4>3, <5>2, <5>4, LineKept
        <5> QED BY <5>1, <5>5
      <4> QED BY <4>5, <4>6
    <3> QED BY <3>6, <3>7, <3>8, <3>9
  <2> QED BY <2>8, <2>9
<1> QED BY <1>1, <1>2

LEMMA ParsesAsIndented == Written => ParsedAsIndented
<1> SUFFICES ASSUME Written PROVE ParsedAsIndented
  OBVIOUS
<1>0. Len(template) \in Nat /\ DOMAIN template = 1..Len(template)
  BY WrittenLines
<1>1. PICK f : /\ parsePuggy(template) = f[Len(template)] /\ f[0] = ParseInit
               /\ \A i \in 1..Len(template) : f[i] = ParseStep(template, f[i - 1], i)
  BY ParsedByLine
<1> DEFINE S == {n \in Nat : n <= Len(template) => ParsedTo(f[n], n)}
<1>2. 0 \in S
  <2>1. ParseInit \in [ok: BOOLEAN, stack: Seq(Frames), indent: Int, open: BOOLEAN, parents: Seq(TreePlaces)]
    BY DEF ParseInit, Frames, RootFrame
  <2>2. Before(ParseInit, 0)
    BY DEF Before, ParseInit
  <2>3. Stacked(<<RootFrame>>, <<0>>, 0)
    BY DEF Frames, RootFrame, Stacked, TopLine, FrameOf
  <2>4. ParseInit.ok /\ ParseInit.stack = <<RootFrame>> /\ ParseInit.parents = <<>>
    BY DEF ParseInit
  <2>5. ParsedTo(ParseInit, 0)
    BY <2>1, <2>2, <2>3, <2>4 DEF ParsedTo
  <2> QED BY <1>1, <2>5
<1>3. ASSUME NEW n \in Nat, n \in S PROVE n + 1 \in S
  BY <1>0, <1>3, <1>1, TurnParses
<1>4. ParsedTo(parsePuggy(template), Len(template))
  <2>1. \A n \in Nat : n \in S
    <3> HIDE DEF S
    <3> QED BY <1>2, <1>3, NumberByNumber
  <2>2. Len(template) \in S
    <3> HIDE DEF S
    <3> QED BY <1>0, <2>1
  <2> QED BY <1>0, <1>1, <2>2
<1>5. Tree.main = parsePuggy(template)
  BY DEF Tree, Sources
<1> QED BY <1>0, <1>4, <1>5 DEF ParsedTo, Before, ParsedAsIndented

\* parsePuggy reads every template as its indentation shows: each line is inside the nearest
\* less indented line above it, or in the if of its else, and what cannot be read so is refused.
THEOREM TemplatesParse == PuggySpec => []ParsedAsIndented
BY LinesAreWritten, ParsesAsIndented, PTL

-----------------------------------------------------------------------------
(* The parts of a tab side by side *)

\* Each part behaves as its own specification says; of the scrolling, whose
\* specification also states fairness, as its initial states and steps say.
LEMMA TabPartsBehave ==
    /\ ClientPartsSpec => ClientSpec
    /\ ClientPartsSpec => ViewSpec
    /\ ClientPartsSpec => SubmitSpec
    /\ ClientPartsSpec => FoldSpec
    /\ ClientPartsSpec => PuggySpec
    /\ ClientPartsSpec => SessionModelSpec
    /\ ClientPartsSpec => NavigationSpec
    /\ ClientPartsSpec => []ScrollInv
    /\ ClientPartsSpec => QuestionSpec
<1>1. ClientPartsInit => /\ ClientInit /\ ViewInit /\ SubmitInit /\ FoldInit /\ PuggyInit /\ SessionInit
                         /\ NavigationInit /\ ScrollInit /\ QuestionInit
  BY DEF ClientPartsInit
<1>2. [ClientPartsNext]_clientPartVars =>
          /\ [ClientNext]_clientVars /\ [ViewStep]_viewVars /\ [SubmitStep]_submitVars /\ [FoldStep]_foldVars
          /\ [PuggyStep]_puggyVars /\ [SessionStep]_sessionVars /\ [NavigationStep]_navigationVars
          /\ [ScrollStep]_scrollVars /\ [QuestionStep]_questionVars
  BY DEF ClientPartsNext, OthersRest, clientPartVars
<1> QED BY <1>1, <1>2, ScrollStarts, ScrollStepKeepsInv, PTL
        DEF ClientPartsSpec, ClientSpec, ViewSpec, SubmitSpec, FoldSpec, PuggySpec, SessionModelSpec, NavigationSpec,
            QuestionSpec

\* One part of the tab is in focus.
TabParts == {"client", "view", "submit", "fold", "puggy", "models", "navigation", "scroll", "question"}

\* It stays the one.
LEMMA TabFocusStays == ClientPartsSpec => [](focus \in TabParts)
<1>1. ClientPartsInit => focus \in TabParts
  BY DEF ClientPartsInit, TabParts
<1>2. focus \in TabParts /\ [ClientPartsNext]_clientPartVars => (focus \in TabParts)'
  BY DEF ClientPartsNext, OthersRest, clientPartVars
<1> QED BY <1>1, <1>2, PTL DEF ClientPartsSpec

\* Whatever part of a tab runs, its variables have the shape the code gives them.
THEOREM TabTyped == ClientPartsSpec => []ClientPartsTypeOK
<1>1. /\ focus \in TabParts /\ ClientTypeOK /\ ViewTypeOK /\ SubmitTypeOK /\ FoldTypeOK /\ PuggyTypeOK
      /\ SessionModelTypeOK /\ NavigationTypeOK /\ ScrollTypeOK /\ QuestionTypeOK
      => ClientPartsTypeOK
  BY DEF TabParts, ClientPartsTypeOK
<1> QED BY <1>1, TabPartsBehave, TabFocusStays, ViewsAreCurrent, ScreenIsOfItsChat, AckedStaysKept, FoldTypeCorrect,
           PuggyTyped, ModelsTypeCorrect, PlacesStayReal, ScrollTypesGiven, AnswersAreTold, PTL

\* What a user says arrives: an acknowledged message is in a queue, with a drain or in a turn
\* (RunnerProxy's send and queue), and a card of a question or plan sends what it shows
\* (AskUserQuestionMessage.tsx) and tells what the agent was told.
THEOREM SaidAndHeard == ClientPartsSpec => []SaidIsHeard
<1>1. AckedIsKept /\ AnswersArrive => SaidIsHeard
  BY DEF SaidIsHeard
<1> QED BY <1>1, TabPartsBehave, AckedStaysKept, AnswersAreTold, PTL

\* Of the parts side by side: views catch up, the screen shows its chat, transcripts are
\* shown as they are, turns run what was shown, places are real and a reader is left alone.
THEOREM TabIsSafe ==
    ClientPartsSpec => [](/\ ViewsCatchUp /\ ShowsItsChat /\ RenderedFaithfully /\ ShownIsRun /\ PlacesAreReal
                          /\ ReaderIsLeftAlone)
<1>1. ScrollInv => ReaderIsLeftAlone
  BY DEF ScrollInv, ReaderInv, ReaderIsLeftAlone
<1> QED BY <1>1, TabPartsBehave, ViewsAreCurrent, ScreenIsOfItsChat, TranscriptsAreShown, ComposerShowsWhatRuns,
           PlacesStayReal, PTL
=============================================================================
