------------------------- MODULE NavigationProofs -------------------------
(***************************************************************************)
(* Proofs about Navigation, for any chats, acts of the user and chats that *)
(* another tab deletes: once everything a tab asked is answered, it is at  *)
(* home or at a chat there is, and its rows are the hub's.                 *)
(***************************************************************************)
EXTENDS Navigation, SequenceTheorems, TLAPS

-----------------------------------------------------------------------------
(* The invariant *)

\* Types, without bounds: a route is a chat or home.
Place == ChatKeys \cup {Home}
NavCommand == [op: {"create", "delete", "fork", "merge"}, chat: ChatKeys,
               step: {"sent", "create", "rename", "prompt", "send", "close"}, active: Place]
              \cup [op: {"subscribe"}, chat: ChatKeys, step: {"sent"}, active: Nat]
ReplyMessage   == [topic: {"reply"}, command: NavCommand, ok: BOOLEAN]
SidebarMessage == [topic: {"sidebar"}, rows: SUBSET ChatKeys]
ChatMessage    == [topic: {"chat"}, visit: Nat, chat: ChatKeys, known: BOOLEAN]
HubMessage == ReplyMessage \cup SidebarMessage \cup ChatMessage

NavTabRecord == [route: Place, visit: Nat, pending: Place, rows: SUBSET ChatKeys, chatReady: BOOLEAN,
                 snapshot: Place, deleting: SUBSET ChatKeys,
                 boot: [chat: Place, phase: {"none", "compacting", "starting", "error"}],
                 dialog: [chat: ChatKeys, active: Place, next: SUBSET ChatKeys] \cup {NoDialog}, letGo: SUBSET Place]
NavHubRecord == [chats: SUBSET ChatKeys, last: SUBSET ChatKeys, topic: Place, visit: Nat, known: BOOLEAN,
              gone: SUBSET ChatKeys, refused: SUBSET ChatKeys, large: BOOLEAN]

\* Only a subscription names a visit, and no answer is to one; a fork or merge has steps.
Formed(c) == c.active \in Place /\ (c.step = "sent" <=> c.op \in {"create", "delete"})
ActivesInv(cs, w) ==
    /\ \A c \in cs : c.op # "subscribe" => Formed(c)
    /\ \A i \in 1..Len(w) : w[i].topic = "reply" => w[i].command.op # "subscribe" /\ Formed(w[i].command)

\* What the variables are.
NavTyped ==
    /\ chatHub \in NavHubRecord /\ tab \in NavTabRecord
    /\ commands \subseteq NavCommand /\ arrivals \in Seq(HubMessage)
    /\ used \subseteq ChatKeys /\ evicted \subseteq ChatKeys

\* A sidebar is to come after the i-th message.
Later(w, i) == \E j \in 1..Len(w) : j > i /\ w[j].topic = "sidebar"

\* The commands that are carried out, or whose answers are on their way.
UnderWay(cs, w) == cs \cup {w[i].command : i \in {j \in 1..Len(w) : w[j].topic = "reply"}}

\* A chat that was stored: it still is, or was deleted by this tab or by another one.
Born(h, t) == h.chats \cup h.gone \cup t.letGo

\* A chat that is not ready is one whose snapshot is still to come.
ToBeServed(t, cs, w) ==
    ~t.chatReady =>
        /\ t.route # Home
        /\ \/ Command("subscribe", t.route, "sent", t.visit) \in cs
           \/ \E i \in 1..Len(w) : w[i].topic = "chat" /\ w[i].visit = t.visit
\* The effects have run.
SettledInv(t) == t.route = Home \/ ~t.chatReady \/ t.route \in t.rows \/ t.pending = t.route
\* A chat is hidden while its delete is under way.
DeletingInv(t, all) == \A x \in t.deleting : \E c \in all : c.op = "delete" /\ c.chat = x
LetGoInv(t, cs) ==
    \A c \in cs : (c.op = "delete" => c.chat \in t.letGo) /\ (c.step = "close" => c.active \in t.letGo)
\* Commands that follow the creation of a chat are of one that was stored.
BornInv(h, t, cs, w) ==
    /\ \A c \in cs : c.op \in {"fork", "merge"} /\ c.step # "create" => c.chat \in Born(h, t)
    /\ \A i \in 1..Len(w) :
          /\ w[i].topic = "reply" /\ w[i].command.op \in {"create", "fork", "merge"}
          /\ w[i].ok \/ (w[i].command.op # "create" /\ w[i].command.step # "create")
          => w[i].command.chat \in Born(h, t)
\* What is pending was stored, or its creation is under way.
PendingInv(h, t, all) ==
    t.pending # Home => t.pending \in Born(h, t) \/ \E c \in all : c.op = "create" /\ c.chat = t.pending
\* The last sidebar on its way is of the chats there are; with none left, the rows are.
RowsInv(h, t, cs, w) ==
    /\ h.chats = h.last
    /\ \A i \in 1..Len(w) : w[i].topic = "sidebar" /\ ~Later(w, i) => w[i].rows = h.chats
    /\ (\A i \in 1..Len(w) : w[i].topic # "sidebar") =>
          /\ t.rows \subseteq h.chats
          /\ \A x \in h.chats \ t.rows : x \in h.refused \/ \E c \in cs : c.op = "delete" /\ c.chat = x
\* An answered delete left no chat, or one that is refused or that a sidebar will list.
RefusedInv(h, w) ==
    \A i \in 1..Len(w) :
        w[i].topic = "reply" /\ w[i].command.op = "delete" =>
            LET x == w[i].command.chat IN x \notin h.chats \/ x \in h.refused \/ Later(w, i)
NoticeInv(t, all) ==
    t.boot.phase \in {"compacting", "starting"} =>
        \E c \in all : c.op \in {"fork", "merge"} /\ c.chat = t.boot.chat /\ c.step \in {"prompt", "send", "close"}

\* Hub, tab, commands and messages fit each other.
AllFit(h, t, cs, w) ==
    /\ ActivesInv(cs, w) /\ DeletingInv(t, UnderWay(cs, w)) /\ LetGoInv(t, cs) /\ BornInv(h, t, cs, w)
    /\ PendingInv(h, t, UnderWay(cs, w)) /\ RowsInv(h, t, cs, w) /\ RefusedInv(h, w)
    /\ NoticeInv(t, UnderWay(cs, w))

\* The inductive invariant.
NavInv ==
    /\ NavTyped /\ ToBeServed(tab, commands, arrivals) /\ SettledInv(tab)
    /\ AllFit(chatHub, tab, commands, arrivals)

\* Where the sidebar is not unpacked: a chat nobody deleted is listed from the first
\* sidebar that has it on, which is ahead of everything else that tells of it.
Loose(h, t) == t.letGo \cup h.gone
ListedInv(h, t, w) ==
    /\ \A x \in t.rows \ Loose(h, t) : x \in h.chats /\ \A i \in 1..Len(w) : w[i].topic = "sidebar" => x \in w[i].rows
    /\ \A i \in 1..Len(w) : w[i].topic = "sidebar" =>
          \A x \in w[i].rows \ Loose(h, t) :
              /\ x \in h.chats
              /\ \A j \in 1..Len(w) : j > i /\ w[j].topic = "sidebar" => x \in w[j].rows
    /\ \A x \in h.chats \ Loose(h, t) : x \in t.rows \/ \E i \in 1..Len(w) : w[i].topic = "sidebar" /\ x \in w[i].rows
ShownInv(h, t, w) ==
    /\ t.snapshot \in t.rows \cup Loose(h, t) \cup {Home}
    /\ \A i \in 1..Len(w) : w[i].topic = "chat" /\ w[i].known /\ w[i].chat \notin Loose(h, t) =>
          \/ w[i].chat \in t.rows
          \/ \E j \in 1..Len(w) : j < i /\ w[j].topic = "sidebar" /\ w[i].chat \in w[j].rows
    /\ t.route \in t.rows \cup Loose(h, t) \cup {Home, t.pending}
    /\ t.dialog.next \subseteq t.rows \cup Loose(h, t)
CreatesInv(h, cs, ids) ==
    /\ h.chats \cup h.gone \subseteq ids
    /\ \A c \in cs : Creates(c) => c.chat \in ids \ (h.chats \cup h.gone)
    /\ \A c, d \in cs : Creates(c) /\ Creates(d) /\ c.chat = d.chat => c = d
    /\ h.chats \cap h.gone = {}
KeptInv ==
    /\ CreatesInv(chatHub, commands, used) /\ tab.deleting \subseteq tab.letGo
    /\ ~chatHub.large => /\ ListedInv(chatHub, tab, arrivals) /\ ShownInv(chatHub, tab, arrivals)
                         /\ evicted = {}

-----------------------------------------------------------------------------
(* A render *)

\* What the effects of a render leave of a tab.
SameTab(new, t) ==
    /\ new.rows = t.rows /\ new.deleting = t.deleting /\ new.boot = t.boot
    /\ new.dialog = t.dialog /\ new.letGo = t.letGo

\* A new route.
LEMMA RoutedGives ==
    ASSUME NEW t \in NavTabRecord, NEW route \in Place, NEW cached \in BOOLEAN, NEW new, new = Routed(t, route, cached)
    PROVE  /\ new \in NavTabRecord /\ SameTab(new, t) /\ new.route = route /\ new.pending = t.pending
           /\ new.snapshot \in {t.snapshot, Home}
           /\ (route = t.route => new = t)
           /\ (route # t.route => /\ new.visit = t.visit + 1
                                  /\ (new.chatReady <=> route = Home \/ cached))
<1>1. CASE route = t.route
  BY <1>1 DEF Routed, SameTab
<1>2. CASE route # t.route
  <2> DEFINE v == t.visit + 1
             b == route = Home \/ cached
  <2>1. new = [t EXCEPT !.route = route, !.visit = v, !.snapshot = Home, !.chatReady = b]
    BY <1>2 DEF Routed
  <2>2. v \in Nat /\ b \in BOOLEAN /\ Home \in Place
    BY DEF NavTabRecord, Place
  <2>3. b <=> route = Home \/ cached
    OBVIOUS
  <2> HIDE DEF b
  <2>4. /\ new \in NavTabRecord /\ new.route = route /\ new.pending = t.pending /\ new.snapshot = Home
        /\ new.visit = v /\ new.chatReady = b
    BY <2>1, <2>2 DEF NavTabRecord
  <2>5. SameTab(new, t)
    BY <2>1, <2>2 DEF NavTabRecord, SameTab
  <2> QED BY <1>2, <2>3, <2>4, <2>5
<1> QED BY <1>1, <1>2

\* A chat is left.
LEMMA LeftForHome ==
    ASSUME NEW t \in NavTabRecord, t.route # Home, NEW new, new = Routed(t, Home, FALSE)
    PROVE  /\ new \in NavTabRecord /\ SameTab(new, t) /\ new.route = Home /\ new.pending = t.pending
           /\ new.snapshot \in {t.snapshot, Home} /\ new.visit = t.visit + 1 /\ new.chatReady
<1> DEFINE v == t.visit + 1
           b == Home = Home \/ FALSE
<1>1. new = [t EXCEPT !.route = Home, !.visit = v, !.snapshot = Home, !.chatReady = b]
  BY DEF Routed
<1>2. v \in Nat /\ b = TRUE /\ Home \in Place
  BY DEF NavTabRecord, Place
<1> HIDE DEF v, b
<1>3. /\ new \in NavTabRecord /\ new.route = Home /\ new.pending = t.pending /\ new.snapshot = Home
      /\ new.visit = v /\ new.chatReady = b
  BY <1>1, <1>2 DEF NavTabRecord
<1>4. SameTab(new, t)
  BY <1>1, <1>2 DEF NavTabRecord, SameTab
<1> QED BY <1>2, <1>3, <1>4 DEF v

\* The effects of a render: they may forget what is pending and leave a missing chat.
LEMMA RendersGives ==
    ASSUME tab \in NavTabRecord, NEW t \in NavTabRecord, NEW others, Renders(t, others)
    PROVE  /\ tab' \in NavTabRecord /\ SameTab(tab', t)
           /\ tab'.pending \in {t.pending, Home} /\ tab'.snapshot \in {t.snapshot, Home}
           /\ (tab'.pending # t.pending => t.snapshot = t.pending \/ t.pending \in t.rows)
           /\ SettledInv(tab')
           /\ commands' = Subscribed(tab', others)
           /\ \/ tab'.route = t.route /\ tab'.visit = t.visit /\ tab'.chatReady = t.chatReady
              \/ tab'.route = Home /\ tab'.visit = t.visit + 1 /\ tab'.chatReady
           /\ \A x \in evicted' : \/ x \in evicted
                                  \/ /\ x = t.route /\ x # Home /\ x \in chatHub.chats /\ x \notin t.letGo
                                     /\ x \notin t.rows /\ (t.pending # x \/ t.snapshot = x)
<1> DEFINE arrived == Arrived(t)
           leaves == IsMissing(arrived)
<1>1. /\ tab' = (IF leaves THEN Routed(arrived, Home, FALSE) ELSE arrived)
      /\ evicted' = IF leaves /\ tab.route = t.route
                    THEN evicted \cup ({t.route} \cap (chatHub.chats \ (Stored \cup t.letGo))) ELSE evicted
      /\ commands' = Subscribed(tab', others)
  BY DEF Renders
<1>2. /\ arrived \in NavTabRecord /\ SameTab(arrived, t) /\ arrived.route = t.route /\ arrived.visit = t.visit
      /\ arrived.chatReady = t.chatReady /\ arrived.snapshot = t.snapshot /\ arrived.pending \in {t.pending, Home}
      /\ (arrived.pending # t.pending => t.snapshot = t.pending \/ (t.pending = t.route /\ t.pending \in t.rows))
  <2> DEFINE cleared == [t EXCEPT !.pending = Home]
  <2>1. /\ cleared \in NavTabRecord /\ cleared.route = t.route /\ cleared.visit = t.visit /\ SameTab(cleared, t)
        /\ cleared.chatReady = t.chatReady /\ cleared.snapshot = t.snapshot /\ cleared.pending = Home
    BY DEF NavTabRecord, Place, SameTab
  <2>2. CASE arrived = t
    BY <2>2 DEF SameTab
  <2>3. CASE arrived # t
    BY <2>3, <2>1 DEF Arrived
  <2> QED BY <2>2, <2>3
<1>3. /\ leaves => arrived.route # Home /\ arrived.route \notin arrived.rows /\ arrived.pending # arrived.route
      /\ ~leaves => SettledInv(arrived)
  BY DEF IsMissing, Ready, SettledInv
<1>4. arrived.rows = t.rows
  BY <1>2 DEF SameTab
<1> HIDE DEF arrived, leaves
<1>5. CASE leaves
  <2>2. tab' = Routed(arrived, Home, FALSE)
    BY <1>1, <1>5
  <2>3. /\ tab' \in NavTabRecord /\ SameTab(tab', arrived) /\ tab'.route = Home /\ tab'.pending = arrived.pending
        /\ tab'.snapshot \in {arrived.snapshot, Home}
        /\ tab'.visit = arrived.visit + 1 /\ tab'.chatReady
    <3> DEFINE new == tab'
    <3>1. new = Routed(arrived, Home, FALSE) /\ Home # arrived.route
      BY <1>3, <1>5, <2>2
    <3> HIDE DEF new
    <3> QED BY <1>2, <3>1, LeftForHome DEF new
  <2>4. SettledInv(tab') /\ SameTab(tab', t)
    BY <1>2, <2>3 DEF SettledInv, SameTab
  <2>5. \A x \in evicted' : \/ x \in evicted
                            \/ /\ x = t.route /\ x # Home /\ x \in chatHub.chats /\ x \notin t.letGo
                               /\ x \notin t.rows /\ (t.pending # x \/ t.snapshot = x)
    BY <1>1, <1>2, <1>3, <1>4, <1>5
  <2> QED BY <1>1, <1>2, <2>3, <2>4, <2>5
<1>6. CASE ~leaves
  BY <1>1, <1>6, <1>2, <1>3
<1> QED BY <1>5, <1>6

\* What is under way after a render, but for subscriptions, is what was given.
LEMMA SubscribedGives ==
    ASSUME tab \in NavTabRecord, NEW new \in NavTabRecord, NEW others \in SUBSET NavCommand, NEW cs,
           cs = Subscribed(new, others)
    PROVE  /\ cs \subseteq NavCommand
           /\ \A c \in others : c.op # "subscribe" => c \in cs
           /\ \A c \in cs : c \in others \/ (c.op = "subscribe" /\ c.step = "sent")
           /\ (new.visit = tab.visit => cs = others)
           /\ (new.visit # tab.visit /\ new.route # Home => Command("subscribe", new.route, "sent", new.visit) \in cs)
<1> DEFINE s == Command("subscribe", new.route, "sent", new.visit)
<1>1. s.op = "subscribe" /\ s.step = "sent" /\ (new.route # Home => s \in NavCommand)
  BY DEF Command, NavCommand, NavTabRecord, Place
<1> HIDE DEF s
<1>2. cs = IF new.visit = tab.visit THEN others
           ELSE {c \in others : c.op # "subscribe"} \cup (IF new.route = Home THEN {} ELSE {s})
  BY DEF Subscribed, s
<1> QED BY <1>1, <1>2 DEF s

\* What a render leaves fits as before.
LEMMA StillFits ==
    ASSUME NEW h, NEW t, NEW new, NEW others, NEW cs, NEW w,
           SameTab(new, t), new.pending \in {t.pending, Home},
           \A c \in others : c.op # "subscribe" => c \in cs,
           \A c \in cs : c \in others \/ (c.op = "subscribe" /\ c.step = "sent"),
           AllFit(h, t, others, w)
    PROVE  AllFit(h, new, cs, w)
<1> USE DEF AllFit
<1>1. \A c \in UnderWay(others, w) : c.op # "subscribe" => c \in UnderWay(cs, w)
  BY DEF UnderWay
<1>2. new.letGo = t.letGo /\ new.deleting = t.deleting /\ new.rows = t.rows /\ new.boot = t.boot
  BY DEF SameTab
<1>3. ActivesInv(cs, w)
  BY DEF ActivesInv
<1>4. DeletingInv(new, UnderWay(cs, w))
  BY <1>1, <1>2 DEF DeletingInv
<1>5. LetGoInv(new, cs)
  BY <1>2 DEF LetGoInv
<1>6. BornInv(h, new, cs, w)
  BY <1>2 DEF Born, BornInv
<1>7. PendingInv(h, new, UnderWay(cs, w))
  BY <1>2, <1>1 DEF Born, PendingInv
<1>8. RowsInv(h, new, cs, w)
  BY <1>2 DEF RowsInv
<1>9. NoticeInv(new, UnderWay(cs, w))
  BY <1>1, <1>2 DEF NoticeInv
<1> QED BY <1>3, <1>4, <1>5, <1>6, <1>7, <1>8, <1>9

\* A render keeps the invariant, if what it is given fits what the hub has and what is
\* on its way by then.
LEMMA RenderKeeps ==
    ASSUME NavTyped, NEW t \in NavTabRecord, NEW others \in SUBSET NavCommand, Renders(t, others),
           UNCHANGED chatHub, arrivals' \in Seq(HubMessage), used' \subseteq ChatKeys,
           \/ t.visit = tab.visit /\ ToBeServed(t, others, arrivals')
           \/ t.visit = tab.visit + 1 /\ (~t.chatReady => t.route # Home),
           AllFit(chatHub, t, others, arrivals')
    PROVE  NavInv'
<1> DEFINE new == tab'
           cs == commands'
           w == arrivals'
<1>1. /\ new \in NavTabRecord /\ SameTab(new, t) /\ new.pending \in {t.pending, Home} /\ SettledInv(new)
      /\ cs = Subscribed(new, others)
      /\ \/ new.route = t.route /\ new.visit = t.visit /\ new.chatReady = t.chatReady
         \/ new.route = Home /\ new.visit = t.visit + 1 /\ new.chatReady
      /\ \A x \in evicted' : x \in evicted \/ x \in chatHub.chats
  BY RendersGives DEF NavTyped
<1>2. /\ cs \subseteq NavCommand
      /\ \A c \in others : c.op # "subscribe" => c \in cs
      /\ \A c \in cs : c \in others \/ (c.op = "subscribe" /\ c.step = "sent")
      /\ (new.visit = tab.visit => cs = others)
      /\ (new.visit # tab.visit /\ new.route # Home => Command("subscribe", new.route, "sent", new.visit) \in cs)
  <2> HIDE DEF new, cs
  <2> QED BY <1>1, SubscribedGives DEF NavTyped
<1> HIDE DEF new, cs, w
<1>3. AllFit(chatHub, new, cs, w)
  BY <1>1, <1>2, StillFits DEF w
<1>4. ToBeServed(new, cs, w)
  <2>0. tab.visit \in Nat /\ t.visit \in Nat
    BY DEF NavTyped, NavTabRecord
  <2>1. CASE new.visit = tab.visit
    <3>1. t.visit = tab.visit /\ cs = others /\ new.visit = t.visit
          /\ new.route = t.route /\ new.chatReady = t.chatReady
      BY <1>1, <1>2, <2>0, <2>1
    <3>2. ToBeServed(t, others, w)
      BY <2>0, <3>1 DEF w
    <3> QED BY <3>1, <3>2 DEF ToBeServed
  <2>2. CASE new.visit # tab.visit
    <3>1. ~new.chatReady => new.route # Home
      BY <1>1 DEF ToBeServed
    <3> QED BY <1>2, <2>2, <3>1 DEF ToBeServed
  <2> QED BY <2>1, <2>2
<1>5. NavTyped'
  BY <1>1, <1>2 DEF NavTyped, NavHubRecord, new, cs
<1>6. chatHub' = chatHub
  OBVIOUS
<1> QED BY <1>1, <1>3, <1>4, <1>5, <1>6 DEF NavInv, new, cs, w

-----------------------------------------------------------------------------
(* Messages and commands that are gone *)

\* A sequence without its i-th element.
LEMMA OneOut ==
    ASSUME NEW S, NEW w \in Seq(S), NEW i \in 1..Len(w), NEW v, v = RemoveAt(w, i)
    PROVE  /\ v \in Seq(S) /\ Len(v) = Len(w) - 1
           /\ \A k \in 1..Len(v) : v[k] = IF k < i THEN w[k] ELSE w[k + 1]
<1> DEFINE a == SubSeq(w, 1, i - 1)
           b == SubSeq(w, i + 1, Len(w))
<1>1. Len(w) \in Nat /\ i \in Nat /\ i >= 1 /\ i <= Len(w)
  OBVIOUS
<1>2. a \in Seq(S) /\ Len(a) = i - 1 /\ \A k \in 1..(i - 1) : a[k] = w[k]
  BY <1>1
<1>3. b \in Seq(S) /\ Len(b) = Len(w) - i /\ \A k \in 1..(Len(w) - i) : b[k] = w[i + k]
  BY <1>1
<1>4. v = a \o b
  BY DEF RemoveAt
<1> HIDE DEF a, b
<1>5. v \in Seq(S) /\ Len(v) = Len(w) - 1
  BY <1>1, <1>2, <1>3, <1>4
<1>6. ASSUME NEW k \in 1..Len(v) PROVE v[k] = IF k < i THEN w[k] ELSE w[k + 1]
  <2>1. v[k] = IF k <= Len(a) THEN a[k] ELSE b[k - Len(a)]
    BY <1>1, <1>2, <1>3, <1>4, <1>5
  <2>2. CASE k < i
    BY <1>1, <1>2, <2>2, <2>1
  <2>3. CASE ~(k < i)
    BY <1>1, <1>2, <1>5, <2>3, <1>3, <2>1
  <2> QED BY <2>2, <2>3
<1> QED BY <1>5, <1>6

\* The place in the mail of what is at k once the i-th message is taken out.
PlaceOf(k, i) == IF k < i THEN k ELSE k + 1

\* A message is taken out: no sidebar, or the first message.
Taken(w, i, v) ==
    /\ w \in Seq(HubMessage) /\ i \in 1..Len(w) /\ v = RemoveAt(w, i)
    /\ i = 1 \/ w[i].topic # "sidebar"

\* The others keep their order.
LEMMA TakenPlaces ==
    ASSUME NEW w, NEW i, NEW v, Taken(w, i, v)
    PROVE  /\ v \in Seq(HubMessage)
           /\ \A k \in 1..Len(v) : PlaceOf(k, i) \in 1..Len(w) /\ PlaceOf(k, i) # i /\ v[k] = w[PlaceOf(k, i)]
           /\ \A j \in 1..Len(w) : j # i => \E k \in 1..Len(v) : PlaceOf(k, i) = j
           /\ \A k, l \in 1..Len(v) : k < l <=> PlaceOf(k, i) < PlaceOf(l, i)
<1>1. w \in Seq(HubMessage) /\ i \in 1..Len(w) /\ v = RemoveAt(w, i) /\ Len(w) \in Nat
  BY DEF Taken
<1>2. v \in Seq(HubMessage)
  BY <1>1, OneOut
<1>3. Len(v) = Len(w) - 1
  BY <1>1, OneOut
<1>4. \A k \in 1..Len(v) : v[k] = IF k < i THEN w[k] ELSE w[k + 1]
  BY <1>1, OneOut
<1>5. \A k \in 1..Len(v) : PlaceOf(k, i) \in 1..Len(w) /\ PlaceOf(k, i) # i /\ v[k] = w[PlaceOf(k, i)]
  BY <1>1, <1>3, <1>4 DEF PlaceOf
<1>6. ASSUME NEW j \in 1..Len(w), j # i PROVE \E k \in 1..Len(v) : PlaceOf(k, i) = j
  BY <1>1, <1>3, <1>6 DEF PlaceOf
<1>7. \A k, l \in 1..Len(v) : k < l <=> PlaceOf(k, i) < PlaceOf(l, i)
  BY <1>1, <1>3 DEF PlaceOf
<1> QED BY <1>2, <1>5, <1>6, <1>7

\* A sidebar comes later than another message as before.
LEMMA TakenLater ==
    ASSUME NEW w, NEW i, NEW v, Taken(w, i, v), NEW k \in 1..Len(v)
    PROVE  Later(v, k) <=> Later(w, PlaceOf(k, i))
<1>0. k \in Int /\ PlaceOf(k, i) \in Int /\ PlaceOf(k, i) >= 1
  BY TakenPlaces
<1>1. ASSUME Later(v, k) PROVE Later(w, PlaceOf(k, i))
  BY <1>1, TakenPlaces, <1>0 DEF Later
<1>2. ASSUME Later(w, PlaceOf(k, i)) PROVE Later(v, k)
  <2>1. PICK j \in 1..Len(w) : j > PlaceOf(k, i) /\ w[j].topic = "sidebar"
    BY <1>2 DEF Later
  <2>2. j # i
    BY <1>0, <2>1 DEF Taken
  <2>3. PICK l \in 1..Len(v) : PlaceOf(l, i) = j
    BY <2>2, TakenPlaces
  <2>4. PlaceOf(k, i) < PlaceOf(l, i) /\ v[l].topic = "sidebar"
    BY <1>0, <2>1, <2>3, TakenPlaces
  <2>5. k < l
    BY <2>4, TakenPlaces
  <2>6. l > k
    BY <1>0, <2>5
  <2> QED BY <2>4, <2>6 DEF Later
<1> QED BY <1>1, <1>2

\* What is under way without an answer that has come.
LEMMA TakenUnderWay ==
    ASSUME NEW w, NEW i, NEW v, Taken(w, i, v), NEW cs, NEW c \in UnderWay(cs, w),
           w[i].topic = "reply" => c # w[i].command
    PROVE  c \in UnderWay(cs, v)
<1>1. CASE c \in cs
  BY <1>1 DEF UnderWay
<1>2. CASE c \notin cs
  <2>1. PICK j \in 1..Len(w) : w[j].topic = "reply" /\ c = w[j].command
    BY <1>2 DEF UnderWay
  <2>2. j # i
    BY <2>1
  <2>3. PICK k \in 1..Len(v) : PlaceOf(k, i) = j
    BY <2>2, TakenPlaces
  <2>4. v[k].topic = "reply" /\ v[k].command = c
    BY <2>1, <2>3, TakenPlaces
  <2> QED BY <2>4 DEF UnderWay
<1> QED BY <1>1, <1>2

\* What each message on its way fits, it fits without another one.
LEMMA TakenFits ==
    ASSUME NEW w, NEW i, NEW v, Taken(w, i, v), NEW h, NEW t, NEW cs
    PROVE  /\ ActivesInv(cs, w) => ActivesInv(cs, v)
           /\ BornInv(h, t, cs, w) => BornInv(h, t, cs, v)
           /\ RefusedInv(h, w) => RefusedInv(h, v)
           /\ w[i].topic # "sidebar" /\ RowsInv(h, t, cs, w) => RowsInv(h, t, cs, v)
           /\ (w[i].topic # "chat" \/ w[i].visit # t.visit) /\ ToBeServed(t, cs, w) => ToBeServed(t, cs, v)
<1>1. \A k \in 1..Len(v) : PlaceOf(k, i) \in 1..Len(w) /\ v[k] = w[PlaceOf(k, i)]
  BY TakenPlaces
<1>2. \A k \in 1..Len(v) : Later(v, k) <=> Later(w, PlaceOf(k, i))
  BY TakenLater
<1>3. \A j \in 1..Len(w) : j # i => \E k \in 1..Len(v) : v[k] = w[j]
  BY TakenPlaces
<1>4. ActivesInv(cs, w) => ActivesInv(cs, v)
  BY <1>1 DEF ActivesInv
<1>5. BornInv(h, t, cs, w) => BornInv(h, t, cs, v)
  BY <1>1 DEF BornInv
<1>6. RefusedInv(h, w) => RefusedInv(h, v)
  BY <1>1, <1>2 DEF RefusedInv
<1>7. ASSUME w[i].topic # "sidebar", RowsInv(h, t, cs, w) PROVE RowsInv(h, t, cs, v)
  <2>1. \A k \in 1..Len(v) : v[k].topic = "sidebar" /\ ~Later(v, k) => v[k].rows = h.chats
    BY <1>1, <1>2, <1>7 DEF RowsInv
  <2>2. (\A k \in 1..Len(v) : v[k].topic # "sidebar") => \A j \in 1..Len(w) : w[j].topic # "sidebar"
    BY <1>3, <1>7
  <2> QED BY <1>7, <2>1, <2>2 DEF RowsInv
<1>8. ASSUME w[i].topic # "chat" \/ w[i].visit # t.visit, ToBeServed(t, cs, w) PROVE ToBeServed(t, cs, v)
  BY <1>3, <1>8 DEF ToBeServed
<1> QED BY <1>4, <1>5, <1>6, <1>7, <1>8

-----------------------------------------------------------------------------
(* What the user does *)

\* A tab with another state fits, if what depends on that state does.
LEMMA OtherTab ==
    ASSUME NEW h, NEW t, NEW new, NEW cs, NEW w, AllFit(h, t, cs, w), t.letGo \subseteq new.letGo,
           DeletingInv(new, UnderWay(cs, w)), PendingInv(h, new, UnderWay(cs, w)),
           NoticeInv(new, UnderWay(cs, w)), RowsInv(h, new, cs, w)
    PROVE  AllFit(h, new, cs, w)
BY DEF Born, AllFit, BornInv, LetGoInv

\* A command more.
LEMMA MoreFits ==
    ASSUME NEW h, NEW t, NEW cs, NEW w, NEW d, NEW more, more = cs \cup {d}, AllFit(h, t, cs, w),
           d.op # "subscribe" => Formed(d),
           d.op = "delete" => d.chat \in t.letGo,
           d.step = "close" => d.active \in t.letGo,
           d.op \in {"fork", "merge"} /\ d.step # "create" => d.chat \in Born(h, t)
    PROVE  AllFit(h, t, more, w)
<1> USE DEF AllFit
<1>1. UnderWay(cs, w) \subseteq UnderWay(more, w)
  BY DEF UnderWay
<1>2. ActivesInv(more, w) /\ LetGoInv(t, more)
  BY DEF ActivesInv, LetGoInv
<1>3. BornInv(h, t, more, w)
  BY DEF BornInv
<1>4. DeletingInv(t, UnderWay(more, w)) /\ PendingInv(h, t, UnderWay(more, w)) /\ NoticeInv(t, UnderWay(more, w))
  BY <1>1 DEF DeletingInv, PendingInv, NoticeInv
<1>5. RowsInv(h, t, more, w)
  BY DEF RowsInv
<1> QED BY <1>2, <1>3, <1>4, <1>5

\* The types of a command.
LEMMA CommandGives ==
    ASSUME NEW op \in {"create", "delete", "fork", "merge"}, NEW chat \in ChatKeys,
           NEW step \in {"sent", "create"}, NEW active \in Place, NEW d, d = Command(op, chat, step, active)
    PROVE  d \in NavCommand /\ d.op = op /\ d.chat = chat /\ d.step = step /\ d.active = active
BY DEF Command, NavCommand

\* A row is followed.
LEMMA FollowKeeps ==
    ASSUME NavInv, NEW chat \in ChatKeys, NEW cached \in BOOLEAN, FollowRow(chat, cached)
    PROVE  NavInv'
<1> DEFINE t == Routed(tab, chat, cached)
<1>1. /\ chat # tab.route /\ Renders(t, commands) /\ UNCHANGED <<used, chatHub, arrivals>>
  BY DEF FollowRow
<1>2. chat \in Place /\ chat # Home
  BY NavigationConstants DEF Place
<1>3. NavTyped /\ tab \in NavTabRecord /\ AllFit(chatHub, tab, commands, arrivals)
  BY DEF NavInv, NavTyped
<1>4. t = Routed(tab, chat, cached)
  OBVIOUS
<1> HIDE DEF t
<1>5. /\ t \in NavTabRecord /\ SameTab(t, tab) /\ t.route = chat /\ t.pending = tab.pending /\ t.visit = tab.visit + 1
  BY <1>1, <1>2, <1>3, <1>4, RoutedGives
<1>6. AllFit(chatHub, t, commands, arrivals)
  BY <1>3, <1>5, StillFits
<1> QED BY <1>1, <1>2, <1>3, <1>5, <1>6, RenderKeeps DEF NavTyped

\* A chat is created and shown.
LEMMA CreateKeeps ==
    ASSUME NavInv, NEW chat \in ChatKeys, CreateChat(chat)
    PROVE  NavInv'
<1> DEFINE base == [tab EXCEPT !.pending = chat]
           t == Routed(base, chat, FALSE)
           d == Command("create", chat, "sent", tab.route)
           others == commands \cup {d}
<1>1. /\ Renders(t, others) /\ UNCHANGED <<chatHub, arrivals>> /\ used' = used \cup {chat}
  BY DEF CreateChat, Fresh
<1>2. chat \in Place /\ chat # Home /\ FALSE \in BOOLEAN
  BY NavigationConstants DEF Place
<1>3. NavTyped /\ tab \in NavTabRecord /\ AllFit(chatHub, tab, commands, arrivals) /\ ToBeServed(tab, commands, arrivals)
  BY DEF NavInv, NavTyped
<1>4. /\ base \in NavTabRecord /\ SameTab(base, tab) /\ base.pending = chat /\ base.route = tab.route
      /\ base.visit = tab.visit /\ base.chatReady = tab.chatReady
  BY <1>2, <1>3 DEF NavTabRecord, SameTab
<1>5. d \in NavCommand /\ d.op = "create" /\ d.chat = chat /\ d.step = "sent" /\ d.active \in Place
  <2>1. tab.route \in Place /\ d = Command("create", chat, "sent", tab.route)
    BY <1>3 DEF NavTabRecord
  <2> HIDE DEF d
  <2> QED BY <2>1, CommandGives
<1>6. t = Routed(base, chat, FALSE)
  OBVIOUS
<1> HIDE DEF base, d
<1> DEFINE new == t
<1> HIDE DEF new, t
<1>7. /\ t \in NavTabRecord /\ SameTab(t, base) /\ t.route = chat /\ t.pending = chat
      /\ (chat = base.route => t = base) /\ (chat # base.route => t.visit = base.visit + 1)
  <2> DEFINE no == FALSE
  <2>1. no \in BOOLEAN /\ t = Routed(base, chat, no)
    BY <1>6
  <2> HIDE DEF no
  <2> QED BY <1>2, <1>4, <2>1, RoutedGives
<1>8. AllFit(chatHub, tab, others, arrivals)
  BY <1>3, <1>5, MoreFits DEF Formed
<1>9. SameTab(t, tab) /\ t.letGo = tab.letGo /\ t.rows = tab.rows /\ t.boot = tab.boot /\ t.deleting = tab.deleting
  BY <1>4, <1>7 DEF SameTab
<1>10. /\ DeletingInv(t, UnderWay(others, arrivals)) /\ NoticeInv(t, UnderWay(others, arrivals))
       /\ RowsInv(chatHub, t, others, arrivals)
  BY <1>8, <1>9 DEF AllFit, DeletingInv, NoticeInv, RowsInv
<1>11. PendingInv(chatHub, t, UnderWay(others, arrivals))
  BY <1>5, <1>7 DEF UnderWay, PendingInv
<1>12. AllFit(chatHub, t, others, arrivals)
  BY <1>8, <1>9, <1>10, <1>11, OtherTab
<1>13. \/ t.visit = tab.visit /\ ToBeServed(t, others, arrivals)
       \/ t.visit = tab.visit + 1 /\ (~t.chatReady => t.route # Home)
  BY <1>3, <1>4, <1>7, <1>2 DEF ToBeServed
<1>14. others \in SUBSET NavCommand /\ used' \subseteq ChatKeys /\ arrivals' = arrivals /\ arrivals \in Seq(HubMessage)
  BY <1>1, <1>3, <1>5 DEF NavTyped
<1> HIDE DEF others
<1> QED BY <1>1, <1>3, <1>7, <1>12, <1>13, <1>14, RenderKeeps

\* A tab whose place and chats are the same, and nothing else is changed.
LEMMA SamePlaceKeeps ==
    ASSUME NavInv, tab' \in NavTabRecord, UNCHANGED <<used, chatHub, commands, arrivals, evicted>>,
           tab'.route = tab.route, tab'.visit = tab.visit, tab'.pending = tab.pending,
           tab'.rows = tab.rows, tab'.chatReady = tab.chatReady, tab'.deleting = tab.deleting,
           tab'.letGo = tab.letGo, tab'.boot.phase \in {"compacting", "starting"} => tab'.boot = tab.boot
    PROVE  NavInv'
<1> DEFINE new == tab'
<1>1. AllFit(chatHub, tab, commands, arrivals)
  BY DEF NavInv
<1>2. /\ DeletingInv(new, UnderWay(commands, arrivals)) /\ NoticeInv(new, UnderWay(commands, arrivals))
      /\ RowsInv(chatHub, new, commands, arrivals)
  BY <1>1 DEF AllFit, DeletingInv, NoticeInv, RowsInv
<1>3. PendingInv(chatHub, new, UnderWay(commands, arrivals))
  BY <1>1 DEF Born, AllFit, PendingInv
<1> HIDE DEF new
<1>4. tab.letGo \subseteq new.letGo
  BY DEF new
<1>5. AllFit(chatHub, new, commands, arrivals)
  BY <1>1, <1>2, <1>3, <1>4, OtherTab
<1>6. NavTyped' /\ SettledInv(tab') /\ ToBeServed(tab', commands, arrivals)
  BY DEF NavInv, NavTyped, SettledInv, ToBeServed
<1>7. chatHub' = chatHub /\ commands' = commands /\ arrivals' = arrivals
  OBVIOUS
<1> QED BY <1>5, <1>6, <1>7 DEF NavInv, new

\* The dialog is opened or closed, or a notice is taken away.
LEMMA DialogKeeps ==
    ASSUME NavInv, \/ \E chat \in ChatKeys : AskDelete(chat)
                   \/ DeleteDeclined \/ DismissBootstrapError
    PROVE  NavInv'
<1>1. tab \in NavTabRecord
  BY DEF NavInv, NavTyped
<1>2. ASSUME NEW dialog \in [chat: ChatKeys, active: Place, next: SUBSET ChatKeys] \cup {NoDialog},
             tab' = [tab EXCEPT !.dialog = dialog],
             UNCHANGED <<used, chatHub, commands, arrivals, evicted>>
      PROVE  NavInv'
  BY <1>1, <1>2, SamePlaceKeeps DEF NavTabRecord
<1>3. ASSUME NEW chat \in ChatKeys, AskDelete(chat) PROVE NavInv'
  <2> DEFINE dialog == [chat |-> chat, active |-> tab.route, next |-> tab.rows \ {chat}]
  <2>1. dialog \in [chat: ChatKeys, active: Place, next: SUBSET ChatKeys]
    BY <1>1 DEF NavTabRecord
  <2>2. tab' = [tab EXCEPT !.dialog = dialog] /\ UNCHANGED <<used, chatHub, commands, arrivals, evicted>>
    BY <1>3 DEF AskDelete
  <2> HIDE DEF dialog
  <2> QED BY <1>2, <2>1, <2>2
<1>4. CASE DeleteDeclined
  BY <1>2, <1>4 DEF DeleteDeclined
<1>5. CASE DismissBootstrapError
  BY <1>5, <1>1, SamePlaceKeeps DEF DismissBootstrapError, NoBoot, Place, NavTabRecord
<1> QED BY <1>3, <1>4, <1>5

\* The dialog is answered with a yes: the chat is hidden, and left if it was shown.
LEMMA ConfirmKeeps ==
    ASSUME NavInv, DeleteConfirmed
    PROVE  NavInv'
<1> DEFINE asked == tab.dialog
           x == asked.chat
           base == [tab EXCEPT !.dialog = NoDialog, !.deleting = @ \cup {asked.chat}, !.rows = @ \ {asked.chat},
                               !.letGo = @ \cup {asked.chat}]
           d == Command("delete", asked.chat, "sent", Home)
           others == commands \cup {d}
<1>1. NavTyped /\ tab \in NavTabRecord /\ AllFit(chatHub, tab, commands, arrivals) /\ ToBeServed(tab, commands, arrivals)
  BY DEF NavInv, NavTyped
<1>2. /\ asked # NoDialog /\ UNCHANGED <<used, chatHub, arrivals, acts>>
      /\ \E next \in IF asked.next = {} THEN {Home} ELSE asked.next, cached \in BOOLEAN :
             Renders(IF asked.chat = asked.active THEN Routed(base, next, cached) ELSE base, others)
  BY DEF DeleteConfirmed
<1>3. asked \in [chat: ChatKeys, active: Place, next: SUBSET ChatKeys]
  BY <1>1, <1>2 DEF NavTabRecord
<1>4. PICK next \in Place, cached \in BOOLEAN :
         Renders(IF asked.chat = asked.active THEN Routed(base, next, cached) ELSE base, others)
  <2>1. (IF asked.next = {} THEN {Home} ELSE asked.next) \subseteq Place
    BY <1>3 DEF Place
  <2> HIDE DEF asked, base, others
  <2> QED BY <1>2, <2>1
<1>5. x \in ChatKeys /\ Home \in Place
  BY <1>3 DEF Place
<1>6. /\ base \in NavTabRecord /\ base.route = tab.route /\ base.visit = tab.visit /\ base.pending = tab.pending
      /\ base.chatReady = tab.chatReady /\ base.rows = tab.rows \ {x} /\ base.deleting = tab.deleting \cup {x}
      /\ base.letGo = tab.letGo \cup {x} /\ base.boot = tab.boot
  <2> DEFINE del == tab.deleting \cup {x}
             rows == tab.rows \ {x}
             let == tab.letGo \cup {x}
  <2>1. base = [tab EXCEPT !.dialog = NoDialog, !.deleting = del, !.rows = rows, !.letGo = let]
    OBVIOUS
  <2>2. del \in SUBSET ChatKeys /\ rows \in SUBSET ChatKeys /\ let \in SUBSET Place
    BY <1>1, <1>5 DEF NavTabRecord, Place
  <2> HIDE DEF base, del, rows, let, x
  <2>3. /\ base \in NavTabRecord /\ base.route = tab.route /\ base.visit = tab.visit /\ base.pending = tab.pending
        /\ base.chatReady = tab.chatReady /\ base.rows = rows /\ base.deleting = del
        /\ base.letGo = let /\ base.boot = tab.boot
    BY <1>1, <2>1, <2>2 DEF NavTabRecord
  <2> QED BY <2>3 DEF del, rows, let
<1>7. d \in NavCommand /\ d.op = "delete" /\ d.chat = x /\ d.step = "sent" /\ d.active \in Place
  <2>1. d = Command("delete", x, "sent", Home)
    OBVIOUS
  <2> HIDE DEF d, x
  <2> QED BY <1>5, <2>1, CommandGives
<1> DEFINE t == IF x = asked.active THEN Routed(base, next, cached) ELSE base
<1>8. Renders(t, others)
  BY <1>4
<1>9. t = Routed(base, next, cached) \/ t = base
  OBVIOUS
<1> HIDE DEF asked, x, base, d, t
<1>10. /\ t \in NavTabRecord /\ SameTab(t, base) /\ t.pending = base.pending
       /\ \/ t.route = base.route /\ t.visit = base.visit /\ t.chatReady = base.chatReady
          \/ t.visit = base.visit + 1 /\ (~t.chatReady => t.route # Home)
  <2>1. CASE t = base
    BY <1>6, <2>1 DEF SameTab
  <2>2. CASE t = Routed(base, next, cached)
    <3>1. /\ t \in NavTabRecord /\ SameTab(t, base) /\ t.pending = base.pending /\ t.route = next
      BY <1>6, <2>2, RoutedGives
    <3>2. CASE next = base.route
      <4>1. t = base
        BY <1>6, <2>2, <3>2, RoutedGives
      <4> QED BY <2>1, <4>1
    <3>3. CASE next # base.route
      <4>1. t.visit = base.visit + 1
        BY <1>6, <2>2, <3>3, RoutedGives
      <4>2. t.chatReady <=> next = Home \/ cached
        BY <1>6, <2>2, <3>3, RoutedGives
      <4> QED BY <3>1, <4>1, <4>2
    <3> QED BY <3>2, <3>3
  <2> QED BY <1>9, <2>1, <2>2
<1>11. /\ t.letGo = tab.letGo \cup {x} /\ t.rows = tab.rows \ {x} /\ t.boot = tab.boot
       /\ t.deleting = tab.deleting \cup {x} /\ t.pending = tab.pending
  BY <1>6, <1>10 DEF SameTab
<1>13. d \in others /\ d \in UnderWay(others, arrivals) /\ UnderWay(commands, arrivals) \subseteq UnderWay(others, arrivals)
  BY DEF UnderWay
<1>14. DeletingInv(t, UnderWay(others, arrivals))
  BY <1>1, <1>7, <1>11, <1>13 DEF AllFit, DeletingInv
<1>15. NoticeInv(t, UnderWay(others, arrivals))
  BY <1>1, <1>11, <1>13 DEF AllFit, NoticeInv
<1>16. Born(chatHub, tab) \subseteq Born(chatHub, t)
  BY <1>11 DEF Born
<1>17. PendingInv(chatHub, t, UnderWay(others, arrivals))
  BY <1>1, <1>11, <1>13, <1>16 DEF AllFit, PendingInv
<1>18. RowsInv(chatHub, t, others, arrivals)
  BY <1>1, <1>11, <1>7, <1>13 DEF AllFit, RowsInv
<1>19. AllFit(chatHub, t, others, arrivals)
  BY <1>1, <1>7, <1>11, <1>16, <1>14, <1>15, <1>17, <1>18 DEF AllFit, ActivesInv, LetGoInv, Formed, BornInv
<1>20. \/ t.visit = tab.visit /\ ToBeServed(t, others, arrivals)
       \/ t.visit = tab.visit + 1 /\ (~t.chatReady => t.route # Home)
  BY <1>1, <1>6, <1>10 DEF ToBeServed
<1>21. others \in SUBSET NavCommand /\ used' \subseteq ChatKeys /\ arrivals' = arrivals /\ arrivals \in Seq(HubMessage)
       /\ chatHub' = chatHub
  BY <1>1, <1>2, <1>7 DEF NavTyped
<1> HIDE DEF others
<1> QED BY <1>1, <1>8, <1>10, <1>19, <1>20, <1>21, RenderKeeps

\* A fork or a merge begins.
LEMMA BootstrapKeeps ==
    ASSUME NavInv, NEW op \in {"fork", "merge"}, NEW chat \in ChatKeys, NEW source \in ChatKeys,
           Bootstrap(op, chat, source)
    PROVE  NavInv'
<1> DEFINE d == Command(op, chat, "create", source)
           more == commands \cup {d}
<1>1. commands' = more /\ used' = used \cup {chat} /\ UNCHANGED <<chatHub, tab, arrivals, evicted>>
  BY DEF Bootstrap, Fresh
<1>2. d \in NavCommand /\ d.op = op /\ d.chat = chat /\ d.step = "create" /\ d.active = source /\ source \in Place
  <2>1. source \in Place
    BY DEF Place
  <2> HIDE DEF d
  <2>2. d = Command(op, chat, "create", source)
    BY DEF d
  <2> QED BY <2>1, <2>2, CommandGives
<1> HIDE DEF d
<1>3. NavTyped /\ AllFit(chatHub, tab, commands, arrivals) /\ ToBeServed(tab, commands, arrivals) /\ SettledInv(tab)
  BY DEF NavInv
<1>4. AllFit(chatHub, tab, more, arrivals)
  BY <1>2, <1>3, MoreFits DEF Formed
<1>5. ToBeServed(tab, more, arrivals)
  BY <1>3 DEF ToBeServed
<1>6. NavTyped'
  BY <1>1, <1>2, <1>3 DEF NavTyped
<1>7. chatHub' = chatHub /\ tab' = tab /\ arrivals' = arrivals
  BY <1>1
<1> HIDE DEF more
<1> QED BY <1>1, <1>3, <1>4, <1>5, <1>6, <1>7 DEF NavInv

-----------------------------------------------------------------------------
(* What the hub does *)

\* Two sequences in a row.
LEMMA TwoInARow ==
    ASSUME NEW S, NEW p \in Seq(S), NEW q \in Seq(S), NEW r, r = p \o q
    PROVE  /\ r \in Seq(S) /\ Len(r) = Len(p) + Len(q) /\ Len(p) \in Nat /\ Len(q) \in Nat
           /\ \A k \in 1..Len(p) : r[k] = p[k]
           /\ \A k \in 1..Len(q) : r[Len(p) + k] = q[k]
OBVIOUS

\* What the hub sends after a command: an answer, a sidebar if the chats have changed, and
\* news of a chat.
SentAfter(w, answer, v, h, chats) ==
    LET m == Len(w) + Len(answer) IN
    /\ v \in Seq(HubMessage) /\ m <= Len(v)
    /\ \A k \in 1..Len(w) : v[k] = w[k]
    /\ \A k \in 1..Len(answer) : v[Len(w) + k] = answer[k]
    /\ \A k \in 1..Len(v) : k > m =>
          \/ k = m + 1 /\ v[k].topic = "sidebar" /\ v[k].rows = chats /\ chats # h.last
          \/ v[k].topic = "chat" /\ (v[k].known => v[k].chat \in chats)
    /\ chats # h.last => m + 1 \in 1..Len(v) /\ v[m + 1].topic = "sidebar" /\ v[m + 1].rows = chats

\* A broadcast appends just that, and what was broadcast is remembered.
LEMMA BroadcastGives ==
    ASSUME NEW w \in Seq(HubMessage), w = arrivals, NEW h \in NavHubRecord, NEW chats \in SUBSET ChatKeys,
           NEW answer \in Seq(ReplyMessage), HubBroadcasts(h, chats, answer)
    PROVE  /\ SentAfter(w, answer, arrivals', h, chats)
           /\ chatHub' \in NavHubRecord /\ chatHub'.chats = chats /\ chatHub'.last = chats
           /\ chatHub'.gone = h.gone /\ chatHub'.large = h.large
           /\ chatHub'.refused = (IF chats # h.last THEN {} ELSE h.refused)
<1> DEFINE known == h.topic \in chats
           s == IF chats # h.last THEN <<SidebarOf(chats)>> ELSE <<>>
           u == IF h.topic # Home /\ known # h.known THEN <<ChatOf(h.visit, h.topic, known)>> ELSE <<>>
           refused == IF chats # h.last THEN {} ELSE h.refused
           w1 == w \o answer
           w2 == w1 \o s
           v == arrivals'
<1>1. v = w2 \o u /\ chatHub' = [h EXCEPT !.chats = chats, !.last = chats, !.known = known, !.refused = refused]
  BY DEF HubBroadcasts
<1>2. answer \in Seq(HubMessage)
  BY SeqMonotonic DEF HubMessage
<1>3. s \in Seq(HubMessage) /\ Len(s) = (IF chats # h.last THEN 1 ELSE 0)
      /\ (chats # h.last => s[1].topic = "sidebar" /\ s[1].rows = chats)
  <2>1. SidebarOf(chats) \in HubMessage /\ SidebarOf(chats).topic = "sidebar" /\ SidebarOf(chats).rows = chats
    BY DEF SidebarOf, SidebarMessage, HubMessage
  <2> QED BY <2>1
<1>4. u \in Seq(HubMessage) /\ Len(u) \in {0, 1}
      /\ (Len(u) = 1 => u[1].topic = "chat" /\ (u[1].known => u[1].chat \in chats))
  <2> DEFINE m == ChatOf(h.visit, h.topic, known)
  <2>1. known \in BOOLEAN
    OBVIOUS
  <2>2. m.topic = "chat" /\ m.known = known /\ m.chat = h.topic
    BY DEF ChatOf
  <2>3. h.topic # Home => m \in HubMessage
    BY <2>1 DEF ChatOf, ChatMessage, HubMessage, NavHubRecord, Place
  <2>4. CASE h.topic # Home /\ known # h.known
    <3>1. u = <<m>> /\ m \in HubMessage
      BY <2>3, <2>4
    <3>2. m.known => m.chat \in chats
      BY <2>2
    <3> HIDE DEF m, u, known
    <3> QED BY <2>2, <3>1, <3>2
  <2>5. CASE ~(h.topic # Home /\ known # h.known)
    BY <2>5
  <2> QED BY <2>4, <2>5
<1>5. chatHub' \in NavHubRecord /\ chatHub'.chats = chats /\ chatHub'.last = chats
      /\ chatHub'.gone = h.gone /\ chatHub'.large = h.large /\ chatHub'.refused = refused
  <2>1. known \in BOOLEAN /\ refused \in SUBSET ChatKeys
    BY DEF NavHubRecord
  <2> HIDE DEF known, refused
  <2> QED BY <1>1, <2>1 DEF NavHubRecord
<1> HIDE DEF s, u, w1, w2
<1>6. /\ w1 \in Seq(HubMessage) /\ Len(w1) = Len(w) + Len(answer) /\ Len(w) \in Nat /\ Len(answer) \in Nat
      /\ \A k \in 1..Len(w) : w1[k] = w[k]
      /\ \A k \in 1..Len(answer) : w1[Len(w) + k] = answer[k]
  BY <1>2, TwoInARow DEF w1
<1>7. /\ w2 \in Seq(HubMessage) /\ Len(w2) = Len(w1) + Len(s)
      /\ \A k \in 1..Len(w1) : w2[k] = w1[k]
      /\ \A k \in 1..Len(s) : w2[Len(w1) + k] = s[k]
  <2>1. w2 = w1 \o s
    BY DEF w2
  <2>0. w1 \in Seq(HubMessage) /\ s \in Seq(HubMessage)
    BY <1>3, <1>6
  <2>2. w2 \in Seq(HubMessage) /\ Len(w2) = Len(w1) + Len(s)
    BY <2>0, <2>1, ConcatProperties, Zenon
  <2>3. \A k \in 1..Len(w1) : w2[k] = w1[k]
    BY <2>0, <2>1
  <2>4. \A k \in 1..Len(s) : w2[Len(w1) + k] = s[k]
    BY <2>0, <2>1
  <2> QED BY <2>2, <2>3, <2>4
<1>8. /\ v \in Seq(HubMessage) /\ Len(v) = Len(w2) + Len(u)
      /\ \A k \in 1..Len(w2) : v[k] = w2[k]
      /\ \A k \in 1..Len(u) : v[Len(w2) + k] = u[k]
  <2> HIDE DEF v
  <2>1. v = w2 \o u
    BY <1>1 DEF v
  <2>0. w2 \in Seq(HubMessage) /\ u \in Seq(HubMessage)
    BY <1>4, <1>7
  <2>2. v \in Seq(HubMessage) /\ Len(v) = Len(w2) + Len(u)
    BY <2>0, <2>1, ConcatProperties, Zenon
  <2>3. \A k \in 1..Len(w2) : v[k] = w2[k]
    BY <2>0, <2>1
  <2>4. \A k \in 1..Len(u) : v[Len(w2) + k] = u[k]
    BY <2>0, <2>1
  <2> QED BY <2>2, <2>3, <2>4 DEF v
<1> HIDE DEF v
<1> DEFINE m == Len(w) + Len(answer)
<1>9. /\ m <= Len(v) /\ \A k \in 1..Len(w) : v[k] = w[k]
      /\ \A k \in 1..Len(answer) : v[Len(w) + k] = answer[k]
  <2>1. Len(s) \in Nat /\ Len(u) \in Nat
    BY <1>3, <1>4
  <2>2. \A k \in 1..Len(w) : k \in 1..Len(w1) /\ k \in 1..Len(w2)
    BY <1>6, <1>7, <2>1
  <2>3. \A k \in 1..Len(answer) : Len(w) + k \in 1..Len(w1) /\ Len(w) + k \in 1..Len(w2)
    BY <1>6, <1>7, <2>1
  <2> QED BY <1>6, <1>7, <1>8, <2>1, <2>2, <2>3
<1>10. chats # h.last => m + 1 \in 1..Len(v) /\ v[m + 1].topic = "sidebar" /\ v[m + 1].rows = chats
  BY <1>3, <1>4, <1>6, <1>7, <1>8
<1>11. ASSUME NEW k \in 1..Len(v), k > m
       PROVE  \/ k = m + 1 /\ v[k].topic = "sidebar" /\ v[k].rows = chats /\ chats # h.last
              \/ v[k].topic = "chat" /\ (v[k].known => v[k].chat \in chats)
  <2>1. CASE chats # h.last /\ k = m + 1
    BY <1>10, <2>1
  <2>2. CASE ~(chats # h.last /\ k = m + 1)
    <3>1. Len(u) = 1 /\ k = Len(w2) + 1
      <4>1. Len(s) \in {0, 1} /\ (Len(s) = 1 => k # m + 1)
        BY <1>3, <2>2
      <4>2. Len(w1) = m /\ m \in Nat /\ Len(w2) = m + Len(s) /\ Len(v) = m + Len(s) + Len(u) /\ k \in Int
        BY <1>6, <1>7, <1>8, <1>11
      <4>3. Len(s) \in {0, 1} /\ Len(u) \in {0, 1} /\ k > m /\ k <= Len(v)
        BY <1>4, <1>11, <4>1
      <4> HIDE DEF m
      <4> DEFINE ls == Len(s)
                 lu == Len(u)
      <4>4. /\ ls \in {0, 1} /\ lu \in {0, 1} /\ k > m /\ k <= m + ls + lu /\ m \in Nat /\ k \in Int
            /\ (ls = 1 => k # m + 1)
        BY <4>1, <4>2, <4>3
      <4> HIDE DEF ls, lu
      <4>5. lu = 1 /\ k = m + ls + 1
        BY <4>4
      <4> QED BY <4>2, <4>5 DEF ls, lu
    <3>2. v[k] = u[1]
      BY <1>8, <3>1
    <3> QED BY <1>4, <3>1, <3>2
  <2> QED BY <2>1, <2>2
<1> QED BY <1>5, <1>8, <1>9, <1>10, <1>11 DEF SentAfter, v

\* What the hub does to commands: every command gone is answered, the chats gone were let
\* go, and a delete that failed is noted.
Handled(h, g, t, cs, rest, w, answer, v, chats) ==
    /\ rest \subseteq cs /\ w \in Seq(HubMessage) /\ answer \in Seq(ReplyMessage)
    /\ AllFit(h, t, cs, w) /\ SentAfter(w, answer, v, h, chats)
    /\ g.chats = chats /\ g.last = chats /\ h.gone \subseteq g.gone /\ h.chats \subseteq Born(g, t)
    /\ chats = h.last => h.refused \subseteq g.refused
    /\ \A c \in cs : c.op # "subscribe" => c \in rest \/ \E k \in 1..Len(answer) : answer[k].command = c
    /\ \A k \in 1..Len(answer) :
          LET c == answer[k].command IN
          /\ c \in cs /\ c.op # "subscribe"
          /\ c.op = "delete" => c.chat \notin chats \/ c.chat \in g.refused
          /\ answer[k].ok /\ Creates(c) => c.chat \in chats

\* What is left fits.
LEMMA HubFits ==
    ASSUME NEW h, NEW g, NEW t, NEW cs, NEW rest, NEW w, NEW answer, NEW v, NEW chats,
           Handled(h, g, t, cs, rest, w, answer, v, chats)
    PROVE  AllFit(g, t, rest, v)
<1>0. /\ rest \subseteq cs /\ w \in Seq(HubMessage) /\ answer \in Seq(ReplyMessage)
      /\ AllFit(h, t, cs, w) /\ SentAfter(w, answer, v, h, chats)
      /\ g.chats = chats /\ g.last = chats /\ h.gone \subseteq g.gone /\ h.chats \subseteq Born(g, t)
      /\ (chats = h.last => h.refused \subseteq g.refused)
      /\ \A c \in cs : c.op # "subscribe" => c \in rest \/ \E k \in 1..Len(answer) : answer[k].command = c
      /\ \A k \in 1..Len(answer) :
              LET c == answer[k].command IN
              /\ c \in cs /\ c.op # "subscribe"
              /\ c.op = "delete" => c.chat \notin chats \/ c.chat \in g.refused
              /\ answer[k].ok /\ Creates(c) => c.chat \in chats
  BY DEF Handled
<1> USE <1>0
<1> DEFINE n == Len(w)
           a == Len(answer)
           m == n + a
<1>1. n \in Nat /\ a \in Nat /\ m \in Nat /\ v \in Seq(HubMessage) /\ Len(v) \in Nat /\ m <= Len(v)
  BY DEF SentAfter
<1>2. /\ \A k \in 1..n : k \in 1..Len(v) /\ v[k] = w[k]
      /\ \A k \in 1..a : n + k \in 1..Len(v) /\ n + k \in 1..m /\ v[n + k] = answer[k]
                         /\ answer[k].topic = "reply" /\ answer[k] \in ReplyMessage
  <2>1. /\ \A k \in 1..n : v[k] = w[k]
        /\ \A k \in 1..a : v[n + k] = answer[k]
    BY DEF SentAfter
  <2>2. \A k \in 1..a : answer[k] \in ReplyMessage
    OBVIOUS
  <2>3. \A k \in 1..a : answer[k].topic = "reply"
    BY <2>2 DEF ReplyMessage
  <2> QED BY <1>1, <2>1, <2>2, <2>3
<1>3. /\ \A k \in 1..Len(v) : k > m =>
             \/ k = m + 1 /\ v[k].topic = "sidebar" /\ v[k].rows = chats /\ chats # h.last
             \/ v[k].topic = "chat"
      /\ chats # h.last => m + 1 \in 1..Len(v) /\ v[m + 1].topic = "sidebar" /\ v[m + 1].rows = chats
  BY DEF SentAfter
<1>4. ASSUME NEW k \in 1..Len(v) PROVE k \in 1..n \/ (\E l \in 1..a : k = n + l) \/ k > m
  <2>1. CASE k > n /\ k <= m
    <3>1. k - n \in 1..a /\ k = n + (k - n)
      BY <1>1, <2>1
    <3> QED BY <3>1
  <2> QED BY <1>1, <2>1
<1>5. UnderWay(cs, w) = cs \cup {w[i].command : i \in {j \in 1..n : w[j].topic = "reply"}}
  BY DEF UnderWay
<1> HIDE DEF n, a, m
<1>6. \A i \in 1..n : v[i].topic = w[i].topic
  BY <1>2
<1>7. \A k \in 1..Len(v) : v[k].topic = "reply" =>
          \/ k \in 1..n /\ w[k].topic = "reply" /\ v[k] = w[k]
          \/ \E l \in 1..a : k = n + l /\ v[k] = answer[l]
  BY <1>2, <1>3, <1>4
<1>8. \A c \in UnderWay(cs, w) : c.op # "subscribe" => c \in UnderWay(rest, v)
  <2> SUFFICES ASSUME NEW c \in UnderWay(cs, w), c.op # "subscribe" PROVE c \in UnderWay(rest, v)
    OBVIOUS
  <2>1. CASE c \in cs
    <3>1. CASE c \in rest
      BY <3>1 DEF UnderWay
    <3>2. CASE c \notin rest
      <4>1. PICK k \in 1..a : answer[k].command = c
        BY <2>1, <3>2 DEF a
      <4>2. n + k \in 1..Len(v) /\ v[n + k].topic = "reply" /\ v[n + k].command = c
        BY <1>2, <4>1
      <4> QED BY <4>2 DEF UnderWay
    <3> QED BY <3>1, <3>2
  <2>2. CASE c \notin cs
    <3>1. PICK j \in 1..n : w[j].topic = "reply" /\ c = w[j].command
      BY <1>5, <2>2
    <3>2. j \in 1..Len(v) /\ v[j].topic = "reply" /\ v[j].command = c
      BY <1>2, <3>1
    <3> QED BY <3>2 DEF UnderWay
  <2> QED BY <2>1, <2>2
<1>9. Born(h, t) \subseteq Born(g, t)
  BY DEF Born
<1>10. ActivesInv(rest, v)
  BY <1>7 DEF a, AllFit, ActivesInv, n
<1>11. DeletingInv(t, UnderWay(rest, v)) /\ PendingInv(g, t, UnderWay(rest, v)) /\ NoticeInv(t, UnderWay(rest, v))
  BY <1>8, <1>9 DEF AllFit, DeletingInv, PendingInv, NoticeInv
<1>12. LetGoInv(t, rest)
  BY DEF AllFit, LetGoInv
<1>13. BornInv(g, t, rest, v)
  <2>1. \A c \in cs : c.op \in {"fork", "merge"} /\ c.step # "create" => c.chat \in Born(g, t)
    BY <1>9 DEF AllFit, BornInv
  <2>2. ASSUME NEW i \in 1..Len(v), v[i].topic = "reply", v[i].command.op \in {"create", "fork", "merge"},
               v[i].ok \/ (v[i].command.op # "create" /\ v[i].command.step # "create")
        PROVE  v[i].command.chat \in Born(g, t)
    <3>1. CASE i \in 1..n /\ w[i].topic = "reply" /\ v[i] = w[i]
      BY <2>2, <3>1, <1>9 DEF AllFit, BornInv, n
    <3>2. CASE \E l \in 1..a : i = n + l /\ v[i] = answer[l]
      <4>1. PICK l \in 1..a : v[i] = answer[l]
        BY <3>2
      <4> DEFINE c == answer[l].command
      <4>2. c \in cs /\ (answer[l].ok /\ Creates(c) => c.chat \in chats)
        BY DEF a
      <4>3. CASE Creates(c)
        BY <2>2, <4>1, <4>3, <4>2 DEF Creates, Born
      <4>4. CASE ~Creates(c)
        BY <2>1, <2>2, <4>1, <4>2, <4>4 DEF Creates
      <4> QED BY <4>3, <4>4
    <3> QED BY <1>7, <2>2, <3>1, <3>2
  <2> QED BY <2>1, <2>2 DEF BornInv
<1>14. RowsInv(g, t, rest, v)
  <2>0. RowsInv(h, t, cs, w)
    BY DEF AllFit
  <2>1. ASSUME NEW i \in 1..Len(v), v[i].topic = "sidebar", ~Later(v, i) PROVE v[i].rows = g.chats
    <3>1. CASE chats # h.last
      BY <1>3, <3>1, <2>1, <1>1 DEF Later
    <3>2. CASE chats = h.last
      <4>1. i \in 1..n
        BY <1>3, <2>1, <3>2, <1>2, <1>4
      <4>2. ~Later(w, i)
        BY <1>2, <2>1 DEF Later, n
      <4>3. w[i].rows = h.chats /\ h.chats = h.last
        BY <1>6, <2>0, <2>1, <4>1, <4>2 DEF RowsInv, n
      <4> QED BY <1>2, <3>2, <4>1, <4>3
    <3> QED BY <3>1, <3>2
  <2>2. ASSUME \A i \in 1..Len(v) : v[i].topic # "sidebar"
        PROVE  /\ t.rows \subseteq g.chats
               /\ \A x \in g.chats \ t.rows : x \in g.refused \/ \E c \in rest : c.op = "delete" /\ c.chat = x
    <3>1. chats = h.last
      BY <1>3, <2>2
    <3>2. \A i \in 1..n : w[i].topic # "sidebar"
      BY <1>2, <2>2
    <3>3. /\ t.rows \subseteq h.chats /\ h.chats = chats
          /\ \A x \in h.chats \ t.rows : x \in h.refused \/ \E c \in cs : c.op = "delete" /\ c.chat = x
      BY <2>0, <3>1, <3>2 DEF RowsInv, n
    <3>4. ASSUME NEW x \in g.chats \ t.rows PROVE x \in g.refused \/ \E c \in rest : c.op = "delete" /\ c.chat = x
      <4>1. CASE x \in h.refused
        BY <3>1, <4>1
      <4>2. CASE \E c \in cs : c.op = "delete" /\ c.chat = x
        <5>1. PICK c \in cs : c.op = "delete" /\ c.chat = x
          BY <4>2
        <5>2. CASE c \in rest
          BY <5>1, <5>2
        <5>3. CASE \E k \in 1..Len(answer) : answer[k].command = c
          BY <3>4, <5>1, <5>3
        <5> QED BY <5>1, <5>2, <5>3
      <4> QED BY <3>3, <4>1, <4>2
    <3> QED BY <3>3, <3>4
  <2> QED BY <2>1, <2>2 DEF RowsInv
<1>15. RefusedInv(g, v)
  <2> SUFFICES ASSUME NEW i \in 1..Len(v), v[i].topic = "reply", v[i].command.op = "delete"
               PROVE  LET x == v[i].command.chat IN x \notin g.chats \/ x \in g.refused \/ Later(v, i)
    BY DEF RefusedInv
  <2> DEFINE x == v[i].command.chat
  <2>1. CASE \E l \in 1..a : i = n + l /\ v[i] = answer[l]
    BY <2>1 DEF a
  <2>2. CASE i \in 1..n /\ w[i].topic = "reply" /\ v[i] = w[i]
    <3>1. CASE chats # h.last
      BY <1>1, <1>3, <2>2, <3>1 DEF m, Later
    <3>2. CASE chats = h.last
      <4>1. x \notin h.chats \/ x \in h.refused \/ Later(w, i)
        BY <2>2 DEF AllFit, RefusedInv, n
      <4>2. h.chats = chats
        BY <3>2 DEF AllFit, RowsInv
      <4>3. CASE Later(w, i)
        BY <4>3, <1>2 DEF Later, n
      <4> QED BY <3>2, <4>1, <4>2, <4>3
    <3> QED BY <3>1, <3>2
  <2> QED BY <1>7, <2>1, <2>2
<1> QED BY <1>10, <1>11, <1>12, <1>13, <1>14, <1>15 DEF AllFit

\* A step of the hub that is fitting: chats are new as commands that are gone made them, and
\* another tab's are those that are gone.
ChatHubStep ==
    /\ \E answer : Handled(chatHub, chatHub', tab, commands, commands', arrivals, answer, arrivals', chatHub'.chats)
    /\ chatHub'.large = chatHub.large /\ UNCHANGED <<used, tab, evicted>>
    /\ \A x \in chatHub'.chats : x \in chatHub.chats \/ \E c \in commands \ commands' : Creates(c) /\ c.chat = x
    /\ chatHub'.gone \subseteq chatHub.gone \cup (chatHub.chats \ chatHub'.chats)

\* A step of the hub keeps the invariant, if what it leaves fits the tab and a
\* subscription that is gone was answered.
LEMMA HubKeeps ==
    ASSUME NavInv, UNCHANGED <<used, tab, evicted>>, commands' \subseteq commands, arrivals' \in Seq(HubMessage),
           chatHub' \in NavHubRecord, AllFit(chatHub', tab, commands', arrivals'),
           \A k \in 1..Len(arrivals) : k \in 1..Len(arrivals') /\ arrivals'[k] = arrivals[k],
           \A c \in commands : c.op = "subscribe" =>
               \/ c \in commands'
               \/ \E k \in 1..Len(arrivals') : arrivals'[k].topic = "chat" /\ arrivals'[k].visit = c.active
    PROVE  NavInv'
<1>1. NavTyped'
  BY DEF NavInv, NavTyped
<1>2. ToBeServed(tab, commands', arrivals')
  <2> DEFINE s == Command("subscribe", tab.route, "sent", tab.visit)
  <2>1. s.op = "subscribe" /\ s.active = tab.visit
    BY DEF Command
  <2> HIDE DEF s
  <2>2. CASE s \in commands
    BY <2>1, <2>2 DEF NavInv, ToBeServed, s
  <2>3. CASE s \notin commands
    BY <2>3 DEF NavInv, ToBeServed, s
  <2> QED BY <2>2, <2>3
<1>3. SettledInv(tab)
  BY DEF NavInv
<1>4. tab' = tab
  OBVIOUS
<1> QED BY <1>1, <1>2, <1>3, <1>4 DEF NavInv

\* A message more, which is no sidebar.
LEMMA OneMore ==
    ASSUME NEW w \in Seq(HubMessage), NEW m \in HubMessage, NEW v, v = Append(w, m), NEW h
    PROVE  /\ v \in Seq(HubMessage) /\ Len(v) = Len(w) + 1 /\ v[Len(w) + 1] = m
           /\ \A k \in 1..Len(w) : k \in 1..Len(v) /\ v[k] = w[k]
           /\ m \in ReplyMessage => <<m>> \in Seq(ReplyMessage) /\ SentAfter(w, <<m>>, v, h, h.last)
           /\ m.topic = "chat" /\ (m.known => m.chat \in h.last) => SentAfter(w, <<>>, v, h, h.last)
<1>1. /\ v \in Seq(HubMessage) /\ Len(v) = Len(w) + 1 /\ v[Len(w) + 1] = m /\ Len(w) \in Nat
      /\ \A k \in 1..Len(w) : k \in 1..Len(v) /\ v[k] = w[k]
  OBVIOUS
<1>2. ASSUME m \in ReplyMessage PROVE <<m>> \in Seq(ReplyMessage) /\ SentAfter(w, <<m>>, v, h, h.last)
  <2> DEFINE answer == <<m>>
  <2>1. answer \in Seq(ReplyMessage) /\ Len(answer) = 1 /\ answer[1] = m
    BY <1>2
  <2> HIDE DEF answer
  <2>2. \A k \in 1..Len(answer) : v[Len(w) + k] = answer[k]
    BY <1>1, <2>1
  <2>3. \A k \in 1..Len(v) : ~(k > Len(w) + Len(answer))
    BY <1>1, <2>1
  <2>4. Len(w) + Len(answer) <= Len(v)
    BY <1>1, <2>1
  <2>5. SentAfter(w, answer, v, h, h.last)
    BY <1>1, <2>2, <2>3, <2>4 DEF SentAfter
  <2> QED BY <2>1, <2>5 DEF answer
<1>3. ASSUME m.topic = "chat", m.known => m.chat \in h.last PROVE SentAfter(w, <<>>, v, h, h.last)
  <2> DEFINE answer == <<>>
  <2>1. Len(answer) = 0
    OBVIOUS
  <2> HIDE DEF answer
  <2>2. \A k \in 1..Len(answer) : v[Len(w) + k] = answer[k]
    BY <2>1
  <2>3. \A k \in 1..Len(v) : k > Len(w) + Len(answer) => v[k] = m
    BY <1>1, <2>1
  <2>4. Len(w) + Len(answer) <= Len(v)
    BY <1>1, <2>1
  <2>5. SentAfter(w, answer, v, h, h.last)
    BY <1>1, <1>3, <2>2, <2>3, <2>4 DEF SentAfter
  <2> QED BY <2>5 DEF answer
<1> QED BY <1>1, <1>2, <1>3

\* The types of an answer.
LEMMA ReplyGives ==
    ASSUME NEW c \in NavCommand, NEW ok \in BOOLEAN, NEW r, r = Reply(c, ok)
    PROVE  r \in ReplyMessage /\ r \in HubMessage /\ r.topic = "reply" /\ r.command = c /\ r.ok = ok
BY DEF Reply, ReplyMessage, HubMessage

\* A command is carried out.
LEMMA DoneKeeps ==
    ASSUME NavInv, NEW command \in commands, NEW yes \in BOOLEAN, yes, HubHandles(command, yes)
    PROVE  NavInv' /\ ChatHubStep
<1> DEFINE subject == Subject(command)
           chats == IF Creates(command) THEN chatHub.chats \cup {subject}
                    ELSE IF Deletes(command) THEN chatHub.chats \ {subject} ELSE chatHub.chats
           r == Reply(command, TRUE)
           answer == <<r>>
           rest == commands \ {command}
           h == chatHub
           w == arrivals
           v == arrivals'
           g == chatHub'
<1>1. /\ command.op # "subscribe" /\ (Creates(command) \/ subject \in h.chats)
      /\ commands' = rest /\ HubBroadcasts(h, chats, answer) /\ UNCHANGED <<used, tab, evicted>>
  BY DEF HubHandles
<1>2. /\ NavTyped /\ AllFit(h, tab, commands, w) /\ h \in NavHubRecord /\ w \in Seq(HubMessage)
      /\ command \in NavCommand /\ Formed(command)
  BY <1>1 DEF NavInv, NavTyped, AllFit, ActivesInv
<1>3. r \in ReplyMessage /\ r.command = command
  BY <1>2, ReplyGives
<1>4. /\ Creates(command) => subject = command.chat
      /\ command.op = "delete" => subject = command.chat /\ ~Creates(command) /\ Deletes(command)
      /\ command.step = "close" => subject = command.active
      /\ command.chat \in ChatKeys
  BY <1>2 DEF Formed, Creates, Deletes, Subject, NavCommand
<1>5. chats \in SUBSET ChatKeys
  BY <1>2, <1>4 DEF NavHubRecord
<1>6. /\ h.chats \subseteq chats \cup tab.letGo
      /\ command.op = "delete" => command.chat \notin chats
      /\ Creates(command) => command.chat \in chats
  BY <1>2, <1>4 DEF AllFit, LetGoInv, Deletes
<1> HIDE DEF r, subject, chats
<1>7. answer \in Seq(ReplyMessage) /\ Len(answer) = 1 /\ answer[1] = r
  BY <1>3
<1> HIDE DEF answer, w
<1>8. w = arrivals
  BY DEF w
<1>9. SentAfter(w, answer, v, h, chats)
  BY <1>1, <1>2, <1>5, <1>7, <1>8, BroadcastGives
<1>10. /\ g \in NavHubRecord /\ g.chats = chats /\ g.last = chats /\ g.gone = h.gone /\ g.large = h.large
       /\ g.refused = (IF chats # h.last THEN {} ELSE h.refused)
  BY <1>1, <1>2, <1>5, <1>7, <1>8, BroadcastGives
<1> HIDE DEF g, h, v, rest
<1>11. h.chats \subseteq Born(g, tab)
  BY <1>6, <1>10 DEF Born
<1>12. /\ \A c \in commands : c.op # "subscribe" => c \in rest \/ \E k \in 1..Len(answer) : answer[k].command = c
       /\ \A k \in 1..Len(answer) :
              LET c == answer[k].command IN
              /\ c \in commands /\ c.op # "subscribe"
              /\ c.op = "delete" => c.chat \notin chats \/ c.chat \in g.refused
              /\ answer[k].ok /\ Creates(c) => c.chat \in chats
  BY <1>1, <1>3, <1>6, <1>7 DEF rest
<1>13. rest \subseteq commands
  BY DEF rest
<1>14. Handled(h, g, tab, commands, rest, w, answer, v, chats)
  BY <1>2, <1>7, <1>9, <1>10, <1>11, <1>12, <1>13 DEF Handled
<1>17. AllFit(g, tab, rest, v)
  BY <1>14, HubFits
<1>15. v \in Seq(HubMessage) /\ \A k \in 1..Len(w) : k \in 1..Len(v) /\ v[k] = w[k]
  BY <1>2, <1>7, <1>9 DEF SentAfter
<1>16. \A c \in commands : c.op = "subscribe" => c \in rest
  BY <1>1 DEF rest
<1>18. NavInv'
  BY <1>1, <1>8, <1>10, <1>13, <1>15, <1>16, <1>17, HubKeeps DEF g, v
<1>19. \A x \in chats : x \in h.chats \/ (Creates(command) /\ command.chat = x)
  BY <1>4 DEF chats, h
<1>20. \A x \in g.chats : x \in h.chats \/ \E c \in commands \ rest : Creates(c) /\ c.chat = x
  BY <1>10, <1>19 DEF rest
<1>21. Handled(h, g, tab, commands, rest, w, answer, v, g.chats)
  BY <1>10, <1>14
<1>22. g.gone \subseteq h.gone \cup (h.chats \ g.chats)
  BY <1>10
<1> QED BY <1>1, <1>8, <1>10, <1>18, <1>20, <1>21, <1>22 DEF ChatHubStep, g, h, v

\* A command fails.
LEMMA FailedKeeps ==
    ASSUME NavInv, NEW command \in commands, NEW no \in BOOLEAN, ~no, HubHandles(command, no)
    PROVE  NavInv' /\ ChatHubStep
<1> DEFINE subject == Subject(command)
           r == Reply(command, FALSE)
           answer == <<r>>
           rest == commands \ {command}
           h == chatHub
           w == arrivals
           v == arrivals'
           g == chatHub'
<1>1. /\ command.op # "subscribe" /\ commands' = rest /\ UNCHANGED <<used, tab, evicted>>
      /\ v = Append(w, r)
      /\ g = IF command.op = "delete" /\ (Creates(command) \/ subject \in h.chats)
             THEN [h EXCEPT !.refused = @ \cup {subject}] ELSE h
  BY DEF HubHandles
<1>2. /\ NavTyped /\ AllFit(h, tab, commands, w) /\ h \in NavHubRecord /\ w \in Seq(HubMessage)
      /\ command \in NavCommand /\ Formed(command) /\ h.chats = h.last
  BY <1>1 DEF NavInv, NavTyped, AllFit, ActivesInv, RowsInv
<1>3. r \in ReplyMessage /\ r \in HubMessage /\ r.command = command /\ ~r.ok
  <2> DEFINE n == FALSE
  <2>1. n \in BOOLEAN /\ r = Reply(command, n) /\ ~n
    OBVIOUS
  <2> HIDE DEF r, n
  <2> QED BY <1>2, <2>1, ReplyGives
<1>4. /\ command.op = "delete" => subject = command.chat /\ subject \in ChatKeys
  BY <1>2 DEF Formed, Subject, NavCommand
<1> HIDE DEF r, subject
<1>5. /\ g \in NavHubRecord /\ g.chats = h.last /\ g.last = h.last /\ g.gone = h.gone /\ g.large = h.large /\ h.refused \subseteq g.refused
      /\ command.op = "delete" => command.chat \notin h.last \/ command.chat \in g.refused
  <2>1. CASE command.op = "delete" /\ (Creates(command) \/ subject \in h.chats)
    <3> DEFINE refused == h.refused \cup {subject}
    <3>1. g = [h EXCEPT !.refused = refused] /\ refused \in SUBSET ChatKeys
      BY <1>1, <1>2, <1>4, <2>1 DEF NavHubRecord
    <3> HIDE DEF g, h, refused
    <3>2. g \in NavHubRecord /\ g.chats = h.chats /\ g.last = h.last /\ g.gone = h.gone /\ g.large = h.large
          /\ g.refused = refused
      BY <1>2, <3>1 DEF NavHubRecord
    <3> QED BY <1>2, <1>4, <2>1, <3>2 DEF refused
  <2>2. CASE ~(command.op = "delete" /\ (Creates(command) \/ subject \in h.chats))
    BY <1>1, <1>2, <1>4, <2>2
  <2> QED BY <2>1, <2>2
<1> HIDE DEF w, v
<1>6. /\ v \in Seq(HubMessage) /\ \A k \in 1..Len(w) : k \in 1..Len(v) /\ v[k] = w[k]
  BY <1>1, <1>2, <1>3, OneMore
<1>7. answer \in Seq(ReplyMessage) /\ SentAfter(w, answer, v, h, h.last)
  BY <1>1, <1>2, <1>3, OneMore
<1>8. Len(answer) = 1 /\ answer[1] = r
  OBVIOUS
<1> HIDE DEF answer, g, h, rest
<1>9. h.chats \subseteq Born(g, tab)
  BY <1>2, <1>5 DEF Born
<1>10. /\ \A c \in commands : c.op # "subscribe" => c \in rest \/ \E k \in 1..Len(answer) : answer[k].command = c
       /\ \A k \in 1..Len(answer) :
              LET c == answer[k].command IN
              /\ c \in commands /\ c.op # "subscribe"
              /\ c.op = "delete" => c.chat \notin h.last \/ c.chat \in g.refused
              /\ answer[k].ok /\ Creates(c) => c.chat \in h.last
  BY <1>1, <1>3, <1>5, <1>8 DEF rest
<1>11. rest \subseteq commands /\ \A c \in commands : c.op = "subscribe" => c \in rest
  BY <1>1 DEF rest
<1>12. Handled(h, g, tab, commands, rest, w, answer, v, h.last)
  BY <1>2, <1>5, <1>7, <1>9, <1>10, <1>11 DEF Handled
<1>13. AllFit(g, tab, rest, v)
  BY <1>12, HubFits
<1>14. NavInv'
  BY <1>1, <1>5, <1>6, <1>11, <1>13, HubKeeps DEF g, v, w
<1>15. Handled(h, g, tab, commands, rest, w, answer, v, g.chats) /\ g.chats = h.chats
  BY <1>2, <1>5, <1>12
<1> QED BY <1>1, <1>5, <1>14, <1>15 DEF ChatHubStep, g, h, v, w

\* A subscription is published and answered.
LEMMA SubscribesKeeps ==
    ASSUME NavInv, NEW command \in commands, HubSubscribes(command)
    PROVE  NavInv' /\ ChatHubStep
<1> DEFINE known == command.chat \in chatHub.chats
           m == ChatOf(command.active, command.chat, known)
           rest == commands \ {command}
           h == chatHub
           w == arrivals
           v == arrivals'
           g == chatHub'
           answer == <<>>
<1>1. /\ command.op = "subscribe" /\ commands' = rest /\ UNCHANGED <<used, tab, evicted>>
      /\ v = Append(w, m)
      /\ g = IF command.active < h.visit THEN h
             ELSE [h EXCEPT !.topic = command.chat, !.visit = command.active, !.known = known]
  BY DEF HubSubscribes
<1>2. /\ NavTyped /\ AllFit(h, tab, commands, w) /\ h \in NavHubRecord /\ w \in Seq(HubMessage)
      /\ command \in NavCommand /\ h.chats = h.last
  BY DEF NavInv, NavTyped, AllFit, RowsInv
<1>3. command.chat \in ChatKeys /\ command.active \in Nat
  BY <1>1, <1>2 DEF NavCommand
<1>4. m \in HubMessage /\ m.topic = "chat" /\ m.visit = command.active /\ (m.known => m.chat \in h.last)
  <2>1. known \in BOOLEAN /\ (known <=> command.chat \in h.last)
    BY <1>2
  <2> HIDE DEF known, h
  <2> QED BY <1>3, <2>1 DEF ChatOf, ChatMessage, HubMessage
<1>5. /\ g \in NavHubRecord /\ g.chats = h.last /\ g.last = h.last /\ g.gone = h.gone /\ g.large = h.large
      /\ g.refused = h.refused
  <2>1. CASE g = h
    BY <1>2, <2>1
  <2>2. CASE g = [h EXCEPT !.topic = command.chat, !.visit = command.active, !.known = known]
    <3> DEFINE topic == command.chat
               visit == command.active
    <3>1. known \in BOOLEAN /\ topic \in Place /\ visit \in Nat
      BY <1>3 DEF Place
    <3>2. g = [h EXCEPT !.topic = topic, !.visit = visit, !.known = known]
      BY <2>2
    <3> HIDE DEF g, h, known, topic, visit
    <3> QED BY <1>2, <3>1, <3>2 DEF NavHubRecord
  <2> QED BY <1>1, <2>1, <2>2
<1> HIDE DEF w, v, m, g, h, rest
<1>6. /\ v \in Seq(HubMessage) /\ v[Len(w) + 1] = m /\ Len(v) = Len(w) + 1
  BY <1>1, <1>2, <1>4, OneMore
<1>7. \A k \in 1..Len(w) : k \in 1..Len(v) /\ v[k] = w[k]
  BY <1>1, <1>2, <1>4, OneMore
<1>8. SentAfter(w, answer, v, h, h.last)
  BY <1>1, <1>2, <1>4, OneMore
<1>9. Len(answer) = 0 /\ answer \in Seq(ReplyMessage)
  OBVIOUS
<1> HIDE DEF answer
<1>10. h.chats \subseteq Born(g, tab)
  BY <1>2, <1>5 DEF Born
<1>11. rest \subseteq commands /\ \A c \in commands : c.op # "subscribe" => c \in rest
  BY <1>1 DEF rest
<1>12. Handled(h, g, tab, commands, rest, w, answer, v, h.last)
  BY <1>2, <1>5, <1>8, <1>9, <1>10, <1>11 DEF Handled
<1>14. AllFit(g, tab, rest, v)
  BY <1>12, HubFits
<1>13. \A c \in commands : c.op = "subscribe" =>
          c \in rest \/ \E k \in 1..Len(v) : v[k].topic = "chat" /\ v[k].visit = c.active
  BY <1>2, <1>6, <1>4 DEF rest
<1>15. NavInv'
  BY <1>1, <1>5, <1>6, <1>7, <1>11, <1>13, <1>14, HubKeeps DEF g, v, w
<1>16. Handled(h, g, tab, commands, rest, w, answer, v, g.chats) /\ g.chats = h.chats
  BY <1>2, <1>5, <1>12
<1> QED BY <1>1, <1>5, <1>15, <1>16 DEF ChatHubStep, g, h, v, w

\* Another tab deletes a chat.
LEMMA ElsewhereKeeps ==
    ASSUME NavInv, NEW chat \in ChatKeys, DeletedElsewhere(chat)
    PROVE  NavInv' /\ ChatHubStep
<1> DEFINE gone == chatHub.gone \cup {chat}
           base == [chatHub EXCEPT !.gone = gone]
           chats == chatHub.chats \ {chat}
           h == chatHub
           w == arrivals
           v == arrivals'
           g == chatHub'
           answer == <<>>
<1>1. chat \in chatHub.chats /\ HubBroadcasts(base, chats, answer) /\ UNCHANGED <<used, tab, commands, evicted>>
  BY DEF DeletedElsewhere
<1>2. NavTyped /\ AllFit(h, tab, commands, w) /\ h \in NavHubRecord /\ w \in Seq(HubMessage)
  BY DEF NavInv, NavTyped
<1>3. gone \in SUBSET ChatKeys /\ chats \in SUBSET ChatKeys
  BY <1>2 DEF NavHubRecord
<1>4. base \in NavHubRecord /\ base.gone = gone /\ base.last = h.last /\ base.refused = h.refused
      /\ base.large = h.large
  <2> HIDE DEF gone
  <2> QED BY <1>2, <1>3 DEF NavHubRecord
<1>5. h.chats \subseteq chats \cup gone /\ h.gone \subseteq gone
  OBVIOUS
<1>6. Len(answer) = 0 /\ answer \in Seq(ReplyMessage)
  OBVIOUS
<1> HIDE DEF base, chats, gone, answer, w
<1>7. w = arrivals
  BY DEF w
<1>8. SentAfter(w, answer, v, base, chats)
  BY <1>1, <1>2, <1>3, <1>4, <1>6, <1>7, BroadcastGives
<1>9. /\ g \in NavHubRecord /\ g.chats = chats /\ g.last = chats /\ g.gone = gone /\ g.large = h.large
      /\ g.refused = (IF chats # h.last THEN {} ELSE h.refused)
  BY ZenonT(30), <1>1, <1>2, <1>3, <1>4, <1>6, <1>7, BroadcastGives
<1> HIDE DEF g, h, v
<1>10. SentAfter(w, answer, v, h, chats)
  BY <1>4, <1>8 DEF SentAfter
<1>11. h.chats \subseteq Born(g, tab)
  BY <1>5, <1>9 DEF Born
<1>12. Handled(h, g, tab, commands, commands, w, answer, v, chats)
  BY <1>2, <1>5, <1>6, <1>9, <1>10, <1>11 DEF Handled
<1>13. AllFit(g, tab, commands, v)
  BY <1>12, HubFits
<1>14. v \in Seq(HubMessage) /\ \A k \in 1..Len(w) : k \in 1..Len(v) /\ v[k] = w[k]
  BY <1>2, <1>10, <1>6 DEF SentAfter
<1>15. NavInv'
  BY <1>1, <1>7, <1>9, <1>13, <1>14, HubKeeps DEF g, v
<1>16. Handled(h, g, tab, commands, commands, w, answer, v, g.chats)
  BY <1>9, <1>12
<1>17. /\ \A x \in g.chats : x \in h.chats
       /\ g.gone \subseteq h.gone \cup (h.chats \ g.chats)
  BY <1>1, <1>9 DEF chats, gone, h
<1> QED BY <1>1, <1>7, <1>9, <1>15, <1>16, <1>17 DEF ChatHubStep, g, h, v

\* A message that is heard.
Heard(i) ==
    /\ Taken(arrivals, i, arrivals') /\ arrivals[i] \in HubMessage
    /\ UNCHANGED <<used, chatHub, acts>>

-----------------------------------------------------------------------------
(* What the tab hears *)

\* What is heard is taken out and handled.
LEMMA HearsGives ==
    ASSUME NavInv, NEW i \in DOMAIN arrivals, TabHears(i)
    PROVE  Heard(i) /\ Handles(arrivals[i]) /\ (arrivals[i].topic = "sidebar" => i = 1)
BY DEF NavInv, NavTyped, TabHears, Heard, Taken

\* What else was under way still is.
LEMMA StillUnderWay ==
    ASSUME NavInv, NEW i, Heard(i), NEW others, commands \subseteq others,
           NEW c \in UnderWay(commands, arrivals), arrivals[i].topic = "reply" => c # arrivals[i].command
    PROVE  c \in UnderWay(others, arrivals')
<1> DEFINE v == arrivals'
<1>1. Taken(arrivals, i, v)
  BY DEF Heard
<1> HIDE DEF v
<1>2. c \in UnderWay(commands, v)
  BY <1>1, TakenUnderWay
<1>3. UnderWay(commands, v) \subseteq UnderWay(others, v)
  BY DEF UnderWay
<1> QED BY <1>2, <1>3 DEF v

\* An answer is handled by a render: what remains is about the answer.
Answers(i, t, others) ==
    /\ Heard(i) /\ arrivals[i].topic = "reply"
    /\ t \in NavTabRecord /\ others \subseteq NavCommand /\ Renders(t, others)
    /\ t.rows = tab.rows /\ tab.letGo \subseteq t.letGo /\ t.deleting \subseteq tab.deleting
    /\ t.dialog = tab.dialog /\ t.snapshot \in {tab.snapshot, Home}
    /\ (t.route = tab.route /\ t.pending = tab.pending) \/ t.route \in t.rows \cup t.letGo \cup {Home, t.pending}
    /\ commands \subseteq others
    /\ \A d \in others : \/ d \in commands
                         \/ /\ Formed(d) /\ d.op \in {"fork", "merge"} /\ d.chat \in Born(chatHub, tab)
                            /\ d.step # "create" /\ (d.step = "close" => d.active \in t.letGo)
    /\ \/ t.visit = tab.visit /\ t.route = tab.route /\ t.chatReady = tab.chatReady
       \/ t.visit = tab.visit /\ t.chatReady
       \/ t.visit = tab.visit + 1 /\ (~t.chatReady => t.route # Home)
Answered(i) == \E t, others : Answers(i, t, others)
Placed(t, all) == DeletingInv(t, all) /\ PendingInv(chatHub, t, all) /\ NoticeInv(t, all)

\* It keeps the invariant.
LEMMA AnswerKeeps ==
    ASSUME NavInv, NEW i, NEW t, NEW others, Answers(i, t, others), Placed(t, UnderWay(others, arrivals'))
    PROVE  NavInv' /\ Answered(i)
<1> DEFINE h == chatHub
           w == arrivals
           v == arrivals'
<1>1. /\ Taken(w, i, v) /\ UNCHANGED <<used, chatHub>> /\ w[i].topic = "reply"
      /\ t \in NavTabRecord /\ others \in SUBSET NavCommand /\ Renders(t, others)
  BY DEF Answers, Heard
<1>2. NavTyped /\ AllFit(h, tab, commands, w) /\ ToBeServed(tab, commands, w)
  BY DEF NavInv
<1>3. v \in Seq(HubMessage)
  BY <1>1, TakenPlaces
<1> HIDE DEF h, w, v
<1>4. /\ ActivesInv(commands, v) /\ BornInv(h, tab, commands, v) /\ RefusedInv(h, v) /\ RowsInv(h, tab, commands, v)
      /\ LetGoInv(tab, commands)
  BY <1>1, <1>2, TakenFits DEF AllFit
<1>5. Born(h, tab) \subseteq Born(h, t)
  BY DEF Answers, Born
<1>6. ActivesInv(others, v) /\ LetGoInv(t, others)
  BY <1>4 DEF Answers, ActivesInv, LetGoInv
<1>7. BornInv(h, t, others, v)
  BY <1>4, <1>5 DEF Answers, BornInv, h
<1>8. RowsInv(h, t, others, v)
  BY <1>4 DEF Answers, RowsInv
<1>9. AllFit(h, t, others, v)
  BY <1>4, <1>6, <1>7, <1>8 DEF Placed, h, v, AllFit
<1>10. \/ t.visit = tab.visit /\ ToBeServed(t, others, v)
       \/ t.visit = tab.visit + 1 /\ (~t.chatReady => t.route # Home)
  <2>1. CASE t.visit = tab.visit /\ t.route = tab.route /\ t.chatReady = tab.chatReady
    <3>1. ToBeServed(tab, commands, v)
      BY <1>1, <1>2, <2>1, TakenFits DEF w
    <3>2. ToBeServed(t, others, v)
      BY <2>1, <3>1 DEF Answers, ToBeServed
    <3> QED BY <2>1, <3>2
  <2>2. CASE t.visit = tab.visit /\ t.chatReady
    BY <2>2 DEF ToBeServed
  <2> QED BY <2>1, <2>2 DEF Answers
<1>11. NavInv'
  BY <1>1, <1>2, <1>3, <1>9, <1>10, RenderKeeps DEF h, v, NavTyped
<1> QED BY <1>11 DEF Answered

\* A sidebar is shown, but for the chats being deleted.
LEMMA SidebarKeeps ==
    ASSUME NavInv, Heard(1), arrivals[1].topic = "sidebar", SidebarArrives(arrivals[1].rows)
    PROVE  NavInv'
<1> DEFINE h == chatHub
           w == arrivals
           v == arrivals'
           rows == w[1].rows \ tab.deleting
           t == [tab EXCEPT !.rows = rows]
<1>1. Taken(w, 1, v) /\ UNCHANGED <<used, chatHub>> /\ Renders(t, commands) /\ w[1] \in HubMessage
  BY DEF Heard, SidebarArrives
<1>2. NavTyped /\ tab \in NavTabRecord /\ AllFit(h, tab, commands, w) /\ ToBeServed(tab, commands, w)
  BY DEF NavInv, NavTyped
<1>3. w[1].rows \subseteq ChatKeys
  BY <1>1 DEF HubMessage, ReplyMessage, SidebarMessage, ChatMessage
<1>4. /\ t \in NavTabRecord /\ t.rows = rows /\ t.route = tab.route /\ t.visit = tab.visit /\ t.chatReady = tab.chatReady
      /\ t.letGo = tab.letGo /\ t.deleting = tab.deleting /\ t.pending = tab.pending /\ t.boot = tab.boot
  <2>1. rows \in SUBSET ChatKeys
    BY <1>3
  <2> HIDE DEF rows
  <2> QED BY <1>2, <2>1 DEF NavTabRecord
<1>5. v \in Seq(HubMessage)
  BY <1>1, TakenPlaces
<1>6. \A c \in UnderWay(commands, w) : c \in UnderWay(commands, v)
  BY <1>1, TakenUnderWay
<1> HIDE DEF t, v, w, h
<1>7. w[1].topic = "sidebar"
  BY DEF w
<1>8. ActivesInv(commands, v) /\ BornInv(h, tab, commands, v) /\ RefusedInv(h, v) /\ ToBeServed(tab, commands, v)
  BY <1>1, <1>2, <1>7, TakenFits DEF AllFit
<1>9. Born(h, t) = Born(h, tab)
  BY <1>4 DEF Born
<1>10. BornInv(h, t, commands, v) /\ LetGoInv(t, commands) /\ ToBeServed(t, commands, v)
  BY <1>2, <1>4, <1>8, <1>9 DEF AllFit, BornInv, LetGoInv, ToBeServed
<1>11. DeletingInv(t, UnderWay(commands, v)) /\ NoticeInv(t, UnderWay(commands, v))
  BY <1>2, <1>4, <1>6 DEF AllFit, DeletingInv, NoticeInv
<1>12. PendingInv(h, t, UnderWay(commands, v))
  BY <1>2, <1>4, <1>6, <1>9 DEF AllFit, PendingInv
<1>13. RowsInv(h, t, commands, v)
  <2>1. RowsInv(h, tab, commands, w) /\ RefusedInv(h, w) /\ DeletingInv(tab, UnderWay(commands, w))
    BY <1>2 DEF AllFit
  <2>2. ASSUME NEW k \in 1..Len(v), v[k].topic = "sidebar", ~Later(v, k) PROVE v[k].rows = h.chats
    BY <1>1, TakenPlaces, <2>2, TakenLater, <2>1 DEF RowsInv
  <2>3. ASSUME \A k \in 1..Len(v) : v[k].topic # "sidebar"
        PROVE  /\ t.rows \subseteq h.chats
               /\ \A x \in h.chats \ t.rows : x \in h.refused \/ \E c \in commands : c.op = "delete" /\ c.chat = x
    <3>1. \A j \in 1..Len(w) : j # 1 => w[j].topic # "sidebar"
      BY <1>1, TakenPlaces, <2>3
    <3>2. \A j \in 1..Len(w) : ~Later(w, j)
      BY <3>1 DEF Later
    <3>3. 1 \in 1..Len(w)
      BY <1>1 DEF Taken
    <3>4. w[1].rows = h.chats
      BY <1>7, <2>1, <3>2, <3>3 DEF RowsInv
    <3>5. ASSUME NEW x \in h.chats \ t.rows PROVE x \in h.refused \/ \E c \in commands : c.op = "delete" /\ c.chat = x
      BY <1>4, <3>4, <3>5, <2>1, <3>2 DEF DeletingInv, UnderWay, RefusedInv
    <3> QED BY <1>4, <3>4, <3>5
  <2>4. h.chats = h.last
    BY <2>1 DEF RowsInv
  <2> QED BY <2>2, <2>3, <2>4 DEF RowsInv
<1>14. AllFit(h, t, commands, v)
  BY <1>8, <1>10, <1>11, <1>12, <1>13 DEF AllFit
<1>15. commands \in SUBSET NavCommand
  BY <1>2 DEF NavTyped
<1> QED BY <1>1, <1>2, <1>4, <1>5, <1>10, <1>14, <1>15, RenderKeeps DEF h, v, NavTyped

\* A chat is shown, or is one of a route that was left.
LEMMA ChatKeeps ==
    ASSUME NavInv, NEW i, Heard(i), arrivals[i].topic = "chat", ChatArrives(arrivals[i])
    PROVE  NavInv'
<1> DEFINE m == arrivals[i]
           snapshot == IF m.known THEN m.chat ELSE Home
           shown == [tab EXCEPT !.snapshot = snapshot, !.chatReady = TRUE]
           t == IF m.visit # tab.visit THEN tab ELSE shown
           all == UnderWay(commands, arrivals')
<1>1. tab \in NavTabRecord /\ commands \subseteq NavCommand /\ m \in ChatMessage /\ Renders(t, commands)
  BY DEF NavInv, NavTyped, Heard, HubMessage, ReplyMessage, SidebarMessage, ChatMessage, ChatArrives
<1>2. /\ shown \in NavTabRecord /\ shown.visit = tab.visit /\ shown.chatReady /\ shown.route = tab.route
      /\ SameTab(shown, tab) /\ shown.pending = tab.pending
  <2>1. snapshot \in Place
    BY <1>1 DEF ChatMessage, Place
  <2> HIDE DEF snapshot
  <2> QED BY <1>1, <2>1 DEF NavTabRecord, SameTab
<1>3. t \in {tab, shown} /\ (m.visit = tab.visit => t = shown) /\ (m.visit # tab.visit => t = tab)
  OBVIOUS
<1> HIDE DEF shown, t
<1>4. /\ t \in NavTabRecord /\ t.visit = tab.visit /\ t.route = tab.route /\ SameTab(t, tab) /\ t.pending = tab.pending
      /\ (m.visit = tab.visit => t.chatReady) /\ (m.visit # tab.visit => t.chatReady = tab.chatReady)
  BY <1>1, <1>2, <1>3 DEF SameTab
<1>5. \A c \in UnderWay(commands, arrivals) : c \in all
  BY StillUnderWay
<1> HIDE DEF all
<1>6. AllFit(chatHub, tab, commands, arrivals)
  BY DEF NavInv
<1>7. t.letGo = tab.letGo /\ t.deleting = tab.deleting /\ t.rows = tab.rows /\ t.boot = tab.boot
  BY <1>4 DEF SameTab
<1>8. DeletingInv(t, all) /\ NoticeInv(t, all) /\ PendingInv(chatHub, t, all)
  BY <1>7, <1>4, <1>5, <1>6 DEF Born, AllFit, DeletingInv, NoticeInv, PendingInv
<1> DEFINE h == chatHub
           w == arrivals
           v == arrivals'
<1>9. Taken(w, i, v) /\ UNCHANGED <<used, chatHub>> /\ w[i].topic = "chat"
  BY DEF Heard
<1>10. v \in Seq(HubMessage)
  BY <1>9, TakenPlaces
<1> HIDE DEF h, w, v
<1>11. /\ ActivesInv(commands, v) /\ BornInv(h, tab, commands, v) /\ RefusedInv(h, v) /\ RowsInv(h, tab, commands, v)
       /\ (w[i].visit # tab.visit => ToBeServed(tab, commands, v))
  BY <1>9, TakenFits DEF NavInv, h, w, AllFit
<1>12. AllFit(h, t, commands, v)
  BY <1>7, <1>11, <1>6, <1>8 DEF Born, BornInv, RowsInv, AllFit, LetGoInv, h, v, all
<1>13. ToBeServed(t, commands, v)
  BY <1>4, <1>11 DEF ToBeServed, w
<1>14. NavTyped /\ commands \in SUBSET NavCommand /\ used \subseteq ChatKeys
  BY DEF NavInv, NavTyped
<1> QED BY <1>1, <1>4, <1>9, <1>10, <1>12, <1>13, <1>14, RenderKeeps DEF h, v

\* An answer that is heard.
LEMMA AnswerIs ==
    ASSUME NavInv, NEW i, Heard(i), arrivals[i].topic = "reply"
    PROVE  LET m == arrivals[i] c == m.command IN
           /\ m.ok \in BOOLEAN /\ c \in NavCommand /\ c.op # "subscribe" /\ Formed(c) /\ c.chat \in ChatKeys
           /\ c.op \in {"create", "fork", "merge"} /\ (m.ok \/ (c.op # "create" /\ c.step # "create"))
              => c.chat \in Born(chatHub, tab)
<1> DEFINE m == arrivals[i]
           c == m.command
<1>1. m \in ReplyMessage /\ i \in 1..Len(arrivals)
  BY DEF Heard, Taken, HubMessage, ReplyMessage, SidebarMessage, ChatMessage
<1>2. m.ok \in BOOLEAN /\ c \in NavCommand
  BY <1>1 DEF ReplyMessage
<1>3. ActivesInv(commands, arrivals) /\ BornInv(chatHub, tab, commands, arrivals)
  BY DEF NavInv, AllFit
<1>4. c.op # "subscribe" /\ Formed(c)
  BY <1>1, <1>3 DEF ActivesInv
<1>5. c.op \in {"create", "fork", "merge"} /\ (m.ok \/ (c.op # "create" /\ c.step # "create"))
      => c.chat \in Born(chatHub, tab)
  BY <1>1, <1>3 DEF BornInv
<1>6. c.chat \in ChatKeys
  BY <1>2 DEF NavCommand
<1> QED BY <1>2, <1>4, <1>5, <1>6

\* What the tab has now, it is placed by.
LEMMA PlacedNow ==
    ASSUME NavInv
    PROVE  /\ tab \in NavTabRecord /\ commands \subseteq NavCommand
           /\ DeletingInv(tab, UnderWay(commands, arrivals))
           /\ PendingInv(chatHub, tab, UnderWay(commands, arrivals))
           /\ NoticeInv(tab, UnderWay(commands, arrivals))
BY DEF NavInv, NavTyped, AllFit

\* A delete is answered: the chat is not hidden any more.
LEMMA DeletedKeeps ==
    ASSUME NavInv, NEW i, Heard(i), arrivals[i].topic = "reply", arrivals[i].command.op = "delete",
           DeleteAnswered(arrivals[i].command)
    PROVE  NavInv' /\ Answered(i)
<1> DEFINE c == arrivals[i].command
           deleting == tab.deleting \ {c.chat}
           t == [tab EXCEPT !.deleting = deleting]
           all == UnderWay(commands, arrivals')
<1>1. Renders(t, commands)
  BY DEF DeleteAnswered
<1>2. tab \in NavTabRecord /\ commands \subseteq NavCommand
  BY PlacedNow
<1>3. /\ t \in NavTabRecord /\ t.rows = tab.rows /\ t.route = tab.route /\ t.visit = tab.visit /\ t.chatReady = tab.chatReady
      /\ t.letGo = tab.letGo /\ t.deleting = deleting /\ t.pending = tab.pending /\ t.boot = tab.boot
      /\ t.dialog = tab.dialog /\ t.snapshot = tab.snapshot
  <2>1. deleting \in SUBSET ChatKeys
    BY <1>2 DEF NavTabRecord
  <2> HIDE DEF deleting
  <2> QED BY <1>2, <2>1 DEF NavTabRecord
<1>4. \A d \in UnderWay(commands, arrivals) : d # c => d \in all
  BY StillUnderWay
<1> HIDE DEF all, t, c
<1>5. c.op = "delete"
  BY DEF c
<1>6. DeletingInv(t, all)
  BY <1>3, PlacedNow, <1>4 DEF DeletingInv
<1>7. PendingInv(chatHub, t, all)
  BY <1>3, <1>4, <1>5, PlacedNow DEF Born, PendingInv
<1>8. NoticeInv(t, all)
  BY <1>3, <1>4, <1>5, PlacedNow DEF NoticeInv
<1>9. Answers(i, t, commands)
  BY <1>1, <1>2, <1>3 DEF Answers
<1> QED BY <1>6, <1>7, <1>8, <1>9, AnswerKeeps DEF Placed, all

\* A creation is answered.
LEMMA CreatedKeeps ==
    ASSUME NavInv, NEW i, Heard(i), arrivals[i].topic = "reply", arrivals[i].command.op = "create",
           CreateAnswered(arrivals[i].command, arrivals[i].ok)
    PROVE  NavInv' /\ Answered(i)
<1> DEFINE c == arrivals[i].command
           ok == arrivals[i].ok
           letGo == tab.letGo \cup ({c.active} \ tab.rows)
           base == [tab EXCEPT !.pending = Home, !.letGo = letGo]
           all == UnderWay(commands, arrivals')
<1>1. PICK cached \in BOOLEAN : Renders(IF ok THEN tab ELSE Routed(base, c.active, cached), commands)
  BY DEF CreateAnswered
<1>2. tab \in NavTabRecord /\ commands \subseteq NavCommand
  BY PlacedNow
<1>3. c.op = "create" /\ c.active \in Place /\ ok \in BOOLEAN /\ (ok => c.chat \in Born(chatHub, tab))
  BY AnswerIs DEF Formed
<1>4. \A d \in UnderWay(commands, arrivals) : d # c => d \in all
  BY StillUnderWay
<1> HIDE DEF c, ok, all
<1>5. CASE ok
  BY <1>1, <1>5, <1>2, <1>3, <1>4, PlacedNow, AnswerKeeps DEF Answers, DeletingInv, NoticeInv, PendingInv, Placed, all
<1>6. CASE ~ok
  <2>1. /\ base \in NavTabRecord /\ base.rows = tab.rows /\ base.route = tab.route /\ base.visit = tab.visit
        /\ base.chatReady = tab.chatReady /\ base.letGo = letGo /\ base.deleting = tab.deleting
        /\ base.pending = Home /\ base.boot = tab.boot
        /\ base.dialog = tab.dialog /\ base.snapshot = tab.snapshot
    <3>1. letGo \in SUBSET Place /\ Home \in Place
      BY <1>2, <1>3 DEF NavTabRecord, Place
    <3> HIDE DEF letGo
    <3> QED BY <1>2, <3>1 DEF NavTabRecord
  <2> DEFINE t == Routed(base, c.active, cached)
  <2>2. Renders(t, commands)
    BY <1>1, <1>6
  <2>3. t = Routed(base, c.active, cached)
    OBVIOUS
  <2> HIDE DEF base, t
  <2>4. /\ t \in NavTabRecord /\ SameTab(t, base) /\ t.route = c.active /\ t.pending = base.pending
        /\ t.snapshot \in {base.snapshot, Home}
        /\ (c.active = base.route => t = base)
        /\ (c.active # base.route => t.visit = base.visit + 1 /\ (t.chatReady <=> c.active = Home \/ cached))
    BY <1>3, <2>1, <2>3, RoutedGives
  <2>5. t.rows = tab.rows /\ t.letGo = letGo /\ t.deleting = tab.deleting /\ t.boot = tab.boot /\ t.pending = Home
       /\ t.dialog = tab.dialog
    BY <2>1, <2>4 DEF SameTab
  <2>6. \/ t.visit = tab.visit /\ t.route = tab.route /\ t.chatReady = tab.chatReady
        \/ t.visit = tab.visit + 1 /\ (~t.chatReady => t.route # Home)
    BY <2>1, <2>4
  <2>7. Answers(i, t, commands)
    BY <2>4, <2>5, <2>1, <1>2, <2>2, <2>6 DEF Answers
  <2>8. DeletingInv(t, all) /\ NoticeInv(t, all)
    BY <1>3, <1>4, <2>5, PlacedNow DEF DeletingInv, NoticeInv
  <2>9. PendingInv(chatHub, t, all)
    BY <2>5 DEF PendingInv
  <2> QED BY <2>7, <2>8, <2>9, AnswerKeeps DEF Placed, all
<1> QED BY <1>3, <1>5, <1>6

-----------------------------------------------------------------------------
(* Forks and merges *)

\* The next step of a fork or merge.
LEMMA NextStepGives ==
    ASSUME NEW c \in NavCommand, c.op \in {"fork", "merge"},
           NEW step \in {"rename", "prompt", "send", "close"}, NEW d, d = [c EXCEPT !.step = step]
    PROVE  d \in NavCommand /\ d.op = c.op /\ d.chat = c.chat /\ d.active = c.active /\ d.step = step /\ Formed(d)
BY DEF NavCommand, Formed

\* An answer to a fork or merge is handled by a render: what remains is about the notice.
Booted(i, t, others) ==
    /\ Heard(i) /\ arrivals[i].topic = "reply" /\ arrivals[i].command.op \in {"fork", "merge"}
    /\ t \in NavTabRecord /\ Renders(t, others) /\ others \subseteq NavCommand /\ commands \subseteq others
    /\ \A d \in others : \/ d \in commands
                         \/ /\ Formed(d) /\ d.op \in {"fork", "merge"} /\ d.chat \in Born(chatHub, tab)
                            /\ d.step # "create" /\ (d.step = "close" => d.active \in t.letGo)
    /\ t.rows = tab.rows /\ t.deleting = tab.deleting /\ tab.letGo \subseteq t.letGo
    /\ t.dialog = tab.dialog /\ t.snapshot \in {tab.snapshot, Home}
    /\ \/ t.pending = tab.pending /\ t.route = tab.route
       \/ t.pending \in Born(chatHub, tab) /\ t.route = t.pending
    /\ \/ t.visit = tab.visit /\ t.route = tab.route /\ t.chatReady = tab.chatReady
       \/ t.visit = tab.visit + 1 /\ (~t.chatReady => t.route # Home)

\* It keeps the invariant.
LEMMA BootedKeeps ==
    ASSUME NavInv, NEW i, NEW t, NEW others, Booted(i, t, others), NoticeInv(t, UnderWay(others, arrivals'))
    PROVE  NavInv' /\ Answered(i)
<1> DEFINE all == UnderWay(others, arrivals')
<1>1. Heard(i) /\ arrivals[i].command.op \in {"fork", "merge"} /\ commands \subseteq others
  BY DEF Booted
<1>2. \A d \in UnderWay(commands, arrivals) : d.op \in {"create", "delete"} => d \in all
  BY <1>1, StillUnderWay
<1> HIDE DEF all
<1>3. DeletingInv(t, all)
  BY <1>2, PlacedNow DEF DeletingInv, Booted
<1>4. PendingInv(chatHub, t, all)
  BY <1>2, PlacedNow DEF Booted, Born, PendingInv
<1>5. Answers(i, t, others)
  BY DEF Booted, Answers
<1> QED BY <1>3, <1>4, <1>5, AnswerKeeps DEF Placed, all

\* The notice: about another attempt it stays, else there is a next step, or it has gone.
LEMMA NoticeStays ==
    ASSUME NavInv, NEW i, Heard(i), arrivals[i].topic = "reply", NEW t, NEW others, commands \subseteq others,
           \/ t.boot = tab.boot /\ arrivals[i].command.step \notin {"prompt", "send", "close"}
           \/ t.boot = tab.boot /\ tab.boot.chat # arrivals[i].command.chat
           \/ t.boot.phase \notin {"compacting", "starting"}
           \/ \E d \in others : d.op \in {"fork", "merge"} /\ d.chat = t.boot.chat /\ d.step \in {"prompt", "send", "close"}
    PROVE  NoticeInv(t, UnderWay(others, arrivals'))
<1> DEFINE all == UnderWay(others, arrivals')
<1>1. \A d \in UnderWay(commands, arrivals) : d # arrivals[i].command => d \in all
  BY StillUnderWay
<1>2. others \subseteq all
  BY DEF UnderWay
<1> HIDE DEF all
<1>3. CASE /\ t.boot = tab.boot
           /\ arrivals[i].command.step \notin {"prompt", "send", "close"} \/ tab.boot.chat # arrivals[i].command.chat
  BY <1>3, PlacedNow, <1>1 DEF NoticeInv, all
<1>4. CASE t.boot.phase \notin {"compacting", "starting"}
  BY <1>4 DEF NoticeInv
<1>5. CASE \E d \in others : d.op \in {"fork", "merge"} /\ d.chat = t.boot.chat /\ d.step \in {"prompt", "send", "close"}
  BY <1>2, <1>5 DEF NoticeInv, all
<1> QED BY <1>3, <1>4, <1>5

\* Only the notice is another one.
Noticed(t, boot) == t = [tab EXCEPT !.boot = boot]

\* A notice moves nobody and lists, hides and lets go of nothing.
LEMMA NoticedGives ==
    ASSUME tab \in NavTabRecord, NEW boot \in [chat: Place, phase: {"none", "compacting", "starting", "error"}],
           NEW t, Noticed(t, boot)
    PROVE  /\ t \in NavTabRecord /\ t.rows = tab.rows /\ t.route = tab.route /\ t.visit = tab.visit
           /\ t.chatReady = tab.chatReady /\ t.letGo = tab.letGo /\ t.deleting = tab.deleting
           /\ t.pending = tab.pending /\ t.boot = boot
           /\ t.dialog = tab.dialog /\ t.snapshot = tab.snapshot
BY DEF Noticed, NavTabRecord

\* The notice's phase changes if it is about the chat.
LEMMA InPhaseGives ==
    ASSUME tab \in NavTabRecord, NEW chat, NEW phase \in {"none", "compacting", "starting", "error"},
           NEW t, t = InPhase(tab, chat, phase)
    PROVE  \E boot \in [chat: Place, phase: {"none", "compacting", "starting", "error"}] :
              /\ Noticed(t, boot)
              /\ tab.boot.chat = chat => boot.chat = chat /\ boot.phase = phase
              /\ tab.boot.chat # chat => boot = tab.boot
<1>1. tab.boot \in [chat: Place, phase: {"none", "compacting", "starting", "error"}]
  BY DEF NavTabRecord
<1>2. CASE tab.boot.chat = chat
  <2> DEFINE boot == [tab.boot EXCEPT !.phase = phase]
  <2>1. boot \in [chat: Place, phase: {"none", "compacting", "starting", "error"}] /\ boot.chat = chat /\ boot.phase = phase
    BY <1>1, <1>2
  <2>2. t = [tab EXCEPT !.boot = boot]
    BY <1>2 DEF InPhase
  <2> HIDE DEF boot
  <2> QED BY <1>2, <2>1, <2>2 DEF Noticed
<1>3. CASE tab.boot.chat # chat
  <2> DEFINE boot == tab.boot
  <2>1. t = tab
    BY <1>3 DEF InPhase
  <2>2. tab = [tab EXCEPT !.boot = tab.boot]
    BY DEF NavTabRecord
  <2> QED BY <1>1, <1>3, <2>1, <2>2 DEF Noticed
<1> QED BY <1>2, <1>3

\* The attempt is over: a notice that is about the chat and no error is taken away.
LEMMA ClearedGives ==
    ASSUME tab \in NavTabRecord, NEW chat, NEW boot \in [chat: Place, phase: {"none", "compacting", "starting", "error"}],
           NEW before, Noticed(before, boot), NEW t, t = Cleared(before, chat)
    PROVE  \E new \in [chat: Place, phase: {"none", "compacting", "starting", "error"}] :
              /\ Noticed(t, new)
              /\ boot.chat = chat => new.phase \in {"none", "error"}
              /\ boot.chat # chat => new = boot
<1>1. before.boot = boot
  BY NoticedGives
<1>2. CASE boot.chat = chat /\ boot.phase # "error"
  <2>1. t = [before EXCEPT !.boot = NoBoot]
    BY <1>1, <1>2 DEF Cleared
  <2>2. t = [tab EXCEPT !.boot = NoBoot]
    BY <2>1 DEF Noticed, NavTabRecord
  <2>3. NoBoot \in [chat: Place, phase: {"none", "compacting", "starting", "error"}] /\ NoBoot.phase = "none"
    BY DEF NoBoot, Place
  <2> QED BY <1>2, <2>2, <2>3 DEF Noticed
<1>3. CASE ~(boot.chat = chat /\ boot.phase # "error")
  BY <1>1, <1>3 DEF Cleared
<1> QED BY <1>2, <1>3

\* An answer to a fork or merge that is heard.
BootHeard(i) == Heard(i) /\ arrivals[i].topic = "reply" /\ arrivals[i].command.op \in {"fork", "merge"}

\* It is followed by a next step.
Further(i, step) == commands \cup {[arrivals[i].command EXCEPT !.step = step]}
\* The next step is a command, and every earlier one is kept.
LEMMA MoreSteps ==
    ASSUME NavInv, NEW i, BootHeard(i), arrivals[i].ok \/ arrivals[i].command.step # "create",
           NEW step \in {"rename", "prompt", "send", "close"}, NEW others,
           others = Further(i, step)
    PROVE  /\ others \subseteq NavCommand /\ commands \subseteq others
           /\ \A d \in others : \/ d \in commands
                                \/ /\ Formed(d) /\ d.op \in {"fork", "merge"} /\ d.chat \in Born(chatHub, tab)
                                   /\ d.step = step /\ d.active = arrivals[i].command.active
           /\ \E d \in others : d.op \in {"fork", "merge"} /\ d.chat = arrivals[i].command.chat /\ d.step = step
<1> DEFINE c == arrivals[i].command
           ok == arrivals[i].ok
           d == [c EXCEPT !.step = step]
<1>1. /\ ok \in BOOLEAN /\ c \in NavCommand /\ c.op \in {"fork", "merge"} /\ (ok \/ c.step # "create")
      /\ (c.op \in {"create", "fork", "merge"} /\ (ok \/ (c.op # "create" /\ c.step # "create"))
             => c.chat \in Born(chatHub, tab))
  BY AnswerIs DEF BootHeard
<1>2. others = commands \cup {d}
  BY DEF Further
<1> HIDE DEF c, ok
<1>3. d \in NavCommand /\ d.op = c.op /\ d.chat = c.chat /\ d.active = c.active /\ d.step = step /\ Formed(d)
  BY <1>1, NextStepGives
<1> HIDE DEF d
<1>4. commands \subseteq NavCommand
  BY PlacedNow
<1> QED BY <1>1, <1>2, <1>3, <1>4 DEF c

\* An answer that changes no more of the tab than the notice.
LEMMA NoticedKeeps ==
    ASSUME NavInv, NEW i, BootHeard(i), NEW boot \in [chat: Place, phase: {"none", "compacting", "starting", "error"}],
           NEW t, Noticed(t, boot), NEW others, Renders(t, others),
           others \subseteq NavCommand, commands \subseteq others,
           \A d \in others : \/ d \in commands
                             \/ /\ Formed(d) /\ d.op \in {"fork", "merge"} /\ d.chat \in Born(chatHub, tab)
                                /\ d.step \notin {"create", "close"},
           \/ boot = tab.boot /\ arrivals[i].command.step \notin {"prompt", "send", "close"}
           \/ boot = tab.boot /\ tab.boot.chat # arrivals[i].command.chat
           \/ boot.phase \notin {"compacting", "starting"}
           \/ \E d \in others : d.op \in {"fork", "merge"} /\ d.chat = boot.chat /\ d.step \in {"prompt", "send", "close"}
    PROVE  NavInv' /\ Answered(i)
<1>1. tab \in NavTabRecord
  BY PlacedNow
<1>2. /\ t \in NavTabRecord /\ t.rows = tab.rows /\ t.route = tab.route /\ t.visit = tab.visit
      /\ t.chatReady = tab.chatReady /\ t.letGo = tab.letGo /\ t.deleting = tab.deleting
      /\ t.pending = tab.pending /\ t.boot = boot
      /\ t.dialog = tab.dialog /\ t.snapshot = tab.snapshot
  BY <1>1, NoticedGives
<1>3. Booted(i, t, others)
  BY <1>2 DEF Booted, BootHeard
<1>4. NoticeInv(t, UnderWay(others, arrivals'))
  BY <1>2, NoticeStays DEF BootHeard
<1> QED BY <1>3, <1>4, BootedKeeps

\* The chat is created, or not.
LEMMA BootCreated ==
    ASSUME NavInv, NEW i, BootHeard(i), arrivals[i].command.step = "create",
           BootstrapAnswered(arrivals[i].command, arrivals[i].ok)
    PROVE  NavInv' /\ Answered(i)
<1> DEFINE others == IF arrivals[i].ok THEN commands \cup {[arrivals[i].command EXCEPT !.step = "rename"]} ELSE commands
<1>1. Renders(tab, others)
  BY DEF BootstrapAnswered
<1>2. tab \in NavTabRecord /\ commands \subseteq NavCommand
  BY PlacedNow
<1>3. tab.boot \in [chat: Place, phase: {"none", "compacting", "starting", "error"}] /\ Noticed(tab, tab.boot)
  BY <1>2 DEF NavTabRecord, Noticed
<1>4. /\ others \subseteq NavCommand /\ commands \subseteq others
      /\ \A d \in others : \/ d \in commands
                           \/ /\ Formed(d) /\ d.op \in {"fork", "merge"} /\ d.chat \in Born(chatHub, tab)
                              /\ d.step \notin {"create", "close"}
  <2>1. CASE arrivals[i].ok
    <3> DEFINE step == "rename"
    <3>1. others = Further(i, step)
      BY <2>1 DEF Further
    <3>2. step \in {"rename", "prompt", "send", "close"} /\ step = "rename"
      OBVIOUS
    <3> HIDE DEF others, step
    <3>3. arrivals[i].ok \/ arrivals[i].command.step # "create"
      BY <2>1
    <3> QED BY <3>1, <3>2, <3>3, MoreSteps
  <2>2. CASE ~arrivals[i].ok
    BY <1>2, <2>2
  <2> QED BY <2>1, <2>2
<1> HIDE DEF others
<1> QED BY <1>1, <1>3, <1>4, NoticedKeeps

\* The chat has its title: it is shown, and its notice.
LEMMA BootRenamed ==
    ASSUME NavInv, NEW i, BootHeard(i), arrivals[i].command.step = "rename", arrivals[i].ok,
           BootstrapAnswered(arrivals[i].command, arrivals[i].ok)
    PROVE  NavInv' /\ Answered(i)
<1> DEFINE c == arrivals[i].command
           others == commands \cup {[c EXCEPT !.step = "prompt"]}
           boot == [chat |-> c.chat, phase |-> "compacting"]
           base == [tab EXCEPT !.pending = c.chat, !.boot = boot]
           t == Routed(base, c.chat, FALSE)
<1>1. Renders(t, others)
  BY DEF BootstrapAnswered
<1>2. tab \in NavTabRecord /\ c.chat \in ChatKeys /\ c.chat \in Born(chatHub, tab)
  BY AnswerIs, PlacedNow DEF BootHeard
<1> DEFINE chat == c.chat
<1>3. /\ others \subseteq NavCommand /\ commands \subseteq others
      /\ \A d \in others : \/ d \in commands
                           \/ /\ Formed(d) /\ d.op \in {"fork", "merge"} /\ d.chat \in Born(chatHub, tab)
                              /\ d.step = "prompt"
      /\ \E d \in others : d.op \in {"fork", "merge"} /\ d.chat = chat /\ d.step = "prompt"
  <2> DEFINE step == "prompt"
  <2>1. others = Further(i, step)
    BY DEF Further
  <2>2. step \in {"rename", "prompt", "send", "close"} /\ step = "prompt"
    OBVIOUS
  <2> HIDE DEF others, step
  <2>3. arrivals[i].ok \/ arrivals[i].command.step # "create"
    OBVIOUS
  <2> QED BY <2>1, <2>2, <2>3, MoreSteps
<1>4. chat \in Place /\ chat # Home
  BY <1>2, NavigationConstants DEF Place
<1>5. /\ base \in NavTabRecord /\ base.rows = tab.rows /\ base.route = tab.route /\ base.visit = tab.visit
      /\ base.chatReady = tab.chatReady /\ base.letGo = tab.letGo /\ base.deleting = tab.deleting
      /\ base.pending = chat /\ base.boot = boot
      /\ base.dialog = tab.dialog /\ base.snapshot = tab.snapshot
  <2>1. boot \in [chat: Place, phase: {"none", "compacting", "starting", "error"}]
    BY <1>4
  <2>2. base = [tab EXCEPT !.pending = chat, !.boot = boot]
    OBVIOUS
  <2> HIDE DEF boot, base, chat
  <2> QED BY <1>2, <1>4, <2>1, <2>2 DEF NavTabRecord
<1>6. boot.chat = chat
  OBVIOUS
<1>7. t = Routed(base, chat, FALSE)
  OBVIOUS
<1> HIDE DEF others, boot, base, t, chat
<1>8. /\ t \in NavTabRecord /\ SameTab(t, base) /\ t.route = chat /\ t.pending = base.pending
      /\ t.snapshot \in {base.snapshot, Home}
      /\ (chat = base.route => t = base) /\ (chat # base.route => t.visit = base.visit + 1)
  <2> DEFINE no == FALSE
  <2>1. no \in BOOLEAN /\ t = Routed(base, chat, no)
    BY <1>7
  <2> HIDE DEF no
  <2> QED BY <1>4, <1>5, <2>1, RoutedGives
<1>9. t.rows = tab.rows /\ t.letGo = tab.letGo /\ t.deleting = tab.deleting /\ t.boot = boot /\ t.pending = chat
      /\ t.dialog = tab.dialog /\ t.snapshot \in {tab.snapshot, Home}
  BY <1>5, <1>8 DEF SameTab
<1>10. \/ t.visit = tab.visit /\ t.route = tab.route /\ t.chatReady = tab.chatReady
       \/ t.visit = tab.visit + 1 /\ (~t.chatReady => t.route # Home)
  BY <1>4, <1>5, <1>8
<1>11. chat \in Born(chatHub, tab)
  BY <1>2 DEF chat
<1>12. Booted(i, t, others)
  BY <1>1, <1>3, <1>8, <1>9, <1>10, <1>11 DEF Booted, BootHeard
<1>13. NoticeInv(t, UnderWay(others, arrivals'))
  BY <1>3, <1>6, <1>9, NoticeStays DEF BootHeard
<1> QED BY <1>12, <1>13, BootedKeeps

\* It has not.
LEMMA BootUnnamed ==
    ASSUME NavInv, NEW i, BootHeard(i), arrivals[i].command.step = "rename", ~arrivals[i].ok,
           BootstrapAnswered(arrivals[i].command, arrivals[i].ok)
    PROVE  NavInv' /\ Answered(i)
BY PlacedNow, NoticedKeeps DEF BootstrapAnswered, NavTabRecord, Noticed

\* The prompt is made, or not.
LEMMA BootPrompted ==
    ASSUME NavInv, NEW i, BootHeard(i), arrivals[i].command.step = "prompt",
           BootstrapAnswered(arrivals[i].command, arrivals[i].ok)
    PROVE  NavInv' /\ Answered(i)
<1> DEFINE c == arrivals[i].command
           others == IF arrivals[i].ok THEN commands \cup {[c EXCEPT !.step = "send"]} ELSE commands
           phase == IF arrivals[i].ok THEN "starting" ELSE "error"
           t == InPhase(tab, c.chat, phase)
<1>1. Renders(t, others)
  BY DEF BootstrapAnswered
<1>2. tab \in NavTabRecord /\ commands \subseteq NavCommand
  BY PlacedNow
<1>3. /\ others \subseteq NavCommand /\ commands \subseteq others
      /\ \A d \in others : \/ d \in commands
                           \/ /\ Formed(d) /\ d.op \in {"fork", "merge"} /\ d.chat \in Born(chatHub, tab)
                              /\ d.step \notin {"create", "close"}
      /\ arrivals[i].ok => \E d \in others : d.op \in {"fork", "merge"} /\ d.chat = c.chat /\ d.step = "send"
  <2>1. CASE arrivals[i].ok
    <3> DEFINE step == "send"
    <3>1. others = Further(i, step)
      BY <2>1 DEF Further
    <3>2. step \in {"rename", "prompt", "send", "close"} /\ step = "send"
      OBVIOUS
    <3> HIDE DEF others, step
    <3>3. arrivals[i].ok \/ arrivals[i].command.step # "create"
      BY <2>1
    <3> QED BY <3>1, <3>2, <3>3, MoreSteps
  <2>2. CASE ~arrivals[i].ok
    BY <1>2, <2>2
  <2> QED BY <2>1, <2>2
<1>4. phase \in {"none", "compacting", "starting", "error"} /\ (~arrivals[i].ok => phase = "error")
  OBVIOUS
<1>5. t = InPhase(tab, c.chat, phase)
  OBVIOUS
<1> HIDE DEF others, phase, t
<1>6. PICK boot \in [chat: Place, phase: {"none", "compacting", "starting", "error"}] :
          /\ Noticed(t, boot)
          /\ tab.boot.chat = c.chat => boot.chat = c.chat /\ boot.phase = phase
          /\ tab.boot.chat # c.chat => boot = tab.boot
  BY <1>2, <1>4, <1>5, InPhaseGives
<1>7. \/ boot = tab.boot /\ tab.boot.chat # c.chat
      \/ boot.phase \notin {"compacting", "starting"}
      \/ \E d \in others : d.op \in {"fork", "merge"} /\ d.chat = boot.chat /\ d.step \in {"prompt", "send", "close"}
  BY <1>6, <1>3, <1>4
<1> QED BY <1>1, <1>3, <1>6, <1>7, NoticedKeeps

\* The prompt is sent by a merge, which closes its source now.
LEMMA BootCloses ==
    ASSUME NavInv, NEW i, BootHeard(i), arrivals[i].command.step = "send", arrivals[i].ok,
           arrivals[i].command.op = "merge", BootstrapAnswered(arrivals[i].command, arrivals[i].ok)
    PROVE  NavInv' /\ Answered(i)
<1> DEFINE c == arrivals[i].command
           others == commands \cup {[c EXCEPT !.step = "close"]}
           letGo == tab.letGo \cup {c.active}
           t == [tab EXCEPT !.letGo = letGo]
<1>1. Renders(t, others)
  BY DEF BootstrapAnswered
<1>2. tab \in NavTabRecord /\ c.active \in Place
  BY AnswerIs, PlacedNow DEF Formed, BootHeard
<1>3. /\ others \subseteq NavCommand /\ commands \subseteq others
      /\ \A d \in others : \/ d \in commands
                           \/ /\ Formed(d) /\ d.op \in {"fork", "merge"} /\ d.chat \in Born(chatHub, tab)
                              /\ d.step = "close" /\ d.active = c.active
      /\ \E d \in others : d.op \in {"fork", "merge"} /\ d.chat = c.chat /\ d.step = "close"
  <2> DEFINE step == "close"
  <2>1. others = Further(i, step)
    BY DEF Further
  <2>2. step \in {"rename", "prompt", "send", "close"} /\ step = "close"
    OBVIOUS
  <2> HIDE DEF others, step
  <2>3. arrivals[i].ok \/ arrivals[i].command.step # "create"
    OBVIOUS
  <2> QED BY <2>1, <2>2, <2>3, MoreSteps
<1>4. /\ t \in NavTabRecord /\ t.rows = tab.rows /\ t.route = tab.route /\ t.visit = tab.visit
      /\ t.chatReady = tab.chatReady /\ t.letGo = letGo /\ t.deleting = tab.deleting
      /\ t.pending = tab.pending /\ t.boot = tab.boot
      /\ t.dialog = tab.dialog /\ t.snapshot = tab.snapshot
  <2>1. letGo \in SUBSET Place
    BY <1>2 DEF NavTabRecord
  <2> HIDE DEF letGo
  <2> QED BY <1>2, <2>1 DEF NavTabRecord
<1>5. tab.letGo \subseteq letGo /\ c.active \in letGo
  OBVIOUS
<1> HIDE DEF others, t, letGo
<1>6. Booted(i, t, others)
  BY <1>1, <1>3, <1>4, <1>5 DEF Booted, BootHeard
<1>7. NoticeInv(t, UnderWay(others, arrivals'))
  BY <1>3, <1>4, NoticeStays DEF BootHeard
<1> QED BY <1>6, <1>7, BootedKeeps

\* An attempt is over.
LEMMA BootEnds ==
    ASSUME NavInv, NEW i, BootHeard(i),
           \/ arrivals[i].command.step = "send" /\ ~(arrivals[i].ok /\ arrivals[i].command.op = "merge")
           \/ arrivals[i].command.step = "close",
           BootstrapAnswered(arrivals[i].command, arrivals[i].ok)
    PROVE  NavInv' /\ Answered(i)
<1> DEFINE c == arrivals[i].command
<1>1. tab \in NavTabRecord /\ commands \subseteq NavCommand
  BY PlacedNow
<1>2. PICK before : /\ before \in {tab, InPhase(tab, c.chat, "error")}
                    /\ Renders(Cleared(before, c.chat), commands)
  BY DEF BootstrapAnswered
<1> DEFINE t == Cleared(before, c.chat)
<1>3. PICK middle \in [chat: Place, phase: {"none", "compacting", "starting", "error"}] :
          Noticed(before, middle) /\ middle.chat = tab.boot.chat /\ (tab.boot.chat # c.chat => middle = tab.boot)
  BY <1>1, InPhaseGives, <1>2 DEF NavTabRecord, Noticed
<1>4. PICK boot \in [chat: Place, phase: {"none", "compacting", "starting", "error"}] :
          /\ Noticed(t, boot)
          /\ middle.chat = c.chat => boot.phase \in {"none", "error"}
          /\ middle.chat # c.chat => boot = middle
  BY <1>1, <1>3, ClearedGives
<1>5. \/ boot = tab.boot /\ tab.boot.chat # c.chat
      \/ boot.phase \notin {"compacting", "starting"}
  BY <1>3, <1>4
<1> HIDE DEF t
<1>6. Renders(t, commands)
  BY <1>2 DEF t
<1> QED BY <1>1, <1>4, <1>5, <1>6, NoticedKeeps

-----------------------------------------------------------------------------
(* The invariant holds *)

\* A message is heard.
LEMMA HearsKeeps ==
    ASSUME NavInv, NEW i \in DOMAIN arrivals, TabHears(i)
    PROVE  NavInv' /\ (arrivals[i].topic = "reply" => Answered(i))
<1> DEFINE m == arrivals[i]
<1>1. Heard(i) /\ Handles(m) /\ (m.topic = "sidebar" => i = 1)
  BY HearsGives
<1>2. m.topic \in {"reply", "sidebar", "chat"}
  BY <1>1 DEF Heard, HubMessage, ReplyMessage, SidebarMessage, ChatMessage
<1>3. CASE m.topic = "sidebar"
  BY <1>1, <1>3, SidebarKeeps DEF Handles
<1>4. CASE m.topic = "chat"
  BY <1>1, <1>4, ChatKeeps DEF Handles
<1>5. CASE m.topic = "reply" /\ m.command.op = "create"
  BY <1>1, <1>5, CreatedKeeps DEF Handles
<1>6. CASE m.topic = "reply" /\ m.command.op = "delete"
  BY <1>1, <1>6, DeletedKeeps DEF Handles
<1>7. CASE m.topic = "reply" /\ m.command.op \notin {"create", "delete"}
  <2>1. BootstrapAnswered(m.command, m.ok)
    BY <1>1, <1>7 DEF Handles
  <2>2. m.command \in NavCommand /\ m.command.op # "subscribe" /\ Formed(m.command)
    BY <1>1, <1>7, AnswerIs
  <2>3. m.command.op \in {"fork", "merge"} /\ m.command.step \in {"create", "rename", "prompt", "send", "close"}
    BY <1>7, <2>2 DEF NavCommand, Formed
  <2>4. BootHeard(i)
    BY <1>1, <1>7, <2>3 DEF BootHeard
  <2>5. CASE m.command.step = "create"
    BY <2>1, <2>4, <2>5, BootCreated
  <2>6. CASE m.command.step = "rename"
    BY <2>1, <2>4, <2>6, BootRenamed, BootUnnamed
  <2>7. CASE m.command.step = "prompt"
    BY <2>1, <2>4, <2>7, BootPrompted
  <2>8. CASE m.command.step = "send"
    BY <2>1, <2>4, <2>8, BootCloses, BootEnds
  <2>9. CASE m.command.step = "close"
    BY <2>1, <2>4, <2>9, BootEnds
  <2> QED BY <2>3, <2>5, <2>6, <2>7, <2>8, <2>9
<1> QED BY <1>2, <1>3, <1>4, <1>5, <1>6, <1>7

\* At first nothing is under way.
LEMMA NavInit == NavigationInit => NavInv
<1> SUFFICES ASSUME NavigationInit PROVE NavInv
  OBVIOUS
<1>1. PICK large \in BOOLEAN : chatHub = [chats |-> Stored, last |-> Stored, topic |-> Home, visit |-> 0,
                                     known |-> FALSE, gone |-> {}, refused |-> {}, large |-> large]
  BY DEF NavigationInit
<1>2. chatHub \in NavHubRecord /\ chatHub.chats = Stored /\ chatHub.last = Stored /\ chatHub.gone = {}
  BY <1>1, NavigationConstants DEF NavHubRecord, Place
<1>3. /\ tab \in NavTabRecord /\ tab.route = Home /\ tab.chatReady /\ tab.pending = Home /\ tab.rows = Stored
      /\ tab.deleting = {} /\ tab.letGo = {} /\ tab.boot = NoBoot /\ tab.dialog = NoDialog /\ tab.snapshot = Home
  BY NavigationConstants DEF NoBoot, Place, NavigationInit, NavTabRecord
<1>4. commands = {} /\ arrivals = <<>> /\ evicted = {} /\ used = Stored
  BY DEF NavigationInit
<1>5. Len(arrivals) = 0
  BY <1>4
<1>6. NavTyped
  BY <1>2, <1>3, <1>4, NavigationConstants DEF NavTyped
<1>7. ToBeServed(tab, commands, arrivals) /\ SettledInv(tab)
  BY <1>3 DEF ToBeServed, SettledInv
<1>8. NoBoot.phase = "none"
  BY DEF NoBoot
<1>9. /\ ActivesInv(commands, arrivals) /\ DeletingInv(tab, UnderWay(commands, arrivals)) /\ LetGoInv(tab, commands)
      /\ BornInv(chatHub, tab, commands, arrivals) /\ PendingInv(chatHub, tab, UnderWay(commands, arrivals))
      /\ RefusedInv(chatHub, arrivals) /\ NoticeInv(tab, UnderWay(commands, arrivals))
  BY <1>3, <1>4, <1>5, <1>8 DEF ActivesInv, DeletingInv, LetGoInv, BornInv, PendingInv, RefusedInv, NoticeInv
<1>10. RowsInv(chatHub, tab, commands, arrivals)
  BY <1>2, <1>3, <1>5 DEF RowsInv
<1> QED BY <1>6, <1>7, <1>9, <1>10 DEF NavInv, AllFit

\* Every step keeps the invariant.
LEMMA NavStep == NavInv /\ [NavigationStep]_navigationVars => NavInv'
<1> SUFFICES ASSUME NavInv, [NavigationStep]_navigationVars PROVE NavInv'
  OBVIOUS
<1>1. ASSUME NEW chat \in ChatKeys, CreateChat(chat) PROVE NavInv'
  BY <1>1, CreateKeeps
<1>2. ASSUME NEW chat \in ChatKeys, AskDelete(chat) PROVE NavInv'
  BY <1>2, DialogKeeps
<1>3. ASSUME NEW chat \in ChatKeys, DeletedElsewhere(chat) PROVE NavInv'
  BY <1>3, ElsewhereKeeps
<1>4. ASSUME NEW chat \in ChatKeys, NEW cached \in BOOLEAN, FollowRow(chat, cached) PROVE NavInv'
  BY <1>4, FollowKeeps
<1>5. ASSUME NEW chat \in ChatKeys, NEW op \in {"fork", "merge"}, NEW source \in ChatKeys, Bootstrap(op, chat, source)
      PROVE  NavInv'
  BY <1>5, BootstrapKeeps
<1>6. CASE DeleteConfirmed
  BY <1>6, ConfirmKeeps
<1>7. CASE DeleteDeclined \/ DismissBootstrapError
  BY <1>7, DialogKeeps
<1>8. ASSUME NEW command \in commands, HubSubscribes(command) PROVE NavInv'
  BY <1>8, SubscribesKeeps
<1>9. ASSUME NEW command \in commands, NEW ok \in BOOLEAN, HubHandles(command, ok) PROVE NavInv'
  BY <1>9, DoneKeeps, FailedKeeps
<1>10. ASSUME NEW i \in DOMAIN arrivals, TabHears(i) PROVE NavInv'
  BY <1>10, HearsKeeps
<1>11. CASE UNCHANGED navigationVars
  BY <1>11 DEF navigationVars, NavInv, NavTyped
<1> QED BY <1>1, <1>2, <1>3, <1>4, <1>5, <1>6, <1>7, <1>8, <1>9, <1>10, <1>11 DEF NavigationStep

\* The invariant makes the parts of the property but the last one.
LEMMA NavGives == NavInv => NavigationTypeOK /\ TabIsSomewhere /\ NoticeIsTrue
<1> SUFFICES ASSUME NavInv PROVE NavigationTypeOK /\ TabIsSomewhere /\ NoticeIsTrue
  OBVIOUS
<1>1. NavTyped /\ AllFit(chatHub, tab, commands, arrivals) /\ ToBeServed(tab, commands, arrivals) /\ SettledInv(tab)
  BY DEF NavInv
<1>2. NavigationTypeOK
  <2>1. \A c \in NavCommand : c.op \in {"create", "delete", "fork", "merge", "subscribe"}
    BY DEF NavCommand
  <2>2. {tab.route, tab.pending, tab.snapshot, tab.boot.chat, chatHub.topic} \subseteq Place
    BY <1>1 DEF NavTyped, NavTabRecord, NavHubRecord
  <2>3. tab.boot.phase \in {"none", "compacting", "starting", "error"}
    BY <1>1 DEF NavTyped, NavTabRecord
  <2>4. /\ tab.rows \subseteq ChatKeys /\ tab.deleting \subseteq ChatKeys /\ chatHub.chats \subseteq ChatKeys
        /\ chatHub.last \subseteq ChatKeys /\ evicted \subseteq ChatKeys
    BY <1>1 DEF NavTyped, NavTabRecord, NavHubRecord
  <2>5. UNION {tab.rows, tab.deleting, chatHub.chats, chatHub.last, evicted} \subseteq ChatKeys
    BY <2>4
  <2> QED BY <1>1, <2>1, <2>2, <2>3, <2>5 DEF NavigationTypeOK, NavTyped, Place
<1>3. TabIsSomewhere
  <2> SUFFICES ASSUME Quiet
               PROVE  /\ tab.route \in chatHub.chats \cup chatHub.gone \cup {Home} \cup ({tab.pending} \cap tab.letGo)
                      /\ tab.rows \subseteq chatHub.chats /\ chatHub.chats \subseteq tab.rows \cup chatHub.refused
                      /\ tab.deleting = {}
    BY DEF TabIsSomewhere
  <2>1. commands = {} /\ Len(arrivals) = 0
    BY DEF Quiet
  <2>2. UnderWay(commands, arrivals) = {}
    BY <2>1 DEF UnderWay
  <2>3. tab.deleting = {}
    BY <1>1, <2>2 DEF AllFit, DeletingInv
  <2>4. tab.rows \subseteq chatHub.chats /\ chatHub.chats \subseteq tab.rows \cup chatHub.refused
    BY <1>1, <2>1 DEF AllFit, RowsInv
  <2>5. tab.chatReady
    BY <1>1, <2>1 DEF ToBeServed
  <2>6. tab.pending # Home => tab.pending \in chatHub.chats \cup chatHub.gone \cup tab.letGo
    BY <1>1, <2>2 DEF AllFit, PendingInv, Born
  <2> QED BY <1>1, <2>3, <2>4, <2>5, <2>6 DEF SettledInv
<1>4. NoticeIsTrue
  BY <1>1 DEF NavTyped, AllFit, NoticeInv, NoticeIsTrue, UnderWay
<1> QED BY <1>2, <1>3, <1>4

\* What is listed and shown of a tab is of chats that are listed.
KeptAt(h, t, w) == ListedInv(h, t, w) /\ ShownInv(h, t, w)

-----------------------------------------------------------------------------
(* Nobody is taken away from a new chat *)

\* A render takes the tab away from no chat that is there, if what it is given is kept.
LEMMA KeptRenders ==
    ASSUME KeptInv, tab \in NavTabRecord, NEW t \in NavTabRecord, NEW others \in SUBSET NavCommand, Renders(t, others),
           UNCHANGED chatHub, t.deleting \subseteq t.letGo, CreatesInv(chatHub, others, used'),
           ~chatHub.large => KeptAt(chatHub, t, arrivals')
    PROVE  KeptInv'
<1> DEFINE new == tab'
           h == chatHub
           v == arrivals'
           cs == commands'
           gone == evicted'
           ids == used'
<1>1. /\ new \in NavTabRecord /\ SameTab(new, t)
      /\ new.pending \in {t.pending, Home} /\ new.snapshot \in {t.snapshot, Home}
      /\ (new.pending # t.pending => t.snapshot = t.pending \/ t.pending \in t.rows)
      /\ cs = Subscribed(new, others)
      /\ new.route = t.route \/ new.route = Home
      /\ \A x \in gone : \/ x \in evicted
                         \/ /\ x = t.route /\ x # Home /\ x \in h.chats /\ x \notin t.letGo
                            /\ x \notin t.rows /\ (t.pending # x \/ t.snapshot = x)
  BY RendersGives
<1> HIDE DEF new, cs, v, h, gone, ids
<1>2. \A c \in cs : c \in others \/ (c.op = "subscribe" /\ c.step = "sent")
  BY <1>1, SubscribedGives
<1>3. new.letGo = t.letGo /\ new.deleting = t.deleting /\ new.rows = t.rows /\ new.dialog = t.dialog
  BY <1>1 DEF SameTab
<1>4. CreatesInv(h, cs, ids)
  BY <1>2 DEF Creates, h, ids, CreatesInv
<1>5. Loose(h, new) = Loose(h, t)
  BY <1>3 DEF Loose
<1>6. ASSUME ~h.large PROVE ListedInv(h, new, v) /\ ShownInv(h, new, v) /\ gone = {}
  <2>1. ListedInv(h, t, v) /\ ShownInv(h, t, v) /\ evicted = {}
    BY <1>6 DEF KeptAt, KeptInv, h, v
  <2>2. ListedInv(h, new, v)
    BY <1>3, <1>5, <2>1 DEF ListedInv
  <2>3. t.snapshot \in t.rows \cup Loose(h, t) \cup {Home} /\ t.route \in t.rows \cup Loose(h, t) \cup {Home, t.pending}
        /\ t.dialog.next \subseteq t.rows \cup Loose(h, t)
    BY <2>1 DEF ShownInv
  <2>4. new.snapshot \in new.rows \cup Loose(h, new) \cup {Home}
    BY <1>1, <1>3, <1>5, <2>3
  <2>5. new.route \in new.rows \cup Loose(h, new) \cup {Home, new.pending}
    BY <1>1, <1>3, <1>5, <2>3
  <2>6. ShownInv(h, new, v)
    BY <1>3, <1>5, <2>1, <2>3, <2>4, <2>5 DEF ShownInv
  <2>7. h.chats \cap h.gone = {}
    BY DEF KeptInv, CreatesInv, h
  <2>8. \A x \in gone : FALSE
    BY <1>1, <2>1, <2>3, <2>7 DEF Loose
  <2> QED BY <2>2, <2>6, <2>8
<1>7. new.deleting \subseteq new.letGo
  BY <1>3
<1>8. chatHub' = h
  BY DEF h
<1> QED BY <1>4, <1>6, <1>7, <1>8 DEF KeptInv, new, v, cs, gone, ids

\* A tab that lists as much, shows what is listed and has let go of more.
FollowsHub(h, t, new) ==
    /\ t.rows \subseteq new.rows \cup Loose(h, new) /\ new.rows \subseteq t.rows /\ t.letGo \subseteq new.letGo
    /\ new.snapshot \in {t.snapshot, Home}
    /\ new.route \in new.rows \cup Loose(h, new) \cup {Home, new.pending}
    /\ new.dialog.next \subseteq new.rows \cup Loose(h, new)

\* What is on its way fits it.
LEMMA FollowsGives ==
    ASSUME NEW h, NEW t, NEW new, NEW w, KeptAt(h, t, w), FollowsHub(h, t, new)
    PROVE  KeptAt(h, new, w)
<1>1. Loose(h, t) \subseteq Loose(h, new)
  BY DEF FollowsHub, Loose
<1>2. ListedInv(h, new, w)
  <2>1. \A x \in new.rows \ Loose(h, new) : x \in h.chats /\ \A i \in 1..Len(w) : w[i].topic = "sidebar" => x \in w[i].rows
    BY <1>1 DEF KeptAt, ListedInv, FollowsHub
  <2>2. \A i \in 1..Len(w) : w[i].topic = "sidebar" =>
          \A x \in w[i].rows \ Loose(h, new) :
              /\ x \in h.chats
              /\ \A j \in 1..Len(w) : j > i /\ w[j].topic = "sidebar" => x \in w[j].rows
    BY <1>1 DEF KeptAt, ListedInv
  <2>3. \A x \in h.chats \ Loose(h, new) : x \in new.rows \/ \E i \in 1..Len(w) : w[i].topic = "sidebar" /\ x \in w[i].rows
    BY <1>1 DEF KeptAt, ListedInv, FollowsHub
  <2> QED BY <2>1, <2>2, <2>3 DEF ListedInv
<1>3. ShownInv(h, new, w)
  <2>1. new.snapshot \in new.rows \cup Loose(h, new) \cup {Home}
    BY <1>1 DEF KeptAt, ShownInv, FollowsHub
  <2>2. \A i \in 1..Len(w) : w[i].topic = "chat" /\ w[i].known /\ w[i].chat \notin Loose(h, new) =>
          \/ w[i].chat \in new.rows
          \/ \E j \in 1..Len(w) : j < i /\ w[j].topic = "sidebar" /\ w[i].chat \in w[j].rows
    BY <1>1 DEF KeptAt, ShownInv, FollowsHub
  <2> QED BY <2>1, <2>2 DEF ShownInv, FollowsHub
<1> QED BY <1>2, <1>3 DEF KeptAt

\* A command more, which is the only one to create its chat if it creates one.
LEMMA MoreCreates ==
    ASSUME NEW h, NEW cs, NEW ids, NEW d, NEW more, more = cs \cup {d}, NEW new, ids \subseteq new,
           CreatesInv(h, cs, ids), Creates(d) => d.chat \in new \ ids
    PROVE  CreatesInv(h, more, new)
BY DEF CreatesInv

\* What is kept, for a tab at rest.
LEMMA KeptNow ==
    ASSUME KeptInv
    PROVE  /\ CreatesInv(chatHub, commands, used) /\ tab.deleting \subseteq tab.letGo
           /\ (~chatHub.large => KeptAt(chatHub, tab, arrivals))
BY DEF KeptInv, KeptAt

\* A row is followed.
LEMMA FollowKept ==
    ASSUME NavInv, KeptInv, NEW chat \in ChatKeys, NEW cached \in BOOLEAN, FollowRow(chat, cached)
    PROVE  KeptInv'
<1> DEFINE t == Routed(tab, chat, cached)
<1>1. /\ chat \in tab.rows /\ Renders(t, commands) /\ UNCHANGED <<used, chatHub, arrivals>>
  BY DEF FollowRow
<1>2. tab \in NavTabRecord /\ commands \in SUBSET NavCommand /\ chat \in Place
  BY PlacedNow DEF Place
<1>3. t = Routed(tab, chat, cached)
  OBVIOUS
<1> HIDE DEF t
<1>4. /\ t \in NavTabRecord /\ SameTab(t, tab) /\ t.route = chat /\ t.pending = tab.pending
      /\ t.snapshot \in {tab.snapshot, Home}
  BY <1>2, <1>3, RoutedGives
<1>5. t.rows = tab.rows /\ t.letGo = tab.letGo /\ t.dialog = tab.dialog /\ t.deleting = tab.deleting
  BY <1>4 DEF SameTab
<1>6. ASSUME ~chatHub.large PROVE KeptAt(chatHub, t, arrivals)
  BY <1>6, KeptNow, <1>5, <1>1, <1>4, FollowsGives DEF KeptAt, ShownInv, Loose, FollowsHub
<1>7. CreatesInv(chatHub, commands, used') /\ t.deleting \subseteq t.letGo /\ arrivals' = arrivals
  BY <1>1, <1>5, KeptNow
<1> QED BY <1>1, <1>2, <1>4, <1>6, <1>7, KeptRenders

\* A chat is created.
LEMMA CreateKept ==
    ASSUME NavInv, KeptInv, NEW chat \in ChatKeys, CreateChat(chat)
    PROVE  KeptInv'
<1> DEFINE base == [tab EXCEPT !.pending = chat]
           t == Routed(base, chat, FALSE)
           d == Command("create", chat, "sent", tab.route)
           others == commands \cup {d}
<1>1. /\ Renders(t, others) /\ UNCHANGED <<chatHub, arrivals>> /\ chat \notin used /\ used' = used \cup {chat}
  BY DEF CreateChat, Fresh
<1>2. tab \in NavTabRecord /\ commands \subseteq NavCommand /\ chat \in Place
  BY PlacedNow DEF Place
<1>3. /\ base \in NavTabRecord /\ SameTab(base, tab) /\ base.pending = chat /\ base.snapshot = tab.snapshot
  BY <1>2 DEF NavTabRecord, SameTab
<1>4. d \in NavCommand /\ d.chat = chat
  <2>1. tab.route \in Place /\ d = Command("create", chat, "sent", tab.route)
    BY <1>2 DEF NavTabRecord
  <2> HIDE DEF d
  <2> QED BY <2>1, CommandGives
<1>5. t = Routed(base, chat, FALSE)
  OBVIOUS
<1> HIDE DEF base, d, t
<1>6. /\ t \in NavTabRecord /\ SameTab(t, base) /\ t.route = chat /\ t.pending = chat
      /\ t.snapshot \in {tab.snapshot, Home}
  <2> DEFINE no == FALSE
  <2>1. no \in BOOLEAN /\ t = Routed(base, chat, no)
    BY <1>5
  <2> HIDE DEF no
  <2> QED BY <1>2, <1>3, <2>1, RoutedGives
<1>7. t.rows = tab.rows /\ t.letGo = tab.letGo /\ t.dialog = tab.dialog /\ t.deleting = tab.deleting
  BY <1>3, <1>6 DEF SameTab
<1>8. ASSUME ~chatHub.large PROVE KeptAt(chatHub, t, arrivals)
  BY <1>8, KeptNow, <1>7, <1>6, FollowsGives DEF KeptAt, ShownInv, Loose, FollowsHub
<1> DEFINE ids == used'
<1>9. used \subseteq ids /\ d.chat \in ids \ used
  BY <1>1, <1>4
<1>10. others = commands \cup {d} /\ others \in SUBSET NavCommand
  BY <1>2, <1>4
<1> HIDE DEF ids, others
<1>11. CreatesInv(chatHub, others, ids)
  BY <1>9, <1>10, KeptNow, MoreCreates
<1>12. t.deleting \subseteq t.letGo /\ arrivals' = arrivals
  BY <1>1, <1>7, KeptNow
<1> QED BY <1>1, <1>2, <1>6, <1>8, <1>10, <1>11, <1>12, KeptRenders DEF ids

\* A chat is deleted: it is let go of, and the tab goes to another row.
LEMMA ConfirmKept ==
    ASSUME NavInv, KeptInv, DeleteConfirmed
    PROVE  KeptInv'
<1> DEFINE asked == tab.dialog
           x == asked.chat
           base == [tab EXCEPT !.dialog = NoDialog, !.deleting = @ \cup {asked.chat}, !.rows = @ \ {asked.chat},
                               !.letGo = @ \cup {asked.chat}]
           d == Command("delete", asked.chat, "sent", Home)
           others == commands \cup {d}
<1>1. tab \in NavTabRecord /\ commands \subseteq NavCommand
  BY PlacedNow
<1>2. asked # NoDialog /\ UNCHANGED <<used, chatHub, arrivals, acts>>
  BY DEF DeleteConfirmed
<1>3. asked \in [chat: ChatKeys, active: Place, next: SUBSET ChatKeys]
  BY <1>1, <1>2 DEF NavTabRecord
<1>4. PICK next \in asked.next \cup {Home}, cached \in BOOLEAN :
         Renders(IF asked.chat = asked.active THEN Routed(base, next, cached) ELSE base, others)
  <2>1. \E next \in IF asked.next = {} THEN {Home} ELSE asked.next, cached \in BOOLEAN :
             Renders(IF asked.chat = asked.active THEN Routed(base, next, cached) ELSE base, others)
    BY DEF DeleteConfirmed
  <2>2. (IF asked.next = {} THEN {Home} ELSE asked.next) \subseteq asked.next \cup {Home}
    OBVIOUS
  <2> HIDE DEF asked, base, others
  <2> QED BY <2>1, <2>2
<1>5. x \in ChatKeys /\ Home \in Place /\ next \in Place
  BY <1>3 DEF Place
<1>6. /\ base \in NavTabRecord /\ base.route = tab.route /\ base.pending = tab.pending /\ base.snapshot = tab.snapshot
      /\ base.rows = tab.rows \ {x} /\ base.deleting = tab.deleting \cup {x}
      /\ base.letGo = tab.letGo \cup {x} /\ base.dialog = NoDialog
  <2> DEFINE del == tab.deleting \cup {x}
             rows == tab.rows \ {x}
             let == tab.letGo \cup {x}
  <2>1. base = [tab EXCEPT !.dialog = NoDialog, !.deleting = del, !.rows = rows, !.letGo = let]
    OBVIOUS
  <2>2. del \in SUBSET ChatKeys /\ rows \in SUBSET ChatKeys /\ let \in SUBSET Place
    BY <1>1, <1>5 DEF NavTabRecord, Place
  <2> HIDE DEF base, del, rows, let, x
  <2>3. /\ base \in NavTabRecord /\ base.route = tab.route /\ base.pending = tab.pending /\ base.snapshot = tab.snapshot
        /\ base.rows = rows /\ base.deleting = del /\ base.letGo = let /\ base.dialog = NoDialog
    BY <1>1, <2>1, <2>2 DEF NavTabRecord
  <2> QED BY <2>3 DEF del, rows, let
<1>7. d \in NavCommand /\ ~Creates(d)
  <2>1. d = Command("delete", x, "sent", Home)
    OBVIOUS
  <2> HIDE DEF d, x
  <2>2. d \in NavCommand /\ d.op = "delete" /\ d.step = "sent"
    BY <1>5, <2>1, CommandGives
  <2> QED BY <2>2 DEF Creates
<1> DEFINE t == IF x = asked.active THEN Routed(base, next, cached) ELSE base
<1>8. Renders(t, others)
  BY <1>4
<1>9. t = Routed(base, next, cached) \/ t = base
  OBVIOUS
<1>10. next \in tab.dialog.next \cup {Home}
  OBVIOUS
<1> HIDE DEF asked, x, base, d, t
<1>11. /\ t \in NavTabRecord /\ SameTab(t, base) /\ t.pending = base.pending /\ t.snapshot \in {base.snapshot, Home}
       /\ t.route \in {base.route, next}
  BY <1>6, <1>5, RoutedGives, <1>9 DEF SameTab
<1>12. /\ t.letGo = tab.letGo \cup {x} /\ t.rows = tab.rows \ {x} /\ t.dialog = NoDialog
       /\ t.deleting = tab.deleting \cup {x} /\ t.pending = tab.pending
  BY <1>6, <1>11 DEF SameTab
<1>13. ASSUME ~chatHub.large PROVE KeptAt(chatHub, t, arrivals)
  <2>1. KeptAt(chatHub, tab, arrivals)
    BY <1>13, KeptNow
  <2>2. tab.rows \subseteq t.rows \cup Loose(chatHub, t) /\ Loose(chatHub, tab) \subseteq Loose(chatHub, t)
    BY <1>12 DEF Loose
  <2>3. /\ tab.dialog.next \subseteq tab.rows \cup Loose(chatHub, tab)
        /\ tab.route \in tab.rows \cup Loose(chatHub, tab) \cup {Home, tab.pending}
    BY <2>1 DEF KeptAt, ShownInv
  <2>4. t.route \in t.rows \cup Loose(chatHub, t) \cup {Home, t.pending}
    BY <1>6, <1>10, <1>11, <1>12, <2>2, <2>3
  <2>5. t.dialog.next = {}
    BY <1>12 DEF NoDialog
  <2>6. FollowsHub(chatHub, tab, t)
    BY <1>6, <1>11, <1>12, <2>2, <2>4, <2>5 DEF FollowsHub
  <2> QED BY <2>1, <2>6, FollowsGives
<1> DEFINE ids == used'
<1>14. used \subseteq ids
  BY <1>2
<1>15. others = commands \cup {d} /\ others \in SUBSET NavCommand
  BY <1>1, <1>7 DEF d, x, asked
<1> HIDE DEF ids, others
<1>16. CreatesInv(chatHub, others, ids)
  BY <1>7, <1>14, <1>15, KeptNow, MoreCreates
<1>17. t.deleting \subseteq t.letGo /\ arrivals' = arrivals /\ chatHub' = chatHub
  BY <1>2, <1>12, KeptNow
<1> QED BY <1>1, <1>8, <1>11, <1>13, <1>15, <1>16, <1>17, KeptRenders DEF ids

\* A tab whose place and chats are the same, and nothing else is changed.
LEMMA SamePlaceKept ==
    ASSUME KeptInv, UNCHANGED <<used, chatHub, commands, arrivals, evicted>>,
           tab'.route = tab.route, tab'.pending = tab.pending, tab'.snapshot = tab.snapshot,
           tab'.rows = tab.rows, tab'.deleting = tab.deleting, tab'.letGo = tab.letGo,
           tab'.dialog.next \subseteq tab.rows \/ tab'.dialog = tab.dialog
    PROVE  KeptInv'
<1> DEFINE new == tab'
<1>1. Loose(chatHub, new) = Loose(chatHub, tab)
  BY DEF Loose
<1>2. ASSUME ~chatHub.large PROVE ListedInv(chatHub, new, arrivals) /\ ShownInv(chatHub, new, arrivals) /\ evicted = {}
  BY <1>2, <1>1 DEF KeptInv, ListedInv, ShownInv
<1>3. CreatesInv(chatHub, commands, used) /\ new.deleting \subseteq new.letGo
  BY DEF KeptInv
<1> HIDE DEF new
<1>4. chatHub' = chatHub /\ commands' = commands /\ arrivals' = arrivals /\ evicted' = evicted /\ used' = used
  OBVIOUS
<1> QED BY <1>2, <1>3, <1>4 DEF KeptInv, new

\* The dialog is opened or closed, or a notice is taken away.
LEMMA DialogKept ==
    ASSUME NavInv, KeptInv, \/ \E chat \in ChatKeys : AskDelete(chat)
                            \/ DeleteDeclined \/ DismissBootstrapError
    PROVE  KeptInv'
<1>1. tab \in NavTabRecord
  BY PlacedNow
<1>2. ASSUME NEW dialog, dialog.next \subseteq tab.rows, tab' = [tab EXCEPT !.dialog = dialog],
             UNCHANGED <<used, chatHub, commands, arrivals, evicted>>
      PROVE  KeptInv'
  BY <1>1, <1>2, SamePlaceKept DEF NavTabRecord
<1>3. ASSUME NEW chat \in ChatKeys, AskDelete(chat) PROVE KeptInv'
  <2> DEFINE dialog == [chat |-> chat, active |-> tab.route, next |-> tab.rows \ {chat}]
  <2>1. dialog.next \subseteq tab.rows
    OBVIOUS
  <2>2. tab' = [tab EXCEPT !.dialog = dialog] /\ UNCHANGED <<used, chatHub, commands, arrivals, evicted>>
    BY <1>3 DEF AskDelete
  <2> HIDE DEF dialog
  <2> QED BY <1>2, <2>1, <2>2
<1>4. CASE DeleteDeclined
  BY <1>4, <1>2 DEF NoDialog, DeleteDeclined
<1>5. CASE DismissBootstrapError
  BY <1>5, <1>1, SamePlaceKept DEF DismissBootstrapError, NavTabRecord
<1> QED BY <1>3, <1>4, <1>5

\* A fork or a merge begins.
LEMMA BootstrapKept ==
    ASSUME NavInv, KeptInv, NEW op \in {"fork", "merge"}, NEW chat \in ChatKeys, NEW source \in ChatKeys,
           Bootstrap(op, chat, source)
    PROVE  KeptInv'
<1> DEFINE d == Command(op, chat, "create", source)
           more == commands \cup {d}
           ids == used'
<1>1. /\ commands' = more /\ chat \notin used /\ used' = used \cup {chat}
      /\ UNCHANGED <<chatHub, tab, arrivals, evicted>>
  BY DEF Bootstrap, Fresh
<1>2. d.chat = chat
  BY DEF Command
<1>3. used \subseteq ids /\ d.chat \in ids \ used
  BY <1>1, <1>2
<1>4. more = commands \cup {d}
  OBVIOUS
<1> HIDE DEF d, more, ids
<1>5. CreatesInv(chatHub, more, ids)
  BY <1>3, <1>4, KeptNow, MoreCreates
<1>6. chatHub' = chatHub /\ tab' = tab /\ arrivals' = arrivals /\ evicted' = evicted /\ commands' = more
  BY <1>1
<1> QED BY <1>5, <1>6 DEF KeptInv, ids

\* What the hub sends tells of a chat after the sidebar that lists it.
LEMMA HubLists ==
    ASSUME NEW h, NEW g, NEW t, NEW cs, NEW rest, NEW w, NEW answer, NEW v, NEW chats,
           Handled(h, g, t, cs, rest, w, answer, v, chats), KeptAt(h, t, w)
    PROVE  KeptAt(g, t, v)
<1> DEFINE n == Len(w)
           a == Len(answer)
           m == n + a
<1>1. /\ w \in Seq(HubMessage) /\ answer \in Seq(ReplyMessage) /\ SentAfter(w, answer, v, h, chats) /\ g.chats = chats
      /\ h.gone \subseteq g.gone /\ h.chats \subseteq Born(g, t) /\ h.chats = h.last
  BY DEF Handled, AllFit, RowsInv
<1>2. n \in Nat /\ a \in Nat /\ m \in Nat /\ v \in Seq(HubMessage) /\ Len(v) \in Nat /\ m <= Len(v)
  BY <1>1 DEF SentAfter
<1>3. /\ \A k \in 1..n : k \in 1..Len(v) /\ v[k] = w[k]
      /\ \A k \in 1..a : v[n + k] = answer[k]
  BY <1>1, <1>2 DEF SentAfter
<1>4. \A k \in 1..a : v[n + k].topic = "reply"
  <2>1. \A k \in 1..a : answer[k] \in ReplyMessage
    BY <1>1
  <2> QED BY <1>3, <2>1 DEF ReplyMessage
<1>5. /\ \A k \in 1..Len(v) : k > m =>
             \/ k = m + 1 /\ v[k].topic = "sidebar" /\ v[k].rows = chats /\ chats # h.last
             \/ v[k].topic = "chat" /\ (v[k].known => v[k].chat \in chats)
      /\ chats # h.last => m + 1 \in 1..Len(v) /\ v[m + 1].topic = "sidebar" /\ v[m + 1].rows = chats
  BY <1>1 DEF SentAfter
<1>6. ASSUME NEW k \in 1..Len(v), v[k].topic # "reply" PROVE k \in 1..n \/ k > m
  <2>1. CASE k > n /\ k <= m
    <3>1. k - n \in 1..a /\ k = n + (k - n)
      BY <1>2, <2>1
    <3> QED BY <1>4, <1>6, <3>1
  <2> QED BY <1>2, <2>1
<1> HIDE DEF n, a, m
<1>7. ASSUME NEW k \in 1..Len(v), v[k].topic = "sidebar"
      PROVE  (k \in 1..n /\ v[k] = w[k]) \/ (k = m + 1 /\ v[k].rows = chats)
  BY <1>3, <1>5, <1>6, <1>7
<1>8. Loose(h, t) \subseteq Loose(g, t) /\ \A x \in h.chats \ Loose(g, t) : x \in chats
  BY <1>1 DEF Loose, Born
<1>9. ListedInv(h, t, w) /\ ShownInv(h, t, w)
  BY DEF KeptAt
<1>10. ASSUME NEW x \in t.rows \ Loose(g, t)
       PROVE  x \in chats /\ \A i \in 1..Len(v) : v[i].topic = "sidebar" => x \in v[i].rows
  BY <1>8, <1>9, <1>10, <1>7 DEF ListedInv, n
<1>11. ASSUME NEW i \in 1..Len(v), v[i].topic = "sidebar", NEW x \in v[i].rows \ Loose(g, t)
       PROVE  /\ x \in chats
              /\ \A j \in 1..Len(v) : j > i /\ v[j].topic = "sidebar" => x \in v[j].rows
  <2>1. CASE i \in 1..n /\ v[i] = w[i]
    <3>1. x \in h.chats /\ \A j \in 1..n : j > i /\ w[j].topic = "sidebar" => x \in w[j].rows
      BY <1>8, <1>9, <1>11, <2>1 DEF ListedInv, n
    <3>2. x \in chats
      BY <1>8, <1>11, <3>1
    <3> QED BY <1>7, <3>1, <3>2
  <2>2. CASE i = m + 1 /\ v[i].rows = chats
    <3>1. \A j \in 1..Len(v) : j > i => ~(j \in 1..n) /\ j # m + 1
      BY <1>2, <2>2 DEF m
    <3> QED BY <1>7, <1>11, <2>2, <3>1
  <2> QED BY <1>7, <1>11, <2>1, <2>2
<1>12. ASSUME NEW x \in chats \ Loose(g, t)
       PROVE  x \in t.rows \/ \E i \in 1..Len(v) : v[i].topic = "sidebar" /\ x \in v[i].rows
  BY <1>8, <1>9, <1>12, <1>3, <1>1, <1>5 DEF ListedInv, n
<1>13. ListedInv(g, t, v)
  BY <1>1, <1>10, <1>11, <1>12 DEF ListedInv
<1>14. ASSUME NEW i \in 1..Len(v), v[i].topic = "chat", v[i].known, v[i].chat \notin Loose(g, t)
       PROVE  \/ v[i].chat \in t.rows
              \/ \E j \in 1..Len(v) : j < i /\ v[j].topic = "sidebar" /\ v[i].chat \in v[j].rows
  <2>1. CASE i \in 1..n
    BY <1>3, <1>8, <1>14, <2>1, <1>9 DEF ShownInv, n
  <2>2. CASE i > m
    <3>1. v[i].chat \in chats
      BY <1>5, <1>14, <2>2
    <3>2. CASE v[i].chat \notin t.rows
      BY <1>12, <1>14, <3>1, <3>2, <1>7, <1>2, <2>2 DEF m
    <3> QED BY <3>2
  <2> QED BY <1>6, <1>14, <2>1, <2>2
<1>15. ShownInv(g, t, v)
  BY <1>8, <1>9, <1>14 DEF ShownInv
<1> QED BY <1>13, <1>15 DEF KeptAt

\* A step of the hub.
LEMMA HubKept ==
    ASSUME KeptInv, ChatHubStep
    PROVE  KeptInv'
<1> DEFINE h == chatHub
           g == chatHub'
           w == arrivals
           v == arrivals'
           rest == commands'
           chats == g.chats
<1>1. PICK answer : Handled(h, g, tab, commands, rest, w, answer, v, chats)
  BY DEF ChatHubStep
<1>2. /\ g.large = h.large /\ used' = used /\ tab' = tab /\ evicted' = evicted
      /\ \A x \in chats : x \in h.chats \/ \E c \in commands \ rest : Creates(c) /\ c.chat = x
      /\ g.gone \subseteq h.gone \cup (h.chats \ chats)
  BY DEF ChatHubStep
<1>3. g.chats = chats
  OBVIOUS
<1>4. CreatesInv(h, commands, used) /\ tab.deleting \subseteq tab.letGo /\ (~h.large => KeptAt(h, tab, w))
  BY KeptNow
<1>5. ~h.large => evicted = {}
  BY DEF KeptInv
<1> HIDE DEF g, h, w, v, rest, chats
<1>6. rest \subseteq commands
  BY <1>1 DEF Handled
<1>7. CreatesInv(g, rest, used)
  <2>1. g.chats \cup g.gone \subseteq used
    BY <1>2, <1>3, <1>4 DEF CreatesInv
  <2>2. ASSUME NEW c \in rest, Creates(c) PROVE c.chat \in used \ (g.chats \cup g.gone)
    <3>1. c.chat \in used \ (h.chats \cup h.gone)
      BY <1>4, <1>6, <2>2 DEF CreatesInv
    <3>2. c.chat \notin g.gone
      BY <1>2, <3>1
    <3>3. c.chat \notin chats
      <4> SUFFICES ASSUME c.chat \in chats PROVE FALSE
        OBVIOUS
      <4>1. PICK e \in commands \ rest : Creates(e) /\ e.chat = c.chat
        BY <1>2, <3>1
      <4>2. c = e
        BY <1>4, <1>6, <2>2, <4>1 DEF CreatesInv
      <4> QED BY <4>1, <4>2
    <3> QED BY <1>3, <3>1, <3>2, <3>3
  <2>3. \A c, d \in rest : Creates(c) /\ Creates(d) /\ c.chat = d.chat => c = d
    BY <1>4, <1>6 DEF CreatesInv
  <2>4. ASSUME NEW x \in chats, x \in g.gone PROVE FALSE
    <3>1. x \in h.gone
      BY <1>2, <2>4
    <3>2. x \notin h.chats
      BY <1>4, <3>1 DEF CreatesInv
    <3>3. PICK c \in commands \ rest : Creates(c) /\ c.chat = x
      BY <1>2, <2>4, <3>2
    <3> QED BY <1>4, <3>1, <3>3 DEF CreatesInv
  <2> QED BY <1>3, <2>1, <2>2, <2>3, <2>4 DEF CreatesInv
<1>8. ~g.large => KeptAt(g, tab, v)
  BY <1>1, <1>2, <1>4, HubLists
<1> QED BY <1>2, <1>4, <1>5, <1>7, <1>8 DEF KeptInv, KeptAt, g, v, rest

\* Without the first message what is on its way is as before, one place ahead.
LEMMA FirstTaken ==
    ASSUME NEW w, NEW v, Taken(w, 1, v)
    PROVE  /\ \A k \in 1..Len(v) : k + 1 \in 1..Len(w) /\ v[k] = w[k + 1]
           /\ \A j \in 1..Len(w) : j # 1 => j - 1 \in 1..Len(v) /\ v[j - 1] = w[j]
<1>1. w \in Seq(HubMessage) /\ 1 \in 1..Len(w) /\ v = RemoveAt(w, 1)
  BY DEF Taken
<1> DEFINE i == 1
<1>2. i \in 1..Len(w) /\ i = 1 /\ v = RemoveAt(w, i)
  BY <1>1
<1> HIDE DEF i
<1>3. v \in Seq(HubMessage) /\ Len(v) = Len(w) - 1 /\ \A k \in 1..Len(v) : v[k] = IF k < i THEN w[k] ELSE w[k + 1]
  BY <1>1, <1>2, OneOut
<1>4. Len(w) \in Nat /\ Len(v) \in Nat
  BY <1>1, <1>3
<1>5. \A k \in 1..Len(v) : k + 1 \in 1..Len(w) /\ v[k] = w[k + 1]
  BY <1>2, <1>3, <1>4
<1>6. ASSUME NEW j \in 1..Len(w), j # 1 PROVE j - 1 \in 1..Len(v) /\ v[j - 1] = w[j]
  BY <1>3, <1>4, <1>6, <1>5
<1> QED BY <1>5, <1>6

\* What is listed and shown, without a message that is no sidebar.
LEMMA TakenLists ==
    ASSUME NEW h, NEW t, NEW w, NEW v, Taken(w, 1, v), w[1].topic # "sidebar", KeptAt(h, t, w)
    PROVE  KeptAt(h, t, v)
<1>1. \A k \in 1..Len(v) : k + 1 \in 1..Len(w) /\ v[k] = w[k + 1]
  BY FirstTaken
<1>2. \A j \in 1..Len(w) : j # 1 => j - 1 \in 1..Len(v) /\ v[j - 1] = w[j]
  BY FirstTaken
<1>3. ListedInv(h, t, w) /\ ShownInv(h, t, w)
  BY DEF KeptAt
<1>4. ListedInv(h, t, v)
  <2>1. \A x \in t.rows \ Loose(h, t) : x \in h.chats /\ \A i \in 1..Len(v) : v[i].topic = "sidebar" => x \in v[i].rows
    BY <1>1, <1>3 DEF ListedInv
  <2>2. ASSUME NEW i \in 1..Len(v), v[i].topic = "sidebar", NEW x \in v[i].rows \ Loose(h, t)
        PROVE  /\ x \in h.chats
               /\ \A j \in 1..Len(v) : j > i /\ v[j].topic = "sidebar" => x \in v[j].rows
    <3>1. /\ x \in h.chats
          /\ \A j \in 1..Len(w) : j > i + 1 /\ w[j].topic = "sidebar" => x \in w[j].rows
      BY <1>1, <1>3, <2>2 DEF ListedInv
    <3>2. \A j \in 1..Len(v) : j > i => j + 1 > i + 1
      OBVIOUS
    <3> QED BY <1>1, <3>1, <3>2
  <2>3. ASSUME NEW x \in h.chats \ Loose(h, t)
        PROVE  x \in t.rows \/ \E i \in 1..Len(v) : v[i].topic = "sidebar" /\ x \in v[i].rows
    BY <1>3, <2>3, <1>2 DEF ListedInv
  <2> QED BY <2>1, <2>2, <2>3 DEF ListedInv
<1>5. ASSUME NEW i \in 1..Len(v), v[i].topic = "chat", v[i].known, v[i].chat \notin Loose(h, t), v[i].chat \notin t.rows
      PROVE  \E j \in 1..Len(v) : j < i /\ v[j].topic = "sidebar" /\ v[i].chat \in v[j].rows
  <2>1. i + 1 \in 1..Len(w) /\ v[i] = w[i + 1]
    BY <1>1
  <2>2. PICK j \in 1..Len(w) : j < i + 1 /\ w[j].topic = "sidebar" /\ v[i].chat \in w[j].rows
    BY <1>3, <1>5, <2>1 DEF ShownInv
  <2>3. j - 1 \in 1..Len(v) /\ v[j - 1] = w[j] /\ j - 1 < i
    BY <1>2, <2>2
  <2> QED BY <2>2, <2>3
<1>6. ShownInv(h, t, v)
  BY <1>3, <1>5 DEF ShownInv
<1> QED BY <1>4, <1>6 DEF KeptAt

\* A sidebar is shown: it lists what the rows did, and what is to come.
LEMMA SidebarLists ==
    ASSUME NEW h, NEW t, NEW new, NEW w, NEW v, Taken(w, 1, v), w[1].topic = "sidebar", KeptAt(h, t, w),
           t.deleting \subseteq t.letGo, new.rows = w[1].rows \ t.deleting, new.letGo = t.letGo,
           new.snapshot = t.snapshot, new.route = t.route, new.pending = t.pending, new.dialog = t.dialog
    PROVE  KeptAt(h, new, v)
<1>1. \A k \in 1..Len(v) : k + 1 \in 1..Len(w) /\ v[k] = w[k + 1]
  BY FirstTaken
<1>2. \A j \in 1..Len(w) : j # 1 => j - 1 \in 1..Len(v) /\ v[j - 1] = w[j]
  BY FirstTaken
<1>3. ListedInv(h, t, w) /\ ShownInv(h, t, w) /\ 1 \in 1..Len(w)
  BY DEF KeptAt, Taken
<1>4. Loose(h, new) = Loose(h, t) /\ t.deleting \subseteq Loose(h, t)
  BY DEF Loose
<1>5. t.rows \subseteq new.rows \cup Loose(h, t)
  BY <1>3, <1>4 DEF ListedInv
<1>6. ListedInv(h, new, v)
  <2>1. ASSUME NEW x \in new.rows \ Loose(h, t)
        PROVE  x \in h.chats /\ \A i \in 1..Len(v) : v[i].topic = "sidebar" => x \in v[i].rows
    BY <2>1, <1>3, <1>1 DEF ListedInv
  <2>2. ASSUME NEW i \in 1..Len(v), v[i].topic = "sidebar", NEW x \in v[i].rows \ Loose(h, t)
        PROVE  /\ x \in h.chats
               /\ \A j \in 1..Len(v) : j > i /\ v[j].topic = "sidebar" => x \in v[j].rows
    BY <1>1, <1>3, <2>2 DEF ListedInv
  <2>3. ASSUME NEW x \in h.chats \ Loose(h, t)
        PROVE  x \in new.rows \/ \E i \in 1..Len(v) : v[i].topic = "sidebar" /\ x \in v[i].rows
    <3>1. x \in t.rows \/ \E j \in 1..Len(w) : w[j].topic = "sidebar" /\ x \in w[j].rows
      BY <1>3, <2>3 DEF ListedInv
    <3>2. ASSUME NEW j \in 1..Len(w), w[j].topic = "sidebar", x \in w[j].rows
          PROVE  x \in new.rows \/ \E i \in 1..Len(v) : v[i].topic = "sidebar" /\ x \in v[i].rows
      <4>1. CASE j = 1
        BY <1>4, <2>3, <3>2, <4>1
      <4>2. CASE j # 1
        <5>1. j - 1 \in 1..Len(v) /\ v[j - 1] = w[j]
          BY <1>2, <4>2
        <5> QED BY <3>2, <5>1
      <4> QED BY <4>1, <4>2
    <3> QED BY <1>5, <2>3, <3>1, <3>2
  <2> QED BY <1>4, <2>1, <2>2, <2>3 DEF ListedInv
<1>7. ASSUME NEW i \in 1..Len(v), v[i].topic = "chat", v[i].known, v[i].chat \notin Loose(h, t), v[i].chat \notin new.rows
      PROVE  \E j \in 1..Len(v) : j < i /\ v[j].topic = "sidebar" /\ v[i].chat \in v[j].rows
  <2>1. i + 1 \in 1..Len(w) /\ v[i] = w[i + 1] /\ v[i].chat \notin t.rows
    BY <1>1, <1>5, <1>7
  <2>2. PICK j \in 1..Len(w) : j < i + 1 /\ w[j].topic = "sidebar" /\ v[i].chat \in w[j].rows
    BY <1>3, <1>7, <2>1 DEF ShownInv
  <2>3. j # 1
    BY <1>4, <1>7, <2>2
  <2>4. j - 1 \in 1..Len(v) /\ v[j - 1] = w[j] /\ j - 1 < i
    BY <1>2, <2>2, <2>3
  <2> QED BY <2>2, <2>4
<1>8. /\ t.snapshot \in t.rows \cup Loose(h, t) \cup {Home} /\ t.route \in t.rows \cup Loose(h, t) \cup {Home, t.pending}
      /\ t.dialog.next \subseteq t.rows \cup Loose(h, t)
  BY <1>3 DEF ShownInv
<1>9. ShownInv(h, new, v)
  BY <1>4, <1>5, <1>8, <1>7 DEF ShownInv
<1> QED BY <1>6, <1>9 DEF KeptAt

\* A sidebar is heard.
LEMMA SidebarKept ==
    ASSUME NavInv, KeptInv, Heard(1), arrivals[1].topic = "sidebar", SidebarArrives(arrivals[1].rows)
    PROVE  KeptInv'
<1> DEFINE h == chatHub
           w == arrivals
           v == arrivals'
           rows == w[1].rows \ tab.deleting
           t == [tab EXCEPT !.rows = rows]
<1>1. Taken(w, 1, v) /\ UNCHANGED <<used, chatHub>> /\ Renders(t, commands) /\ w[1] \in HubMessage
  BY DEF Heard, SidebarArrives
<1>2. tab \in NavTabRecord /\ commands \in SUBSET NavCommand
  BY PlacedNow
<1>3. w[1].rows \subseteq ChatKeys
  BY <1>1 DEF HubMessage, ReplyMessage, SidebarMessage, ChatMessage
<1>4. /\ t \in NavTabRecord /\ t.rows = rows /\ t.route = tab.route /\ t.dialog = tab.dialog /\ t.snapshot = tab.snapshot
      /\ t.letGo = tab.letGo /\ t.deleting = tab.deleting /\ t.pending = tab.pending
  <2>1. rows \in SUBSET ChatKeys
    BY <1>3
  <2> HIDE DEF rows
  <2> QED BY <1>2, <2>1 DEF NavTabRecord
<1>5. t.rows = w[1].rows \ tab.deleting
  BY <1>4
<1>6. CreatesInv(h, commands, used) /\ tab.deleting \subseteq tab.letGo /\ (~h.large => KeptAt(h, tab, w))
  BY KeptNow
<1>7. w[1].topic = "sidebar"
  OBVIOUS
<1> HIDE DEF t, v, w, h, rows
<1>8. ~h.large => KeptAt(h, t, v)
  BY <1>1, <1>4, <1>5, <1>6, <1>7, SidebarLists
<1>9. CreatesInv(h, commands, used') /\ t.deleting \subseteq t.letGo
  BY <1>1, <1>4, <1>6
<1> QED BY <1>1, <1>2, <1>4, <1>8, <1>9, KeptRenders DEF h, v

\* A chat is heard of.
LEMMA ChatKept ==
    ASSUME NavInv, KeptInv, NEW i, Heard(i), ~chatHub.large => i = 1,
           arrivals[i].topic = "chat", ChatArrives(arrivals[i])
    PROVE  KeptInv'
<1> DEFINE h == chatHub
           w == arrivals
           v == arrivals'
           m == w[i]
           snapshot == IF m.known THEN m.chat ELSE Home
           shown == [tab EXCEPT !.snapshot = snapshot, !.chatReady = TRUE]
           t == IF m.visit # tab.visit THEN tab ELSE shown
<1>1. /\ tab \in NavTabRecord /\ commands \in SUBSET NavCommand /\ m \in ChatMessage /\ Renders(t, commands)
      /\ UNCHANGED <<used, chatHub>> /\ Taken(w, i, v) /\ m.topic = "chat"
  BY PlacedNow DEF Heard, HubMessage, ReplyMessage, SidebarMessage, ChatMessage, ChatArrives
<1>2. /\ shown \in NavTabRecord /\ shown.route = tab.route /\ shown.snapshot = snapshot
      /\ SameTab(shown, tab) /\ shown.pending = tab.pending
  <2>1. snapshot \in Place
    BY <1>1 DEF ChatMessage, Place
  <2> HIDE DEF snapshot
  <2> QED BY <1>1, <2>1 DEF NavTabRecord, SameTab
<1>3. t \in {tab, shown}
  OBVIOUS
<1>4. snapshot = Home \/ (m.known /\ snapshot = m.chat)
  OBVIOUS
<1> HIDE DEF shown, t, snapshot
<1>5. /\ t \in NavTabRecord /\ t.route = tab.route /\ t.pending = tab.pending /\ t.snapshot \in {tab.snapshot, snapshot}
      /\ t.rows = tab.rows /\ t.letGo = tab.letGo /\ t.dialog = tab.dialog /\ t.deleting = tab.deleting
  BY <1>1, <1>2, <1>3 DEF SameTab
<1>6. CreatesInv(h, commands, used) /\ tab.deleting \subseteq tab.letGo /\ (~h.large => KeptAt(h, tab, w))
  BY KeptNow
<1> HIDE DEF h, w, v
<1>7. ASSUME ~h.large PROVE KeptAt(h, t, v)
  <2>1. Taken(w, 1, v) /\ w[1].topic = "chat" /\ i = 1
    BY <1>1, <1>7 DEF h
  <2>2. KeptAt(h, tab, v)
    BY <1>6, <1>7, <2>1, TakenLists
  <2>3. Loose(h, t) = Loose(h, tab)
    BY <1>5 DEF Loose
  <2>4. snapshot \in tab.rows \cup Loose(h, tab) \cup {Home}
    BY <2>1, <1>6, <1>7, <1>4 DEF Taken, KeptAt, ShownInv
  <2>5. ListedInv(h, t, v)
    BY <1>5, <2>2, <2>3 DEF KeptAt, ListedInv
  <2>6. t.snapshot \in t.rows \cup Loose(h, t) \cup {Home}
    BY <2>2, <1>5, <2>3, <2>4 DEF KeptAt, ShownInv
  <2>7. ShownInv(h, t, v)
    BY <1>5, <2>2, <2>3, <2>6 DEF KeptAt, ShownInv
  <2> QED BY <2>5, <2>7 DEF KeptAt
<1>8. CreatesInv(h, commands, used') /\ t.deleting \subseteq t.letGo
  BY <1>1, <1>5, <1>6
<1> QED BY <1>1, <1>5, <1>7, <1>8, KeptRenders DEF h, v

\* An answer is heard.
LEMMA AnswerKept ==
    ASSUME NavInv, KeptInv, NEW i, Answered(i), ~chatHub.large => i = 1
    PROVE  KeptInv'
<1>1. PICK t, others : Answers(i, t, others)
  BY DEF Answered
<1> DEFINE h == chatHub
           w == arrivals
           v == arrivals'
<1>2. /\ tab \in NavTabRecord /\ t \in NavTabRecord /\ others \in SUBSET NavCommand /\ Renders(t, others)
      /\ UNCHANGED <<used, chatHub>> /\ Taken(w, i, v) /\ w[i].topic = "reply"
  BY <1>1, PlacedNow DEF Answers, Heard
<1>3. /\ t.rows = tab.rows /\ tab.letGo \subseteq t.letGo /\ t.deleting \subseteq tab.deleting
      /\ t.dialog = tab.dialog /\ t.snapshot \in {tab.snapshot, Home}
      /\ (t.route = tab.route /\ t.pending = tab.pending) \/ t.route \in t.rows \cup t.letGo \cup {Home, t.pending}
      /\ commands \subseteq others
      /\ \A d \in others : d \in commands \/ (d.op \in {"fork", "merge"} /\ d.step # "create")
  BY <1>1 DEF Answers
<1>4. CreatesInv(h, commands, used) /\ tab.deleting \subseteq tab.letGo /\ (~h.large => KeptAt(h, tab, w))
  BY KeptNow
<1> HIDE DEF h, w, v
<1>5. ASSUME ~h.large PROVE KeptAt(h, t, v)
  <2>1. Taken(w, 1, v) /\ w[1].topic = "reply"
    BY <1>2, <1>5 DEF h
  <2>2. KeptAt(h, tab, v)
    BY <1>4, <1>5, <2>1, TakenLists
  <2>3. Loose(h, tab) \subseteq Loose(h, t) /\ t.letGo \subseteq Loose(h, t)
    BY <1>3 DEF Loose
  <2>4. /\ tab.route \in tab.rows \cup Loose(h, tab) \cup {Home, tab.pending}
        /\ tab.dialog.next \subseteq tab.rows \cup Loose(h, tab)
    BY <2>2 DEF KeptAt, ShownInv
  <2>5. t.route \in t.rows \cup Loose(h, t) \cup {Home, t.pending}
    BY <1>3, <2>3, <2>4
  <2>6. FollowsHub(h, tab, t)
    BY <1>3, <2>3, <2>4, <2>5 DEF FollowsHub
  <2> QED BY <2>2, <2>6, FollowsGives
<1>6. CreatesInv(h, others, used')
  BY <1>3, <1>2, <1>4 DEF Creates, CreatesInv
<1>7. t.deleting \subseteq t.letGo
  BY <1>3, <1>4
<1> QED BY <1>2, <1>5, <1>6, <1>7, KeptRenders DEF h, v

\* A message is heard: the first one, where the sidebar is not unpacked.
LEMMA HearsKept ==
    ASSUME NavInv, KeptInv, NEW i \in DOMAIN arrivals, TabHears(i)
    PROVE  KeptInv'
<1> DEFINE m == arrivals[i]
<1>1. Heard(i) /\ Handles(m) /\ (m.topic = "sidebar" => i = 1) /\ (~chatHub.large => i = 1)
  BY HearsGives DEF TabHears
<1>2. m.topic \in {"reply", "sidebar", "chat"}
  BY <1>1 DEF Heard, HubMessage, ReplyMessage, SidebarMessage, ChatMessage
<1>3. CASE m.topic = "sidebar"
  BY <1>1, <1>3, SidebarKept DEF Handles
<1>4. CASE m.topic = "chat"
  BY <1>1, <1>4, ChatKept DEF Handles
<1>5. CASE m.topic = "reply"
  BY <1>5, HearsKeeps, <1>1, AnswerKept
<1> QED BY <1>2, <1>3, <1>4, <1>5

\* At first nothing is created.
LEMMA KeptInit == NavigationInit => KeptInv
<1> SUFFICES ASSUME NavigationInit PROVE KeptInv
  OBVIOUS
<1>1. PICK large \in BOOLEAN : chatHub = [chats |-> Stored, last |-> Stored, topic |-> Home, visit |-> 0,
                                     known |-> FALSE, gone |-> {}, refused |-> {}, large |-> large]
  BY DEF NavigationInit
<1>2. chatHub.chats = Stored /\ chatHub.gone = {}
  BY <1>1
<1>3. /\ tab.route = Home /\ tab.rows = Stored /\ tab.deleting = {} /\ tab.letGo = {} /\ tab.dialog = NoDialog
      /\ tab.snapshot = Home
  BY DEF NavigationInit
<1>4. commands = {} /\ Len(arrivals) = 0 /\ evicted = {} /\ used = Stored
  BY DEF NavigationInit
<1>5. CreatesInv(chatHub, commands, used)
  BY <1>2, <1>4 DEF CreatesInv
<1>6. ListedInv(chatHub, tab, arrivals)
  BY <1>2, <1>3, <1>4 DEF ListedInv
<1>7. ShownInv(chatHub, tab, arrivals)
  <2>1. NoDialog.next = {}
    BY DEF NoDialog
  <2> QED BY <1>3, <1>4, <2>1 DEF ShownInv
<1> QED BY <1>3, <1>4, <1>5, <1>6, <1>7 DEF KeptInv

\* Every step keeps what is kept.
LEMMA KeptStep == NavInv /\ KeptInv /\ [NavigationStep]_navigationVars => KeptInv'
<1> SUFFICES ASSUME NavInv, KeptInv, [NavigationStep]_navigationVars PROVE KeptInv'
  OBVIOUS
<1>1. ASSUME NEW chat \in ChatKeys, CreateChat(chat) PROVE KeptInv'
  BY <1>1, CreateKept
<1>2. ASSUME NEW chat \in ChatKeys, AskDelete(chat) PROVE KeptInv'
  BY <1>2, DialogKept
<1>3. ASSUME NEW chat \in ChatKeys, DeletedElsewhere(chat) PROVE KeptInv'
  BY <1>3, ElsewhereKeeps, HubKept
<1>4. ASSUME NEW chat \in ChatKeys, NEW cached \in BOOLEAN, FollowRow(chat, cached) PROVE KeptInv'
  BY <1>4, FollowKept
<1>5. ASSUME NEW chat \in ChatKeys, NEW op \in {"fork", "merge"}, NEW source \in ChatKeys, Bootstrap(op, chat, source)
      PROVE  KeptInv'
  BY <1>5, BootstrapKept
<1>6. CASE DeleteConfirmed
  BY <1>6, ConfirmKept
<1>7. CASE DeleteDeclined \/ DismissBootstrapError
  BY <1>7, DialogKept
<1>8. ASSUME NEW command \in commands, HubSubscribes(command) PROVE KeptInv'
  BY <1>8, SubscribesKeeps, HubKept
<1>9. ASSUME NEW command \in commands, NEW ok \in BOOLEAN, HubHandles(command, ok) PROVE KeptInv'
  BY <1>9, DoneKeeps, FailedKeeps, HubKept
<1>10. ASSUME NEW i \in DOMAIN arrivals, TabHears(i) PROVE KeptInv'
  BY <1>10, HearsKept
<1>11. CASE UNCHANGED navigationVars
  BY <1>11 DEF navigationVars, KeptInv
<1> QED BY <1>1, <1>2, <1>3, <1>4, <1>5, <1>6, <1>7, <1>8, <1>9, <1>10, <1>11 DEF NavigationStep

\* Where a tab is, what it lists, hides and announces is of chats and commands there are,
\* and nobody is taken away from a chat just created (useTranscriptLifecycle.ts).
THEOREM PlacesStayReal == NavigationSpec => [](NavigationTypeOK /\ PlacesAreReal)
<1>1. NavigationInit => NavInv /\ KeptInv
  BY NavInit, KeptInit
<1>2. NavInv /\ KeptInv /\ [NavigationStep]_navigationVars => (NavInv /\ KeptInv)'
  BY NavStep, KeptStep
<1>3. NavInv /\ KeptInv => NavigationTypeOK /\ PlacesAreReal
  BY NavGives DEF KeptInv, NewChatKept, PlacesAreReal
<1> QED BY <1>1, <1>2, <1>3, PTL DEF NavigationSpec
=============================================================================
