----------------------------- MODULE Navigation -----------------------------
(***************************************************************************)
(* Where a tab is: the chat it shows, the rows of its sidebar and the      *)
(* commands that create, delete, fork and merge chats (useChatCommands.ts, *)
(* useAppState.ts), with the effects of useTranscriptLifecycle.ts that     *)
(* leave a chat which is not there.  The hub stores chats and publishes    *)
(* the sidebar and the chat the tab has subscribed to; another tab may     *)
(* delete chats.  What a chat holds, its project and its title are left    *)
(* out; users follow the rows of the sidebar, not the browser's history.   *)
(***************************************************************************)
EXTENDS Naturals, SequencesExt

CONSTANTS
    ChatKeys,       \* chat ids
    Stored,         \* the chats there are at first
    Home,           \* the route "/"; no chat
    MaxActs         \* bound on what the user does, here and in another tab

ASSUME NavigationConstants == Home \notin ChatKeys /\ Stored \subseteq ChatKeys

VARIABLES
    chatHub,            \* chats, the sidebar last published, the chat subscribed to, chats deleted
                    \* elsewhere, deletes that failed since then
    tab,            \* route, pendingChatId, sidebarData, chatReady, chatSnapshot,
                    \* pendingDeletedChatIds, pendingSessionBootstrap, the open dialog; letGo, of no
                    \* variable: chats being deleted, or gone back to when a creation failed
    commands,       \* commands under way, each with its handler's local variables
    arrivals,          \* what the hub has sent to the tab
    acts, used,     \* how often users acted; the ids of chats so far
    evicted         \* new chats the tab was taken away from although they were there

navigationVars == <<chatHub, tab, commands, arrivals, acts, used, evicted>>

NoBoot == [chat |-> Home, phase |-> "none"]
NoDialog == [chat |-> Home, active |-> Home, next |-> {}]

\* large: the sidebar is gzipped, above 64 KiB, and is unpacked asynchronously.
NavigationInit ==
    /\ \E large \in BOOLEAN : chatHub = [chats |-> Stored, last |-> Stored, topic |-> Home, visit |-> 0,
                                     known |-> FALSE, gone |-> {}, refused |-> {}, large |-> large]
    /\ tab = [route |-> Home, visit |-> 0, pending |-> Home, rows |-> Stored, chatReady |-> TRUE,
              snapshot |-> Home, deleting |-> {}, boot |-> NoBoot, dialog |-> NoDialog, letGo |-> {}]
    /\ commands = {} /\ arrivals = <<>> /\ evicted = {} /\ acts = 0 /\ used = Stored

Command(op, chat, step, active) == [op |-> op, chat |-> chat, step |-> step, active |-> active]
Reply(command, ok) == [topic |-> "reply", command |-> command, ok |-> ok]
SidebarOf(chats) == [topic |-> "sidebar", rows |-> chats]
ChatOf(visit, chat, known) == [topic |-> "chat", visit |-> visit, chat |-> chat, known |-> known]

-----------------------------------------------------------------------------
(* The tab's routes and effects *)

\* The effect of a new route: the snapshot is dropped, the chat is ready at once if it
\* is cached, which only one that is listed can be.
Routed(t, route, cached) ==
    IF route = t.route THEN t
    ELSE [t EXCEPT !.route = route, !.visit = @ + 1, !.snapshot = Home,
                   !.chatReady = route = Home \/ cached]

\* The chat shown is subscribed to.  What an earlier subscription still brings is
\* dropped (its cleanup has run), so one that was not yet handled is left out.
Subscribed(t, others) ==
    IF t.visit = tab.visit THEN others
    ELSE {c \in others : c.op # "subscribe"}
         \cup (IF t.route = Home THEN {} ELSE {Command("subscribe", t.route, "sent", t.visit)})

\* The effects of the first commit after a new route still see the old chatReady.
Ready(t) == t.chatReady \/ (t.visit # tab.visit /\ tab.chatReady)

\* A chat that is shown or listed is not pending any more.
Arrived(t) ==
    IF t.snapshot = t.pending \/ (t.pending = t.route /\ Ready(t) /\ t.route \in t.rows)
    THEN [t EXCEPT !.pending = Home] ELSE t

\* Fault seeded in IsMissing: what the user has just created counts as missing.
IsMissingPending(t) == t.route # Home /\ Ready(t) /\ t.route \notin t.rows

IsMissing(t) == t.route # Home /\ Ready(t) /\ t.route \notin t.rows /\ t.pending # t.route

\* The effects run until nothing changes: the tab leaves a chat that is missing.
Renders(t, others) ==
    LET arrived == Arrived(t) leaves == IsMissing(arrived) IN
    /\ tab' = IF leaves THEN Routed(arrived, Home, FALSE) ELSE arrived
    /\ evicted' = IF leaves /\ tab.route = t.route THEN evicted \cup ({t.route} \cap (chatHub.chats \ (Stored \cup t.letGo))) ELSE evicted
    /\ commands' = Subscribed(tab', others)

Idle == tab.dialog = NoDialog
UserActs == acts < MaxActs /\ acts' = acts + 1

\* A row is followed.
FollowRow(chat, cached) ==
    /\ Idle /\ chat \in tab.rows \ {tab.route}
    /\ UserActs
    /\ Renders(Routed(tab, chat, cached), commands)
    /\ UNCHANGED <<used, chatHub, arrivals>>

\* A fresh id: crypto.randomUUID(), or the hub's.
Fresh(chat) == chat \notin used /\ used' = used \cup {chat}

\* createChatForProject: the chat is shown before the hub knows it.
CreateChat(chat) ==
    /\ Idle /\ Fresh(chat)
    /\ UserActs
    /\ Renders(Routed([tab EXCEPT !.pending = chat], chat, FALSE),
               commands \cup {Command("create", chat, "sent", tab.route)})
    /\ UNCHANGED <<chatHub, arrivals>>

\* handleDeleteChat: the dialog is asked; what it was asked with is used when it answers.
AskDelete(chat) ==
    /\ Idle /\ chat \in tab.rows
    /\ UserActs
    /\ tab' = [tab EXCEPT !.dialog = [chat |-> chat, active |-> tab.route, next |-> tab.rows \ {chat}]]
    /\ UNCHANGED <<used, chatHub, commands, arrivals, evicted>>

\* getNewestRemainingChatId: any of the other rows.
DeleteConfirmed ==
    LET asked == tab.dialog
        removed == [tab EXCEPT !.dialog = NoDialog, !.deleting = @ \cup {asked.chat}, !.rows = @ \ {asked.chat},
                               !.letGo = @ \cup {asked.chat}]
    IN /\ asked # NoDialog
       /\ \E next \in IF asked.next = {} THEN {Home} ELSE asked.next, cached \in BOOLEAN :
             Renders(IF asked.chat = asked.active THEN Routed(removed, next, cached) ELSE removed,
                     commands \cup {Command("delete", asked.chat, "sent", Home)})
       /\ UNCHANGED <<used, chatHub, arrivals, acts>>

DeleteDeclined ==
    /\ ~Idle
    /\ tab' = [tab EXCEPT !.dialog = NoDialog]
    /\ UNCHANGED <<used, chatHub, commands, arrivals, acts, evicted>>

\* handleForkSession and handleMergeSession begin: the chat is created out of sight.
\* The merge is one that closes its source; one that does not is like a fork.
Bootstrap(op, chat, source) ==
    /\ Idle /\ Fresh(chat) /\ source \in tab.rows /\ (op = "fork" => source = tab.route)
    /\ UserActs
    /\ commands' = commands \cup {Command(op, chat, "create", source)}
    /\ UNCHANGED <<chatHub, tab, arrivals, evicted>>

DismissBootstrapError ==
    /\ tab.boot.phase = "error"
    /\ tab' = [tab EXCEPT !.boot = NoBoot]
    /\ UNCHANGED <<used, chatHub, commands, arrivals, acts, evicted>>

-----------------------------------------------------------------------------
(* The hub *)

\* The broadcast after a command: the sidebar and the chat that is subscribed to, if
\* they differ from what was published last.
HubBroadcasts(h, chats, answer) ==
    LET known == h.topic \in chats IN
    /\ arrivals' = arrivals \o answer
                \o (IF chats # h.last THEN <<SidebarOf(chats)>> ELSE <<>>)
                \o (IF h.topic # Home /\ known # h.known
                    THEN <<ChatOf(h.visit, h.topic, known)>> ELSE <<>>)
    /\ chatHub' = [h EXCEPT !.chats = chats, !.last = chats, !.known = known,
                          !.refused = IF chats # h.last THEN {} ELSE @]

Creates(command) == command.op = "create" \/ command.step = "create"
Deletes(command) == command.op = "delete" \/ command.step = "close"

\* What a command needs to be there: the source for a prompt and for its closing.
Subject(command) == IF command.step \in {"prompt", "close"} THEN command.active ELSE command.chat

\* A command is carried out, or fails: also because its chat is not there any more.
HubHandles(command, ok) ==
    LET subject == Subject(command)
        possible == Creates(command) \/ subject \in chatHub.chats
        chats == IF Creates(command) THEN chatHub.chats \cup {subject}
                 ELSE IF Deletes(command) THEN chatHub.chats \ {subject} ELSE chatHub.chats
    IN /\ command.op # "subscribe" /\ (ok => possible)
       /\ commands' = commands \ {command}
       /\ IF ok THEN HubBroadcasts(chatHub, chats, <<Reply(command, TRUE)>>)
          ELSE /\ arrivals' = Append(arrivals, Reply(command, FALSE))
               /\ chatHub' = IF command.op = "delete" /\ possible
                         THEN [chatHub EXCEPT !.refused = @ \cup {subject}] ELSE chatHub
       /\ UNCHANGED <<used, tab, acts, evicted>>

\* snapshot.subscribe: published and answered, also for a chat that is not there.
HubSubscribes(command) ==
    LET known == command.chat \in chatHub.chats IN
    /\ command.op = "subscribe"
    /\ commands' = commands \ {command}
    /\ chatHub' = IF command.active < chatHub.visit THEN chatHub
              ELSE [chatHub EXCEPT !.topic = command.chat, !.visit = command.active, !.known = known]
    /\ arrivals' = Append(arrivals, ChatOf(command.active, command.chat, known))
    /\ UNCHANGED <<used, tab, acts, evicted>>

DeletedElsewhere(chat) ==
    /\ chat \in chatHub.chats
    /\ UserActs
    /\ HubBroadcasts([chatHub EXCEPT !.gone = @ \cup {chat}], chatHub.chats \ {chat}, <<>>)
    /\ UNCHANGED <<used, tab, commands, evicted>>

-----------------------------------------------------------------------------
(* What arrives at the tab *)

SidebarArrives(rows) == Renders([tab EXCEPT !.rows = rows \ tab.deleting], commands)

\* A snapshot for a route that was left is dropped (cancelled).
ChatArrives(m) ==
    Renders(IF m.visit # tab.visit THEN tab
            ELSE [tab EXCEPT !.snapshot = IF m.known THEN m.chat ELSE Home, !.chatReady = TRUE], commands)

\* Fault seeded in CreateAnswered: the failed chat stays pending and is not left.
CreateAnsweredOnly(command, ok) == Renders(tab, commands)

\* A create that failed: back to where the tab was when it was asked for.
CreateAnswered(command, ok) ==
    \E cached \in IF ok \/ command.active \notin tab.rows THEN {FALSE} ELSE BOOLEAN :
        Renders(IF ok THEN tab
                ELSE Routed([tab EXCEPT !.pending = Home, !.letGo = @ \cup ({command.active} \ tab.rows)],
                            command.active, cached), commands)

DeleteAnswered(command) == Renders([tab EXCEPT !.deleting = @ \ {command.chat}], commands)

\* transitionPendingSessionBootstrapToError, clearPendingSessionBootstrapAfterAttempt
InPhase(t, chat, phase) == IF t.boot.chat = chat THEN [t EXCEPT !.boot.phase = phase] ELSE t
Cleared(t, chat) == IF t.boot.chat = chat /\ t.boot.phase # "error" THEN [t EXCEPT !.boot = NoBoot] ELSE t

BootstrapAnswered(command, ok) ==
    LET chat == command.chat
        Then(step) == commands \cup {[command EXCEPT !.step = step]}
    IN CASE command.step = "create" -> Renders(tab, IF ok THEN Then("rename") ELSE commands)
         [] command.step = "rename" ->
              Renders(IF ok THEN Routed([tab EXCEPT !.pending = chat,
                                                    !.boot = [chat |-> chat, phase |-> "compacting"]], chat, FALSE)
                      ELSE tab, IF ok THEN Then("prompt") ELSE commands)
         [] command.step = "prompt" ->
              Renders(InPhase(tab, chat, IF ok THEN "starting" ELSE "error"), IF ok THEN Then("send") ELSE commands)
         [] command.step = "send" ->
              IF ok /\ command.op = "merge" THEN Renders([tab EXCEPT !.letGo = @ \cup {command.active}], Then("close"))
              ELSE Renders(Cleared(IF ok THEN tab ELSE InPhase(tab, chat, "error"), chat), commands)
         [] command.step = "close" -> Renders(Cleared(tab, chat), commands)

Handles(m) ==
    CASE m.topic = "sidebar" -> SidebarArrives(m.rows)
      [] m.topic = "chat" -> ChatArrives(m)
      [] m.topic = "reply" /\ m.command.op = "create" -> CreateAnswered(m.command, m.ok)
      [] m.topic = "reply" /\ m.command.op = "delete" -> DeleteAnswered(m.command)
      [] OTHER -> BootstrapAnswered(m.command, m.ok)

\* Messages arrive in order, but a sidebar that has to be unpacked holds no other
\* topic's message up.
TabHears(i) ==
    /\ i = 1 \/ (chatHub.large /\ arrivals[i].topic # "sidebar" /\ \A j \in 1..(i - 1) : arrivals[j].topic = "sidebar")
    /\ arrivals' = RemoveAt(arrivals, i)
    /\ Handles(arrivals[i])
    /\ UNCHANGED <<used, chatHub, acts>>

NavigationStep ==
    \/ \E chat \in ChatKeys :
          \/ CreateChat(chat) \/ AskDelete(chat) \/ DeletedElsewhere(chat)
          \/ \E cached \in BOOLEAN : FollowRow(chat, cached)
          \/ \E op \in {"fork", "merge"}, source \in ChatKeys : Bootstrap(op, chat, source)
    \/ DeleteConfirmed \/ DeleteDeclined \/ DismissBootstrapError
    \/ \E command \in commands :
          HubSubscribes(command) \/ \E ok \in BOOLEAN : HubHandles(command, ok)
    \/ \E i \in DOMAIN arrivals : TabHears(i)

NavigationSpec == NavigationInit /\ [][NavigationStep]_navigationVars

-----------------------------------------------------------------------------
(* Properties *)

\* Routes, rows and what is pending are of chats.
NavigationTypeOK ==
    /\ {tab.route, tab.pending, tab.snapshot, tab.boot.chat, chatHub.topic} \subseteq ChatKeys \cup {Home}
    /\ UNION {tab.rows, tab.deleting, chatHub.chats, chatHub.last, evicted} \subseteq ChatKeys
    /\ tab.boot.phase \in {"none", "compacting", "starting", "error"}
    /\ \A c \in commands : c.op \in {"create", "delete", "fork", "merge", "subscribe"}

Quiet == commands = {} /\ arrivals = <<>> /\ Idle

\* Once everything is answered the tab is at home or at a chat that exists, whatever
\* was created, deleted, forked or merged meanwhile and whatever failed; its rows are
\* the hub's chats, and none is kept hidden as being deleted.  Let off: a chat another
\* tab deleted before this one has seen it; the row of a delete that failed, until the
\* next change of the sidebar; and a chat the user deleted while it was still pending,
\* or before the merge that made it shows it.
TabIsSomewhere ==
    Quiet => /\ tab.route \in chatHub.chats \cup chatHub.gone \cup {Home} \cup ({tab.pending} \cap tab.letGo)
             /\ tab.rows \subseteq chatHub.chats /\ chatHub.chats \subseteq tab.rows \cup chatHub.refused
             /\ tab.deleting = {}

\* The notice that a fork or merge is prepared, which locks the composer of its chat,
\* is there only while the attempt it is about is under way; a failure stays visible.
NoticeIsTrue ==
    tab.boot.phase \in {"compacting", "starting"} =>
        \E c \in commands \cup {arrivals[i].command : i \in {j \in DOMAIN arrivals : arrivals[j].topic = "reply"}} :
            c.op \in {"fork", "merge"} /\ c.chat = tab.boot.chat

\* Nobody is taken away from a chat just created, which the sidebar lists later than
\* the tab shows it.  (With a sidebar that has to be unpacked the chat's snapshot
\* overtakes it, and going back to such a chat when the creation of another failed
\* drops what is pending: then the tab does leave the new chat.)
NewChatKept == ~chatHub.large => evicted = {}

\* The tab's route, its rows, what it hides and what it announces are of chats and
\* commands that exist, however replies, snapshots and the user's acts cross.
PlacesAreReal == TabIsSomewhere /\ NoticeIsTrue /\ NewChatKept
=============================================================================
