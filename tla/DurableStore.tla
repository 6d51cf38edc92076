---------------------------- MODULE DurableStore ----------------------------
(***************************************************************************)
(* What src/server/event-store.ts promises of the chats: the effect of an  *)
(* operation, once its caller has been resumed, is there until a later     *)
(* operation undoes it.  Nothing here is called a crash, a restart, a      *)
(* replay or a compaction: each must be invisible.                         *)
(***************************************************************************)
EXTENDS Naturals, Sequences

CONSTANTS Chats, Messages, NoEvent

VARIABLES
    chats,      \* live chat id -> how its last turn ended, and its queued messages
    latest      \* the operation acknowledged last, and how many there were

promise == <<chats, latest>>

Outcomes == {"success", "failed", "cancelled"}

DurableInit ==
    /\ chats = [c \in {} |-> c]
    /\ latest = [number |-> 0, event |-> NoEvent]

Acknowledge(type, c, arg) ==
    latest' = [number |-> latest.number + 1,
               event  |-> [type |-> type, chat |-> c, arg |-> arg]]

Create(c) ==
    /\ Acknowledge("chat_created", c, "none")
    /\ c \notin DOMAIN chats
    /\ chats' = [d \in DOMAIN chats \cup {c} |->
                    IF d = c THEN [outcome |-> "none", queued |-> <<>>] ELSE chats[d]]

Delete(c) ==
    /\ Acknowledge("chat_deleted", c, "none")
    /\ chats' = [d \in DOMAIN chats \ {c} |-> chats[d]]

EndTurn(c, outcome) ==
    /\ Acknowledge("turn_ended", c, outcome)
    /\ chats' = [d \in DOMAIN chats |->
                    IF d = c THEN [chats[d] EXCEPT !.outcome = outcome] ELSE chats[d]]

Enqueue(c, m) ==
    /\ Acknowledge("chat_turn_queued", c, m)
    /\ chats' = [d \in DOMAIN chats |->
                    IF d = c THEN [chats[d] EXCEPT !.queued = Append(@, m)] ELSE chats[d]]

ClearQueue(c) ==
    /\ Acknowledge("chat_queued_turn_cleared", c, "none")
    /\ chats' = [d \in DOMAIN chats |->
                    IF d = c THEN [chats[d] EXCEPT !.queued = <<>>] ELSE chats[d]]

\* The unread flag is no part of this promise.
MarkRead(c) ==
    /\ Acknowledge("chat_read_state_set", c, "none")
    /\ UNCHANGED chats

DurableNext ==
    \E c \in Chats :
        \/ Create(c)
        \/ Delete(c)
        \/ \E outcome \in Outcomes : EndTurn(c, outcome)
        \/ \E m \in Messages : Enqueue(c, m)
        \/ ClearQueue(c)
        \/ MarkRead(c)

DurableSpec == DurableInit /\ [][DurableNext]_promise

=============================================================================
