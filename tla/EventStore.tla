----------------------------- MODULE EventStore -----------------------------
(***************************************************************************)
(* The chats of EventStore (src/server/event-store.ts) and the files they  *)
(* are rebuilt from: chats.jsonl, turns.jsonl and snapshot.json.           *)
(*                                                                         *)
(* An operation checks the state in memory and appends its event to one    *)
(* promise chain; the chain writes one line, applies the event and resumes *)
(* the caller, one event after the other.  A restart rebuilds the state    *)
(* from the snapshot and the logs, one whole log after the other.  The     *)
(* snapshot is rewritten, and the logs emptied, at a start that finds them *)
(* long and at every orderly shutdown.                                     *)
(***************************************************************************)
EXTENDS Naturals, Sequences

CONSTANTS
    Chats,          \* chat ids: random UUIDs of the client, so each is created once
    Messages,       \* texts given to enqueueQueuedTurn
    NoEvent,        \* no operation acknowledged yet
    MaxWrites,      \* bounds the operations that reach the write chain
    CompactAt,      \* COMPACTION_THRESHOLD_BYTES, in lines
    Faults          \* what else may go wrong: "write_error", "torn"

ASSUME StoreConstants ==
    /\ MaxWrites \in Nat /\ CompactAt \in Nat \ {0}
    /\ Faults \subseteq {"write_error", "torn"}

VARIABLES
    phase,          \* of the process, see Phases
    state,          \* StoreState: the chats and the queued turns in memory
    logs,           \* the lines of each log file
    snapshot,       \* snapshot.json
    rewriting,      \* the files a compaction or a reset has still to write
    writeChain,     \* events appended and not yet written
    poisoned,       \* writeChain has rejected: every later append rejects
    created,        \* the ids handed out so far
    acknowledged    \* the operation whose caller was resumed last (history)

storeVars == <<phase, state, logs, snapshot, rewriting, writeChain, poisoned,
               created, acknowledged>>

\* "compacting": initialize() awaiting compact(); "closing": shutdown awaiting
\* it; "clearing": initialize() awaiting clearStorage().
Phases   == {"down", "up", "compacting", "closing", "clearing"}
Logs     == {"chats", "turns"}
Files    == Logs \cup {"snapshot"}
Outcomes == {"none", "success", "failed", "cancelled"}

ChatRecord == [life: {"none", "live", "deleted"}, unread: BOOLEAN, outcome: Outcomes]
State      == [chatsById: [Chats -> ChatRecord], queued: [Chats -> Seq(Messages)]]
StoreEvent == [type: {"chat_created", "chat_deleted", "chat_read_state_set", "turn_ended",
                      "chat_turn_queued", "chat_queued_turn_cleared"},
               chat: Chats, arg: Messages \cup Outcomes]
\* "cut": part of a line; "unended": all of it but its newline; "garbled": a cut
\* or unended line with the next one glued to it.
Line       == [event: StoreEvent, text: {"whole", "cut", "unended", "garbled"}]

Event(type, c, arg) == [type |-> type, chat |-> c, arg |-> arg]

NoChat     == [life |-> "none", unread |-> FALSE, outcome |-> "none"]
EmptyState == [chatsById |-> [c \in Chats |-> NoChat], queued |-> [c \in Chats |-> <<>>]]

StoreInit ==
    /\ phase = "down"
    /\ state = EmptyState
    /\ logs = [f \in Logs |-> <<>>]
    /\ snapshot = [text |-> "empty", state |-> EmptyState]
    /\ rewriting = {}
    /\ writeChain = <<>>
    /\ poisoned = FALSE
    /\ created = {}
    /\ acknowledged = [number |-> 0, event |-> NoEvent]

Live(s, c) == s.chatsById[c].life = "live"

-----------------------------------------------------------------------------
(* applyEvent *)

\* A turn's end is applied to any chat the map still has, deleted or not.
ChatAfter(chat, e) ==
    IF e.type = "chat_created" THEN [NoChat EXCEPT !.life = "live"]
    ELSE IF chat.life = "none" THEN chat
    ELSE
    CASE e.type = "chat_deleted" -> [chat EXCEPT !.life = "deleted"]
      [] e.type = "chat_read_state_set" -> [chat EXCEPT !.unread = FALSE]
      [] e.type = "turn_ended"   ->
            [chat EXCEPT !.outcome = e.arg, !.unread = @ \/ e.arg # "cancelled"]
      [] OTHER -> chat

\* No look at the chat here: a deleted chat can be given a queued turn.
QueueAfter(q, chat, e) ==
    CASE e.type = "chat_turn_queued" -> Append(q, e.arg)
      [] e.type = "chat_queued_turn_cleared" -> <<>>
      [] e.type = "chat_deleted" /\ chat.life # "none" -> <<>>
      [] OTHER -> q

applyEvent(s, e) ==
    [chatsById |-> [s.chatsById EXCEPT ![e.chat] = ChatAfter(@, e)],
     queued    |-> [s.queued EXCEPT
                        ![e.chat] = QueueAfter(@, s.chatsById[e.chat], e)]]

-----------------------------------------------------------------------------
(* The files *)

LogOf(e) == IF e.type \in {"chat_created", "chat_deleted", "chat_read_state_set"}
            THEN "chats" ELSE "turns"

Unterminated(lines) == lines # <<>> /\ lines[Len(lines)].text \in {"cut", "unended"}

\* appendFile: the bytes go wherever the file ends, be it inside a line.
LineAppended(lines, e, text) ==
    IF Unterminated(lines)
    THEN [lines EXCEPT ![Len(lines)].text = IF text = "whole" THEN "garbled" ELSE "cut"]
    ELSE Append(lines, [event |-> e, text |-> text])

\* What an append that did not complete may leave behind.
PartlyAppended(lines, e) ==
    {lines} \cup (IF "torn" \in Faults
                  THEN {LineAppended(lines, e, text) : text \in {"cut", "unended"}} ELSE {})

Parses(line) == line.text \in {"whole", "unended"}

\* replayLog gives up on a log with a line that does not parse, its last excepted.
Corrupt(lines) == \E i \in 1 .. Len(lines) - 1 : ~Parses(lines[i])

\* The states replayLog goes through: each line that parses is applied, in the order of the file.
Replaying(s, lines) ==
    LET after[n \in 0 .. Len(lines)] ==
            IF n = 0 THEN s
            ELSE IF Parses(lines[n]) THEN applyEvent(after[n - 1], lines[n].event)
            ELSE after[n - 1]
    IN  after

\* replayLog leaves the state that its last line made.
replayLog(s, lines) == Replaying(s, lines)[Len(lines)]

\* Fault seeded in createSnapshot: the queued turns are left out.
createSnapshotNoQueue(s) ==
    [EmptyState EXCEPT !.chatsById =
        [c \in Chats |-> IF Live(s, c) THEN s.chatsById[c] ELSE NoChat]]

\* createSnapshot drops the deleted chats, and no queued turn.
createSnapshot(s) ==
    [s EXCEPT !.chatsById = [c \in Chats |-> IF Live(s, c) THEN s.chatsById[c] ELSE NoChat]]

loadSnapshot == IF snapshot.text = "whole" THEN snapshot.state ELSE EmptyState

\* What loadSnapshot and replayLogs make of readable files.
Recovered == replayLog(replayLog(loadSnapshot, logs["chats"]), logs["turns"])

-----------------------------------------------------------------------------
(* Operations: a check of the state in memory, then append() *)

Appends(e) ==
    /\ phase = "up" /\ ~poisoned
    /\ acknowledged.number + Len(writeChain) < MaxWrites
    /\ writeChain' = Append(writeChain, e)
    /\ UNCHANGED <<phase, state, logs, snapshot, rewriting, poisoned, acknowledged>>

\* A command type, and the stream of runner events, is handled one at a time.
NonePending(type) == \A i \in DOMAIN writeChain : writeChain[i].type # type

createChat(c) ==
    /\ c \notin created
    /\ created' = created \cup {c}
    /\ Appends(Event("chat_created", c, "none"))

deleteChat(c) ==
    /\ Live(state, c) /\ NonePending("chat_deleted")
    /\ Appends(Event("chat_deleted", c, "none")) /\ UNCHANGED created

\* setChatReadState(c, false), the only value the server passes.
markRead(c) ==
    /\ Live(state, c) /\ NonePending("chat_read_state_set")
    /\ state.chatsById[c].unread
    /\ Appends(Event("chat_read_state_set", c, "none")) /\ UNCHANGED created

recordTurnEnd(c, outcome) ==
    /\ Live(state, c) /\ NonePending("turn_ended")
    /\ Appends(Event("turn_ended", c, outcome)) /\ UNCHANGED created

enqueueQueuedTurn(c, m) ==
    /\ Live(state, c)
    /\ Appends(Event("chat_turn_queued", c, m)) /\ UNCHANGED created

clearQueuedTurn(c) ==
    /\ state.queued[c] # <<>>
    /\ Appends(Event("chat_queued_turn_cleared", c, "none")) /\ UNCHANGED created

\* appendFile is done: the event is applied and the caller resumed.
Written ==
    /\ writeChain # <<>> /\ phase = "up"
    /\ LET e == Head(writeChain)
       IN  /\ logs' = [logs EXCEPT ![LogOf(e)] = LineAppended(@, e, "whole")]
           /\ state' = applyEvent(state, e)
           /\ acknowledged' = [number |-> acknowledged.number + 1, event |-> e]
    /\ writeChain' = Tail(writeChain)
    /\ UNCHANGED <<phase, snapshot, rewriting, poisoned, created>>

\* appendFile throws (a full disk, say): the chain stays rejected, and with it
\* every append there is and every append to come.
WriteFails ==
    /\ "write_error" \in Faults
    /\ writeChain # <<>> /\ phase = "up"
    /\ LET e == Head(writeChain)
       IN  \E lines \in PartlyAppended(logs[LogOf(e)], e) :
               logs' = [logs EXCEPT ![LogOf(e)] = lines]
    /\ writeChain' = <<>>
    /\ poisoned' = TRUE
    /\ UNCHANGED <<phase, state, snapshot, rewriting, created, acknowledged>>

-----------------------------------------------------------------------------
(* Start, shutdown, crash *)

\* compact(): the snapshot is made at once, the file is emptied and rewritten.
StartCompaction(to, s) ==
    /\ phase' = to
    /\ snapshot' = [text |-> "cut", state |-> createSnapshot(s)]
    /\ rewriting' = Files

\* initialize().  A file it cannot read costs all of them: clearStorage.
Boot ==
    /\ phase = "down"
    /\ IF snapshot.text = "cut" \/ \E f \in Logs : Corrupt(logs[f])
       THEN /\ state' = EmptyState
            /\ phase' = "clearing" /\ rewriting' = Files
            /\ UNCHANGED snapshot
       ELSE /\ state' = Recovered
            /\ IF Len(logs["chats"]) + Len(logs["turns"]) >= CompactAt
               THEN StartCompaction("compacting", Recovered)
               ELSE phase' = "up" /\ UNCHANGED <<snapshot, rewriting>>
    /\ UNCHANGED <<logs, writeChain, poisoned, created, acknowledged>>

\* shutdown: by the time it calls compact() the write chain has drained.
Shutdown ==
    /\ phase = "up" /\ writeChain = <<>>
    /\ StartCompaction("closing", state)
    /\ UNCHANGED <<state, logs, writeChain, poisoned, created, acknowledged>>

RewriteSnapshot ==
    /\ "snapshot" \in rewriting
    /\ snapshot' = IF phase = "clearing" THEN [text |-> "empty", state |-> EmptyState]
                   ELSE [snapshot EXCEPT !.text = "whole"]
    /\ rewriting' = rewriting \ {"snapshot"}
    /\ UNCHANGED <<phase, state, logs, writeChain, poisoned, created, acknowledged>>

\* compact() empties the logs when the snapshot is written, clearStorage() all
\* files together.
EmptyLog(f) ==
    /\ f \in rewriting
    /\ phase = "clearing" \/ "snapshot" \notin rewriting
    /\ logs' = [logs EXCEPT ![f] = <<>>]
    /\ rewriting' = rewriting \ {f}
    /\ UNCHANGED <<phase, state, snapshot, writeChain, poisoned, created, acknowledged>>

Rewritten ==
    /\ phase \in {"compacting", "clearing", "closing"} /\ rewriting = {}
    /\ phase' = IF phase = "closing" THEN "down" ELSE "up"
    /\ state' = IF phase = "closing" THEN EmptyState ELSE state
    /\ poisoned' = FALSE
    /\ UNCHANGED <<logs, snapshot, rewriting, writeChain, created, acknowledged>>

\* Fault seeded in Crash: the appends of the dead process are kept.
CrashKeepsChain ==
    /\ phase = "up"
    /\ phase' = "down" /\ state' = EmptyState /\ poisoned' = FALSE
    /\ UNCHANGED <<logs, snapshot, rewriting, writeChain, created, acknowledged>>

\* The process dies, perhaps inside an appendFile.  A death inside compact() or
\* clearStorage() is left out.
Crash ==
    /\ phase = "up"
    /\ IF writeChain = <<>> THEN UNCHANGED logs
       ELSE LET e == Head(writeChain)
            IN  \E lines \in PartlyAppended(logs[LogOf(e)], e) :
                    logs' = [logs EXCEPT ![LogOf(e)] = lines]
    /\ phase' = "down"
    /\ state' = EmptyState
    /\ writeChain' = <<>>
    /\ poisoned' = FALSE
    /\ UNCHANGED <<snapshot, rewriting, created, acknowledged>>

StoreNext ==
    \/ \E c \in Chats :
           \/ createChat(c)
           \/ deleteChat(c)
           \/ markRead(c)
           \/ \E outcome \in Outcomes \ {"none"} : recordTurnEnd(c, outcome)
           \/ \E m \in Messages : enqueueQueuedTurn(c, m)
           \/ clearQueuedTurn(c)
    \/ Written
    \/ WriteFails
    \/ Boot
    \/ Shutdown
    \/ RewriteSnapshot
    \/ \E f \in Logs : EmptyLog(f)
    \/ Rewritten
    \/ Crash

StoreSpec == StoreInit /\ [][StoreNext]_storeVars

-----------------------------------------------------------------------------
(* Properties *)

\* Every variable has its type; nothing is being written by a process that is
\* down or starting, and nothing but a start or a shutdown rewrites whole files.
StoreTypeOK ==
    /\ phase \in Phases
    /\ state \in State
    /\ logs \in [Logs -> Seq(Line)]
    /\ snapshot \in [text: {"empty", "cut", "whole"}, state: State]
    /\ rewriting \subseteq Files
    /\ rewriting # {} => phase \in {"compacting", "closing", "clearing"}
    /\ writeChain \in Seq(StoreEvent)
    /\ writeChain # <<>> => phase = "up" /\ ~poisoned
    /\ poisoned \in BOOLEAN
    /\ created \subseteq Chats
    /\ acknowledged.number \in 0 .. MaxWrites
    /\ acknowledged.event \in StoreEvent \cup {NoEvent}

\* The live chats of s, as far as the promise goes.
Visible(s) ==
    [c \in {d \in Chats : Live(s, d)} |->
        [outcome |-> s.chatsById[c].outcome, queued |-> s.queued[c]]]

\* What a reader would find: with no process up, what a start makes of the files.
Shown == Visible(IF phase = "down" THEN Recovered ELSE state)

Promise == INSTANCE DurableStore WITH chats <- Shown, latest <- acknowledged

\* The store keeps the promise of DurableStore through crashes, restarts,
\* replays, compactions and failed writes: an operation has its effect when its
\* caller is resumed, and nothing else changes what the chats are.
StoreKeepsPromise == Promise!DurableSpec

\* The unread flag of a chat survives a restart (replayLogs, event-store.ts:248).
UnreadSurvives ==
    phase = "up" =>
        \A c \in Chats : Live(state, c) =>
            Recovered.chatsById[c].unread = state.chatsById[c].unread

\* No start ever throws the whole history away (clearStorage, event-store.ts:111).
HistoryKept == phase # "clearing"

=============================================================================
