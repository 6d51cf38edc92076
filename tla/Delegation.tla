----------------------------- MODULE Delegation -----------------------------
(***************************************************************************)
(* Durable delegations: DelegationCoordinator                              *)
(* (src/server/delegation-coordinator.ts) with what sets it off in         *)
(* TranscriptConsumer and in the wiring of src/server/server.ts.           *)
(*                                                                         *)
(* A delegation is a record in a NATS key-value bucket; the hub settles it *)
(* by compare-and-set when the child's turn ends, puts an agent_result     *)
(* into the parent's transcript and may resume the parent.  The bucket,    *)
(* the runner with its stream of events, and the store's files outlive the *)
(* hub; everything else is lost when it restarts.                          *)
(*                                                                         *)
(* Each spawned agent has a chat of its own and exactly one delegation, so *)
(* one identifier stands for all three.  An agent that delegates in turn is *)
(* a parent as well, under another name: the two roles never meet.  What a *)
(* resumed parent does with its queue is the subject of TurnPipeline.      *)
(***************************************************************************)
EXTENDS Naturals, Sequences, FiniteSets

CONSTANTS
    Parents,        \* chats whose agents are spawned
    Agents,         \* chats made for spawned agents, and their delegations
    Reconcilers,    \* bounds the reconcileChildTerminal calls in flight together
    NoAgent,        \* bootReconciliation is at no record
    NoEvent,        \* no event whose sequence number may be unstored
    Budgets         \* bounds on what may happen, one of them per behaviour

\* turns: turns started in the agents' chats; asks: times a turn waits for its
\* user; deletes: chats deleted; restarts: times the hub goes down.
Budget == [turns: Nat, asks: Nat, deletes: Nat, restarts: Nat]

ASSUME DelegationConstants ==
    /\ Parents # {} /\ Agents # {} /\ Parents \cap Agents = {}
    /\ IsFiniteSet(Agents) /\ NoAgent \notin Agents
    /\ Budgets \subseteq Budget

VARIABLES
    chats,              \* the chats that exist and are not deleted (durable)
    outcome,            \* ChatRecord.lastTurnOutcome (durable)
    records,            \* delegation.{workspace}.{id} (durable)
    indexed,            \* the delegations with a delegation_by_child key (durable)
    results,            \* agent_result entries of each delegation in its parent
    unsaved,            \* how many of them this hub appended: they may not be on disk
    run,                \* the runner's turn of each agent's chat
    stream,             \* the events the consumer has not handled
    position,           \* transcript_last_seq: ever stored, and the event still to store
    hub,                \* "up", or "booting" until the consumer is started
    activeStatuses,     \* TranscriptConsumer.activeStatuses
    previousStatuses,   \* server.ts, the statuses onStateChange saw last
    blockingCount,      \* activeBlockingCount
    creates,            \* createDelegation calls
    reconciles,         \* reconcileChildTerminal calls
    sweep,              \* bootReconciliation
    budget,             \* what is left of it
    history             \* what the properties remember of the past

durableVars    == <<chats, outcome, records, indexed>>
runnerSideVars == <<run, stream>>
consumerVars   == <<position, activeStatuses, previousStatuses>>
resultVars     == <<results, unsaved>>
delegationVars == <<durableVars, resultVars, runnerSideVars, hub, consumerVars, blockingCount,
                    creates, reconciles, sweep, budget, history>>

Chats == Parents \cup Agents

Verdicts == {"success", "failed", "cancelled"}
Settled  == {"completed", "failed", "orphaned", "stale"}
RunStates    == {"idle", "running", "waiting_for_user"}
CreateStates == {"none", "put", "done"}
Event == [chat: Agents, type: {"running", "waiting_for_user"} \cup Verdicts]
Modes    == {"blocking", "background"}
Resumes  == {"immediate", "gate"}   \* a background delegation's is ignored

DelegationRecord == [status: {"none", "active"} \cup Settled, revision: Nat,
                     parent: Parents, mode: Modes, resume: Resumes]
\* "won": its compare-and-set went through; "gate": it asks for its siblings.
ReconcileRecord  == [state: {"idle", "lookup", "read", "update", "won", "gate"},
                     child: Agents, verdict: Verdicts, revision: Nat]
SweepRecord      == [left: SUBSET Agents, tracked: SUBSET Agents,
                     current: Agents \cup {NoAgent}, status: Settled]
\* resumed: its end made its parent eligible; cut: unfinished when a hub went
\* down; repeats: boots that injected its result and died before settling it.
HistoryRecord    == [resumed: SUBSET Agents, cut: SUBSET Agents, repeats: [Agents -> Nat]]

Idle == [state |-> "idle", child |-> CHOOSE a \in Agents : TRUE,
         verdict |-> "success", revision |-> 0]
NoSweep == [left |-> {}, tracked |-> {}, current |-> NoAgent, status |-> "stale"]

InFlight(a)  == {r \in Reconcilers : reconciles[r].state # "idle" /\ reconciles[r].child = a}
Active(a)    == records[a].status = "active"
Blocks(a, p) == Active(a) /\ records[a].mode = "blocking" /\ records[a].parent = p

DelegationInit ==
    /\ chats = Parents
    /\ outcome = [a \in Agents |-> "none"]
    /\ records = [a \in Agents |-> [status |-> "none", revision |-> 0,
                                    parent |-> CHOOSE p \in Parents : TRUE,
                                    mode |-> "blocking", resume |-> "gate"]]
    /\ indexed = {}
    /\ results = [a \in Agents |-> 0]
    /\ unsaved = [a \in Agents |-> 0]
    /\ run = [a \in Agents |-> "idle"]
    /\ stream = <<>>
    /\ position = [stored |-> FALSE, event |-> NoEvent]
    /\ hub = "up"
    /\ activeStatuses = [a \in Agents |-> "idle"]
    /\ previousStatuses = [a \in Agents |-> "idle"]
    /\ blockingCount = [p \in Parents |-> 0]
    /\ creates = [a \in Agents |-> "none"]
    /\ reconciles = [r \in Reconcilers |-> Idle]
    /\ sweep = NoSweep
    /\ budget \in Budgets
    /\ history = [resumed |-> {}, cut |-> {}, repeats |-> [a \in Agents |-> 0]]

-----------------------------------------------------------------------------
(* createDelegation: the record is put first, its index second, and the     *)
(* count goes up when both are there.                                       *)

\* The first step, for the chat that spawnAgent has made for a.
PutPrimary(a, p, mode, resume) ==
    /\ hub = "up" /\ creates[a] = "none" /\ p \in chats
    /\ chats' = chats \cup {a}
    /\ records' = [records EXCEPT ![a] = [status |-> "active", revision |-> 1, parent |-> p,
                                          mode |-> mode, resume |-> resume]]
    /\ creates' = [creates EXCEPT ![a] = "put"]
    /\ UNCHANGED <<outcome, indexed, resultVars, runnerSideVars, hub, consumerVars,
                   blockingCount, reconciles, sweep, budget, history>>

PutSecondary(a) ==
    /\ hub = "up" /\ creates[a] = "put"
    /\ indexed' = indexed \cup {a}
    /\ blockingCount' = IF records[a].mode = "blocking"
                        THEN [blockingCount EXCEPT ![records[a].parent] = @ + 1]
                        ELSE blockingCount
    /\ creates' = [creates EXCEPT ![a] = "done"]
    /\ UNCHANGED <<chats, outcome, records, resultVars, runnerSideVars, hub, consumerVars,
                   reconciles, sweep, budget, history>>

-----------------------------------------------------------------------------
(* The runner's turns, by what they publish: see RunnerAgent.  A result     *)
(* entry and the verdict after it are one event here.                       *)

StreamEvent(a, type) == [chat |-> a, type |-> type]

\* The runner takes a start_turn for the chat of a.
TurnStarts(a) ==
    /\ run[a] = "idle" /\ budget.turns > 0
    /\ run' = [run EXCEPT ![a] = "running"]
    /\ stream' = Append(stream, StreamEvent(a, "running"))
    /\ budget' = [budget EXCEPT !.turns = @ - 1]

TurnEnds(a, verdict) ==
    /\ run[a] = "running" \/ (run[a] = "waiting_for_user" /\ verdict # "success")
    /\ run' = [run EXCEPT ![a] = "idle"]
    /\ stream' = Append(stream, StreamEvent(a, verdict))

TurnTurns(a, from, to) ==
    /\ run[a] = from /\ (to = "waiting_for_user" => budget.asks > 0)
    /\ run' = [run EXCEPT ![a] = to]
    /\ stream' = Append(stream, StreamEvent(a, to))
    /\ budget' = IF to = "running" THEN budget ELSE [budget EXCEPT !.asks = @ - 1]

\* A message of the user, of the parent or of the queue starts a turn.
StartTurn(a) ==
    /\ hub = "up" /\ a \in chats /\ creates[a] = "done"
    /\ TurnStarts(a)
    /\ UNCHANGED <<durableVars, resultVars, hub, consumerVars, blockingCount, creates,
                   reconciles, sweep, history>>

\* It ends, is cancelled, asks its user or gets the answer.
RunTurn(a) ==
    /\ \/ \E verdict \in Verdicts : TurnEnds(a, verdict) /\ UNCHANGED budget
       \/ TurnTurns(a, "running", "waiting_for_user")
       \/ TurnTurns(a, "waiting_for_user", "running")
    /\ UNCHANGED <<durableVars, resultVars, hub, consumerVars, blockingCount, creates,
                   reconciles, sweep, history>>

\* chat.delete, once the turn it cancels is cancelled.
DeleteChat(c) ==
    /\ hub = "up" /\ c \in chats /\ budget.deletes > 0
    /\ c \in Agents => run[c] = "idle"
    /\ chats' = chats \ {c}
    /\ budget' = [budget EXCEPT !.deletes = @ - 1]
    /\ UNCHANGED <<outcome, records, indexed, resultVars, runnerSideVars, hub, consumerVars,
                   blockingCount, creates, reconciles, sweep, history>>

-----------------------------------------------------------------------------
(* TranscriptConsumer, onStateChange and the start of a reconciliation *)

Reconcile(a, verdict) ==
    LET free == {r \in Reconcilers : reconciles[r].state = "idle"}
        r    == CHOOSE q \in free : TRUE
    IN /\ free # {}
       /\ reconciles' = [reconciles EXCEPT ![r] =
                            [state |-> "lookup", child |-> a, verdict |-> verdict,
                             revision |-> 0]]

\* Fault seeded in OnStateChange: only a success is reconciled.
OnStateChangeSuccess(a, statuses, outcomes) ==
    /\ activeStatuses' = statuses
    /\ previousStatuses' = statuses
    /\ IF /\ previousStatuses[a] \notin {"idle", "waiting_for_user"} /\ statuses[a] = "idle"
          /\ outcomes[a] = "success"
       THEN Reconcile(a, outcomes[a])
       ELSE UNCHANGED reconciles

\* A chat seen at work and gone now is reconciled; one last seen waiting is not.
OnStateChange(a, statuses, outcomes) ==
    /\ activeStatuses' = statuses
    /\ previousStatuses' = statuses
    /\ IF previousStatuses[a] \notin {"idle", "waiting_for_user"} /\ statuses[a] = "idle"
       THEN Reconcile(a, outcomes[a])
       ELSE UNCHANGED reconciles

\* handleEvent: a verdict on a deleted chat throws, and its status stays; any
\* other event is applied, after which its sequence number is put in the bucket.
\* The next event is handled when that is done.
HandleEvent ==
    LET e        == Head(stream)
        a        == e.chat
        verdict  == e.type \in Verdicts
        outcomes == IF verdict THEN [outcome EXCEPT ![a] = e.type] ELSE outcome
        statuses == [activeStatuses EXCEPT ![a] = IF verdict THEN "idle" ELSE e.type]
        stored   == position.stored \/ position.event # NoEvent
    IN
    /\ hub = "up" /\ stream # <<>>
    /\ stream' = Tail(stream)
    /\ IF verdict /\ a \notin chats
       THEN /\ position' = [stored |-> stored, event |-> NoEvent]
            /\ UNCHANGED <<outcome, activeStatuses, previousStatuses, reconciles>>
       ELSE /\ position' = [stored |-> stored, event |-> e]
            /\ outcome' = outcomes
            /\ OnStateChange(a, statuses, outcomes)
    /\ UNCHANGED <<chats, records, indexed, resultVars, run, hub, blockingCount, creates,
                   sweep, budget, history>>

-----------------------------------------------------------------------------
(* reconcileChildTerminal *)

reconcileVars == <<chats, outcome, indexed, runnerSideVars, hub, consumerVars, creates,
                   sweep, budget>>

Goto(r, state) == reconciles' = [reconciles EXCEPT ![r].state = state]
End(r)         == reconciles' = [reconciles EXCEPT ![r] = Idle]

\* getDelegationsForChild finds an active record through the index, or none.
Lookup(r) ==
    LET a == reconciles[r].child
    IN
    /\ reconciles[r].state = "lookup"
    /\ IF a \in indexed /\ Active(a) THEN Goto(r, "read") ELSE End(r)
    /\ UNCHANGED <<records, resultVars, blockingCount, history, reconcileVars>>

\* The second read, whose revision the update must still find.
ReadCurrent(r) ==
    LET a == reconciles[r].child
    IN
    /\ reconciles[r].state = "read"
    /\ IF Active(a)
       THEN reconciles' = [reconciles EXCEPT ![r].state = "update",
                                             ![r].revision = records[a].revision]
       ELSE End(r)
    /\ UNCHANGED <<records, resultVars, blockingCount, history, reconcileVars>>

VerdictStatus(verdict) == IF verdict = "success" THEN "completed" ELSE "failed"

\* Fault seeded in CompareAndSet: a put in place of the conditional update.
UnconditionalSet(r) ==
    LET a == reconciles[r].child
    IN
    /\ reconciles[r].state = "update"
    /\ records' = [records EXCEPT ![a].status = VerdictStatus(reconciles[r].verdict),
                                  ![a].revision = @ + 1]
    /\ Goto(r, "won")
    /\ UNCHANGED <<resultVars, blockingCount, history, reconcileVars>>

CompareAndSet(r) ==
    LET a == reconciles[r].child
    IN
    /\ reconciles[r].state = "update"
    /\ IF records[a].revision = reconciles[r].revision
       THEN /\ records' = [records EXCEPT ![a].status = VerdictStatus(reconciles[r].verdict),
                                          ![a].revision = @ + 1]
            /\ Goto(r, "won")
       ELSE UNCHANGED records /\ End(r)
    /\ UNCHANGED <<resultVars, blockingCount, history, reconcileVars>>

\* appendMessage: at once in memory, on disk when the write chain gets there.
AppendResult(a) ==
    /\ results' = [results EXCEPT ![a] = @ + 1]
    /\ unsaved' = [unsaved EXCEPT ![a] = @ + 1]

CountDown(n) == IF n <= 1 THEN 0 ELSE n - 1

\* Fault seeded in Inject: a background result is dropped with its resume.
InjectBlockingOnly(r) ==
    LET a == reconciles[r].child
    IN
    /\ reconciles[r].state = "won"
    /\ IF records[a].mode = "blocking"
       THEN /\ blockingCount' = [blockingCount EXCEPT ![records[a].parent] = CountDown(@)]
            /\ AppendResult(a)
            /\ Goto(r, "gate")
       ELSE UNCHANGED <<blockingCount, resultVars>> /\ End(r)
    /\ UNCHANGED <<records, history, reconcileVars>>

\* What follows the update: the count, the agent_result (appendMessage throws
\* for a deleted parent), and the first lines of checkResumeEligibility.
Inject(r) ==
    LET a      == reconciles[r].child
        d      == records[a]
        parent == d.parent \in chats
        now    == parent /\ d.mode = "blocking" /\ d.resume = "immediate"
    IN
    /\ reconciles[r].state = "won"
    /\ blockingCount' = IF d.mode = "blocking"
                        THEN [blockingCount EXCEPT ![d.parent] = CountDown(@)]
                        ELSE blockingCount
    /\ IF parent THEN AppendResult(a) ELSE UNCHANGED resultVars
    /\ IF parent /\ d.mode = "blocking" /\ d.resume = "gate" THEN Goto(r, "gate") ELSE End(r)
    /\ history' = IF now THEN [history EXCEPT !.resumed = @ \cup {a}] ELSE history
    /\ UNCHANGED <<records, reconcileVars>>

\* Fault seeded in GateOpen: an agent that failed keeps it closed.
GateOpenCompleted(p) ==
    \A b \in Agents :
        (records[b].status # "none" /\ records[b].parent = p /\ records[b].mode = "blocking")
        => records[b].status = "completed"

GateOpen(p) == \A b \in Agents : ~Blocks(b, p)

\* The parent is eligible when none of its blocking delegations is active.
Gate(r) ==
    LET a == reconciles[r].child
    IN
    /\ reconciles[r].state = "gate"
    /\ history' = IF GateOpen(records[a].parent)
                  THEN [history EXCEPT !.resumed = @ \cup {a}] ELSE history
    /\ End(r)
    /\ UNCHANGED <<records, resultVars, blockingCount, reconcileVars>>

-----------------------------------------------------------------------------
(* The hub goes down and starts again *)

Unfinished(a) == Active(a) \/ InFlight(a) # {} \/ unsaved[a] > 0

\* The hub dies, at any point, and its successor begins to sweep the records.
\* Of the entries not known to be on disk some are; the last sequence number
\* is stored or its event comes again.
Restart(stored, lost) ==
    LET left  == {a \in Agents : Active(a)}
        again == position.event # NoEvent /\ ~stored
    IN
    /\ budget.restarts > 0
    /\ budget' = [budget EXCEPT !.restarts = @ - 1]
    /\ hub' = "booting"
    /\ position' = [stored |-> position.stored \/ (position.event # NoEvent /\ stored),
                    event |-> NoEvent]
    /\ stream' = IF again THEN <<position.event>> \o stream ELSE stream
    /\ activeStatuses' = [a \in Agents |-> "idle"]
    /\ previousStatuses' = [a \in Agents |-> "idle"]
    /\ blockingCount' = [p \in Parents |-> 0]
    /\ \A a \in lost : unsaved[a] > 0
    /\ results' = [a \in Agents |-> IF a \in lost THEN results[a] - unsaved[a] ELSE results[a]]
    /\ unsaved' = [a \in Agents |-> 0]
    /\ creates' = [a \in Agents |-> IF creates[a] = "put" THEN "done" ELSE creates[a]]
    /\ reconciles' = [r \in Reconcilers |-> Idle]
    /\ sweep' = [NoSweep EXCEPT !.left = left, !.tracked = left]
    /\ history' = [history EXCEPT
                      !.cut = @ \cup {a \in Agents : Unfinished(a)},
                      !.repeats = [a \in Agents |->
                          IF sweep.current = a /\ sweep.status = "completed"
                          THEN @[a] + 1 ELSE @[a]]]
    /\ UNCHANGED <<durableVars, run>>

sweepVars == <<chats, outcome, indexed, runnerSideVars, hub, consumerVars, blockingCount,
               creates, reconciles, budget, history>>

\* One record is read.  "old": it was made more than 24 hours ago.
SweepRead(a, old) ==
    LET d        == records[a]
        orphaned == d.parent \notin chats \/ a \notin chats
        injects  == ~orphaned /\ outcome[a] = "success"
        failed   == ~orphaned /\ outcome[a] = "failed"
        keeps    == ~(orphaned \/ injects \/ failed \/ old)
        status   == IF orphaned THEN "orphaned" ELSE IF injects THEN "completed"
                    ELSE IF failed THEN "failed" ELSE "stale"
    IN
    /\ hub = "booting" /\ sweep.current = NoAgent /\ a \in sweep.left
    /\ IF injects THEN AppendResult(a) ELSE UNCHANGED resultVars
    /\ sweep' = IF keeps THEN [sweep EXCEPT !.left = @ \ {a}]
                ELSE [sweep EXCEPT !.left = @ \ {a}, !.current = a, !.status = status]
    /\ UNCHANGED <<records, sweepVars>>

\* Nothing else writes the bucket at this time: the update succeeds.
SweepUpdate ==
    LET a == sweep.current
    IN
    /\ hub = "booting" /\ a # NoAgent
    /\ records' = [records EXCEPT ![a].status = sweep.status, ![a].revision = @ + 1]
    /\ sweep' = [sweep EXCEPT !.current = NoAgent]
    /\ UNCHANGED <<resultVars, sweepVars>>

\* The index and the counts are rebuilt and the consumer starts: behind the
\* last sequence number, or with the next event where none was ever stored.
BootDone ==
    /\ hub = "booting" /\ sweep.left = {} /\ sweep.current = NoAgent
    /\ indexed' = indexed \cup sweep.tracked
    /\ blockingCount' = [p \in Parents |-> Cardinality({a \in Agents : Blocks(a, p)})]
    /\ hub' = "up" /\ sweep' = NoSweep
    /\ IF position.stored THEN UNCHANGED stream ELSE stream' = <<>>
    /\ UNCHANGED <<chats, outcome, records, resultVars, run, consumerVars, creates, reconciles,
                   budget, history>>

-----------------------------------------------------------------------------

ReconcileStep(r) == Lookup(r) \/ ReadCurrent(r) \/ CompareAndSet(r) \/ Inject(r) \/ Gate(r)
BootStep         == SweepUpdate \/ BootDone \/ \E a \in Agents, old \in BOOLEAN : SweepRead(a, old)

DelegationNext ==
    \/ \E a \in Agents, p \in Parents, mode \in Modes, resume \in Resumes :
          (mode = "background" => resume = "gate") /\ PutPrimary(a, p, mode, resume)
    \/ \E a \in Agents : PutSecondary(a) \/ StartTurn(a) \/ RunTurn(a)
    \/ \E c \in Chats : DeleteChat(c)
    \/ HandleEvent
    \/ \E r \in Reconcilers : ReconcileStep(r)
    \/ \E stored \in BOOLEAN, lost \in SUBSET Agents : Restart(stored, lost)
    \/ BootStep

\* The hub's event loop, its writes and its requests to the bucket go on.
DelegationFairness ==
    /\ WF_delegationVars(HandleEvent)
    /\ WF_delegationVars(BootStep)
    /\ \A r \in Reconcilers : WF_delegationVars(ReconcileStep(r))

DelegationSpec == DelegationInit /\ [][DelegationNext]_delegationVars /\ DelegationFairness

-----------------------------------------------------------------------------
(* Properties *)

\* Every variable has the shape the code gives it.
DelegationTypeOK ==
    /\ chats \in SUBSET Chats
    /\ outcome \in [Agents -> Verdicts \cup {"none"}]
    /\ records \in [Agents -> DelegationRecord]
    /\ indexed \in SUBSET Agents
    /\ results \in [Agents -> Nat] /\ unsaved \in [Agents -> Nat]
    /\ run \in [Agents -> RunStates]
    /\ stream \in Seq(Event)
    /\ position \in [stored: BOOLEAN, event: Event \cup {NoEvent}]
    /\ hub \in {"up", "booting"}
    /\ activeStatuses \in [Agents -> RunStates]
    /\ previousStatuses \in [Agents -> RunStates]
    /\ blockingCount \in [Parents -> Nat]
    /\ creates \in [Agents -> CreateStates]
    /\ reconciles \in [Reconcilers -> ReconcileRecord]
    /\ sweep \in SweepRecord
    /\ budget \in Budget
    /\ history \in HistoryRecord

\* However many turns of a child end together, its parent's transcript gets one
\* result at most.  Each boot that dies between its own appendMessage and its
\* compare-and-set may add one: the next boot injects again.
OneResult == \A a \in Agents : results[a] <= 1 + history.repeats[a]

\* A delegation that was settled by a hub that lived on has told its parent.
SettledIsTold ==
    \A a \in Agents :
        /\ records[a].status \in {"completed", "failed"} /\ records[a].parent \in chats
        /\ a \notin history.cut
        /\ \A r \in InFlight(a) : reconciles[r].state # "won"
        => results[a] = 1

\* The count behind "awaiting_agents" is the number of records it stands for:
\* it rises after the record is there and falls after the record is settled.
CountIsExact ==
    hub = "up" => \A p \in Parents :
        blockingCount[p] =
            Cardinality({a \in Agents : Blocks(a, p) /\ creates[a] # "put"}
                        \cup {a \in Agents : /\ records[a].parent = p
                                            /\ records[a].mode = "blocking"
                                            /\ \E r \in InFlight(a) : reconciles[r].state = "won"})

\* Of the blocking agents of a chat the last to be settled finds the gate open:
\* when all are settled and told, one of them has made the parent eligible.
LastOneResumes ==
    \A p \in Parents \cap chats :
        LET blocking == {a \in Agents : /\ records[a].status # "none" /\ records[a].parent = p
                                        /\ records[a].mode = "blocking"}
        IN
        (/\ blocking # {} /\ blocking \cap history.cut = {}
         /\ \A a \in blocking : ~Active(a) /\ InFlight(a) = {})
        => blocking \cap history.resumed # {}

\* The gate of a parent counts rightly, and opens for the last of its agents.
ParentsResume == CountIsExact /\ LastOneResumes

\* What was settled, live or at boot, is never settled again.
SettledIsFinal ==
    [][\A a \in Agents : records[a].status \in Settled => records'[a] = records[a]]_delegationVars

\* When the turn of a child that was seen at work is over, its delegation is
\* settled: unless the hub goes down, the chat is deleted, or the last status
\* it sees is that of a turn that waits for its user.
EndIsSettled ==
    \A a \in Agents :
        (/\ hub = "up" /\ Active(a)
         /\ previousStatuses[a] = "running" /\ run[a] = "idle")
        ~> (\/ ~Active(a) \/ hub = "booting" \/ a \notin chats
            \/ previousStatuses[a] = "waiting_for_user")

=============================================================================
