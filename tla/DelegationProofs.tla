--------------------------- MODULE DelegationProofs ---------------------------
(***************************************************************************)
(* Proofs about Delegation, for any parents, agents, calls and budgets.    *)
(***************************************************************************)
EXTENDS Delegation, FiniteSetTheorems, TLAPS

-----------------------------------------------------------------------------
(* Types *)

\* Some agent and some parent exist, so the null records are well typed.
LEMMA NullRecords ==
    /\ Idle \in ReconcileRecord /\ NoSweep \in SweepRecord
    /\ Idle.state = "idle" /\ NoSweep.current = NoAgent /\ NoSweep.left = {}
  BY DelegationConstants DEF Idle, NoSweep, ReconcileRecord, SweepRecord, Verdicts, Settled

\* The types hold of an empty coordinator.
LEMMA TypeInit == DelegationInit => DelegationTypeOK
<1> SUFFICES ASSUME DelegationInit PROVE DelegationTypeOK
  OBVIOUS
<1>1. chats \in SUBSET Chats /\ outcome \in [Agents -> Verdicts \cup {"none"}] /\ indexed \in SUBSET Agents
  BY DEF DelegationInit, Chats
<1>2. records \in [Agents -> DelegationRecord]
  BY DelegationConstants DEF DelegationInit, DelegationRecord, Modes, Resumes, Settled
<1>3. results \in [Agents -> Nat] /\ unsaved \in [Agents -> Nat] /\ blockingCount \in [Parents -> Nat]
  BY DEF DelegationInit
<1>4. run \in [Agents -> RunStates] /\ stream \in Seq(Event) /\ hub \in {"up", "booting"}
  BY DEF DelegationInit, RunStates
<1>5. position \in [stored: BOOLEAN, event: Event \cup {NoEvent}]
  BY DEF DelegationInit
<1>6. activeStatuses \in [Agents -> RunStates] /\ previousStatuses \in [Agents -> RunStates]
  BY DEF DelegationInit, RunStates
<1>7. creates \in [Agents -> CreateStates] /\ budget \in Budget
  BY DelegationConstants DEF DelegationInit, CreateStates
<1>8. reconciles \in [Reconcilers -> ReconcileRecord] /\ sweep \in SweepRecord
  BY NullRecords DEF DelegationInit
<1>9. history \in HistoryRecord
  BY DEF DelegationInit, HistoryRecord
<1> QED
  BY <1>1, <1>2, <1>3, <1>4, <1>5, <1>6, <1>7, <1>8, <1>9 DEF DelegationTypeOK

\* What a budget allows can be taken from it.
LEMMA BudgetSpent ==
    ASSUME NEW b \in Budget
    PROVE  /\ b.turns > 0    => [b EXCEPT !.turns    = @ - 1] \in Budget
           /\ b.asks > 0     => [b EXCEPT !.asks     = @ - 1] \in Budget
           /\ b.deletes > 0  => [b EXCEPT !.deletes  = @ - 1] \in Budget
           /\ b.restarts > 0 => [b EXCEPT !.restarts = @ - 1] \in Budget
<1>1. b.turns \in Nat /\ b.asks \in Nat /\ b.deletes \in Nat /\ b.restarts \in Nat
  BY DEF Budget
<1>2. \A n \in Nat : n > 0 => n - 1 \in Nat
  OBVIOUS
<1>3. b.turns > 0 => [b EXCEPT !.turns = @ - 1] \in Budget
  BY <1>1, <1>2 DEF Budget
<1>4. b.asks > 0 => [b EXCEPT !.asks = @ - 1] \in Budget
  BY <1>1, <1>2 DEF Budget
<1>5. b.deletes > 0 => [b EXCEPT !.deletes = @ - 1] \in Budget
  BY <1>1, <1>2 DEF Budget
<1>6. b.restarts > 0 => [b EXCEPT !.restarts = @ - 1] \in Budget
  BY <1>1, <1>2 DEF Budget
<1> QED
  BY <1>3, <1>4, <1>5, <1>6

\* createDelegation, and chat.delete.
LEMMA TypeCreates ==
    ASSUME DelegationTypeOK,
           \/ \E a \in Agents, p \in Parents, mode \in Modes, resume \in Resumes :
                 PutPrimary(a, p, mode, resume)
           \/ \E a \in Agents : PutSecondary(a)
           \/ \E c \in Chats : DeleteChat(c)
    PROVE  DelegationTypeOK'
<1> USE DEF DelegationTypeOK
<1>1. CASE \E a \in Agents, p \in Parents, mode \in Modes, resume \in Resumes :
              PutPrimary(a, p, mode, resume)
  BY <1>1 DEF PutPrimary, DelegationRecord, CreateStates, Chats, resultVars, runnerSideVars, consumerVars
<1>2. CASE \E a \in Agents : PutSecondary(a)
  <2> PICK a \in Agents : PutSecondary(a)
    BY <1>2
  <2>1. records[a].parent \in Parents
    BY DEF DelegationRecord
  <2>2. blockingCount' \in [Parents -> Nat]
    <3>1. blockingCount[records[a].parent] + 1 \in Nat
      BY <2>1
    <3> QED
      BY <3>1 DEF PutSecondary
  <2>3. creates' \in [Agents -> CreateStates] /\ indexed' \in SUBSET Agents
    BY DEF PutSecondary, CreateStates
  <2> QED
    BY <2>2, <2>3 DEF PutSecondary, resultVars, runnerSideVars, consumerVars
<1>3. CASE \E c \in Chats : DeleteChat(c)
  BY <1>3, BudgetSpent DEF DeleteChat, resultVars, runnerSideVars, consumerVars
<1> QED
  BY <1>1, <1>2, <1>3

\* The turns of the agents.
LEMMA TypeTurns ==
    ASSUME DelegationTypeOK, NEW a \in Agents, StartTurn(a) \/ RunTurn(a)
    PROVE  DelegationTypeOK'
<1> USE DEF DelegationTypeOK
<1>1. ASSUME NEW type \in {"running", "waiting_for_user"} \cup Verdicts
      PROVE  Append(stream, StreamEvent(a, type)) \in Seq(Event)
  BY DEF StreamEvent, Event
<1>2. run' \in [Agents -> RunStates]
  BY ZenonT(40) DEF StartTurn, RunTurn, TurnStarts, TurnEnds, TurnTurns, RunStates
<1>3. stream' \in Seq(Event)
  <2>1. \E type \in {"running", "waiting_for_user"} \cup Verdicts :
            stream' = Append(stream, StreamEvent(a, type))
    BY DEF StartTurn, RunTurn, TurnStarts, TurnEnds, TurnTurns
  <2> QED
    BY <1>1, <2>1
<1>4. budget' \in Budget
  BY BudgetSpent DEF StartTurn, RunTurn, TurnStarts, TurnTurns
<1> QED
  BY <1>2, <1>3, <1>4 DEF StartTurn, RunTurn, durableVars, resultVars, consumerVars

\* The consumer: a chat seen at work becomes idle only by an event with a verdict.
LEMMA TypeConsumer == DelegationTypeOK /\ HandleEvent => DelegationTypeOK'
<1> SUFFICES ASSUME DelegationTypeOK, HandleEvent PROVE DelegationTypeOK'
  OBVIOUS
<1> USE DEF DelegationTypeOK
<1> DEFINE e == Head(stream)
           a == e.chat
           verdict  == e.type \in Verdicts
           outcomes == IF verdict THEN [outcome EXCEPT ![a] = e.type] ELSE outcome
           statuses == [activeStatuses EXCEPT ![a] = IF verdict THEN "idle" ELSE e.type]
<1>1. stream # <<>> /\ stream \in Seq(Event)
  BY DEF HandleEvent
<1>2. e \in Event /\ Tail(stream) \in Seq(Event)
  BY <1>1
<1>3. a \in Agents /\ e.type \in {"running", "waiting_for_user"} \cup Verdicts
  BY <1>2 DEF Event
<1>4. /\ outcomes \in [Agents -> Verdicts \cup {"none"}] /\ (verdict => outcomes[a] \in Verdicts)
      /\ statuses \in [Agents -> RunStates] /\ (statuses[a] = "idle" => verdict)
  BY <1>3 DEF RunStates, Verdicts
<1>5. position' \in [stored: BOOLEAN, event: Event \cup {NoEvent}]
  <2>1. PICK stored \in BOOLEAN : \/ position' = [stored |-> stored, event |-> NoEvent]
                                  \/ position' = [stored |-> stored, event |-> e]
    BY DEF HandleEvent
  <2> QED
    BY <1>2, <2>1
<1>6. /\ outcome' = outcome \/ outcome' = outcomes
      /\ stream' = Tail(stream)
      /\ UNCHANGED <<chats, records, indexed, resultVars, run, hub, blockingCount, creates,
                     sweep, budget, history>>
      /\ \/ UNCHANGED <<activeStatuses, previousStatuses, reconciles>>
         \/ OnStateChange(a, statuses, outcomes)
  BY DEF HandleEvent
<1> HIDE DEF e, a, outcomes, statuses
<1>7. CASE UNCHANGED <<activeStatuses, previousStatuses, reconciles>>
  BY <1>2, <1>4, <1>5, <1>6, <1>7 DEF resultVars
<1>8. CASE OnStateChange(a, statuses, outcomes)
  <2>1. reconciles' \in [Reconcilers -> ReconcileRecord]
    <3>1. CASE ~Reconcile(a, outcomes[a])
      BY <1>8, <3>1 DEF OnStateChange
    <3>2. CASE statuses[a] = "idle" /\ Reconcile(a, outcomes[a])
      BY <1>4, <3>2, <1>3 DEF Reconcile, ReconcileRecord
    <3>3. CASE statuses[a] # "idle"
      BY <1>8, <3>3 DEF OnStateChange
    <3> QED
      BY <3>1, <3>2, <3>3
  <2> QED
    BY <1>2, <1>4, <1>5, <1>6, <1>8, <2>1 DEF OnStateChange, resultVars
<1> QED
  BY <1>6, <1>7, <1>8

\* reconcileChildTerminal.
LEMMA TypeReconcile ==
    ASSUME DelegationTypeOK, NEW r \in Reconcilers, ReconcileStep(r)
    PROVE  DelegationTypeOK'
<1> USE DEF DelegationTypeOK
<1> DEFINE a == reconciles[r].child
           p == records[a].parent
<1>1. /\ reconciles[r] \in ReconcileRecord /\ a \in Agents /\ reconciles[r].verdict \in Verdicts
      /\ records[a] \in DelegationRecord /\ p \in Parents /\ records[a].revision \in Nat
  BY DEF ReconcileRecord, DelegationRecord
<1>2. /\ Goto(r, "read") \/ Goto(r, "won") \/ Goto(r, "gate") \/ End(r)
         => reconciles' \in [Reconcilers -> ReconcileRecord]
  <2>1. ASSUME NEW state \in {"idle", "lookup", "read", "update", "won", "gate"}, Goto(r, state)
        PROVE  reconciles' \in [Reconcilers -> ReconcileRecord]
    BY <1>1, <2>1 DEF ReconcileRecord, Goto
  <2>2. ASSUME End(r) PROVE reconciles' \in [Reconcilers -> ReconcileRecord]
    BY <2>2, NullRecords DEF End
  <2> QED
    BY <2>1, <2>2
<1>3. CASE Lookup(r)
  BY <1>2, <1>3 DEF Lookup, resultVars, reconcileVars, runnerSideVars, consumerVars
<1>4. CASE ReadCurrent(r)
  <2>1. reconciles' = [reconciles EXCEPT ![r].state = "update", ![r].revision = records[a].revision]
           => reconciles' \in [Reconcilers -> ReconcileRecord]
    <3> DEFINE read == [reconciles[r] EXCEPT !.state = "update", !.revision = records[a].revision]
    <3>1. read \in ReconcileRecord
      BY <1>1 DEF ReconcileRecord
    <3>2. [reconciles EXCEPT ![r].state = "update", ![r].revision = records[a].revision]
             = [reconciles EXCEPT ![r] = read]
      OBVIOUS
    <3> HIDE DEF read
    <3> QED
      BY <3>1, <3>2
  <2> QED
    BY <1>2, <1>4, <2>1 DEF ReadCurrent, resultVars, reconcileVars, runnerSideVars, consumerVars
<1>5. CASE CompareAndSet(r)
  <2>1. VerdictStatus(reconciles[r].verdict) \in Settled
    BY DEF VerdictStatus, Settled
  <2>2. records[a].revision + 1 \in Nat
    BY <1>1
  <2>3. records' \in [Agents -> DelegationRecord]
    <3> DEFINE set == [records[a] EXCEPT !.status = VerdictStatus(reconciles[r].verdict),
                                         !.revision = @ + 1]
    <3>1. set \in DelegationRecord
      BY <1>1, <2>1, <2>2 DEF DelegationRecord
    <3>2. records' = records \/ records' = [records EXCEPT ![a] = set]
      BY <1>5 DEF CompareAndSet
    <3> HIDE DEF set
    <3> QED
      BY <3>1, <3>2
  <2> QED
    BY <1>2, <1>5, <2>3 DEF CompareAndSet, resultVars, reconcileVars, runnerSideVars, consumerVars
<1>6. CASE Inject(r)
  <2>1. blockingCount' \in [Parents -> Nat]
    BY <1>1, <1>6 DEF CountDown, Inject
  <2>2. results' \in [Agents -> Nat] /\ unsaved' \in [Agents -> Nat]
    <3>1. results[a] + 1 \in Nat /\ unsaved[a] + 1 \in Nat
      BY <1>1
    <3> QED
      BY <1>6, <3>1 DEF Inject, AppendResult, resultVars
  <2>3. reconciles' \in [Reconcilers -> ReconcileRecord]
    BY <1>2, <1>6 DEF Inject
  <2>4. history' \in HistoryRecord
    BY <1>1, <1>6 DEF Inject, HistoryRecord
  <2> QED
    BY <1>6, <2>1, <2>2, <2>3, <2>4 DEF Inject, reconcileVars, runnerSideVars, consumerVars
<1>7. CASE Gate(r)
  BY <1>1, <1>7, <1>2 DEF Gate, HistoryRecord, resultVars, reconcileVars, runnerSideVars, consumerVars
<1> QED
  BY <1>3, <1>4, <1>5, <1>6, <1>7 DEF ReconcileStep

\* A result not known to be on disk was counted before.
SavedAreCounted == \A a \in Agents : unsaved[a] <= results[a]

\* The hub goes down.
LEMMA TypeRestart ==
    ASSUME DelegationTypeOK, SavedAreCounted,
           NEW stored \in BOOLEAN, NEW lost \in SUBSET Agents, Restart(stored, lost)
    PROVE  /\ DelegationTypeOK'
           /\ \A a \in Agents : results'[a] <= results[a] /\ unsaved'[a] = 0
           /\ history'.repeats = [a \in Agents |->
                  IF sweep.current = a /\ sweep.status = "completed"
                  THEN history.repeats[a] + 1 ELSE history.repeats[a]]
<1> USE DEF DelegationTypeOK
<1>1. budget' \in Budget
  BY BudgetSpent DEF Restart
<1>2. position' \in [stored: BOOLEAN, event: Event \cup {NoEvent}]
  BY DEF Restart
<1>3. stream' \in Seq(Event)
  <2>1. stream \in Seq(Event) /\ position.event \in Event \cup {NoEvent}
    OBVIOUS
  <2>2. CASE position.event # NoEvent
    <3>1. <<position.event>> \in Seq(Event)
      BY <2>1, <2>2
    <3>2. <<position.event>> \o stream \in Seq(Event)
      BY <2>1, <3>1
    <3> QED
      BY <2>1, <3>2 DEF Restart
  <2>3. CASE position.event = NoEvent
    BY <2>1, <2>3 DEF Restart
  <2> QED
    BY <2>2, <2>3
<1>4. /\ activeStatuses' \in [Agents -> RunStates] /\ previousStatuses' \in [Agents -> RunStates]
      /\ blockingCount' \in [Parents -> Nat]
  BY DEF Restart, RunStates
<1>5. /\ unsaved' \in [Agents -> Nat] /\ results' \in [Agents -> Nat]
      /\ \A a \in Agents : results'[a] <= results[a] /\ unsaved'[a] = 0
  BY DEF SavedAreCounted, Restart
<1>6. creates' \in [Agents -> CreateStates]
  BY DEF Restart, CreateStates
<1>7. reconciles' \in [Reconcilers -> ReconcileRecord]
  BY NullRecords DEF Restart
<1>8. sweep' \in SweepRecord
  BY NullRecords DEF Restart, SweepRecord
<1>9. /\ history' \in HistoryRecord
      /\ history'.repeats = [a \in Agents |->
                  IF sweep.current = a /\ sweep.status = "completed"
                  THEN history.repeats[a] + 1 ELSE history.repeats[a]]
  <2> DEFINE cut == history.cut \cup {a \in Agents : Unfinished(a)}
             repeats == [a \in Agents |-> IF sweep.current = a /\ sweep.status = "completed"
                                          THEN history.repeats[a] + 1 ELSE history.repeats[a]]
  <2>1. history' = [history EXCEPT !.cut = cut, !.repeats = repeats]
    BY DEF Restart
  <2>2. cut \in SUBSET Agents /\ history.repeats \in [Agents -> Nat] /\ history.resumed \in SUBSET Agents
    BY DEF HistoryRecord
  <2>3. repeats \in [Agents -> Nat]
    BY <2>2
  <2> HIDE DEF cut, repeats
  <2>4. history' \in HistoryRecord /\ history'.repeats = repeats
    BY <2>1, <2>2, <2>3 DEF HistoryRecord
  <2> QED
    BY <2>4 DEF repeats
<1> QED
  BY <1>1, <1>2, <1>3, <1>4, <1>5, <1>6, <1>7, <1>8, <1>9 DEF Restart, durableVars

\* The boot's sweep.
LEMMA TypeBoot ==
    ASSUME DelegationTypeOK, BootStep
    PROVE  DelegationTypeOK'
<1> USE DEF DelegationTypeOK
<1>1. CASE \E a \in Agents, old \in BOOLEAN : SweepRead(a, old)
  <2> PICK a \in Agents, old \in BOOLEAN : SweepRead(a, old)
    BY <1>1
  <2>1. sweep' \in SweepRecord
    BY DEF SweepRead, SweepRecord, Settled
  <2>2. results' \in [Agents -> Nat] /\ unsaved' \in [Agents -> Nat]
    <3>1. results[a] + 1 \in Nat /\ unsaved[a] + 1 \in Nat
      OBVIOUS
    <3> QED
      BY <3>1 DEF SweepRead, AppendResult, resultVars
  <2> QED
    BY <2>1, <2>2 DEF SweepRead, sweepVars, runnerSideVars, consumerVars
<1>2. CASE SweepUpdate
  <2>1. sweep.current \in Agents /\ sweep.status \in Settled
    BY <1>2 DEF SweepUpdate, SweepRecord
  <2>3. records' \in [Agents -> DelegationRecord]
    <3> DEFINE a == sweep.current
               set == [records[a] EXCEPT !.status = sweep.status, !.revision = @ + 1]
    <3>1. set \in DelegationRecord
      <4>1. records[a] \in DelegationRecord /\ sweep.status \in Settled
        BY <2>1
      <4> HIDE DEF a
      <4>2. records[a].revision + 1 \in Nat
        BY <4>1 DEF DelegationRecord
      <4> QED
        BY <4>1, <4>2 DEF DelegationRecord
    <3>2. records' = [records EXCEPT ![a] = set]
      BY <1>2 DEF SweepUpdate
    <3> HIDE DEF set
    <3> QED
      BY <3>1, <3>2
  <2>4. sweep' \in SweepRecord
    BY <1>2 DEF SweepUpdate, SweepRecord
  <2> QED
    BY <1>2, <2>3, <2>4 DEF SweepUpdate, resultVars, sweepVars, runnerSideVars, consumerVars
<1>3. CASE BootDone
  <2>1. sweep.tracked \in SUBSET Agents
    BY DEF SweepRecord
  <2>2. \A p \in Parents : Cardinality({a \in Agents : Blocks(a, p)}) \in Nat
    BY DelegationConstants, FS_CardinalityType, FS_Subset
  <2>3. stream' \in Seq(Event)
    <3>1. <<>> \in Seq(Event)
      OBVIOUS
    <3> QED
      BY <1>3, <3>1 DEF BootDone
  <2> QED
    BY <1>3, <2>1, <2>2, <2>3, NullRecords DEF BootDone, resultVars, consumerVars
<1> QED
  BY <1>1, <1>2, <1>3 DEF BootStep

-----------------------------------------------------------------------------
(* The invariant *)

\* A record is put by the createDelegation call of its agent.
RecordsAreCreated == \A a \in Agents : creates[a] = "none" => records[a].status = "none"

\* A call about to update has read an active record: while the revision it read is
\* still there, so is that record.
ReadersAreBehind ==
    \A r \in Reconcilers :
        reconciles[r].state = "update" =>
            LET d == records[reconciles[r].child]
            IN /\ d.status # "none" /\ reconciles[r].revision <= d.revision
               /\ reconciles[r].revision = d.revision => d.status = "active"

\* Reconcile r took the delegation of a out of the map.
Won(r, a) == reconciles[r].state = "won" /\ reconciles[r].child = a

\* The compare-and-set lets one call through, which alone has the result to tell.
OneWinner ==
    \A a \in Agents, r \in Reconcilers :
        Won(r, a) => /\ records[a].status \in Settled
                     /\ \A q \in Reconcilers : Won(q, a) => q = r

\* The sweep works alone, on active records, each one once.
SweepIsAlone ==
    /\ hub = "booting" => \A r \in Reconcilers : reconciles[r].state = "idle"
    /\ hub = "up" => sweep.current = NoAgent
    /\ hub = "booting" =>
          /\ \A a \in sweep.left : Active(a)
          /\ sweep.current # NoAgent => Active(sweep.current) /\ sweep.current \notin sweep.left

\* The sweep is telling the parent that a has completed.
Injected(a) == sweep.current = a /\ sweep.status = "completed"

\* Of the results of a delegation each but one is of a boot that died too early:
\* all of them as long as its result is still to come.
ResultsCounted ==
    \A a \in Agents :
        /\ results[a] <= 1 + history.repeats[a]
        /\ records[a].status \notin Settled /\ ~Injected(a) => results[a] <= history.repeats[a]
        /\ \A r \in Reconcilers : Won(r, a) => results[a] <= history.repeats[a]

\* The inductive invariant: the types and what the actions rely on.
DelegationInv ==
    /\ DelegationTypeOK /\ SavedAreCounted
    /\ RecordsAreCreated /\ ReadersAreBehind /\ OneWinner /\ SweepIsAlone /\ ResultsCounted

\* It holds of an empty coordinator.
LEMMA InvInit == DelegationInit => DelegationInv
<1> SUFFICES ASSUME DelegationInit PROVE DelegationInv
  OBVIOUS
<1>1. DelegationTypeOK
  BY TypeInit
<1>2. /\ \A a \in Agents : records[a].status = "none" /\ results[a] = 0 /\ unsaved[a] = 0
                           /\ history.repeats[a] = 0
      /\ \A r \in Reconcilers : reconciles[r].state = "idle"
      /\ hub = "up" /\ sweep.current = NoAgent
  BY NullRecords DEF DelegationInit
<1> QED
  BY <1>1, <1>2 DEF DelegationInv, SavedAreCounted, RecordsAreCreated, ReadersAreBehind, OneWinner,
     SweepIsAlone, ResultsCounted, Won, Settled

\* Steps that leave records, results and the sweep alone and move no call to
\* "update" or "won".
LEMMA QuietStep ==
    ASSUME DelegationInv, DelegationTypeOK',
           UNCHANGED <<records, results, unsaved, hub, sweep>>, history'.repeats = history.repeats,
           \A a \in Agents : creates'[a] = "none" => creates[a] = "none",
           \A r \in Reconcilers : /\ reconciles'[r].state \in {"update", "won"}
                                        => reconciles'[r] = reconciles[r]
                                  /\ hub = "booting" => reconciles'[r] = reconciles[r]
    PROVE  DelegationInv' /\ (\A a \in Agents : records'[a] = records[a])
<1> USE DEF DelegationInv
<1>1. SavedAreCounted' /\ RecordsAreCreated'
  BY DEF SavedAreCounted, RecordsAreCreated
<1>2. ReadersAreBehind'
  BY DEF ReadersAreBehind
<1>3. \A r \in Reconcilers, a \in Agents : Won(r, a)' => Won(r, a)
  BY DEF Won
<1>4. OneWinner'
  BY <1>3 DEF OneWinner
<1>5. SweepIsAlone'
  BY DEF SweepIsAlone, Active
<1>6. ResultsCounted'
  BY <1>3 DEF ResultsCounted, Injected
<1> QED
  BY <1>1, <1>2, <1>4, <1>5, <1>6

\* createDelegation puts an active record where there was none.
LEMMA PutStep ==
    ASSUME DelegationInv, NEW a \in Agents, NEW p \in Parents, NEW mode \in Modes,
           NEW resume \in Resumes, PutPrimary(a, p, mode, resume)
    PROVE  DelegationInv' /\ records[a].status = "none"
                          /\ \A b \in Agents : b # a => records'[b] = records[b]
<1> USE DEF DelegationInv
<1>1. DelegationTypeOK'
  BY TypeCreates
<1>2. /\ records[a].status = "none" /\ records'[a].status = "active"
      /\ \A b \in Agents : b # a => records'[b] = records[b]
      /\ hub = "up" /\ UNCHANGED <<results, unsaved, history, reconciles, sweep, hub>>
      /\ creates'[a] = "put" /\ \A b \in Agents : b # a => creates'[b] = creates[b]
  BY DEF PutPrimary, RecordsAreCreated, DelegationTypeOK, resultVars
<1>3. SavedAreCounted' /\ RecordsAreCreated'
  BY <1>2 DEF SavedAreCounted, RecordsAreCreated
<1>4. \A r \in Reconcilers : reconciles[r].state = "update" => reconciles[r].child # a
  BY <1>2 DEF ReadersAreBehind
<1>5. ReadersAreBehind'
  BY <1>2, <1>4 DEF ReadersAreBehind, DelegationTypeOK, ReconcileRecord
<1>6. OneWinner'
  BY <1>2 DEF OneWinner, Won, Settled
<1>7. SweepIsAlone'
  BY <1>2 DEF SweepIsAlone
<1>8. ResultsCounted'
  BY <1>2 DEF ResultsCounted, Won, Injected, Settled
<1> QED
  BY <1>1, <1>2, <1>3, <1>5, <1>6, <1>7, <1>8

\* The compare-and-set: either nobody has written since the read, and the record is
\* still the active one that was read, or nothing is written.
LEMMA SetStep ==
    ASSUME DelegationInv, NEW r \in Reconcilers, CompareAndSet(r)
    PROVE  /\ DelegationInv'
           /\ \A b \in Agents : records[b].status \in Settled => records'[b] = records[b]
<1> USE DEF DelegationInv
<1> DEFINE a == reconciles[r].child
<1>1. DelegationTypeOK'
  BY TypeReconcile DEF ReconcileStep
<1>2. /\ a \in Agents /\ reconciles[r].state = "update" /\ reconciles[r].verdict \in Verdicts
      /\ reconciles[r] \in ReconcileRecord /\ records[a] \in DelegationRecord
      /\ UNCHANGED <<results, unsaved, history, sweep, hub, creates>>
  BY DEF CompareAndSet, DelegationTypeOK, ReconcileRecord, resultVars, reconcileVars
<1>3. hub = "up" /\ sweep.current = NoAgent
  BY <1>2 DEF SweepIsAlone, DelegationTypeOK
<1>4. CASE records[a].revision = reconciles[r].revision
  <2>1. records[a].status = "active"
    BY <1>2, <1>4 DEF ReadersAreBehind
  <2>2. VerdictStatus(reconciles[r].verdict) \in Settled
    BY DEF VerdictStatus, Settled
  <2>3. /\ records'[a].status \in Settled /\ records'[a].revision = records[a].revision + 1
        /\ \A b \in Agents : b # a => records'[b] = records[b]
    BY <1>2, <1>4, <2>2 DEF CompareAndSet, DelegationTypeOK, DelegationRecord
  <2>4. /\ reconciles'[r].state = "won" /\ reconciles'[r].child = a
        /\ \A q \in Reconcilers : q # r => reconciles'[q] = reconciles[q]
    BY <1>2, <1>4 DEF CompareAndSet, Goto, DelegationTypeOK, ReconcileRecord
  <2>5. \A q \in Reconcilers : ~Won(q, a)
    BY <1>2, <2>1 DEF OneWinner, Settled
  <2>6. \A b \in Agents, q \in Reconcilers : Won(q, b)' => (q = r /\ b = a) \/ (Won(q, b) /\ b # a)
    BY <2>4, <2>5 DEF Won
  <2>7. OneWinner'
    BY <1>2, <2>3, <2>6 DEF OneWinner
  <2>8. ReadersAreBehind'
    <3> SUFFICES ASSUME NEW q \in Reconcilers, reconciles'[q].state = "update"
                 PROVE  LET d == records'[reconciles'[q].child]
                        IN /\ d.status # "none" /\ reconciles'[q].revision <= d.revision
                           /\ reconciles'[q].revision = d.revision => d.status = "active"
      BY DEF ReadersAreBehind
    <3>1. q # r /\ reconciles'[q] = reconciles[q]
      BY <2>4
    <3>2. CASE reconciles[q].child = a
      <4>1. reconciles[q].revision <= records[a].revision
        BY <3>1, <3>2 DEF ReadersAreBehind
      <4>2. reconciles[q].revision \in Nat /\ records[a].revision \in Nat
        BY <1>2 DEF DelegationTypeOK, ReconcileRecord, DelegationRecord
      <4>3. reconciles[q].revision < records'[a].revision
        BY <2>3, <4>1, <4>2
      <4>4. reconciles[q].revision # records'[a].revision
            /\ reconciles[q].revision <= records'[a].revision /\ records'[a].status # "none"
        BY <2>3, <4>2, <4>3 DEF Settled
      <4> QED
        BY <3>1, <3>2, <4>4
    <3>3. CASE reconciles[q].child # a
      BY <2>3, <3>3, <3>1 DEF DelegationTypeOK, ReconcileRecord, ReadersAreBehind
    <3> QED
      BY <3>2, <3>3
  <2>9. RecordsAreCreated' /\ SavedAreCounted'
    BY <1>2, <2>1, <2>3 DEF RecordsAreCreated, SavedAreCounted
  <2>10. SweepIsAlone'
    BY <1>2, <1>3 DEF SweepIsAlone
  <2>11. ~Injected(a)
    BY <1>2, <1>3, DelegationConstants DEF Injected
  <2>12. results[a] <= history.repeats[a]
    BY <1>2, <2>1, <2>11 DEF ResultsCounted, Settled
  <2>13. ResultsCounted'
    <3> SUFFICES ASSUME NEW b \in Agents
                 PROVE  /\ results'[b] <= 1 + history'.repeats[b]
                        /\ records'[b].status \notin Settled /\ ~Injected(b)'
                              => results'[b] <= history'.repeats[b]
                        /\ \A q \in Reconcilers : Won(q, b)' => results'[b] <= history'.repeats[b]
      BY DEF ResultsCounted
    <3>1. CASE b = a
      BY <1>2, <2>3, <2>12, <3>1 DEF ResultsCounted
    <3>2. CASE b # a
      BY <1>2, <2>3, <2>6, <3>2 DEF ResultsCounted, Injected
    <3> QED
      BY <3>1, <3>2
  <2> QED
    BY <1>1, <2>1, <2>3, <2>7, <2>8, <2>9, <2>10, <2>13 DEF Settled
<1>5. CASE records[a].revision # reconciles[r].revision
  BY <1>5, NullRecords, <1>3, <1>1, <1>2, QuietStep DEF CompareAndSet, End, DelegationTypeOK
<1> QED
  BY <1>4, <1>5

\* The second read, of an active record.
LEMMA ReadStep ==
    ASSUME DelegationInv, NEW r \in Reconcilers, ReadCurrent(r)
    PROVE  DelegationInv' /\ records' = records
<1> USE DEF DelegationInv
<1> DEFINE a == reconciles[r].child
<1>1. DelegationTypeOK'
  BY TypeReconcile DEF ReconcileStep
<1>2. /\ UNCHANGED <<records, results, unsaved, history, sweep, hub, creates>>
      /\ reconciles[r] \in ReconcileRecord /\ a \in Agents /\ records[a].revision \in Nat
  BY DEF ReadCurrent, DelegationTypeOK, ReconcileRecord, DelegationRecord, resultVars, reconcileVars
<1>3. hub = "up"
  BY DEF ReadCurrent, SweepIsAlone, DelegationTypeOK
<1>4. /\ \A q \in Reconcilers : q # r => reconciles'[q] = reconciles[q]
      /\ \/ reconciles'[r].state = "idle"
         \/ /\ Active(a) /\ reconciles'[r].state = "update"
            /\ reconciles'[r].child = a /\ reconciles'[r].revision = records[a].revision
  BY <1>2, NullRecords DEF ReadCurrent, End, DelegationTypeOK, ReconcileRecord
<1>5. ReadersAreBehind'
  BY <1>2, <1>4 DEF ReadersAreBehind, Active
<1>6. \A q \in Reconcilers, b \in Agents : Won(q, b)' => Won(q, b)
  BY <1>4 DEF Won
<1> QED
  BY <1>1, <1>2, <1>3, <1>5, <1>6 DEF SavedAreCounted, RecordsAreCreated, OneWinner, SweepIsAlone,
     ResultsCounted, Injected

\* The winner tells the parent, once.
LEMMA InjectStep ==
    ASSUME DelegationInv, NEW r \in Reconcilers, Inject(r)
    PROVE  DelegationInv' /\ records' = records
<1> USE DEF DelegationInv
<1> DEFINE a == reconciles[r].child
<1>1. DelegationTypeOK'
  BY TypeReconcile DEF ReconcileStep
<1>2. /\ UNCHANGED <<records, sweep, hub, creates>> /\ history'.repeats = history.repeats
      /\ reconciles[r] \in ReconcileRecord /\ a \in Agents /\ Won(r, a)
  BY DEF Inject, DelegationTypeOK, ReconcileRecord, HistoryRecord, reconcileVars, Won
<1>3. hub = "up"
  BY DEF Inject, SweepIsAlone, DelegationTypeOK
<1>4. /\ \A q \in Reconcilers : q # r => reconciles'[q] = reconciles[q]
      /\ reconciles'[r].state \notin {"won", "update"}
  BY <1>2, NullRecords DEF Inject, Goto, End, DelegationTypeOK, ReconcileRecord
<1>5. /\ records[a].status \in Settled /\ results[a] <= history.repeats[a]
      /\ \A q \in Reconcilers : Won(q, a) => q = r
  BY <1>2 DEF OneWinner, ResultsCounted
<1>6. /\ \A b \in Agents : b # a => results'[b] = results[b] /\ unsaved'[b] = unsaved[b]
      /\ \/ results'[a] = results[a] /\ unsaved'[a] = unsaved[a]
         \/ results'[a] = results[a] + 1 /\ unsaved'[a] = unsaved[a] + 1
  BY <1>2 DEF Inject, AppendResult, resultVars, DelegationTypeOK
<1>7. \A b \in Agents : results[b] \in Nat /\ unsaved[b] \in Nat /\ history.repeats[b] \in Nat
  BY DEF DelegationTypeOK, HistoryRecord
<1>8. SavedAreCounted'
  BY <1>6, <1>7 DEF SavedAreCounted
<1>9. \A q \in Reconcilers, b \in Agents : Won(q, b)' => Won(q, b) /\ b # a
  BY <1>4, <1>5 DEF Won
<1>10. ResultsCounted'
  <2> SUFFICES ASSUME NEW b \in Agents
               PROVE  /\ results'[b] <= 1 + history'.repeats[b]
                      /\ records'[b].status \notin Settled /\ ~Injected(b)'
                            => results'[b] <= history'.repeats[b]
                      /\ \A q \in Reconcilers : Won(q, b)' => results'[b] <= history'.repeats[b]
    BY DEF ResultsCounted
  <2>1. CASE b = a
    <3>1. results'[a] <= 1 + history.repeats[a]
      <4>1. results[a] <= history.repeats[a] /\ results[a] \in Nat /\ history.repeats[a] \in Nat
        BY <1>2, <1>5, <1>7
      <4> QED
        BY <1>6, <4>1
    <3> QED
      BY <1>2, <1>5, <1>9, <2>1, <3>1
  <2>2. CASE b # a
    BY <1>2, <1>6, <1>9, <2>2 DEF ResultsCounted, Injected
  <2> QED
    BY <2>1, <2>2
<1>11. ReadersAreBehind' /\ OneWinner'
  BY <1>2, <1>4, <1>9 DEF ReadersAreBehind, OneWinner
<1>12. RecordsAreCreated' /\ SweepIsAlone'
  BY <1>2, <1>3 DEF RecordsAreCreated, SweepIsAlone
<1> QED
  BY <1>1, <1>2, <1>8, <1>10, <1>11, <1>12

\* The other steps of a reconciliation.
LEMMA ReconcileSteps ==
    ASSUME DelegationInv, NEW r \in Reconcilers, ReconcileStep(r)
    PROVE  /\ DelegationInv'
           /\ \A b \in Agents : records[b].status \in Settled => records'[b] = records[b]
<1>1. CASE CompareAndSet(r)
  BY <1>1, SetStep
<1>2. CASE ReadCurrent(r) \/ Inject(r)
  BY <1>2, ReadStep, InjectStep
<1>3. CASE Lookup(r) \/ Gate(r)
  <2>1. DelegationTypeOK'
    BY <1>3, TypeReconcile DEF ReconcileStep, DelegationInv
  <2>2. /\ UNCHANGED <<records, results, unsaved, hub, sweep, creates>>
        /\ history'.repeats = history.repeats
    BY <1>3 DEF Lookup, Gate, DelegationInv, DelegationTypeOK, HistoryRecord, resultVars, reconcileVars
  <2>3. hub = "up"
    BY <1>3 DEF Lookup, Gate, DelegationInv, SweepIsAlone, DelegationTypeOK
  <2>4. /\ \A q \in Reconcilers : q # r => reconciles'[q] = reconciles[q]
        /\ reconciles'[r].state \notin {"update", "won"}
    BY <1>3, NullRecords DEF Lookup, Gate, Goto, End, DelegationInv, DelegationTypeOK, ReconcileRecord
  <2> QED
    BY <2>1, <2>2, <2>3, <2>4, QuietStep
<1> QED
  BY <1>1, <1>2, <1>3 DEF ReconcileStep

\* A hub that goes down forgets its calls; the next begins with the active records.
LEMMA RestartStep ==
    ASSUME DelegationInv, NEW stored \in BOOLEAN, NEW lost \in SUBSET Agents, Restart(stored, lost)
    PROVE  DelegationInv' /\ records' = records
<1> USE DEF DelegationInv
<1>1. /\ DelegationTypeOK'
      /\ \A a \in Agents : results'[a] <= results[a] /\ unsaved'[a] = 0
      /\ history'.repeats = [a \in Agents |->
            IF sweep.current = a /\ sweep.status = "completed"
            THEN history.repeats[a] + 1 ELSE history.repeats[a]]
  BY TypeRestart
<1>2. /\ records' = records /\ hub' = "booting"
      /\ \A r \in Reconcilers : reconciles'[r].state = "idle"
      /\ sweep'.current = NoAgent /\ sweep'.left = {a \in Agents : Active(a)}
      /\ \A a \in Agents : creates'[a] = "none" => creates[a] = "none"
  BY NullRecords DEF Restart, NoSweep, durableVars, DelegationTypeOK
<1>3. SavedAreCounted'
  BY <1>1 DEF SavedAreCounted, DelegationTypeOK
<1>4. RecordsAreCreated' /\ ReadersAreBehind' /\ OneWinner'
  BY <1>2 DEF RecordsAreCreated, ReadersAreBehind, OneWinner, Won
<1>5. SweepIsAlone'
  BY <1>2 DEF SweepIsAlone, Active
<1>6. ResultsCounted'
  <2> SUFFICES ASSUME NEW a \in Agents
               PROVE  /\ results'[a] <= 1 + history'.repeats[a]
                      /\ records'[a].status \notin Settled /\ ~Injected(a)'
                            => results'[a] <= history'.repeats[a]
                      /\ \A r \in Reconcilers : Won(r, a)' => results'[a] <= history'.repeats[a]
    BY DEF ResultsCounted
  <2>1. /\ results[a] \in Nat /\ results'[a] \in Nat /\ history.repeats[a] \in Nat
        /\ history'.repeats[a] \in Nat /\ results'[a] <= results[a]
    BY <1>1 DEF DelegationTypeOK, HistoryRecord
  <2>2. history'.repeats[a] = IF Injected(a) THEN history.repeats[a] + 1 ELSE history.repeats[a]
    BY <1>1 DEF Injected
  <2>3. results'[a] <= 1 + history'.repeats[a]
    <3>1. results[a] <= 1 + history.repeats[a]
      BY DEF ResultsCounted
    <3> QED
      BY <2>1, <2>2, <3>1
  <2>4. records[a].status \notin Settled => results'[a] <= history'.repeats[a]
    <3>1. CASE Injected(a)
      <4>1. results[a] <= 1 + history.repeats[a]
        BY DEF ResultsCounted
      <4> QED
        BY <2>1, <2>2, <3>1, <4>1
    <3>2. CASE ~Injected(a)
      <4>1. records[a].status \notin Settled => results[a] <= history.repeats[a]
        BY <3>2 DEF ResultsCounted
      <4> QED
        BY <2>1, <2>2, <3>2, <4>1
    <3> QED
      BY <3>1, <3>2
  <2> QED
    BY <1>2, <2>3, <2>4 DEF Won
<1> QED
  BY <1>1, <1>2, <1>3, <1>4, <1>5, <1>6

\* The sweep: it injects for an active record it has not injected for, then settles it.
LEMMA BootSteps ==
    ASSUME DelegationInv, BootStep
    PROVE  /\ DelegationInv'
           /\ \A b \in Agents : records[b].status \in Settled => records'[b] = records[b]
<1> USE DEF DelegationInv
<1>1. DelegationTypeOK'
  BY TypeBoot
<1>2. CASE \E a \in Agents, old \in BOOLEAN : SweepRead(a, old)
  <2> PICK a \in Agents, old \in BOOLEAN : SweepRead(a, old)
    BY <1>2
  <2>1. /\ UNCHANGED <<records, hub, creates, reconciles, history>> /\ hub = "booting"
        /\ sweep.current = NoAgent /\ a \in sweep.left /\ Active(a)
        /\ sweep \in SweepRecord
    BY DEF SweepRead, sweepVars, SweepIsAlone, DelegationTypeOK
  <2>2. /\ sweep'.left = sweep.left \ {a}
        /\ \/ /\ sweep'.current = NoAgent /\ UNCHANGED <<results, unsaved>>
           \/ /\ sweep'.current = a /\ sweep'.status # "completed" /\ UNCHANGED <<results, unsaved>>
           \/ /\ sweep'.current = a /\ sweep'.status = "completed" /\ AppendResult(a)
    BY <2>1 DEF SweepRead, resultVars, SweepRecord
  <2>3. /\ \A b \in Agents : b # a => results'[b] = results[b] /\ unsaved'[b] = unsaved[b]
        /\ \/ results'[a] = results[a] /\ unsaved'[a] = unsaved[a]
           \/ /\ results'[a] = results[a] + 1 /\ unsaved'[a] = unsaved[a] + 1
              /\ sweep'.current = a /\ sweep'.status = "completed"
    BY <2>2 DEF AppendResult, DelegationTypeOK
  <2>4. \A b \in Agents : results[b] \in Nat /\ unsaved[b] \in Nat /\ history.repeats[b] \in Nat
    BY DEF DelegationTypeOK, HistoryRecord
  <2>5. SavedAreCounted'
    BY <2>3, <2>4 DEF SavedAreCounted
  <2>6. SweepIsAlone'
    BY <2>1, <2>2 DEF SweepIsAlone, Active
  <2>7. ResultsCounted'
    <3>1. \A b \in Agents : ~Injected(b)
      BY <2>1, DelegationConstants DEF Injected
    <3>2. results[a] <= history.repeats[a]
      BY <2>1, <3>1 DEF ResultsCounted, Active, Settled
    <3>3. results'[a] <= 1 + history.repeats[a]
      BY <2>3, <2>4, <3>2
    <3>4. \A b \in Agents, q \in Reconcilers : ~Won(q, b)'
      BY <2>1 DEF Won, SweepIsAlone
    <3>5. records[a].status \notin Settled /\ ~Injected(a)' => results'[a] <= history.repeats[a]
      BY <2>3, <3>2 DEF Injected
    <3>6. \A b \in Agents : b # a =>
             /\ results'[b] <= 1 + history.repeats[b]
             /\ records[b].status \notin Settled => results'[b] <= history.repeats[b]
      BY <2>3, <3>1 DEF ResultsCounted
    <3> QED
      BY <2>1, <3>3, <3>4, <3>5, <3>6 DEF ResultsCounted
  <2> QED
    BY <1>1, <2>1, <2>5, <2>6, <2>7 DEF RecordsAreCreated, ReadersAreBehind, OneWinner, Won
<1>3. CASE SweepUpdate
  <2> DEFINE a == sweep.current
  <2>1. /\ UNCHANGED <<results, unsaved, hub, creates, reconciles, history>> /\ hub = "booting"
        /\ a \in Agents /\ a # NoAgent /\ sweep.status \in Settled /\ Active(a) /\ a \notin sweep.left
        /\ \A r \in Reconcilers : reconciles[r].state = "idle"
    BY <1>3 DEF SweepUpdate, sweepVars, resultVars, SweepIsAlone, DelegationTypeOK, SweepRecord
  <2>2. /\ records'[a].status \in Settled /\ \A b \in Agents : b # a => records'[b] = records[b]
        /\ sweep'.current = NoAgent /\ sweep'.left = sweep.left
    BY <1>3, <2>1 DEF SweepUpdate, DelegationTypeOK, DelegationRecord, SweepRecord
  <2>3. SavedAreCounted' /\ RecordsAreCreated'
    BY <2>1, <2>2 DEF SavedAreCounted, RecordsAreCreated, Active
  <2>4. SweepIsAlone'
    BY <2>1, <2>2 DEF SweepIsAlone, Active, DelegationTypeOK, SweepRecord
  <2>5. ReadersAreBehind' /\ OneWinner'
    BY <2>1 DEF ReadersAreBehind, OneWinner, Won
  <2>6. ResultsCounted'
    BY <2>1, <2>2 DEF ResultsCounted, Injected, Won
  <2> QED
    BY <1>1, <2>1, <2>2, <2>3, <2>4, <2>5, <2>6 DEF Active, Settled
<1>4. CASE BootDone
  <2>1. /\ UNCHANGED <<records, results, unsaved, creates, reconciles, history>>
        /\ sweep.current = NoAgent /\ hub' = "up" /\ sweep'.current = NoAgent
    BY <1>4, NullRecords DEF BootDone, resultVars
  <2>2. \A b \in Agents : ~Injected(b) /\ ~Injected(b)'
    BY <2>1, DelegationConstants DEF Injected
  <2> QED
    BY <1>1, <2>1, <2>2 DEF SavedAreCounted, RecordsAreCreated, ReadersAreBehind, OneWinner,
       SweepIsAlone, ResultsCounted, Won
<1> QED
  BY <1>2, <1>3, <1>4 DEF BootStep

\* Every step keeps the invariant and what was settled.
LEMMA NextStep ==
    ASSUME DelegationInv, [DelegationNext]_delegationVars
    PROVE  /\ DelegationInv'
           /\ \A b \in Agents : records[b].status \in Settled => records'[b] = records[b]
<1>1. ASSUME NEW a \in Agents, NEW p \in Parents, NEW mode \in Modes, NEW resume \in Resumes,
             PutPrimary(a, p, mode, resume)
      PROVE  /\ DelegationInv'
             /\ \A b \in Agents : records[b].status \in Settled => records'[b] = records[b]
  BY <1>1, PutStep DEF Settled
<1>2. CASE \/ \E a \in Agents : PutSecondary(a) \/ StartTurn(a) \/ RunTurn(a)
           \/ \E c \in Chats : DeleteChat(c)
  BY <1>2, TypeCreates, TypeTurns, QuietStep DEF DelegationInv, PutSecondary, StartTurn, RunTurn, DeleteChat,
     resultVars, durableVars, DelegationTypeOK
<1>3. CASE HandleEvent
  <2>1. DelegationTypeOK'
    BY <1>3, TypeConsumer DEF DelegationInv
  <2>2. UNCHANGED <<records, results, unsaved, hub, sweep, creates, history>> /\ hub = "up"
    BY <1>3 DEF HandleEvent, resultVars
  <2>3. \A r \in Reconcilers : reconciles'[r].state \in {"update", "won"} => reconciles'[r] = reconciles[r]
    <3>1. \/ reconciles' = reconciles
          \/ \E a, verdict : Reconcile(a, verdict)
      BY <1>3 DEF HandleEvent, OnStateChange
    <3>2. ASSUME NEW a, NEW verdict, Reconcile(a, verdict)
          PROVE  \E q \in Reconcilers :
                    reconciles' = [reconciles EXCEPT ![q] = [state |-> "lookup", child |-> a,
                                      verdict |-> verdict, revision |-> 0]]
      BY <3>2 DEF Reconcile
    <3> QED
      BY <3>1, <3>2 DEF DelegationInv, DelegationTypeOK
  <2> QED
    BY <2>1, <2>2, <2>3, QuietStep
<1>4. ASSUME NEW r \in Reconcilers, ReconcileStep(r)
      PROVE  /\ DelegationInv'
             /\ \A b \in Agents : records[b].status \in Settled => records'[b] = records[b]
  BY <1>4, ReconcileSteps
<1>5. CASE \E stored \in BOOLEAN, lost \in SUBSET Agents : Restart(stored, lost)
  BY <1>5, RestartStep
<1>6. CASE BootStep
  BY <1>6, BootSteps
<1>7. CASE UNCHANGED delegationVars
  BY <1>7, QuietStep DEF delegationVars, durableVars, resultVars, runnerSideVars, consumerVars, DelegationInv,
     DelegationTypeOK
<1> QED
  BY <1>1, <1>2, <1>3, <1>4, <1>5, <1>6, <1>7 DEF DelegationNext

-----------------------------------------------------------------------------
(* What is told *)

\* What a sweep works on was cut off by the hub's going down.
SweptAreCut == sweep.left \subseteq history.cut /\ sweep.current \in history.cut \cup {NoAgent}

\* Until a delegation is settled its parent has no result, and after that one: once
\* the call that settled it has told it.
SettledOnceTold ==
    \A a \in Agents : a \notin history.cut =>
        /\ records[a].status \in {"none", "active"} => results[a] = 0
        /\ records[a].status \in {"completed", "failed"} =>
              /\ \A r \in Reconcilers : Won(r, a) => results[a] = 0
              /\ records[a].parent \in chats /\ (\A r \in Reconcilers : ~Won(r, a)) => results[a] = 1

ToldInv == SweptAreCut /\ SettledOnceTold

\* A chat that is no agent's is never made again.
ChatsGo == \A p \in Parents : p \in chats' => p \in chats

\* Steps after which the same calls have the same results to tell.
LEMMA ToldQuiet ==
    ASSUME DelegationInv, ToldInv, UNCHANGED <<records, results>>, history'.cut = history.cut, ChatsGo,
           sweep'.left \subseteq sweep.left, sweep'.current \in {sweep.current, NoAgent},
           \A a \in Agents, r \in Reconcilers : Won(r, a)' <=> Won(r, a)
    PROVE  ToldInv'
BY DEF ToldInv, SweptAreCut, ChatsGo, DelegationInv, DelegationTypeOK, DelegationRecord, SettledOnceTold

\* The steps of a reconciliation that neither settle nor tell.
LEMMA IdleReconciles ==
    ASSUME DelegationInv, NEW r \in Reconcilers,
           \/ Lookup(r) \/ ReadCurrent(r) \/ Gate(r)
           \/ CompareAndSet(r) /\ records[reconciles[r].child].revision # reconciles[r].revision
    PROVE  /\ UNCHANGED <<records, results, chats, sweep, hub, creates, indexed, blockingCount>>
           /\ history'.cut = history.cut
           /\ reconciles[r].state \in {"lookup", "read", "update", "gate"}
           /\ \A q \in Reconcilers : q # r => reconciles'[q] = reconciles[q]
           /\ \/ reconciles'[r] = Idle
              \/ /\ reconciles'[r].state \in {"read", "update"} /\ reconciles'[r].child = reconciles[r].child
                 /\ reconciles'[r].state = "read" => reconciles[r].child \in indexed
                 /\ reconciles'[r].state = "update" => reconciles[r].state = "read"
           /\ \A a \in Agents, q \in Reconcilers : Won(q, a)' <=> Won(q, a)
<1>t. reconciles \in [Reconcilers -> ReconcileRecord] /\ history \in HistoryRecord
  BY DEF DelegationInv, DelegationTypeOK
<1>1. /\ UNCHANGED <<records, results, chats, sweep, hub, creates, indexed, blockingCount>>
      /\ history'.cut = history.cut
      /\ reconciles[r].state \in {"lookup", "read", "update", "gate"}
  BY <1>t DEF Lookup, ReadCurrent, Gate, CompareAndSet, resultVars, reconcileVars, HistoryRecord
<1>2. \/ reconciles' = [reconciles EXCEPT ![r] = Idle]
      \/ reconciles' = [reconciles EXCEPT ![r].state = "read"] /\ reconciles[r].child \in indexed
      \/ /\ reconciles' = [reconciles EXCEPT ![r].state = "update",
                              ![r].revision = records[reconciles[r].child].revision]
         /\ reconciles[r].state = "read"
  BY DEF Lookup, ReadCurrent, Gate, CompareAndSet, Goto, End
<1>3. /\ \A q \in Reconcilers : q # r => reconciles'[q] = reconciles[q]
      /\ \/ reconciles'[r] = Idle
         \/ /\ reconciles'[r].state \in {"read", "update"} /\ reconciles'[r].child = reconciles[r].child
            /\ reconciles'[r].state = "read" => reconciles[r].child \in indexed
            /\ reconciles'[r].state = "update" => reconciles[r].state = "read"
  BY <1>2, <1>t DEF ReconcileRecord
<1>4. ~(reconciles'[r].state = "won")
  BY <1>3, NullRecords
<1>5. \A a \in Agents, q \in Reconcilers : Won(q, a)' <=> Won(q, a)
  BY <1>1, <1>3, <1>4 DEF Won
<1> QED BY <1>1, <1>3, <1>5

\* The steps of the consumer, the runner and the chats.
LEMMA OtherSteps ==
    ASSUME DelegationInv,
           \/ \E a \in Agents : PutSecondary(a) \/ StartTurn(a) \/ RunTurn(a)
           \/ \E c \in Chats : DeleteChat(c)
           \/ HandleEvent
           \/ UNCHANGED delegationVars
    PROVE  /\ UNCHANGED <<records, results, hub, sweep, history>> /\ ChatsGo
           /\ \A r \in Reconcilers : reconciles'[r].state # "lookup" => reconciles'[r] = reconciles[r]
           /\ \A r \in Reconcilers : reconciles[r].state # "idle" => reconciles'[r] = reconciles[r]
           /\ \A a \in Agents, q \in Reconcilers : Won(q, a)' <=> Won(q, a)
<1>1. UNCHANGED <<records, results, hub, sweep, history>> /\ ChatsGo
  BY DEF PutSecondary, StartTurn, RunTurn, DeleteChat, HandleEvent, delegationVars, resultVars, durableVars, ChatsGo
<1>2. /\ \A r \in Reconcilers : reconciles'[r].state # "lookup" => reconciles'[r] = reconciles[r]
      /\ \A r \in Reconcilers : reconciles[r].state # "idle" => reconciles'[r] = reconciles[r]
  <2>1. \/ reconciles' = reconciles
        \/ \E a, verdict : Reconcile(a, verdict)
    BY DEF PutSecondary, StartTurn, RunTurn, DeleteChat, HandleEvent, OnStateChange, delegationVars
  <2>2. ASSUME NEW a, NEW verdict, Reconcile(a, verdict)
        PROVE  \E q \in Reconcilers :
                  /\ reconciles[q].state = "idle"
                  /\ reconciles' = [reconciles EXCEPT ![q] = [state |-> "lookup", child |-> a,
                                    verdict |-> verdict, revision |-> 0]]
    BY <2>2 DEF Reconcile
  <2> QED BY <2>1, <2>2 DEF DelegationInv, DelegationTypeOK
<1>3. \A a \in Agents, q \in Reconcilers : Won(q, a)' <=> Won(q, a)
  BY <1>2 DEF Won
<1> QED BY <1>1, <1>2, <1>3

\* A restart cuts off all that is unfinished, and loses no result but of those.
LEMMA RestartCuts ==
    ASSUME DelegationInv, NEW stored \in BOOLEAN, NEW lost \in SUBSET Agents, Restart(stored, lost)
    PROVE  /\ records' = records /\ chats' = chats /\ indexed' = indexed /\ hub' = "booting"
           /\ \A r \in Reconcilers : reconciles'[r] = Idle
           /\ sweep'.current = NoAgent /\ sweep'.left = {a \in Agents : Active(a)}
           /\ sweep'.tracked = {a \in Agents : Active(a)}
           /\ history'.cut = history.cut \cup {a \in Agents : Unfinished(a)}
           /\ history'.resumed = history.resumed
           /\ \A a \in Agents : ~Unfinished(a) => results'[a] = results[a]
           /\ \A a \in Agents : creates'[a] = IF creates[a] = "put" THEN "done" ELSE creates[a]
<1>t. history \in HistoryRecord /\ NoSweep \in SweepRecord
  BY NullRecords DEF DelegationInv, DelegationTypeOK
<1>1. /\ records' = records /\ chats' = chats /\ indexed' = indexed /\ hub' = "booting"
      /\ \A r \in Reconcilers : reconciles'[r] = Idle
      /\ \A a \in Agents : creates'[a] = IF creates[a] = "put" THEN "done" ELSE creates[a]
  BY DEF Restart, durableVars
<1>2. /\ sweep'.current = NoAgent /\ sweep'.left = {a \in Agents : Active(a)}
      /\ sweep'.tracked = {a \in Agents : Active(a)}
  BY <1>t DEF Restart, NoSweep, SweepRecord
<1>3. history'.cut = history.cut \cup {a \in Agents : Unfinished(a)} /\ history'.resumed = history.resumed
  BY <1>t DEF Restart, HistoryRecord
<1>4. \A a \in Agents : ~Unfinished(a) => results'[a] = results[a]
  BY DEF Restart, Unfinished
<1> QED BY <1>1, <1>2, <1>3, <1>4

\* A sweep reads and settles the records that were cut off.
LEMMA SweepTouches ==
    ASSUME DelegationInv, SweptAreCut, SweepUpdate \/ \E a \in Agents, old \in BOOLEAN : SweepRead(a, old)
    PROVE  /\ UNCHANGED <<chats, creates, indexed, hub, reconciles, history>> /\ hub = "booting"
           /\ \A b \in Agents : b \notin history.cut => records'[b] = records[b] /\ results'[b] = results[b]
           /\ \A b \in Agents : records'[b].parent = records[b].parent /\ records'[b].mode = records[b].mode
           /\ \A b \in Agents : Active(b)' => Active(b)
           /\ \A b \in Agents : records'[b].status = "none" <=> records[b].status = "none"
           /\ SweptAreCut'
<1>t. records \in [Agents -> DelegationRecord] /\ sweep \in SweepRecord /\ results \in [Agents -> Nat]
  BY DEF DelegationInv, DelegationTypeOK
<1>1. CASE SweepUpdate
  <2>1. /\ UNCHANGED <<chats, creates, indexed, hub, reconciles, history, results>> /\ hub = "booting"
        /\ sweep.current # NoAgent /\ sweep' = [sweep EXCEPT !.current = NoAgent]
        /\ records' = [records EXCEPT ![sweep.current].status = sweep.status, ![sweep.current].revision = @ + 1]
    BY <1>1 DEF SweepUpdate, sweepVars, resultVars
  <2>2. Active(sweep.current) /\ sweep.current \in Agents /\ sweep.current \in history.cut /\ sweep.status \in Settled
    BY <2>1, <1>t DEF DelegationInv, SweepIsAlone, SweptAreCut, SweepRecord
  <2>3. /\ \A b \in Agents : b # sweep.current => records'[b] = records[b]
        /\ \A b \in Agents : records'[b].parent = records[b].parent /\ records'[b].mode = records[b].mode
        /\ records'[sweep.current].status \in Settled
    BY <2>1, <2>2, <1>t DEF DelegationRecord
  <2>4. SweptAreCut'
    BY <2>1, <1>t DEF SweptAreCut, SweepRecord
  <2>5. \A b \in Agents : Active(b)' => Active(b)
    BY <2>2, <2>3 DEF Active
  <2>6. \A b \in Agents : records'[b].status = "none" <=> records[b].status = "none"
    BY <2>2, <2>3 DEF Active, Settled
  <2> QED BY <2>1, <2>2, <2>3, <2>4, <2>5, <2>6
<1>2. ASSUME NEW a \in Agents, NEW old \in BOOLEAN, SweepRead(a, old)
      PROVE  /\ UNCHANGED <<chats, creates, indexed, hub, reconciles, history>> /\ hub = "booting"
             /\ \A b \in Agents : b \notin history.cut => records'[b] = records[b] /\ results'[b] = results[b]
             /\ records' = records
             /\ SweptAreCut'
  <2>1. /\ UNCHANGED <<chats, creates, indexed, hub, reconciles, history, records>> /\ hub = "booting"
        /\ a \in sweep.left
    BY <1>2 DEF SweepRead, sweepVars
  <2>2. results' = results \/ AppendResult(a)
    BY <1>2 DEF SweepRead, resultVars
  <2>3. a \in history.cut
    BY <2>1 DEF SweptAreCut
  <2>4. \A b \in Agents : b # a => results'[b] = results[b]
    BY <2>2, <1>t DEF AppendResult
  <2>5. sweep'.left \subseteq sweep.left /\ sweep'.current \in {sweep.current, a}
    BY <1>2, <1>t DEF SweepRead, SweepRecord
  <2> QED BY <2>1, <2>3, <2>4, <2>5 DEF SweptAreCut
<1> QED BY <1>1, <1>2 DEF Active

\* Nothing is told, and nothing to tell, of an agent that has no record.
LEMMA ToldPut ==
    ASSUME DelegationInv, ToldInv, NEW a \in Agents, NEW p \in Parents, NEW mode \in Modes,
           NEW resume \in Resumes, PutPrimary(a, p, mode, resume)
    PROVE  ToldInv'
<1>1. /\ records[a].status = "none" /\ records'[a].status = "active"
      /\ \A b \in Agents : b # a => records'[b] = records[b]
      /\ UNCHANGED <<results, history, reconciles, sweep>> /\ chats' = chats \cup {a}
  BY PutStep DEF PutPrimary, resultVars, DelegationInv, DelegationTypeOK
<1>2. \A b \in Agents : b # a /\ records'[b].parent \in chats' => records[b].parent \in chats
  BY <1>1, DelegationConstants DEF DelegationInv, DelegationTypeOK, DelegationRecord
<1>3. \A b \in Agents, r \in Reconcilers : Won(r, b)' <=> Won(r, b)
  BY <1>1 DEF Won
<1>4. SettledOnceTold'
  <2> SUFFICES ASSUME NEW b \in Agents, b \notin history.cut
               PROVE  /\ records'[b].status \in {"none", "active"} => results[b] = 0
                      /\ records'[b].status \in {"completed", "failed"} =>
                            /\ \A r \in Reconcilers : Won(r, b) => results[b] = 0
                            /\ records'[b].parent \in chats' /\ (\A r \in Reconcilers : ~Won(r, b))
                                  => results[b] = 1
    BY <1>1, <1>3 DEF SettledOnceTold
  <2>1. CASE b = a
    BY <1>1, <2>1 DEF ToldInv, SettledOnceTold
  <2>2. CASE b # a
    BY <1>1, <1>2, <2>2 DEF ToldInv, SettledOnceTold
  <2> QED BY <2>1, <2>2
<1> QED BY <1>1, <1>4 DEF ToldInv, SweptAreCut

\* What a compare-and-set that goes through does.
LEMMA SetWins ==
    ASSUME DelegationInv, NEW r \in Reconcilers, CompareAndSet(r),
           records[reconciles[r].child].revision = reconciles[r].revision
    PROVE  LET a == reconciles[r].child IN
           /\ a \in Agents /\ hub = "up" /\ reconciles[r].state = "update"
           /\ UNCHANGED <<results, chats, sweep, hub, creates, indexed, blockingCount, history>>
           /\ Active(a) /\ records'[a].status \in {"completed", "failed"}
           /\ \A b \in Agents : b # a => records'[b] = records[b]
           /\ \A b \in Agents : records'[b].parent = records[b].parent /\ records'[b].mode = records[b].mode
                                /\ records'[b].resume = records[b].resume
           /\ reconciles'[r].state = "won" /\ reconciles'[r].child = a
           /\ \A q \in Reconcilers : q # r => reconciles'[q] = reconciles[q]
           /\ \A q \in Reconcilers : ~Won(q, a)
           /\ \A b \in Agents, q \in Reconcilers : Won(q, b)' <=> (q = r /\ b = a) \/ Won(q, b)
<1> DEFINE a == reconciles[r].child
<1>t. /\ records \in [Agents -> DelegationRecord] /\ reconciles \in [Reconcilers -> ReconcileRecord]
      /\ reconciles[r] \in ReconcileRecord /\ a \in Agents
  BY DEF DelegationInv, DelegationTypeOK, ReconcileRecord
<1>1. /\ reconciles[r].state = "update"
      /\ UNCHANGED <<results, chats, sweep, hub, creates, indexed, blockingCount, history>>
      /\ records' = [records EXCEPT ![a].status = VerdictStatus(reconciles[r].verdict), ![a].revision = @ + 1]
      /\ reconciles' = [reconciles EXCEPT ![r].state = "won"]
  BY DEF CompareAndSet, reconcileVars, resultVars, Goto
<1>2. hub = "up" /\ Active(a)
  BY <1>1 DEF DelegationInv, SweepIsAlone, ReadersAreBehind, Active, DelegationTypeOK
<1>3. VerdictStatus(reconciles[r].verdict) \in {"completed", "failed"}
  BY DEF VerdictStatus
<1>4. /\ records'[a].status \in {"completed", "failed"}
      /\ \A b \in Agents : b # a => records'[b] = records[b]
      /\ \A b \in Agents : records'[b].parent = records[b].parent /\ records'[b].mode = records[b].mode
                           /\ records'[b].resume = records[b].resume
  <2> HIDE DEF a
  <2> QED BY <1>1, <1>3, <1>t DEF DelegationRecord
<1>5. /\ reconciles'[r].state = "won" /\ reconciles'[r].child = a
      /\ \A q \in Reconcilers : q # r => reconciles'[q] = reconciles[q]
  BY <1>1, <1>t DEF ReconcileRecord
<1>6. \A q \in Reconcilers : ~Won(q, a)
  BY <1>2, <1>t DEF DelegationInv, OneWinner, Settled, Active
<1>7. \A b \in Agents, q \in Reconcilers : Won(q, b)' <=> (q = r /\ b = a) \/ Won(q, b)
  BY <1>1, <1>5 DEF Won
<1> QED BY <1>1, <1>2, <1>4, <1>5, <1>6, <1>7, <1>t

\* What the winner does.
LEMMA WinnerTells ==
    ASSUME DelegationInv, NEW r \in Reconcilers, Inject(r)
    PROVE  LET a == reconciles[r].child IN
           /\ a \in Agents /\ hub = "up" /\ Won(r, a) /\ history'.cut = history.cut
           /\ UNCHANGED <<records, chats, sweep, hub, creates, indexed>>
           /\ \A b \in Agents : b # a => results'[b] = results[b]
           /\ records[a].parent \in chats => results'[a] = results[a] + 1
           /\ records[a].status \in Settled
           /\ \A q \in Reconcilers : q # r => reconciles'[q] = reconciles[q]
           /\ reconciles'[r].state \in {"idle", "gate"}
           /\ reconciles'[r].state = "gate" => reconciles'[r].child = a
           /\ records[a].parent \in chats /\ records[a].mode = "blocking" =>
                 a \in history'.resumed \/ reconciles'[r].state = "gate"
           /\ history.resumed \subseteq history'.resumed
           /\ \A b \in Agents, q \in Reconcilers : Won(q, b)' <=> Won(q, b) /\ b # a
<1> DEFINE a == reconciles[r].child
<1>t. /\ records \in [Agents -> DelegationRecord] /\ reconciles \in [Reconcilers -> ReconcileRecord]
      /\ reconciles[r] \in ReconcileRecord /\ a \in Agents /\ history \in HistoryRecord
      /\ results \in [Agents -> Nat] /\ records[a] \in DelegationRecord
  BY DEF DelegationInv, DelegationTypeOK, ReconcileRecord
<1>1. reconciles[r].state = "won" /\ UNCHANGED <<records, chats, sweep, hub, creates, indexed>>
  BY DEF Inject, reconcileVars
<1>2. hub = "up" /\ Won(r, a) /\ records[a].status \in Settled /\ \A q \in Reconcilers : Won(q, a) => q = r
  BY <1>1, <1>t DEF DelegationInv, SweepIsAlone, OneWinner, Won, DelegationTypeOK
<1>3. /\ \A b \in Agents : b # a => results'[b] = results[b]
      /\ records[a].parent \in chats => results'[a] = results[a] + 1
  BY <1>t DEF Inject, AppendResult, resultVars
<1>4. /\ history'.cut = history.cut /\ history.resumed \subseteq history'.resumed
      /\ records[a].parent \in chats /\ records[a].mode = "blocking" /\ records[a].resume = "immediate"
            => a \in history'.resumed
  BY <1>t DEF Inject, HistoryRecord
<1>5. \/ reconciles' = [reconciles EXCEPT ![r].state = "gate"]
      \/ /\ reconciles' = [reconciles EXCEPT ![r] = Idle]
         /\ ~(records[a].parent \in chats /\ records[a].mode = "blocking" /\ records[a].resume = "gate")
  BY DEF Inject, Goto, End
<1>6. /\ \A q \in Reconcilers : q # r => reconciles'[q] = reconciles[q]
      /\ reconciles'[r].state \in {"idle", "gate"}
      /\ reconciles'[r].state = "gate" => reconciles'[r].child = a
      /\ \/ reconciles'[r].state = "gate"
         \/ ~(records[a].parent \in chats /\ records[a].mode = "blocking" /\ records[a].resume = "gate")
  <2> HIDE DEF a
  <2>1. \A q \in Reconcilers : q # r => reconciles'[q] = reconciles[q]
    BY <1>5, <1>t
  <2>2. CASE reconciles' = [reconciles EXCEPT ![r].state = "gate"]
    BY <2>1, <2>2, <1>t DEF ReconcileRecord, a
  <2>3. CASE reconciles'[r] = Idle /\ ~(records[a].parent \in chats /\ records[a].mode = "blocking" /\ records[a].resume = "gate")
    BY <2>1, <2>3, NullRecords
  <2> QED BY <1>5, <1>t, <2>2, <2>3
<1>7. records[a].parent \in chats /\ records[a].mode = "blocking" =>
         a \in history'.resumed \/ reconciles'[r].state = "gate"
  BY <1>4, <1>6, <1>t DEF DelegationRecord, Resumes
<1>8. \A b \in Agents, q \in Reconcilers : Won(q, b)' <=> Won(q, b) /\ b # a
  BY <1>2, <1>6 DEF Won
<1> QED BY <1>1, <1>2, <1>3, <1>4, <1>6, <1>7, <1>8, <1>t

\* Each step of a reconciliation keeps what is told.
LEMMA ToldReconcile ==
    ASSUME DelegationInv, ToldInv, NEW r \in Reconcilers, ReconcileStep(r)
    PROVE  ToldInv'
<1> DEFINE a == reconciles[r].child
<1>1. CASE \/ Lookup(r) \/ ReadCurrent(r) \/ Gate(r)
           \/ CompareAndSet(r) /\ records[a].revision # reconciles[r].revision
  BY <1>1, IdleReconciles, ToldQuiet DEF ChatsGo
<1>2. CASE CompareAndSet(r) /\ records[a].revision = reconciles[r].revision
  <2>1. /\ a \in Agents /\ UNCHANGED <<results, chats, sweep, history>>
        /\ Active(a) /\ \A b \in Agents : b # a => records'[b] = records[b]
        /\ \A b \in Agents, q \in Reconcilers : Won(q, b)' <=> (q = r /\ b = a) \/ Won(q, b)
        /\ records'[a].status \in {"completed", "failed"}
    BY <1>2, SetWins
  <2> HIDE DEF a
  <2>2. a \notin history.cut => results[a] = 0
    BY <2>1 DEF ToldInv, SettledOnceTold, Active
  <2>3. SettledOnceTold'
    <3> SUFFICES ASSUME NEW b \in Agents, b \notin history.cut
                 PROVE  /\ records'[b].status \in {"none", "active"} => results[b] = 0
                        /\ records'[b].status \in {"completed", "failed"} =>
                              /\ \A q \in Reconcilers : Won(q, b)' => results[b] = 0
                              /\ records'[b].parent \in chats /\ (\A q \in Reconcilers : ~Won(q, b)')
                                    => results[b] = 1
      BY <2>1 DEF SettledOnceTold
    <3>1. CASE b = a
      BY <2>1, <2>2, <3>1
    <3>2. CASE b # a
      BY <2>1, <3>2 DEF ToldInv, SettledOnceTold
    <3> QED BY <3>1, <3>2
  <2> QED BY <2>1, <2>3 DEF ToldInv, SweptAreCut
<1>3. CASE Inject(r)
  <2>1. /\ a \in Agents /\ Won(r, a) /\ history'.cut = history.cut /\ UNCHANGED <<records, chats, sweep>>
        /\ \A b \in Agents : b # a => results'[b] = results[b]
        /\ records[a].parent \in chats => results'[a] = results[a] + 1
        /\ records[a].status \in Settled
        /\ \A b \in Agents, q \in Reconcilers : Won(q, b)' <=> Won(q, b) /\ b # a
    BY <1>3, WinnerTells
  <2> HIDE DEF a
  <2>2. a \notin history.cut /\ records[a].status \in {"completed", "failed"} => results[a] = 0
    BY <2>1 DEF ToldInv, SettledOnceTold
  <2>3. SettledOnceTold'
    <3> SUFFICES ASSUME NEW b \in Agents, b \notin history.cut
                 PROVE  /\ records[b].status \in {"none", "active"} => results'[b] = 0
                        /\ records[b].status \in {"completed", "failed"} =>
                              /\ \A q \in Reconcilers : Won(q, b)' => results'[b] = 0
                              /\ records[b].parent \in chats /\ (\A q \in Reconcilers : ~Won(q, b)')
                                    => results'[b] = 1
      BY <2>1 DEF SettledOnceTold
    <3>1. CASE b = a
      <4>1. records[b].status \notin {"none", "active"}
        BY <2>1, <3>1 DEF Settled
      <4>2. \A q \in Reconcilers : ~Won(q, b)'
        BY <2>1, <3>1
      <4> QED BY <2>1, <2>2, <3>1, <4>1, <4>2
    <3>2. CASE b # a
      BY <2>1, <3>2 DEF ToldInv, SettledOnceTold
    <3> QED BY <3>1, <3>2
  <2> QED BY <2>1, <2>3 DEF ToldInv, SweptAreCut
<1> QED BY <1>1, <1>2, <1>3 DEF ReconcileStep

\* A hub that goes down has told of all that it settled and finished.
LEMMA ToldRestart ==
    ASSUME DelegationInv, ToldInv, NEW stored \in BOOLEAN, NEW lost \in SUBSET Agents, Restart(stored, lost)
    PROVE  ToldInv'
<1>1. /\ records' = records /\ chats' = chats
      /\ \A r \in Reconcilers : reconciles'[r] = Idle
      /\ sweep'.current = NoAgent /\ sweep'.left = {a \in Agents : Active(a)}
      /\ history'.cut = history.cut \cup {a \in Agents : Unfinished(a)}
      /\ \A a \in Agents : ~Unfinished(a) => results'[a] = results[a]
  BY RestartCuts
<1>2. SweptAreCut'
  BY <1>1 DEF SweptAreCut, Unfinished
<1>3. SettledOnceTold'
  <2> SUFFICES ASSUME NEW a \in Agents, a \notin history'.cut
               PROVE  /\ records[a].status \in {"none", "active"} => results'[a] = 0
                      /\ records[a].status \in {"completed", "failed"} =>
                            /\ \A r \in Reconcilers : Won(r, a)' => results'[a] = 0
                            /\ records[a].parent \in chats => results'[a] = 1
    BY <1>1 DEF SettledOnceTold
  <2>1. a \notin history.cut /\ ~Unfinished(a) /\ results'[a] = results[a]
    BY <1>1
  <2>2. \A r \in Reconcilers : ~Won(r, a)
    BY <2>1 DEF Unfinished, InFlight, Won
  <2>3. \A r \in Reconcilers : ~Won(r, a)'
    BY <1>1, NullRecords DEF Won
  <2> QED BY <2>1, <2>2, <2>3 DEF ToldInv, SettledOnceTold
<1> QED BY <1>2, <1>3 DEF ToldInv

\* The sweep concerns what was cut off.
LEMMA ToldBoot ==
    ASSUME DelegationInv, ToldInv, BootStep
    PROVE  ToldInv'
<1>1. CASE BootDone
  <2>1. /\ UNCHANGED <<records, results, chats, reconciles, history>> /\ sweep' = NoSweep
    BY <1>1 DEF BootDone, resultVars
  <2>2. \A b \in Agents, q \in Reconcilers : Won(q, b)' <=> Won(q, b)
    BY <2>1 DEF Won
  <2> QED BY <2>1, <2>2, ToldQuiet, NullRecords DEF ChatsGo
<1>2. CASE SweepUpdate \/ \E a \in Agents, old \in BOOLEAN : SweepRead(a, old)
  <2>1. /\ UNCHANGED <<chats, reconciles, history>> /\ SweptAreCut'
        /\ \A b \in Agents : b \notin history.cut => records'[b] = records[b] /\ results'[b] = results[b]
    BY <1>2, SweepTouches DEF ToldInv
  <2>2. \A b \in Agents, q \in Reconcilers : Won(q, b)' <=> Won(q, b)
    BY <2>1 DEF Won
  <2>3. SettledOnceTold'
    BY <2>1, <2>2 DEF ToldInv, SettledOnceTold
  <2> QED BY <2>1, <2>3 DEF ToldInv
<1> QED BY <1>1, <1>2 DEF BootStep

\* Each step keeps what is told.
LEMMA ToldStep ==
    ASSUME DelegationInv, ToldInv, [DelegationNext]_delegationVars
    PROVE  ToldInv'
<1>1. ASSUME NEW a \in Agents, NEW p \in Parents, NEW mode \in Modes, NEW resume \in Resumes,
             PutPrimary(a, p, mode, resume)
      PROVE  ToldInv'
  BY <1>1, ToldPut
<1>2. ASSUME \/ \E a \in Agents : PutSecondary(a) \/ StartTurn(a) \/ RunTurn(a)
             \/ \E c \in Chats : DeleteChat(c)
             \/ HandleEvent
             \/ UNCHANGED delegationVars
      PROVE  ToldInv'
  <2>1. /\ UNCHANGED <<records, results, hub, sweep, history>> /\ ChatsGo
        /\ \A a \in Agents, q \in Reconcilers : Won(q, a)' <=> Won(q, a)
    BY <1>2, OtherSteps
  <2> QED BY <2>1, ToldQuiet
<1> QED BY <1>1, <1>2, ToldReconcile, ToldRestart, ToldBoot DEF DelegationNext

\* Before anything is created nothing is told.
LEMMA ToldInit == DelegationInit => ToldInv
BY NullRecords DEF DelegationInit, ToldInv, SweptAreCut, SettledOnceTold

-----------------------------------------------------------------------------
(* What is counted *)

\* A delegation is counted from its second put to the injection of its result.
Counts(a, p) ==
    /\ records[a].parent = p /\ records[a].mode = "blocking"
    /\ (Active(a) /\ creates[a] # "put") \/ \E r \in Reconcilers : Won(r, a)

Counted(p) == {a \in Agents : Counts(a, p)}

\* Only what was created to the end is found by a call, or counted by a boot.
CreatedFirst ==
    /\ hub = "booting" => \A a \in Agents : creates[a] # "put"
    /\ \A a \in indexed \cup sweep.tracked : creates[a] = "done"
    /\ \A r \in Reconcilers : reconciles[r].state \in {"read", "update", "won"}
                                => creates[reconciles[r].child] = "done"
    /\ \A a \in Agents : creates[a] = "put" => Active(a)

CountInv == CreatedFirst /\ (hub = "up" => \A p \in Parents : blockingCount[p] = Cardinality(Counted(p)))

\* A delegation being created is counted when it is done.
LEMMA CountPuts ==
    ASSUME DelegationInv, CountInv, NEW a \in Agents, PutSecondary(a)
    PROVE  CountInv'
<1>t. /\ records \in [Agents -> DelegationRecord] /\ blockingCount \in [Parents -> Nat]
      /\ records[a] \in DelegationRecord /\ records[a].parent \in Parents /\ creates \in [Agents -> CreateStates]
  BY DEF DelegationInv, DelegationTypeOK, DelegationRecord
<1>1. /\ UNCHANGED <<records, hub, sweep, reconciles>> /\ hub = "up" /\ creates[a] = "put"
      /\ indexed' = indexed \cup {a} /\ creates'[a] = "done"
      /\ \A b \in Agents : b # a => creates'[b] = creates[b]
  BY <1>t DEF PutSecondary
<1>2. \A r \in Reconcilers, b \in Agents : Won(r, b)' <=> Won(r, b)
  BY <1>1 DEF Won
<1>3. Active(a) /\ \A r \in Reconcilers : ~Won(r, a)
  BY <1>1 DEF CountInv, CreatedFirst, DelegationInv, OneWinner, Active, Settled
<1>4. CreatedFirst'
  BY <1>1 DEF CountInv, CreatedFirst, DelegationInv, DelegationTypeOK, SweepRecord, ReconcileRecord, Active
<1>5. \A p \in Parents : Counted(p)' = IF records[a].parent = p /\ records[a].mode = "blocking"
                                       THEN Counted(p) \cup {a} ELSE Counted(p)
  BY <1>1, <1>2, <1>3 DEF Counted, Counts, Active
<1>6. \A p \in Parents : a \notin Counted(p) /\ IsFiniteSet(Counted(p))
  BY <1>1, <1>3, FS_Subset, DelegationConstants DEF Counted, Counts
<1>7. \A p \in Parents : blockingCount[p] = Cardinality(Counted(p))
  BY <1>1 DEF CountInv
<1>8. ASSUME NEW p \in Parents PROVE blockingCount'[p] = Cardinality(Counted(p)')
  <2>1. CASE records[a].parent = p /\ records[a].mode = "blocking"
    BY <1>t, <2>1, <1>6, FS_AddElement, <1>5, <1>7 DEF PutSecondary
  <2>2. CASE ~(records[a].parent = p /\ records[a].mode = "blocking")
    BY <1>t, <2>2, <1>5, <1>7 DEF PutSecondary
  <2> QED BY <2>1, <2>2
<1> QED BY <1>4, <1>8 DEF CountInv

\* Steps that leave what is counted alone.
LEMMA CountQuiet ==
    ASSUME CountInv, CreatedFirst', hub = "up" /\ hub' = "up", blockingCount' = blockingCount,
           \A a \in Agents, p \in Parents : Counts(a, p)' <=> Counts(a, p)
    PROVE  CountInv'
BY DEF Counted, CountInv

\* The first put leaves the count alone: the second will raise it.
LEMMA CountPrimary ==
    ASSUME DelegationInv, CountInv, NEW a \in Agents, NEW p \in Parents, NEW mode \in Modes,
           NEW resume \in Resumes, PutPrimary(a, p, mode, resume)
    PROVE  CountInv'
<1>1. /\ records[a].status = "none" /\ records'[a].status = "active"
      /\ \A b \in Agents : b # a => records'[b] = records[b]
      /\ UNCHANGED <<reconciles, sweep, hub, indexed, blockingCount>> /\ hub = "up"
      /\ creates[a] = "none" /\ creates'[a] = "put" /\ \A b \in Agents : b # a => creates'[b] = creates[b]
  BY PutStep DEF PutPrimary, DelegationInv, DelegationTypeOK
<1>2. \A b \in Agents, r \in Reconcilers : Won(r, b)' <=> Won(r, b)
  BY <1>1 DEF Won
<1>3. \A r \in Reconcilers : ~Won(r, a)
  BY <1>1 DEF DelegationInv, OneWinner, Settled
<1>4. \A b \in Agents, q \in Parents : Counts(b, q)' <=> Counts(b, q)
  BY <1>1, <1>2, <1>3 DEF Counts, Active
<1>5. CreatedFirst'
  <2>1. \A b \in indexed' \cup sweep'.tracked : creates'[b] = "done"
    BY <1>1 DEF CountInv, CreatedFirst, DelegationInv, DelegationTypeOK, SweepRecord
  <2>2. \A r \in Reconcilers : reconciles'[r].state \in {"read", "update", "won"}
                                => creates'[reconciles'[r].child] = "done"
    BY <1>1 DEF CountInv, CreatedFirst, DelegationInv, DelegationTypeOK, ReconcileRecord
  <2>3. \A b \in Agents : creates'[b] = "put" => Active(b)'
    BY <1>1 DEF CountInv, CreatedFirst, Active
  <2> QED BY <1>1, <2>1, <2>2, <2>3 DEF CreatedFirst
<1> QED BY <1>1, <1>4, <1>5, CountQuiet

\* What is settled is counted until it is told.
LEMMA CountReconciles ==
    ASSUME DelegationInv, CountInv, NEW r \in Reconcilers, ReconcileStep(r)
    PROVE  CountInv'
<1>r. reconciles[r].child \in Agents
  BY DEF DelegationInv, DelegationTypeOK, ReconcileRecord
<1> PICK a \in Agents : a = reconciles[r].child
  BY <1>r
<1>t. /\ a \in Agents /\ records[a] \in DelegationRecord /\ records[a].parent \in Parents
      /\ reconciles \in [Reconcilers -> ReconcileRecord] /\ blockingCount \in [Parents -> Nat]
  BY DEF DelegationInv, DelegationTypeOK, ReconcileRecord, DelegationRecord
<1>0. hub = "up"
  BY DEF DelegationInv, SweepIsAlone, DelegationTypeOK, ReconcileStep, Lookup, ReadCurrent, CompareAndSet,
     Inject, Gate
<1>1. CASE \/ Lookup(r) \/ ReadCurrent(r) \/ Gate(r)
           \/ CompareAndSet(r) /\ records[a].revision # reconciles[r].revision
  <2>1. /\ UNCHANGED <<records, sweep, hub, creates, indexed, blockingCount>>
        /\ \A q \in Reconcilers : q # r => reconciles'[q] = reconciles[q]
        /\ \/ reconciles'[r] = Idle
           \/ /\ reconciles'[r].state \in {"read", "update"} /\ reconciles'[r].child = a
              /\ reconciles'[r].state = "read" => a \in indexed
              /\ reconciles'[r].state = "update" => reconciles[r].state = "read"
        /\ \A b \in Agents, q \in Reconcilers : Won(q, b)' <=> Won(q, b)
    BY <1>1, IdleReconciles
  <2>2. \A b \in Agents, p \in Parents : Counts(b, p)' <=> Counts(b, p)
    BY <2>1 DEF Counts, Active
  <2>3. \A q \in Reconcilers : reconciles'[q].state \in {"read", "update", "won"}
                                => creates[reconciles'[q].child] = "done"
    <3>1. CASE reconciles'[r] = Idle
      BY <2>1, <3>1, NullRecords DEF CountInv, CreatedFirst
    <3>2. CASE reconciles'[r] # Idle
      BY <2>1, <3>2 DEF CountInv, CreatedFirst
    <3> QED BY <3>1, <3>2
  <2>4. CreatedFirst'
    BY <2>1, <2>3 DEF CreatedFirst, CountInv, Active
  <2> QED BY <1>0, <2>1, <2>2, <2>4, CountQuiet
<1>2. CASE CompareAndSet(r) /\ records[a].revision = reconciles[r].revision
  <2>1. /\ UNCHANGED <<sweep, hub, creates, indexed, blockingCount>> /\ reconciles[r].state = "update"
        /\ Active(a) /\ records'[a].status \in {"completed", "failed"}
        /\ \A b \in Agents : b # a => records'[b] = records[b]
        /\ \A b \in Agents : records'[b].parent = records[b].parent /\ records'[b].mode = records[b].mode
        /\ reconciles'[r].state = "won" /\ reconciles'[r].child = a
        /\ \A q \in Reconcilers : q # r => reconciles'[q] = reconciles[q]
        /\ \A q \in Reconcilers : ~Won(q, a)
        /\ \A b \in Agents, q \in Reconcilers : Won(q, b)' <=> (q = r /\ b = a) \/ Won(q, b)
    BY <1>2, SetWins
  <2>2. creates[a] = "done"
    BY <2>1 DEF CountInv, CreatedFirst
  <2>3. \A b \in Agents, p \in Parents : Counts(b, p)' <=> Counts(b, p)
    <3> SUFFICES ASSUME NEW b \in Agents, NEW p \in Parents PROVE Counts(b, p)' <=> Counts(b, p)
      OBVIOUS
    <3>1. CASE b = a
      BY <1>t, <2>1, <2>2, <3>1 DEF Counts
    <3>2. CASE b # a
      BY <2>1, <3>2 DEF Counts, Active
    <3> QED BY <3>1, <3>2
  <2>4. CreatedFirst'
    <3>1. \A q \in Reconcilers : reconciles'[q].state \in {"read", "update", "won"}
                                   => creates[reconciles'[q].child] = "done"
      BY <2>1, <2>2 DEF CountInv, CreatedFirst
    <3>2. \A b \in Agents : creates[b] = "put" => Active(b)'
      BY <2>1, <2>2 DEF CountInv, CreatedFirst, Active
    <3> QED BY <2>1, <3>1, <3>2 DEF CreatedFirst, CountInv
  <2> QED BY <1>0, <2>1, <2>3, <2>4, CountQuiet
<1>3. CASE Inject(r)
  <2>1. /\ Won(r, a) /\ UNCHANGED <<records, sweep, hub, creates, indexed>>
        /\ records[a].status \in Settled
        /\ \A q \in Reconcilers : q # r => reconciles'[q] = reconciles[q]
        /\ reconciles'[r].state \in {"idle", "gate"}
        /\ \A b \in Agents, q \in Reconcilers : Won(q, b)' <=> Won(q, b) /\ b # a
    BY <1>3, WinnerTells
  <2>2. blockingCount' = IF records[a].mode = "blocking"
                         THEN [blockingCount EXCEPT ![records[a].parent] = CountDown(@)]
                         ELSE blockingCount
    BY <1>3 DEF Inject
  <2>3. CreatedFirst'
    BY <2>1 DEF CountInv, CreatedFirst, Active
  <2>4. \A p \in Parents : Counted(p)' = IF records[a].parent = p /\ records[a].mode = "blocking"
                                         THEN Counted(p) \ {a} ELSE Counted(p)
    BY <1>t, <2>1 DEF Active, Settled, Counts, Counted
  <2>5. ASSUME NEW p \in Parents PROVE blockingCount'[p] = Cardinality(Counted(p)')
    <3>1. blockingCount[p] = Cardinality(Counted(p))
      BY <1>0 DEF CountInv
    <3>2. CASE records[a].parent = p /\ records[a].mode = "blocking"
      <4>1. a \in Counted(p) /\ IsFiniteSet(Counted(p))
        BY <1>t, <2>1, <3>2, FS_Subset, DelegationConstants DEF Counted, Counts
      <4>2. Cardinality(Counted(p) \ {a}) = Cardinality(Counted(p)) - 1
        BY <4>1, FS_RemoveElement
      <4>3. Cardinality(Counted(p)) \in Nat /\ Cardinality(Counted(p)) # 0
        BY <4>1, FS_CardinalityType, FS_EmptySet
      <4>4. CountDown(Cardinality(Counted(p))) = Cardinality(Counted(p)) - 1
        BY <4>3 DEF CountDown
      <4>5. blockingCount'[p] = CountDown(blockingCount[p])
        BY <1>t, <2>2, <3>2
      <4> QED BY <2>4, <3>1, <3>2, <4>2, <4>4, <4>5
    <3>3. CASE ~(records[a].parent = p /\ records[a].mode = "blocking")
      BY <1>t, <2>2, <3>3, <2>4, <3>1
    <3> QED BY <3>2, <3>3
  <2> QED BY <2>3, <2>5 DEF CountInv
<1> QED BY <1>1, <1>2, <1>3 DEF ReconcileStep

\* A boot counts again what is there.
LEMMA CountBoots ==
    ASSUME DelegationInv, CountInv, BootStep
    PROVE  CountInv'
<1>1. CASE BootDone
  <2>1. /\ UNCHANGED <<records, creates, reconciles>> /\ hub = "booting" /\ hub' = "up"
        /\ indexed' = indexed \cup sweep.tracked /\ sweep' = NoSweep
        /\ blockingCount' = [p \in Parents |-> Cardinality({a \in Agents : Blocks(a, p)})]
    BY <1>1 DEF BootDone
  <2>2. \A r \in Reconcilers, a \in Agents : ~Won(r, a)'
    BY <2>1 DEF Won, DelegationInv, SweepIsAlone
  <2>3. \A p \in Parents : Counted(p)' = {a \in Agents : Blocks(a, p)}
    BY <2>1, <2>2 DEF Counts, Blocks, Active, CountInv, CreatedFirst, Counted
  <2>4. sweep'.tracked = {}
    BY <2>1 DEF NoSweep
  <2>5. CreatedFirst'
    BY <2>1, <2>4 DEF CountInv, CreatedFirst, Active
  <2> QED BY <2>1, <2>3, <2>5 DEF CountInv
<1>2. CASE SweepUpdate \/ \E a \in Agents, old \in BOOLEAN : SweepRead(a, old)
  BY <1>2 DEF SweepUpdate, SweepRead, sweepVars, DelegationInv, DelegationTypeOK, SweepRecord, CountInv, CreatedFirst
<1> QED BY <1>1, <1>2 DEF BootStep

\* A hub that goes down leaves nothing half created.
LEMMA CountRestart ==
    ASSUME DelegationInv, CountInv, NEW stored \in BOOLEAN, NEW lost \in SUBSET Agents, Restart(stored, lost)
    PROVE  CountInv'
<1>1. /\ records' = records /\ indexed' = indexed /\ hub' = "booting"
      /\ \A r \in Reconcilers : reconciles'[r] = Idle
      /\ sweep'.tracked = {a \in Agents : Active(a)}
      /\ \A a \in Agents : creates'[a] = IF creates[a] = "put" THEN "done" ELSE creates[a]
  BY RestartCuts
<1>2. \A a \in Agents : creates'[a] # "put"
  BY <1>1
<1>3. \A a \in Agents : Active(a) => creates'[a] = "done"
  BY <1>1 DEF DelegationInv, RecordsAreCreated, Active, DelegationTypeOK, CreateStates
<1>4. \A a \in indexed : creates'[a] = "done"
  BY <1>1 DEF CountInv, CreatedFirst, DelegationInv, DelegationTypeOK
<1> QED BY <1>1, <1>2, <1>3, <1>4, NullRecords DEF CountInv, CreatedFirst

\* Each step keeps the count.
LEMMA CountStep ==
    ASSUME DelegationInv, CountInv, [DelegationNext]_delegationVars
    PROVE  CountInv'
<1>1. ASSUME NEW a \in Agents, NEW p \in Parents, NEW mode \in Modes, NEW resume \in Resumes,
             PutPrimary(a, p, mode, resume)
      PROVE  CountInv'
  BY <1>1, CountPrimary
<1>2. ASSUME \/ \E a \in Agents : StartTurn(a) \/ RunTurn(a)
             \/ \E c \in Chats : DeleteChat(c)
             \/ HandleEvent
             \/ UNCHANGED delegationVars
      PROVE  CountInv'
  <2>1. /\ UNCHANGED <<records, hub, sweep>>
        /\ \A r \in Reconcilers : reconciles'[r].state # "lookup" => reconciles'[r] = reconciles[r]
        /\ \A b \in Agents, q \in Reconcilers : Won(q, b)' <=> Won(q, b)
    BY <1>2, OtherSteps
  <2>2. UNCHANGED <<creates, indexed, blockingCount>>
    BY <1>2 DEF StartTurn, RunTurn, DeleteChat, HandleEvent, delegationVars, durableVars
  <2>3. CreatedFirst'
    BY <2>1, <2>2 DEF CountInv, CreatedFirst, Active
  <2>4. \A b \in Agents, p \in Parents : Counts(b, p)' <=> Counts(b, p)
    BY <2>1, <2>2 DEF Counts, Active
  <2>5. \A p \in Parents : Counted(p)' = Counted(p)
    BY <2>4 DEF Counted
  <2> QED BY <2>1, <2>2, <2>3, <2>5 DEF CountInv
<1> QED BY <1>1, <1>2, CountPuts, CountReconciles, CountRestart, CountBoots DEF DelegationNext

\* Nothing is created at first and nothing counted.
LEMMA CountInit == DelegationInit => CountInv
<1> SUFFICES ASSUME DelegationInit PROVE CountInv
  OBVIOUS
<1>1. /\ \A a \in Agents : records[a].status = "none" /\ creates[a] = "none"
      /\ \A r \in Reconcilers : reconciles[r].state = "idle"
      /\ indexed = {} /\ hub = "up" /\ \A p \in Parents : blockingCount[p] = 0
  BY NullRecords DEF DelegationInit
<1>2. sweep.tracked = {}
  BY DEF DelegationInit, NoSweep
<1>3. \A p \in Parents : Counted(p) = {}
  BY <1>1 DEF Counted, Counts, Active, Won
<1> QED BY <1>1, <1>2, <1>3, FS_EmptySet DEF CountInv, CreatedFirst

\* While the hub is up the count of a parent is that of its delegations.
LEMMA CountIsRight == DelegationInv /\ CountInv => CountIsExact
<1> SUFFICES ASSUME DelegationInv, CountInv, hub = "up", NEW p \in Parents
             PROVE  blockingCount[p] =
                      Cardinality({a \in Agents : Blocks(a, p) /\ creates[a] # "put"}
                        \cup {a \in Agents : /\ records[a].parent = p /\ records[a].mode = "blocking"
                                            /\ \E r \in InFlight(a) : reconciles[r].state = "won"})
  BY DEF CountIsExact
<1>1. \A a \in Agents : (\E r \in InFlight(a) : reconciles[r].state = "won") <=> \E r \in Reconcilers : Won(r, a)
  BY DEF InFlight, Won
<1>2. Counted(p) = {a \in Agents : Blocks(a, p) /\ creates[a] # "put"}
                     \cup {a \in Agents : /\ records[a].parent = p /\ records[a].mode = "blocking"
                                         /\ \E r \in InFlight(a) : reconciles[r].state = "won"}
  BY <1>1 DEF Counted, Counts, Blocks
<1> QED BY <1>2 DEF CountInv

-----------------------------------------------------------------------------
(* What opens the gate *)

\* The agents a parent has waited for, or waits for.
Awaited(p) == {a \in Agents : records[a].status # "none" /\ records[a].parent = p
                              /\ records[a].mode = "blocking"}

\* a has resumed its parent, or is still to come to its gate.
Opens(a) == \/ Active(a) \/ a \in history.resumed
            \/ \E r \in Reconcilers : reconciles[r].state \in {"won", "gate"} /\ reconciles[r].child = a

\* Of the agents of a parent none of which was cut off one opens the gate: the first
\* to pass a shut gate leaves another before it.
OneOpens ==
    \A p \in Parents \cap chats :
        Awaited(p) # {} /\ Awaited(p) \cap history.cut = {} => \E a \in Awaited(p) : Opens(a)

\* Steps that cut nothing off, and after which who opens a gate still does.
LEMMA OpensQuiet ==
    ASSUME OneOpens, ChatsGo, history.cut \subseteq history'.cut,
           \A p \in Parents : Awaited(p)' = Awaited(p),
           \A a \in Agents : a \notin history'.cut /\ Opens(a) => Opens(a)'
    PROVE  OneOpens'
BY DEF OneOpens, ChatsGo, Awaited

\* A new agent will come to the gate.
LEMMA OpensPut ==
    ASSUME DelegationInv, OneOpens, NEW a \in Agents, NEW p \in Parents, NEW mode \in Modes,
           NEW resume \in Resumes, PutPrimary(a, p, mode, resume)
    PROVE  OneOpens'
<1>1. /\ records[a].status = "none" /\ records'[a].status = "active"
      /\ \A b \in Agents : b # a => records'[b] = records[b]
      /\ UNCHANGED <<history, reconciles>> /\ chats' = chats \cup {a}
  BY PutStep DEF PutPrimary, DelegationInv, DelegationTypeOK
<1>2. \A q \in Parents : q \in chats' => q \in chats
  BY <1>1, DelegationConstants
<1>3. \A b \in Agents : Opens(b) => Opens(b)'
  BY <1>1 DEF Opens, Active
<1>4. Opens(a)'
  BY <1>1 DEF Opens, Active
<1>5. \A q \in Parents : Awaited(q)' = Awaited(q) \/ a \in Awaited(q)'
  BY <1>1 DEF Awaited
<1>6. ASSUME NEW q \in Parents, q \in chats', Awaited(q)' # {}, Awaited(q)' \cap history'.cut = {}
      PROVE  \E b \in Awaited(q)' : Opens(b)'
  BY <1>4, <1>1, <1>2, <1>6, <1>3, <1>5 DEF OneOpens, Awaited
<1> QED BY <1>6 DEF OneOpens

\* A shut gate has another agent before it; an open one resumes the parent.
LEMMA OpensGate ==
    ASSUME DelegationInv, OneOpens, NEW r \in Reconcilers, Gate(r)
    PROVE  OneOpens'
<1>r. /\ reconciles[r].child \in Agents /\ reconciles \in [Reconcilers -> ReconcileRecord]
      /\ history \in HistoryRecord
  BY DEF DelegationInv, DelegationTypeOK, ReconcileRecord
<1> PICK a \in Agents : a = reconciles[r].child
  BY <1>r
<1>1. /\ UNCHANGED <<records, chats>> /\ history'.cut = history.cut
      /\ \A q \in Reconcilers : q # r => reconciles'[q] = reconciles[q]
  BY IdleReconciles
<1>2. history.resumed \subseteq history'.resumed /\ (GateOpen(records[a].parent) => a \in history'.resumed)
  BY <1>r DEF Gate, HistoryRecord
<1>3. \A p \in Parents : Awaited(p)' = Awaited(p)
  BY <1>1 DEF Awaited
<1>4. \A b \in Agents : b # a /\ Opens(b) => Opens(b)'
  BY <1>1, <1>2 DEF Opens, Active
<1>5. ASSUME NEW p \in Parents, p \in chats', Awaited(p)' # {}, Awaited(p)' \cap history'.cut = {}
      PROVE  \E b \in Awaited(p)' : Opens(b)'
  <2>1. PICK b \in Awaited(p) : Opens(b)
    BY <1>1, <1>3, <1>5 DEF OneOpens
  <2>2. CASE b # a
    <3>1. b \in Agents
      BY <2>1 DEF Awaited
    <3> QED BY <1>3, <1>4, <2>1, <2>2, <3>1
  <2>3. CASE b = a /\ GateOpen(p)
    <3>1. records[a].parent = p
      BY <2>1, <2>3 DEF Awaited
    <3>2. Opens(a)'
      BY <1>2, <2>3, <3>1 DEF Opens
    <3> QED BY <1>3, <2>1, <2>3, <3>2
  <2>4. CASE ~GateOpen(p)
    <3>1. PICK c \in Agents : Blocks(c, p)
      BY <2>4 DEF GateOpen
    <3>2. c \in Awaited(p) /\ Active(c)
      BY <3>1 DEF Blocks, Awaited, Active
    <3>3. Opens(c)'
      BY <1>1, <3>2 DEF Opens, Active
    <3> QED BY <1>3, <3>2, <3>3
  <2> QED BY <2>2, <2>3, <2>4
<1> QED BY <1>5 DEF OneOpens

\* A call that settles will tell, and one that told will come to the gate.
LEMMA OpensReconcile ==
    ASSUME DelegationInv, OneOpens, NEW r \in Reconcilers, ReconcileStep(r)
    PROVE  OneOpens'
<1>r. /\ reconciles[r].child \in Agents /\ reconciles \in [Reconcilers -> ReconcileRecord]
      /\ history \in HistoryRecord
  BY DEF DelegationInv, DelegationTypeOK, ReconcileRecord
<1> PICK a \in Agents : a = reconciles[r].child
  BY <1>r
<1>1. CASE \/ Lookup(r) \/ ReadCurrent(r)
           \/ CompareAndSet(r) /\ records[a].revision # reconciles[r].revision
  <2>1. /\ UNCHANGED <<records, chats>>
        /\ reconciles[r].state \in {"lookup", "read", "update"}
        /\ \A q \in Reconcilers : q # r => reconciles'[q] = reconciles[q]
    BY <1>1, IdleReconciles DEF Lookup, ReadCurrent, CompareAndSet
  <2>2. history' = history
    BY <1>1 DEF Lookup, ReadCurrent, CompareAndSet
  <2>3. \A b \in Agents : Opens(b) => Opens(b)'
    BY <2>1, <2>2 DEF Opens, Active
  <2>4. \A p \in Parents : Awaited(p)' = Awaited(p)
    BY <2>1 DEF Awaited
  <2> QED BY <2>1, <2>2, <2>3, <2>4, OpensQuiet DEF ChatsGo
<1>2. CASE CompareAndSet(r) /\ records[a].revision = reconciles[r].revision
  <2>1. /\ UNCHANGED <<chats, history>> /\ reconciles[r].state = "update"
        /\ Active(a) /\ records'[a].status \in {"completed", "failed"}
        /\ \A b \in Agents : b # a => records'[b] = records[b]
        /\ \A b \in Agents : records'[b].parent = records[b].parent /\ records'[b].mode = records[b].mode
        /\ reconciles'[r].state = "won" /\ reconciles'[r].child = a
        /\ \A q \in Reconcilers : q # r => reconciles'[q] = reconciles[q]
    BY <1>2, SetWins
  <2>2. Opens(a)'
    BY <2>1 DEF Opens
  <2>3. \A b \in Agents : b # a /\ Opens(b) => Opens(b)'
    BY <2>1 DEF Opens, Active
  <2>4. \A b \in Agents : records'[b].status = "none" <=> records[b].status = "none"
    BY <2>1 DEF Active
  <2>5. \A p \in Parents : Awaited(p)' = Awaited(p)
    BY <2>1, <2>4 DEF Awaited
  <2>6. \A b \in Agents : Opens(b) => Opens(b)'
    BY <2>2, <2>3
  <2> QED BY <2>1, <2>5, <2>6, OpensQuiet DEF ChatsGo
<1>3. CASE Inject(r)
  <2>1. /\ UNCHANGED <<records, chats>> /\ history'.cut = history.cut
        /\ \A q \in Reconcilers : q # r => reconciles'[q] = reconciles[q]
        /\ reconciles'[r].state = "gate" => reconciles'[r].child = a
        /\ records[a].parent \in chats /\ records[a].mode = "blocking" =>
              a \in history'.resumed \/ reconciles'[r].state = "gate"
        /\ history.resumed \subseteq history'.resumed
    BY <1>3, WinnerTells
  <2>2. \A p \in Parents : Awaited(p)' = Awaited(p)
    BY <2>1 DEF Awaited
  <2>3. \A b \in Agents : b # a /\ Opens(b) => Opens(b)'
    BY <2>1 DEF Opens, Active
  <2>4. ASSUME NEW p \in Parents, p \in chats', Awaited(p)' # {}, Awaited(p)' \cap history'.cut = {}
        PROVE  \E b \in Awaited(p)' : Opens(b)'
    <3>1. PICK b \in Awaited(p) : Opens(b)
      BY <2>1, <2>2, <2>4 DEF OneOpens
    <3>2. b \in Agents
      BY <3>1 DEF Awaited
    <3>3. CASE b = a
      <4>1. records[a].parent \in chats /\ records[a].mode = "blocking"
        BY <2>1, <2>4, <3>1, <3>3 DEF Awaited
      <4>2. Opens(a)'
        BY <2>1, <4>1 DEF Opens
      <4> QED BY <2>2, <3>1, <3>3, <4>2
    <3>4. CASE b # a
      BY <2>2, <2>3, <3>1, <3>2, <3>4
    <3> QED BY <3>3, <3>4
  <2> QED BY <2>4 DEF OneOpens
<1> QED BY <1>1, <1>2, <1>3, OpensGate DEF ReconcileStep

\* Who is neither settled nor told when the hub goes down is cut off.
LEMMA OpensRestart ==
    ASSUME DelegationInv, OneOpens, NEW stored \in BOOLEAN, NEW lost \in SUBSET Agents, Restart(stored, lost)
    PROVE  OneOpens'
<1>1. /\ records' = records /\ chats' = chats
      /\ history'.cut = history.cut \cup {a \in Agents : Unfinished(a)}
      /\ history'.resumed = history.resumed
  BY RestartCuts
<1>2. \A a \in Agents : a \notin history'.cut /\ Opens(a) => a \in history.resumed
  BY <1>1 DEF Opens, Unfinished, InFlight
<1>3. \A p \in Parents : Awaited(p)' = Awaited(p)
  BY <1>1 DEF Awaited
<1>4. \A a \in Agents : a \notin history'.cut /\ Opens(a) => Opens(a)'
  BY <1>1, <1>2 DEF Opens
<1> QED BY <1>1, <1>3, <1>4, OpensQuiet DEF ChatsGo

\* The sweep settles only what was cut off.
LEMMA OpensBoot ==
    ASSUME DelegationInv, SweptAreCut, OneOpens, BootStep
    PROVE  OneOpens'
<1>1. CASE BootDone
  <2>1. UNCHANGED <<records, chats, reconciles, history>>
    BY <1>1 DEF BootDone
  <2>2. \A p \in Parents : Awaited(p)' = Awaited(p)
    BY <2>1 DEF Awaited
  <2>3. \A a \in Agents : Opens(a) => Opens(a)'
    BY <2>1 DEF Opens, Active
  <2> QED BY <2>1, <2>2, <2>3, OpensQuiet DEF ChatsGo
<1>2. CASE SweepUpdate \/ \E a \in Agents, old \in BOOLEAN : SweepRead(a, old)
  <2>1. /\ UNCHANGED <<chats, reconciles, history>>
        /\ \A b \in Agents : b \notin history.cut => records'[b] = records[b]
        /\ \A b \in Agents : records'[b].parent = records[b].parent /\ records'[b].mode = records[b].mode
        /\ \A b \in Agents : records'[b].status = "none" <=> records[b].status = "none"
    BY <1>2, SweepTouches
  <2>2. \A p \in Parents : Awaited(p)' = Awaited(p)
    BY <2>1 DEF Awaited
  <2>3. \A a \in Agents : a \notin history'.cut /\ Opens(a) => Opens(a)'
    BY <2>1 DEF Opens, Active
  <2> QED BY <2>1, <2>2, <2>3, OpensQuiet DEF ChatsGo
<1> QED BY <1>1, <1>2 DEF BootStep

\* Each step leaves one to open each gate.
LEMMA OpensStep ==
    ASSUME DelegationInv, SweptAreCut, OneOpens, [DelegationNext]_delegationVars
    PROVE  OneOpens'
<1>1. ASSUME NEW a \in Agents, NEW p \in Parents, NEW mode \in Modes, NEW resume \in Resumes,
             PutPrimary(a, p, mode, resume)
      PROVE  OneOpens'
  BY <1>1, OpensPut
<1>2. ASSUME \/ \E a \in Agents : PutSecondary(a) \/ StartTurn(a) \/ RunTurn(a)
             \/ \E c \in Chats : DeleteChat(c)
             \/ HandleEvent
             \/ UNCHANGED delegationVars
      PROVE  OneOpens'
  <2>1. /\ UNCHANGED <<records, history>> /\ ChatsGo
        /\ \A r \in Reconcilers : reconciles[r].state # "idle" => reconciles'[r] = reconciles[r]
    BY <1>2, OtherSteps
  <2>2. \A p \in Parents : Awaited(p)' = Awaited(p)
    BY <2>1 DEF Awaited
  <2>3. \A a \in Agents : Opens(a) => Opens(a)'
    BY <2>1 DEF Opens, Active
  <2> QED BY <2>1, <2>2, <2>3, OpensQuiet
<1> QED BY <1>1, <1>2, OpensReconcile, OpensRestart, OpensBoot DEF DelegationNext

\* When all are settled and told, the one that opens the gate has.
LEMMA OpenedByLast == OneOpens => LastOneResumes
BY DEF LastOneResumes, Awaited, OneOpens, Opens, InFlight

-----------------------------------------------------------------------------
(* Theorems *)

\* Each handler of the hub keeps the variables in their types.
THEOREM DelegationTyped == DelegationSpec => []DelegationTypeOK
<1>1. DelegationInv /\ [DelegationNext]_delegationVars => DelegationInv'
  BY NextStep
<1>2. DelegationInv => DelegationTypeOK
  BY DEF DelegationInv
<1> QED
  BY InvInit, <1>1, <1>2, PTL DEF DelegationSpec

\* However many turns of a child end and hubs restart, its parent gets one result
\* and one more for each boot that died between its append and its update.
THEOREM ParentHearsOnce == DelegationSpec => []OneResult
<1>1. DelegationInv /\ [DelegationNext]_delegationVars => DelegationInv'
  BY NextStep
<1>2. DelegationInv => OneResult
  BY DEF DelegationInv, ResultsCounted, OneResult
<1> QED
  BY InvInit, <1>1, <1>2, PTL DEF DelegationSpec

\* No reconciliation, live or at boot, writes a record that was settled: who loses
\* the compare-and-set writes nothing.
THEOREM SettledStays == DelegationSpec => SettledIsFinal
<1>1. DelegationInv /\ [DelegationNext]_delegationVars => DelegationInv'
  BY NextStep
<1>2. DelegationInv /\ [DelegationNext]_delegationVars
         => [\A a \in Agents : records[a].status \in Settled => records'[a] = records[a]]_delegationVars
  BY NextStep
<1> QED
  BY InvInit, <1>1, <1>2, PTL DEF DelegationSpec, SettledIsFinal

\* A delegation settled by a hub that lived on has told its parent, once.
THEOREM TheParentIsTold == DelegationSpec => []SettledIsTold
<1>1. DelegationInit => DelegationInv /\ ToldInv
  BY InvInit, ToldInit
<1>2. DelegationInv /\ ToldInv /\ [DelegationNext]_delegationVars => DelegationInv' /\ ToldInv'
  BY NextStep, ToldStep
<1>3. DelegationInv /\ ToldInv => SettledIsTold
  BY DEF ToldInv, SettledOnceTold, SettledIsTold, InFlight, Won
<1> QED BY <1>1, <1>2, <1>3, PTL DEF DelegationSpec

\* The count behind "awaiting_agents" is exact, and the last of a parent's blocking
\* agents to be told of makes it eligible.
THEOREM ParentsAreResumed == DelegationSpec => []ParentsResume
<1>1. DelegationInit => DelegationInv /\ ToldInv /\ CountInv /\ OneOpens
  BY InvInit, ToldInit, CountInit DEF DelegationInit, OneOpens, Awaited
<1>2. DelegationInv /\ ToldInv /\ CountInv /\ OneOpens /\ [DelegationNext]_delegationVars
        => DelegationInv' /\ ToldInv' /\ CountInv' /\ OneOpens'
  BY NextStep, ToldStep, CountStep, OpensStep DEF ToldInv
<1>3. DelegationInv /\ ToldInv /\ CountInv /\ OneOpens => ParentsResume
  BY CountIsRight, OpenedByLast DEF ParentsResume
<1> QED BY <1>1, <1>2, <1>3, PTL DEF DelegationSpec
=============================================================================
