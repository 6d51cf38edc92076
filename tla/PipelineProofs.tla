--------------------------- MODULE PipelineProofs ---------------------------
(***************************************************************************)
(* Proofs about the turns: of RunnerAgent alone, for any chats, commands   *)
(* and tool requests, and of TurnPipeline, for any chats, messages,        *)
(* commands and drains: what the hub takes a chat for is what its runner   *)
(* last said of it, and a message starts one turn.                         *)
(***************************************************************************)
EXTENDS TurnPipeline, TLAPS

-----------------------------------------------------------------------------
(* Type correctness *)

\* What the code publishes is an event of the wire format.
LEMMA EvType ==
    ASSUME turns \in [Turns -> TurnRecord], NEW t \in Turns,
           NEW type \in EventTypes, NEW arg \in EventArgs
    PROVE  Ev(t, type, arg) \in Event
BY DEF Ev, Event, TurnRecord

\* The constructor leaves everything well typed.
LEMMA TypeInit == RunnerInit => RunnerTypeOK
<1> SUFFICES ASSUME RunnerInit PROVE RunnerTypeOK
  OBVIOUS
<1>1. turns \in [Turns -> TurnRecord]
  <2>1. \A c \in Chats : [FreshTurn(c) EXCEPT !.phase = "unused"] \in TurnRecord
    BY DEF FreshTurn, TurnRecord, Phases, HarnessStates, Status
  <2> QED BY <2>1 DEF RunnerInit
<1>2. tools \in [Tools -> ToolRecord]
  BY DEF RunnerInit, ToolRecord, ToolStates
<1> QED BY <1>1, <1>2 DEF RunnerInit, RunnerTypeOK

\* Every handler and every harness event keeps it so.
LEMMA TypeStep == RunnerTypeOK /\ [RunnerNext]_runnerVars => RunnerTypeOK'
<1> SUFFICES ASSUME RunnerTypeOK, [RunnerNext]_runnerVars PROVE RunnerTypeOK'
  OBVIOUS
<1> USE DEF RunnerTypeOK
<1>ev. \A t \in Turns, type \in EventTypes, arg \in EventArgs : Ev(t, type, arg) \in Event
  BY EvType
<1> HIDE DEF RunnerTypeOK
<1>1. ASSUME NEW t \in Turns, NEW append \in BOOLEAN, StartTurn(t, append)
      PROVE  RunnerTypeOK'
  <2>1. events' \in Seq(Event)
    BY <1>1, <1>ev DEF StartTurn, Prompt, Publish, Entry, EventTypes, EventArgs, RunnerTypeOK
  <2> QED BY ZenonT(30), <1>1, <2>1 DEF StartTurn, RunnerTypeOK, TurnRecord, Phases
<1>2. ASSUME NEW t \in Turns, NEW append \in BOOLEAN, StartTurnRejected(t, append)
      PROVE  RunnerTypeOK'
  <2>1. events' \in Seq(Event)
    <3>1. CASE AlreadyRunning(turns[t].chat)
      BY <1>2, <3>1 DEF StartTurnRejected, RunnerTypeOK
    <3>2. CASE Prompt(t, append)
      BY <1>2, <3>2, <1>ev DEF Prompt, Publish, Entry, EventTypes, EventArgs, RunnerTypeOK
    <3> QED BY <1>2, <3>1, <3>2 DEF StartTurnRejected
  <2> QED BY ZenonT(40), <1>2, <2>1 DEF StartTurnRejected, RunnerTypeOK, TurnRecord, Phases
<1>3. ASSUME NEW t \in Turns, CreateTurnOk(t)
      PROVE  RunnerTypeOK'
  <2>1. events' \in Seq(Event)
    BY <1>3, <1>ev DEF CreateTurnOk, Publish, EventTypes, EventArgs, Status, RunnerTypeOK
  <2> QED BY ZenonT(40), <1>3, <2>1 DEF CreateTurnOk, RunnerTypeOK, TurnRecord, Phases
<1>4. ASSUME NEW t \in Turns, CreateTurnFail(t)
      PROVE  RunnerTypeOK'
  <2>1. events' \in Seq(Event)
    BY <1>4, <1>ev DEF CreateTurnFail, Publish, Entry, EventTypes, EventArgs, RunnerTypeOK
  <2> QED BY ZenonT(40), <1>4, <2>1 DEF CreateTurnFail, RunnerTypeOK, TurnRecord, Phases
<1>5. ASSUME NEW t \in Turns, StreamInit(t)
      PROVE  RunnerTypeOK'
  <2>1. events' \in Seq(Event)
    BY <1>5, <1>ev DEF StreamInit, PublishUnlessCancelled, Publish, EventTypes, EventArgs, Status, RunnerTypeOK
  <2>2. turns' \in [Turns -> TurnRecord]
    <3> DEFINE r == [turns[t] EXCEPT
                       !.harness = "open",
                       !.status  = IF turns[t].cancelRequested THEN turns[t].status ELSE "running"]
    <3>1. r \in TurnRecord
      BY DEF RunnerTypeOK, TurnRecord, HarnessStates, Status
    <3>2. turns' = [turns EXCEPT ![t] = r]
      BY <1>5 DEF StreamInit
    <3> HIDE DEF r
    <3> QED BY <3>1, <3>2 DEF RunnerTypeOK
  <2> QED BY <1>5, <2>1, <2>2 DEF StreamInit, RunnerTypeOK
<1>6. ASSUME NEW t \in Turns, NEW isError \in BOOLEAN, StreamResult(t, isError)
      PROVE  RunnerTypeOK'
  <2>1. events' \in Seq(Event)
    BY <1>6, <1>ev DEF StreamResult, PublishUnlessCancelled, Publish, Entry, EventTypes, EventArgs, RunnerTypeOK
  <2>2. turns' \in [Turns -> TurnRecord]
    <3> DEFINE r == [turns[t] EXCEPT !.harness = "final"]
    <3>1. r \in TurnRecord /\ [r EXCEPT !.phase = "ended"] \in TurnRecord
      BY DEF RunnerTypeOK, TurnRecord, HarnessStates, Phases
    <3>2. turns' \in {[turns EXCEPT ![t] = r],
                      [turns EXCEPT ![t] = [r EXCEPT !.phase = "ended"]]}
      BY <1>6 DEF StreamResult, Finally
    <3> HIDE DEF r
    <3> QED BY <3>1, <3>2 DEF RunnerTypeOK
  <2>3. activeTurns' \in [Chats -> Turns \cup {NoTurn}]
    BY <1>6 DEF StreamResult, Finally, RunnerTypeOK
  <2> QED BY <1>6, <2>1, <2>2, <2>3 DEF StreamResult, RunnerTypeOK
<1>7. ASSUME NEW t \in Turns, StreamEnd(t)
      PROVE  RunnerTypeOK'
  BY ZenonT(30), <1>7 DEF StreamEnd, Finally, RunnerTypeOK, TurnRecord, Phases
<1>8. ASSUME NEW t \in Turns, StreamThrow(t)
      PROVE  RunnerTypeOK'
  <2>1. events' \in Seq(Event)
    BY <1>8, <1>ev DEF StreamThrow, PublishUnlessCancelled, Publish, Entry, EventTypes, EventArgs, RunnerTypeOK
  <2> QED BY ZenonT(40), <1>8, <2>1 DEF StreamThrow, Finally, RunnerTypeOK, TurnRecord, Phases
<1>9. ASSUME NEW t \in Turns, InterruptSettles(t)
      PROVE  RunnerTypeOK'
  BY ZenonT(40), <1>9 DEF InterruptSettles, RunnerTypeOK, TurnRecord, HarnessStates
<1>10. ASSUME NEW t \in Turns, NEW k \in Tools, ToolRequest(t, k)
       PROVE  RunnerTypeOK'
  <2> DEFINE a == activeTurns[turns[t].chat]
  <2>1. a \in Turns
    BY <1>10 DEF ToolRequest, RunnerTypeOK, TurnRecord
  <2>2. events' \in Seq(Event)
    BY <1>10, <1>ev DEF ToolRequest, Publish, EventTypes, EventArgs, Status, RunnerTypeOK
  <2>3. turns' \in [Turns -> TurnRecord]
    BY <1>10, <2>1 DEF ToolRequest, RunnerTypeOK, TurnRecord, Status
  <2>4. tools' \in [Tools -> ToolRecord]
    BY <1>10 DEF ToolRequest, RunnerTypeOK, ToolRecord, ToolStates
  <2> QED BY <1>10, <2>2, <2>3, <2>4 DEF ToolRequest, RunnerTypeOK
<1>11. ASSUME NEW c \in Chats, NEW k \in Tools, NEW clear \in BOOLEAN, RespondTool(c, k, clear)
       PROVE  RunnerTypeOK'
  <2> DEFINE a == activeTurns[c]
  <2>1. a \in Turns
    BY <1>11 DEF RespondTool, RunnerTypeOK
  <2>2. events' \in Seq(Event)
    BY <1>11, <2>1, <1>ev DEF RespondTool, Publish, Entry, EventTypes, EventArgs, Status, RunnerTypeOK
  <2>3. turns' \in [Turns -> TurnRecord]
    <3>1. [FreshTurn(c) EXCEPT !.isFollowUp = TRUE] \in TurnRecord
      BY DEF FreshTurn, TurnRecord, Phases, HarnessStates, Status
    <3>2. CASE IsPlan(k) /\ IsCodex(a)
      BY <1>11, <2>1, <3>1, <3>2 DEF RespondTool, RunnerTypeOK
    <3>3. CASE ~(IsPlan(k) /\ IsCodex(a))
      BY SMTT(30), <1>11, <2>1, <3>3 DEF RespondTool, RunnerTypeOK, TurnRecord, Status
    <3> QED BY <3>2, <3>3
  <2> QED BY ZenonT(40), <1>11, <2>1, <2>2, <2>3 DEF RespondTool, RunnerTypeOK, ToolRecord, ToolStates
<1>12. ASSUME NEW c \in Chats, Cancel(c)
       PROVE  RunnerTypeOK'
  <2> DEFINE a == activeTurns[c]
             k == turns[a].pendingTool
  <2>1. a \in Turns
    BY <1>12 DEF Cancel, RunnerTypeOK
  <2>2. events' \in Seq(Event)
    BY <1>12, <2>1, <1>ev DEF Cancel, Publish, Entry, EventTypes, EventArgs, RunnerTypeOK
  <2>3. tools' \in [Tools -> ToolRecord]
    BY <1>12, <2>1 DEF Cancel, RunnerTypeOK, TurnRecord, ToolRecord, ToolStates
  <2>4. turns' \in [Turns -> TurnRecord]
    <3> DEFINE r == [turns[a] EXCEPT
                       !.cancelRequested = TRUE,
                       !.pendingTool     = NoTool,
                       !.phase           = IF IsCodex(a) THEN "ended" ELSE turns[a].phase]
    <3>1. r \in TurnRecord
      <4>1. turns[a] \in TurnRecord
        BY <2>1 DEF RunnerTypeOK
      <4> HIDE DEF a
      <4>2. CASE IsCodex(a)
        BY <4>1, <4>2 DEF TurnRecord, Phases
      <4>3. CASE ~IsCodex(a)
        BY <4>1, <4>3 DEF TurnRecord, Phases
      <4> QED BY <4>2, <4>3
    <3>2. turns' = [turns EXCEPT ![a] = r]
      BY <1>12 DEF Cancel
    <3> HIDE DEF r
    <3> QED BY <2>1, <3>1, <3>2 DEF RunnerTypeOK
  <2> QED BY <1>12, <2>1, <2>2, <2>3, <2>4 DEF Cancel, RunnerTypeOK
<1>13. CASE UNCHANGED runnerVars
  BY <1>13 DEF runnerVars, RunnerTypeOK
<1> QED
  BY <1>1, <1>2, <1>3, <1>4, <1>5, <1>6, <1>7, <1>8, <1>9, <1>10, <1>11, <1>12, <1>13
     DEF RunnerNext

\* The runner starts well typed and every one of its steps keeps it so.
THEOREM TypeCorrect == RunnerSpec => []RunnerTypeOK
BY TypeInit, TypeStep, PTL DEF RunnerSpec

-----------------------------------------------------------------------------
(* Which turn activeTurns names *)

\* The factory of t has been called and has not answered.
Creating(t) == turns[t].phase = "creating"

\* Cancelling a turn removes its entry at once, so an entry is a live turn.
EntryIsLive ==
    \A c \in Chats : activeTurns[c] # NoTurn =>
        Live(activeTurns[c]) /\ turns[activeTurns[c]].chat = c

\* A turn is made while its chat has no entry, and cannot be cancelled yet.
CreatingHasNoEntry ==
    \A t \in Turns : Creating(t) =>
        ~turns[t].cancelRequested /\ activeTurns[turns[t].chat] = NoTurn

\* A Claude turn is only ever made by the start_turn subscription.
OneStartAtATime == \A t \in Turns : Creating(t) /\ ~IsCodex(t) => starting = t

\* The Codex session of a chat is with one turn, follow-ups included.
OneTurnPerSession ==
    \A t, u \in Turns :
        /\ IsCodex(t) /\ turns[u].chat = turns[t].chat
        /\ Creating(t) \/ Streaming(t)
        /\ Creating(u) \/ Streaming(u)
        => t = u

\* A turn that never started has no mark of a cancel.
UnusedIsFresh == \A t \in Turns : turns[t].phase = "unused" => ~turns[t].cancelRequested

\* LiveTurnTracked, strengthened until every step preserves it.
RunnerInv ==
    /\ RunnerTypeOK
    /\ EntryIsLive
    /\ CreatingHasNoEntry
    /\ OneStartAtATime
    /\ OneTurnPerSession
    /\ UnusedIsFresh
    /\ LiveTurnTracked

\* A step that starts, ends and cancels no turn.
LEMMA QuietStep ==
    ASSUME RunnerInv, RunnerTypeOK', UNCHANGED <<activeTurns, starting>>,
           \A u \in Turns : /\ turns'[u].chat = turns[u].chat
                            /\ turns'[u].phase = turns[u].phase
                            /\ turns'[u].cancelRequested = turns[u].cancelRequested
    PROVE  RunnerInv'
<1> USE DEF RunnerInv, Live, Streaming, Creating, IsCodex
<1>1. EntryIsLive'
  BY DEF EntryIsLive, RunnerTypeOK
<1>2. CreatingHasNoEntry'
  BY DEF CreatingHasNoEntry
<1>3. OneStartAtATime'
  BY DEF OneStartAtATime
<1>4. OneTurnPerSession'
  BY DEF OneTurnPerSession
<1>5. UnusedIsFresh'
  BY DEF UnusedIsFresh
<1>6. LiveTurnTracked'
  BY DEF LiveTurnTracked
<1> QED BY <1>1, <1>2, <1>3, <1>4, <1>5, <1>6

\* The finally of runTurn: what it takes from a sibling, a cancel explains.
LEMMA FinallyStep ==
    ASSUME RunnerInv, RunnerTypeOK', NEW t \in Turns, Streaming(t), starting' = starting,
           activeTurns' = [activeTurns EXCEPT ![turns[t].chat] = NoTurn],
           turns'[t].phase = "ended",
           \A u \in Turns : /\ turns'[u].chat = turns[u].chat
                            /\ u # t => turns'[u].phase = turns[u].phase
                            /\ turns'[u].cancelRequested = turns[u].cancelRequested
    PROVE  RunnerInv'
<1> USE DEF RunnerInv, Live, Streaming, Creating, IsCodex
<1> DEFINE c == turns[t].chat
<1>c. c \in Chats /\ \A u \in Turns : turns[u].chat \in Chats
  BY DEF RunnerTypeOK, TurnRecord
<1>a. \A d \in Chats : activeTurns'[d] = IF d = c THEN NoTurn ELSE activeTurns[d]
  BY <1>c DEF RunnerTypeOK
<1> HIDE DEF c
<1>1. EntryIsLive'
  BY <1>a DEF EntryIsLive, RunnerTypeOK, c
<1>2. CreatingHasNoEntry'
  BY <1>a, <1>c DEF CreatingHasNoEntry
<1>3. OneStartAtATime'
  BY DEF OneStartAtATime
<1>4. OneTurnPerSession'
  BY DEF OneTurnPerSession
<1>5. UnusedIsFresh'
  BY DEF UnusedIsFresh
<1>6. LiveTurnTracked'
  <2> SUFFICES ASSUME NEW u \in Turns, Live(u)'
               PROVE  \/ activeTurns'[turns'[u].chat] = u
                      \/ /\ ~IsCodex(u)'
                         /\ \E v \in Turns : turns'[v].chat = turns'[u].chat
                                             /\ turns'[v].cancelRequested
    BY DEF LiveTurnTracked
  <2>1. u # t /\ Live(u)
    OBVIOUS
  <2>2. CASE turns[u].chat # c
    BY <2>1, <2>2, <1>a, <1>c DEF LiveTurnTracked
  <2>3. CASE turns[u].chat = c
    <3>1. ~IsCodex(u)
      BY <2>1, <2>3 DEF OneTurnPerSession, c
    <3>2. \E v \in Turns : turns[v].chat = c /\ turns[v].cancelRequested
      <4>1. CASE turns[t].cancelRequested
        BY <4>1 DEF c
      <4>2. CASE ~turns[t].cancelRequested
        BY <2>1, <2>3, <4>2 DEF LiveTurnTracked, c
      <4> QED BY <4>1, <4>2
    <3> QED BY <2>3, <3>1, <3>2
  <2> QED BY <2>2, <2>3
<1> QED BY <1>1, <1>2, <1>3, <1>4, <1>5, <1>6

\* The prologue of startTurn, and the refusals it may end in.
LEMMA StartStep ==
    ASSUME RunnerInv, RunnerTypeOK', NEW t \in Turns, NEW append \in BOOLEAN,
           StartTurn(t, append) \/ StartTurnRejected(t, append)
    PROVE  RunnerInv'
<1> USE DEF RunnerInv, Live, Streaming, Creating, IsCodex
<1>t. /\ turns[t].phase = "unused" /\ ~turns[t].cancelRequested
      /\ turns'[t].phase \in {"creating", "ended"} /\ starting = NoTurn
      /\ activeTurns' = activeTurns
      /\ \A u \in Turns : /\ turns'[u].chat = turns[u].chat
                          /\ u # t => turns'[u].phase = turns[u].phase
                          /\ turns'[u].cancelRequested = turns[u].cancelRequested
  BY DEF StartTurn, StartTurnRejected, UnusedIsFresh, RunnerTypeOK, TurnRecord
<1>s. turns'[t].phase = "creating" =>
         /\ activeTurns[turns[t].chat] = NoTurn /\ ~SessionTaken(t) /\ starting' = t
  BY <1>t DEF StartTurn, StartTurnRejected, AlreadyRunning, RunnerTypeOK, TurnRecord
<1>r. turns'[t].phase = "ended" => starting' = starting
  BY <1>t DEF StartTurn, StartTurnRejected, RunnerTypeOK, TurnRecord
<1>n. \A u \in Turns : u # NoTurn
  BY RunnerConstants
<1>1. EntryIsLive'
  BY <1>t DEF EntryIsLive, RunnerTypeOK
<1>2. CreatingHasNoEntry'
  BY <1>t, <1>s DEF CreatingHasNoEntry
<1>3. OneStartAtATime'
  BY <1>t, <1>s, <1>r, <1>n DEF OneStartAtATime
<1>4. OneTurnPerSession'
  BY <1>t, <1>s DEF OneTurnPerSession, SessionTaken
<1>5. UnusedIsFresh'
  BY <1>t DEF UnusedIsFresh
<1>6. LiveTurnTracked'
  BY <1>t DEF LiveTurnTracked
<1> QED BY <1>1, <1>2, <1>3, <1>4, <1>5, <1>6

\* createTurn settles: a turn that gets the entry finds it free.
LEMMA CreateStep ==
    ASSUME RunnerInv, RunnerTypeOK', NEW t \in Turns, CreateTurnOk(t) \/ CreateTurnFail(t)
    PROVE  RunnerInv'
<1> USE DEF RunnerInv, Live, Streaming, Creating, IsCodex
<1> DEFINE c == turns[t].chat
<1>c. c \in Chats /\ \A u \in Turns : turns[u].chat \in Chats
  BY DEF RunnerTypeOK, TurnRecord
<1>t. /\ Creating(t) /\ ~turns[t].cancelRequested /\ activeTurns[c] = NoTurn
      /\ turns'[t].phase \in {"streaming", "ended"}
      /\ starting' = IF starting = t THEN NoTurn ELSE starting
      /\ \A u \in Turns : /\ turns'[u].chat = turns[u].chat
                          /\ u # t => turns'[u].phase = turns[u].phase
                          /\ turns'[u].cancelRequested = turns[u].cancelRequested
  BY DEF CreateTurnOk, CreateTurnFail, CreatingHasNoEntry, RunnerTypeOK, TurnRecord
<1>a. \A d \in Chats :
         activeTurns'[d] = IF d = c /\ turns'[t].phase = "streaming" THEN t ELSE activeTurns[d]
  BY <1>c, <1>t DEF CreateTurnOk, CreateTurnFail, RunnerTypeOK, TurnRecord
<1>u. \A u \in Turns : Creating(u) /\ turns[u].chat = c => u = t
  BY <1>t DEF OneTurnPerSession, OneStartAtATime
<1> HIDE DEF c
<1>1. EntryIsLive'
  BY <1>t, <1>a DEF EntryIsLive, RunnerTypeOK, c
<1>2. CreatingHasNoEntry'
  BY <1>t, <1>a, <1>u, <1>c DEF CreatingHasNoEntry
<1>3. OneStartAtATime'
  BY <1>t DEF OneStartAtATime
<1>4. OneTurnPerSession'
  BY <1>t DEF OneTurnPerSession
<1>5. UnusedIsFresh'
  BY <1>t DEF UnusedIsFresh
<1>6. LiveTurnTracked'
  BY <1>t, <1>a, <1>c, RunnerConstants DEF LiveTurnTracked, c
<1> QED BY <1>1, <1>2, <1>3, <1>4, <1>5, <1>6

\* An approved or rejected Codex plan: the turn gives up its entry and is made
\* again under the same id.
LEMMA FollowUpStep ==
    ASSUME RunnerInv, RunnerTypeOK', NEW c \in Chats, NEW k \in Tools, NEW clear \in BOOLEAN,
           RespondTool(c, k, clear), IsPlan(k), IsCodex(activeTurns[c])
    PROVE  RunnerInv'
<1> USE DEF RunnerInv, Live, Streaming, Creating, IsCodex
<1> DEFINE a == activeTurns[c]
<1>a. a \in Turns /\ a # NoTurn /\ Live(a) /\ turns[a].chat = c
  BY DEF RespondTool, RunnerTypeOK, EntryIsLive
<1>t. /\ starting' = starting
      /\ turns'[a].phase = "creating" /\ ~turns'[a].cancelRequested /\ turns'[a].chat = c
      /\ \A u \in Turns : u # a => turns'[u] = turns[u]
  BY SMTT(20), <1>a DEF RespondTool, RunnerTypeOK, FreshTurn
<1>e. \A d \in Chats : activeTurns'[d] = IF d = c THEN NoTurn ELSE activeTurns[d]
  BY DEF RespondTool, RunnerTypeOK
<1>c. \A u \in Turns : turns[u].chat \in Chats /\ turns'[u].chat = turns[u].chat
  BY <1>a, <1>t DEF RunnerTypeOK, TurnRecord
<1>x. c \in CodexChats
  BY <1>a
<1> HIDE DEF a
<1>1. EntryIsLive'
  BY <1>a, <1>t, <1>e DEF EntryIsLive, RunnerTypeOK
<1>2. CreatingHasNoEntry'
  BY <1>a, <1>t, <1>e, <1>c DEF CreatingHasNoEntry
<1>3. OneStartAtATime'
  BY <1>a, <1>t, <1>x DEF OneStartAtATime
<1>4. OneTurnPerSession'
  BY <1>a, <1>t, <1>c DEF OneTurnPerSession
<1>5. UnusedIsFresh'
  BY <1>a, <1>t DEF UnusedIsFresh
<1>6. LiveTurnTracked'
  <2> SUFFICES ASSUME NEW u \in Turns, Live(u)', activeTurns'[turns'[u].chat] # u
               PROVE  /\ ~IsCodex(u)'
                      /\ \E v \in Turns : turns'[v].chat = turns'[u].chat
                                          /\ turns'[v].cancelRequested
    BY DEF LiveTurnTracked
  <2>1. u # a /\ Live(u) /\ turns[u].chat # c
    BY <1>a, <1>t, <1>x DEF OneTurnPerSession
  <2>2. activeTurns[turns[u].chat] # u
    BY <2>1, <1>e, <1>c
  <2>3. /\ ~IsCodex(u)
        /\ \E v \in Turns : turns[v].chat = turns[u].chat /\ turns[v].cancelRequested
    BY <2>1, <2>2 DEF LiveTurnTracked
  <2> QED BY <2>1, <2>3, <1>a, <1>t, <1>c
<1> QED BY <1>1, <1>2, <1>3, <1>4, <1>5, <1>6

\* Cancelling takes the entry of the turn it cancels.
LEMMA CancelStep ==
    ASSUME RunnerInv, RunnerTypeOK', NEW c \in Chats, Cancel(c)
    PROVE  RunnerInv'
<1> USE DEF RunnerInv, Live, Streaming, Creating, IsCodex
<1> DEFINE a == activeTurns[c]
<1>a. a \in Turns /\ a # NoTurn /\ Live(a) /\ turns[a].chat = c
  BY DEF Cancel, RunnerTypeOK, EntryIsLive
<1>t. /\ starting' = starting
      /\ turns'[a].phase \in {"streaming", "ended"}
      /\ turns'[a].cancelRequested /\ turns'[a].chat = c
      /\ \A u \in Turns : u # a => turns'[u] = turns[u]
  BY <1>a DEF Cancel, RunnerTypeOK, TurnRecord
<1>e. \A d \in Chats : activeTurns'[d] = IF d = c THEN NoTurn ELSE activeTurns[d]
  BY DEF Cancel, RunnerTypeOK
<1>c. \A u \in Turns : turns[u].chat \in Chats /\ turns'[u].chat = turns[u].chat
  BY <1>a, <1>t DEF RunnerTypeOK, TurnRecord
<1> HIDE DEF a
<1>1. EntryIsLive'
  BY <1>a, <1>t, <1>e DEF EntryIsLive, RunnerTypeOK
<1>2. CreatingHasNoEntry'
  BY <1>a, <1>t, <1>e, <1>c DEF CreatingHasNoEntry
<1>3. OneStartAtATime'
  BY <1>a, <1>t DEF OneStartAtATime
<1>4. OneTurnPerSession'
  BY <1>a, <1>t, <1>c DEF OneTurnPerSession
<1>5. UnusedIsFresh'
  BY <1>a, <1>t DEF UnusedIsFresh
<1>6. LiveTurnTracked'
  <2> SUFFICES ASSUME NEW u \in Turns, Live(u)', activeTurns'[turns'[u].chat] # u
               PROVE  /\ ~IsCodex(u)'
                      /\ \E v \in Turns : turns'[v].chat = turns'[u].chat
                                          /\ turns'[v].cancelRequested
    BY DEF LiveTurnTracked
  <2>1. u # a /\ Live(u)
    BY <1>a, <1>t
  <2>2. CASE turns[u].chat = c
    BY <2>1, <2>2, <1>a, <1>t, <1>c DEF OneTurnPerSession
  <2>3. CASE turns[u].chat # c
    BY <2>1, <2>3, <1>a, <1>t, <1>e, <1>c DEF LiveTurnTracked
  <2> QED BY <2>2, <2>3
<1> QED BY <1>1, <1>2, <1>3, <1>4, <1>5, <1>6

\* No turn is sent yet, so no turn is anywhere.
LEMMA InvInit == RunnerInit => RunnerInv
<1> SUFFICES ASSUME RunnerInit PROVE RunnerInv
  OBVIOUS
<1>1. RunnerTypeOK
  BY TypeInit
<1>2. \A t \in Turns : turns[t].phase = "unused" /\ ~turns[t].cancelRequested
  <2>1. \A t \in Turns : \E c \in Chats : turns[t] = [FreshTurn(c) EXCEPT !.phase = "unused"]
    BY DEF RunnerInit
  <2> QED BY <2>1 DEF FreshTurn
<1> QED
  BY <1>1, <1>2 DEF RunnerInv, RunnerInit, EntryIsLive, CreatingHasNoEntry, OneStartAtATime,
     OneTurnPerSession, UnusedIsFresh, LiveTurnTracked, Live, Streaming, Creating

\* Each handler is one of the kinds of step above.
LEMMA InvStep == RunnerInv /\ [RunnerNext]_runnerVars => RunnerInv'
<1> SUFFICES ASSUME RunnerInv, [RunnerNext]_runnerVars PROVE RunnerInv'
  OBVIOUS
<1>ty. RunnerTypeOK /\ RunnerTypeOK'
  BY TypeStep DEF RunnerInv
<1>1. ASSUME NEW t \in Turns, NEW append \in BOOLEAN,
             StartTurn(t, append) \/ StartTurnRejected(t, append)
      PROVE  RunnerInv'
  BY <1>1, <1>ty, StartStep
<1>2. ASSUME NEW t \in Turns, CreateTurnOk(t) \/ CreateTurnFail(t)
      PROVE  RunnerInv'
  BY <1>2, <1>ty, CreateStep
<1>3. ASSUME NEW t \in Turns, StreamInit(t) PROVE RunnerInv'
  BY <1>3, <1>ty, QuietStep DEF StreamInit, RunnerTypeOK, TurnRecord
<1>4. ASSUME NEW t \in Turns, NEW isError \in BOOLEAN, StreamResult(t, isError)
      PROVE  RunnerInv'
  <2>1. CASE IsCodex(t)
    <3>1. /\ Streaming(t) /\ starting' = starting
          /\ Finally(t, [turns[t] EXCEPT !.harness = "final"])
      BY <1>4, <2>1 DEF StreamResult
    <3> QED BY ZenonT(40), <3>1, <1>ty, FinallyStep DEF Finally, RunnerTypeOK, TurnRecord
  <2>2. CASE ~IsCodex(t)
    BY <1>4, <2>2, <1>ty, QuietStep DEF StreamResult, RunnerTypeOK, TurnRecord
  <2> QED BY <2>1, <2>2
<1>5. ASSUME NEW t \in Turns, StreamEnd(t) PROVE RunnerInv'
  BY <1>5, <1>ty, FinallyStep DEF StreamEnd, Finally, RunnerTypeOK, TurnRecord
<1>6. ASSUME NEW t \in Turns, StreamThrow(t) PROVE RunnerInv'
  BY <1>6, <1>ty, FinallyStep DEF StreamThrow, Finally, RunnerTypeOK, TurnRecord
<1>7. ASSUME NEW t \in Turns, InterruptSettles(t) PROVE RunnerInv'
  BY <1>7, <1>ty, QuietStep DEF InterruptSettles, RunnerTypeOK, TurnRecord
<1>8. ASSUME NEW t \in Turns, NEW k \in Tools, ToolRequest(t, k) PROVE RunnerInv'
  BY <1>8, <1>ty, QuietStep DEF ToolRequest, RunnerTypeOK, TurnRecord
<1>9. ASSUME NEW c \in Chats, NEW k \in Tools, NEW clear \in BOOLEAN, RespondTool(c, k, clear)
      PROVE  RunnerInv'
  <2>1. CASE IsPlan(k) /\ IsCodex(activeTurns[c])
    BY <1>9, <2>1, <1>ty, FollowUpStep
  <2>2. CASE ~(IsPlan(k) /\ IsCodex(activeTurns[c]))
    BY <1>9, <2>2, <1>ty, QuietStep DEF RespondTool, RunnerTypeOK, TurnRecord
  <2> QED BY <2>1, <2>2
<1>10. ASSUME NEW c \in Chats, Cancel(c) PROVE RunnerInv'
  BY <1>10, <1>ty, CancelStep
<1>11. CASE UNCHANGED runnerVars
  BY <1>11, <1>ty, QuietStep DEF runnerVars
<1> QED
  BY <1>1, <1>2, <1>3, <1>4, <1>5, <1>6, <1>7, <1>8, <1>9, <1>10, <1>11 DEF RunnerNext

\* A live turn can always be reached through activeTurns, unless a cancelled
\* turn of the same Claude chat has taken its entry away.
THEOREM LiveTurnsAreTracked == RunnerSpec => []LiveTurnTracked
<1>1. RunnerInv => LiveTurnTracked
  BY DEF RunnerInv
<1> QED BY <1>1, InvInit, InvStep, PTL DEF RunnerSpec

\* With Codex alone the duplicate-start check and the session do what they are
\* there for: no chat ever has two live turns.
THEOREM CodexRunsOneTurn ==
    ASSUME CodexChats = Chats
    PROVE  RunnerSpec => []OneLiveTurnPerChat
<1>1. RunnerInv => OneLiveTurnPerChat
  BY DEF OneLiveTurnPerChat, RunnerInv, RunnerTypeOK, TurnRecord, IsCodex, OneTurnPerSession, Live
<1> QED BY <1>1, InvInit, InvStep, PTL DEF RunnerSpec

-----------------------------------------------------------------------------
(* What a cancelled turn may still publish *)

\* An event that a turn may publish although it was cancelled.
Quiet(e) == turns[e.by].cancelRequested => e.type \in {"status_change", "pending_tool"}

\* The step publishes nothing a cancelled turn must not.
AppendsQuietly == \A i \in DOMAIN events' \ DOMAIN events : Quiet(events'[i])

\* The new part of the log is what was published.
LEMMA PublishQuietly ==
    ASSUME RunnerTypeOK, NEW evs \in Seq(Event), Publish(evs),
           \A j \in DOMAIN evs : Quiet(evs[j])
    PROVE  AppendsQuietly
BY DEF AppendsQuietly, RunnerTypeOK, Publish

\* Whatever a turn that was not cancelled publishes is in order.
LEMMA LiveTurnMayPublish ==
    ASSUME RunnerTypeOK, NEW t \in Turns, ~turns[t].cancelRequested, NEW evs \in Seq(Event),
           Publish(evs), \A j \in DOMAIN evs : evs[j].by = t
    PROVE  AppendsQuietly
BY PublishQuietly DEF Quiet

\* A step that leaves the log alone publishes nothing.
LEMMA NothingPublished == ASSUME UNCHANGED events PROVE AppendsQuietly
BY DEF AppendsQuietly

\* Events of one turn followed by events of the same turn.
LEMMA BothBy ==
    ASSUME NEW t, NEW first \in Seq(Event), NEW second \in Seq(Event),
           \A j \in DOMAIN first : first[j].by = t,
           \A j \in DOMAIN second : second[j].by = t
    PROVE  /\ first \o second \in Seq(Event)
           /\ \A j \in DOMAIN (first \o second) : (first \o second)[j].by = t
<1> DEFINE all == first \o second
<1>1. all \in Seq(Event)
  OBVIOUS
<1>2. ASSUME NEW j \in DOMAIN all PROVE all[j].by = t
  OBVIOUS
<1> QED BY <1>1, <1>2

\* One case per handler: most ask cancelRequested, the others act for a turn
\* that has its entry, or is about to get it, and so was never cancelled.
LEMMA SilentStep == RunnerInv /\ [RunnerNext]_runnerVars => AppendsQuietly
<1> SUFFICES ASSUME RunnerInv, [RunnerNext]_runnerVars PROVE AppendsQuietly
  OBVIOUS
<1>ty. RunnerTypeOK
  BY DEF RunnerInv
<1>ev. \A t \in Turns, type \in EventTypes, arg \in EventArgs :
          Ev(t, type, arg) \in Event /\ Ev(t, type, arg).by = t /\ Ev(t, type, arg).type = type
  BY <1>ty, EvType DEF Ev, RunnerTypeOK
<1>p. ASSUME NEW t \in Turns, NEW append \in BOOLEAN, turns[t].phase = "unused",
             Prompt(t, append)
      PROVE  AppendsQuietly
  <2> DEFINE evs == IF append THEN <<Entry(t, "user_prompt")>> ELSE <<>>
  <2>1. evs \in Seq(Event) /\ \A j \in DOMAIN evs : evs[j].by = t
    BY <1>ev DEF Entry, EventTypes, EventArgs
  <2>2. Publish(evs)
    BY <1>p DEF Prompt
  <2> HIDE DEF evs
  <2> QED BY <1>p, <1>ty, <2>1, <2>2, LiveTurnMayPublish DEF RunnerInv, UnusedIsFresh
<1>u. ASSUME NEW t \in Turns, NEW evs \in Seq(Event), \A j \in DOMAIN evs : evs[j].by = t,
             PublishUnlessCancelled(t, evs)
      PROVE  AppendsQuietly
  <2>1. CASE turns[t].cancelRequested
    BY <1>u, <1>ty, <2>1, NothingPublished DEF PublishUnlessCancelled, Publish, RunnerTypeOK
  <2>2. CASE ~turns[t].cancelRequested
    BY <1>u, <1>ty, <2>2, LiveTurnMayPublish DEF PublishUnlessCancelled
  <2> QED BY <2>1, <2>2
<1>1. ASSUME NEW t \in Turns, NEW append \in BOOLEAN,
             StartTurn(t, append) \/ StartTurnRejected(t, append)
      PROVE  AppendsQuietly
  BY <1>1, <1>p, NothingPublished DEF StartTurn, StartTurnRejected
<1>2. ASSUME NEW t \in Turns, CreateTurnOk(t)
      PROVE  AppendsQuietly
  <2> DEFINE evs == <<Ev(t, "status_change", "starting")>>
  <2>1. evs \in Seq(Event) /\ \A j \in DOMAIN evs : evs[j].by = t
    BY <1>ev DEF EventTypes, EventArgs, Status
  <2>2. Publish(evs) /\ Creating(t)
    BY <1>2 DEF CreateTurnOk, Creating
  <2> HIDE DEF evs
  <2> QED BY <1>ty, <2>1, <2>2, LiveTurnMayPublish DEF RunnerInv, CreatingHasNoEntry
<1>3. ASSUME NEW t \in Turns, CreateTurnFail(t)
      PROVE  AppendsQuietly
  <2> DEFINE evs == IF turns[t].isFollowUp
                    THEN <<Entry(t, "result"), Ev(t, "turn_failed", "none")>> ELSE <<>>
  <2>1. evs \in Seq(Event) /\ \A j \in DOMAIN evs : evs[j].by = t
    BY <1>ev DEF Entry, EventTypes, EventArgs
  <2>2. Publish(evs) /\ Creating(t)
    BY <1>3 DEF CreateTurnFail, Creating
  <2> HIDE DEF evs
  <2> QED BY <1>ty, <2>1, <2>2, LiveTurnMayPublish DEF RunnerInv, CreatingHasNoEntry
<1>4. ASSUME NEW t \in Turns, StreamInit(t)
      PROVE  AppendsQuietly
  <2> DEFINE evs == <<Ev(t, "status_change", "running")>>
  <2>1. evs \in Seq(Event) /\ \A j \in DOMAIN evs : evs[j].by = t
    BY <1>ev DEF EventTypes, EventArgs, Status
  <2>2. PublishUnlessCancelled(t, evs)
    BY <1>4 DEF StreamInit
  <2> HIDE DEF evs
  <2> QED BY <1>u, <2>1, <2>2
<1>5. ASSUME NEW t \in Turns, NEW isError \in BOOLEAN, StreamResult(t, isError)
      PROVE  AppendsQuietly
  <2> DEFINE evs == <<Entry(t, "result"),
                      Ev(t, IF isError THEN "turn_failed" ELSE "turn_finished", "none")>>
  <2>1. evs \in Seq(Event) /\ \A j \in DOMAIN evs : evs[j].by = t
    BY <1>ev DEF Entry, EventTypes, EventArgs
  <2>2. PublishUnlessCancelled(t, evs)
    BY <1>5 DEF StreamResult
  <2> HIDE DEF evs
  <2> QED BY <1>u, <2>1, <2>2
<1>6. ASSUME NEW t \in Turns, StreamThrow(t)
      PROVE  AppendsQuietly
  <2> DEFINE evs == <<Entry(t, "result"), Ev(t, "turn_failed", "none")>>
  <2>1. evs \in Seq(Event) /\ \A j \in DOMAIN evs : evs[j].by = t
    BY <1>ev DEF Entry, EventTypes, EventArgs
  <2>2. PublishUnlessCancelled(t, evs)
    BY <1>6 DEF StreamThrow
  <2> HIDE DEF evs
  <2> QED BY <1>u, <2>1, <2>2
<1>7. ASSUME NEW t \in Turns, StreamEnd(t) \/ InterruptSettles(t)
      PROVE  AppendsQuietly
  BY <1>7, NothingPublished DEF StreamEnd, InterruptSettles
<1>8. ASSUME NEW t \in Turns, NEW k \in Tools, ToolRequest(t, k)
      PROVE  AppendsQuietly
  <2> DEFINE evs == <<Ev(t, "status_change", "waiting_for_user"), Ev(t, "pending_tool", "set")>>
  <2>1. evs \in Seq(Event) /\ \A j \in DOMAIN evs : Quiet(evs[j])
    BY <1>ev DEF EventTypes, EventArgs, Status, Quiet
  <2>2. Publish(evs)
    BY <1>8 DEF ToolRequest
  <2> HIDE DEF evs
  <2> QED BY <1>ty, <2>1, <2>2, PublishQuietly
<1>l. ASSUME NEW c \in Chats, activeTurns[c] # NoTurn
      PROVE  activeTurns[c] \in Turns /\ ~turns[activeTurns[c]].cancelRequested
  BY <1>l DEF RunnerInv, RunnerTypeOK, EntryIsLive, Live
<1>9. ASSUME NEW c \in Chats, NEW k \in Tools, NEW clear \in BOOLEAN, RespondTool(c, k, clear)
      PROVE  AppendsQuietly
  <2> DEFINE a    == activeTurns[c]
             said == <<Entry(a, "tool_result"), Ev(a, "pending_tool", "none"),
                       Ev(a, "status_change", "running")>>
             more == IF IsPlan(k) /\ clear
                     THEN <<Ev(a, "session_token", "none"), Entry(a, "context_cleared")>>
                     ELSE <<>>
  <2>1. a \in Turns /\ ~turns[a].cancelRequested
    BY <1>9, <1>l DEF RespondTool
  <2>2. Publish(said \o more)
    BY <1>9 DEF RespondTool
  <2> HIDE DEF a
  <2>3. said \in Seq(Event) /\ \A j \in DOMAIN said : said[j].by = a
    BY <1>ev, <2>1 DEF Entry, EventTypes, EventArgs, Status
  <2>4. more \in Seq(Event) /\ \A j \in DOMAIN more : more[j].by = a
    BY <1>ev, <2>1 DEF Entry, EventTypes, EventArgs, Status
  <2> HIDE DEF said, more
  <2> DEFINE all == said \o more
  <2>5. all \in Seq(Event) /\ \A j \in DOMAIN all : all[j].by = a
    BY <2>3, <2>4, BothBy
  <2> HIDE DEF all
  <2>6. Publish(all)
    BY <2>2 DEF all
  <2> QED BY <1>ty, <2>1, <2>5, <2>6, LiveTurnMayPublish
<1>10. ASSUME NEW c \in Chats, Cancel(c)
       PROVE  AppendsQuietly
  <2> DEFINE a       == activeTurns[c]
             discard == IF turns[a].pendingTool # NoTool THEN <<Entry(a, "tool_result")>> ELSE <<>>
             said    == <<Entry(a, "interrupted"), Ev(a, "turn_cancelled", "none")>>
  <2>1. a \in Turns /\ ~turns[a].cancelRequested
    BY <1>10, <1>l DEF Cancel
  <2>2. Publish(discard \o said)
    BY <1>10 DEF Cancel
  <2> HIDE DEF a
  <2>3. discard \in Seq(Event) /\ \A j \in DOMAIN discard : discard[j].by = a
    BY <1>ev, <2>1 DEF Entry, EventTypes, EventArgs
  <2>4. said \in Seq(Event) /\ \A j \in DOMAIN said : said[j].by = a
    BY <1>ev, <2>1 DEF Entry, EventTypes, EventArgs
  <2> HIDE DEF discard, said
  <2> DEFINE all == discard \o said
  <2>5. all \in Seq(Event) /\ \A j \in DOMAIN all : all[j].by = a
    BY <2>3, <2>4, BothBy
  <2> HIDE DEF all
  <2>6. Publish(all)
    BY <2>2 DEF all
  <2> QED BY <1>ty, <2>1, <2>5, <2>6, LiveTurnMayPublish
<1>11. CASE UNCHANGED runnerVars
  BY <1>11, NothingPublished DEF runnerVars
<1> QED
  BY <1>1, <1>2, <1>3, <1>4, <1>5, <1>6, <1>7, <1>8, <1>9, <1>10, <1>11 DEF RunnerNext

\* Whatever its harness still yields, and whoever answers its requests, a
\* cancelled turn adds nothing to the transcript and announces no outcome.
THEOREM CancelIsFinal == RunnerSpec => CancelledStaysSilent
<1>1. RunnerInv /\ [RunnerNext]_runnerVars =>
         [\A i \in DOMAIN events' \ DOMAIN events :
             turns[events'[i].by].cancelRequested =>
                 events'[i].type \in {"status_change", "pending_tool"}]_runnerVars
  BY SilentStep DEF AppendsQuietly, Quiet
<1> QED BY <1>1, InvInit, InvStep, PTL DEF RunnerSpec, CancelledStaysSilent

-----------------------------------------------------------------------------
(* Who waits for the answer to a request *)

\* The request a chat would answer is one that a harness of the chat waits on.
PendingIsAsked ==
    \A c \in Chats : (activeTurns[c] # NoTurn /\ turns[activeTurns[c]].pendingTool # NoTool) =>
        LET k == turns[activeTurns[c]].pendingTool IN
        /\ tools[k].state = "pending"
        /\ tools[k].owner \in Turns /\ turns[tools[k].owner].chat = c
        /\ c \in CodexChats => tools[k].owner = activeTurns[c]

\* A turn that is not yet read has asked for nothing.
UnaskedBefore ==
    \A t \in Turns : turns[t].phase = "unused" \/ Creating(t) => turns[t].pendingTool = NoTool

\* The inductive invariant behind the answers.
AskInv == RunnerInv /\ PendingIsAsked /\ UnaskedBefore

\* A step that makes no entry, asks for nothing and answers nothing.
LEMMA NothingAsked ==
    ASSUME AskInv, RunnerInv', UNCHANGED tools,
           \A c \in Chats : activeTurns'[c] \in {activeTurns[c], NoTurn},
           \A u \in Turns : /\ turns'[u].chat = turns[u].chat
                            /\ turns'[u].pendingTool = turns[u].pendingTool
                            /\ \/ turns'[u].phase \in {turns[u].phase, "ended"}
                               \/ turns[u].phase = "unused"
    PROVE  AskInv'
<1> USE DEF AskInv
<1>1. PendingIsAsked'
  BY DEF PendingIsAsked, RunnerInv, RunnerTypeOK
<1>2. UnaskedBefore'
  BY DEF UnaskedBefore, Creating
<1> QED BY <1>1, <1>2

\* No request is made yet.
LEMMA AskInit == RunnerInit => AskInv
<1> SUFFICES ASSUME RunnerInit PROVE AskInv
  OBVIOUS
<1>1. \A t \in Turns : turns[t].pendingTool = NoTool
  <2>1. \A t \in Turns : \E c \in Chats : turns[t] = [FreshTurn(c) EXCEPT !.phase = "unused"]
    BY DEF RunnerInit
  <2> QED BY <2>1 DEF FreshTurn
<1> QED BY <1>1, InvInit DEF AskInv, PendingIsAsked, UnaskedBefore, RunnerInit

\* A request names its asker until it is answered, discarded or let go with the entry.
LEMMA AskStep == AskInv /\ [RunnerNext]_runnerVars => AskInv'
<1> SUFFICES ASSUME AskInv, [RunnerNext]_runnerVars PROVE AskInv'
  OBVIOUS
<1>i. RunnerInv /\ RunnerInv'
  BY InvStep DEF AskInv
<1>ty. RunnerTypeOK /\ RunnerTypeOK'
  BY <1>i DEF RunnerInv
<1>n. NoTurn \notin Turns /\ NoTool \notin Tools
  BY RunnerConstants
<1>1. ASSUME NEW t \in Turns, NEW append \in BOOLEAN,
             StartTurn(t, append) \/ StartTurnRejected(t, append)
      PROVE  AskInv'
  <2>1. /\ tools' = tools /\ activeTurns' = activeTurns /\ turns[t].phase = "unused"
        /\ \E phase : turns' = [turns EXCEPT ![t].phase = phase]
    BY <1>1 DEF StartTurn, StartTurnRejected
  <2>2. \A u \in Turns : /\ turns'[u].chat = turns[u].chat
                        /\ turns'[u].pendingTool = turns[u].pendingTool
                        /\ u # t => turns'[u].phase = turns[u].phase
    BY <2>1, <1>ty DEF RunnerTypeOK, TurnRecord
  <2> QED BY <2>1, <2>2, <1>i, NothingAsked
<1>2. ASSUME NEW t \in Turns, CreateTurnOk(t) PROVE AskInv'
  <2>1. /\ turns[t].pendingTool = NoTool /\ turns[t].chat \in Chats
        /\ turns' = [turns EXCEPT ![t].phase = "streaming"]
        /\ activeTurns' = [activeTurns EXCEPT ![turns[t].chat] = t]
        /\ tools' = tools
    BY <1>2, <1>ty DEF CreateTurnOk, AskInv, UnaskedBefore, Creating, RunnerTypeOK, TurnRecord
  <2>2. PendingIsAsked'
    BY <2>1, <1>ty DEF RunnerTypeOK, TurnRecord, AskInv, PendingIsAsked
  <2>3. UnaskedBefore'
    BY <2>1, <1>ty DEF AskInv, UnaskedBefore, Creating, RunnerTypeOK, TurnRecord
  <2> QED BY <2>2, <2>3, <1>i DEF AskInv
<1>3. ASSUME NEW t \in Turns, CreateTurnFail(t) PROVE AskInv'
  BY <1>3, <1>i, <1>ty, NothingAsked DEF CreateTurnFail, RunnerTypeOK, TurnRecord
<1>4. ASSUME NEW t \in Turns, StreamInit(t) PROVE AskInv'
  BY <1>4, <1>i, <1>ty, NothingAsked DEF StreamInit, RunnerTypeOK, TurnRecord
<1>5. ASSUME NEW t \in Turns, NEW isError \in BOOLEAN, StreamResult(t, isError) PROVE AskInv'
  <2>1. CASE IsCodex(t)
    <3>1. tools' = tools /\ Finally(t, [turns[t] EXCEPT !.harness = "final"])
      BY <1>5, <2>1 DEF StreamResult
    <3> QED BY <3>1, <1>i, <1>ty, NothingAsked DEF Finally, RunnerTypeOK, TurnRecord
  <2>2. CASE ~IsCodex(t)
    BY <1>5, <2>2, <1>i, <1>ty, NothingAsked DEF StreamResult, RunnerTypeOK, TurnRecord
  <2> QED BY <2>1, <2>2
<1>6. ASSUME NEW t \in Turns, StreamEnd(t) PROVE AskInv'
  BY <1>6, <1>i, <1>ty, NothingAsked DEF StreamEnd, Finally, RunnerTypeOK, TurnRecord
<1>7. ASSUME NEW t \in Turns, StreamThrow(t) PROVE AskInv'
  BY <1>7, <1>i, <1>ty, NothingAsked DEF StreamThrow, Finally, RunnerTypeOK, TurnRecord
<1>8. ASSUME NEW t \in Turns, InterruptSettles(t) PROVE AskInv'
  BY <1>8, <1>i, <1>ty, NothingAsked DEF InterruptSettles, RunnerTypeOK, TurnRecord
<1>9. ASSUME NEW t \in Turns, NEW k \in Tools, ToolRequest(t, k) PROVE AskInv'
  <2> DEFINE c == turns[t].chat
             a == activeTurns[c]
  <2>0. Streaming(t) /\ a # NoTurn /\ c \in Chats
    BY <1>9, <1>ty DEF ToolRequest, RunnerTypeOK, TurnRecord
  <2>1. /\ c \in Chats /\ a \in Turns /\ a # NoTurn /\ turns[a].chat = c /\ Streaming(a)
        /\ c \in CodexChats => a = t
    BY <2>0, <1>ty, <1>i DEF RunnerInv, RunnerTypeOK, EntryIsLive, Live, OneTurnPerSession, IsCodex
  <2>2. /\ activeTurns' = activeTurns /\ tools[k].state = "unused"
        /\ turns' = [turns EXCEPT ![a].status = "waiting_for_user", ![a].pendingTool = k]
        /\ tools' = [tools EXCEPT ![k].state = "pending", ![k].owner = t]
    BY <1>9 DEF ToolRequest
  <2>3. \A d \in Chats : d # c => activeTurns[d] # a
    BY <2>1, <1>i DEF RunnerInv, EntryIsLive
  <2>4. /\ turns'[a].pendingTool = k /\ \A u \in Turns : u # a => turns'[u] = turns[u]
        /\ \A u \in Turns : turns'[u].chat = turns[u].chat /\ turns'[u].phase = turns[u].phase
        /\ tools'[k].state = "pending" /\ tools'[k].owner = t
        /\ \A j \in Tools : j # k => tools'[j] = tools[j]
    BY <2>1, <2>2, <1>ty DEF RunnerTypeOK, TurnRecord, ToolRecord
  <2> HIDE DEF a
  <2>5. PendingIsAsked'
    <3> SUFFICES ASSUME NEW d \in Chats, activeTurns'[d] # NoTurn,
                        turns'[activeTurns'[d]].pendingTool # NoTool
                 PROVE  LET j == turns'[activeTurns'[d]].pendingTool IN
                        /\ tools'[j].state = "pending"
                        /\ tools'[j].owner \in Turns /\ turns'[tools'[j].owner].chat = d
                        /\ d \in CodexChats => tools'[j].owner = activeTurns'[d]
      BY DEF PendingIsAsked
    <3>0. activeTurns'[d] = activeTurns[d] /\ activeTurns[d] # NoTurn
      BY <2>2
    <3>1. CASE d = c
      BY ZenonT(40), <3>1, <2>1, <2>2, <2>4 DEF a
    <3>2. CASE d # c
      <4>1. activeTurns[d] \in Turns /\ turns'[activeTurns[d]] = turns[activeTurns[d]]
        BY <3>0, <3>2, <2>3, <2>4, <1>ty DEF RunnerTypeOK
      <4> DEFINE j == turns[activeTurns[d]].pendingTool
      <4>2. j \in Tools /\ tools[j].state = "pending" /\ j # k
        BY <3>0, <4>1, <2>2, <1>ty DEF AskInv, PendingIsAsked, RunnerTypeOK, TurnRecord
      <4>3. tools'[j] = tools[j]
        BY <4>2, <2>4
      <4> QED BY <3>0, <4>1, <4>2, <4>3, <2>4 DEF AskInv, PendingIsAsked
    <3> QED BY <3>1, <3>2
  <2>6. UnaskedBefore'
    BY <2>1, <2>4 DEF AskInv, UnaskedBefore, Creating, Streaming
  <2> QED BY <2>5, <2>6, <1>i DEF AskInv
<1>10. ASSUME NEW c \in Chats, NEW k \in Tools, NEW clear \in BOOLEAN, RespondTool(c, k, clear)
       PROVE  AskInv'
  <2> DEFINE a == activeTurns[c]
  <2>1. a \in Turns /\ a # NoTurn /\ turns[a].chat = c /\ turns[a].pendingTool = k /\ Streaming(a)
    BY <1>10, <1>ty, <1>i DEF RespondTool, RunnerInv, RunnerTypeOK, EntryIsLive, Live
  <2>2. /\ \A d \in Chats : d # c => activeTurns'[d] = activeTurns[d]
        /\ activeTurns'[c] \in {a, NoTurn}
        /\ turns'[a].pendingTool = NoTool
        /\ \A u \in Turns : u # a => turns'[u] = turns[u]
        /\ \A u \in Turns : turns'[u].chat = turns[u].chat
        /\ \A j \in Tools : j # k => tools'[j] = tools[j]
    <3>1. CASE IsPlan(k) /\ IsCodex(a)
      <4>1. /\ turns' = [turns EXCEPT ![a] = [FreshTurn(c) EXCEPT !.isFollowUp = TRUE]]
            /\ activeTurns' = [activeTurns EXCEPT ![c] = NoTurn]
            /\ tools' = [tools EXCEPT ![k].state = "answered"]
        BY <1>10, <3>1 DEF RespondTool
      <4>2. /\ [FreshTurn(c) EXCEPT !.isFollowUp = TRUE].chat = c
            /\ [FreshTurn(c) EXCEPT !.isFollowUp = TRUE].pendingTool = NoTool
        BY DEF FreshTurn
      <4> QED BY <2>1, <4>1, <4>2, <1>ty DEF RunnerTypeOK
    <3>2. CASE ~(IsPlan(k) /\ IsCodex(a))
      BY <1>10, <2>1, <3>2, <1>ty DEF RespondTool, RunnerTypeOK, TurnRecord
    <3> QED BY <3>1, <3>2
  <2> HIDE DEF a
  <2>3. PendingIsAsked'
    <3> SUFFICES ASSUME NEW d \in Chats, activeTurns'[d] # NoTurn,
                        turns'[activeTurns'[d]].pendingTool # NoTool
                 PROVE  LET j == turns'[activeTurns'[d]].pendingTool IN
                        /\ tools'[j].state = "pending"
                        /\ tools'[j].owner \in Turns /\ turns'[tools'[j].owner].chat = d
                        /\ d \in CodexChats => tools'[j].owner = activeTurns'[d]
      BY DEF PendingIsAsked
    <3>1. d # c /\ activeTurns'[d] = activeTurns[d]
      BY <2>2
    <3>2. activeTurns[d] \in Turns /\ turns'[activeTurns[d]] = turns[activeTurns[d]]
      BY <3>1, <2>1, <2>2, <1>ty, <1>i DEF RunnerTypeOK, RunnerInv, EntryIsLive
    <3> DEFINE j == turns[activeTurns[d]].pendingTool
    <3>3. j \in Tools /\ turns[tools[j].owner].chat = d
      BY <3>1, <3>2, <1>ty DEF AskInv, PendingIsAsked, RunnerTypeOK, TurnRecord
    <3>4. turns[tools[k].owner].chat = c
      BY <2>1, <1>n DEF AskInv, PendingIsAsked, a
    <3>5. tools'[j] = tools[j]
      BY <3>1, <3>3, <3>4, <2>2
    <3> QED BY <3>1, <3>2, <3>3, <3>5, <2>2 DEF AskInv, PendingIsAsked
  <2>4. UnaskedBefore'
    BY <2>2 DEF AskInv, UnaskedBefore, Creating
  <2> QED BY <2>3, <2>4, <1>i DEF AskInv
<1>11. ASSUME NEW c \in Chats, Cancel(c) PROVE AskInv'
  <2> DEFINE a == activeTurns[c]
             k == turns[a].pendingTool
  <2>1. a \in Turns /\ a # NoTurn /\ turns[a].chat = c
    BY <1>11, <1>ty, <1>i DEF Cancel, RunnerInv, RunnerTypeOK, EntryIsLive
  <2>2. /\ \A d \in Chats : activeTurns'[d] = IF d = c THEN NoTurn ELSE activeTurns[d]
        /\ turns'[a].pendingTool = NoTool
        /\ \A u \in Turns : u # a => turns'[u] = turns[u]
        /\ \A u \in Turns : turns'[u].chat = turns[u].chat
        /\ \A j \in Tools : j # k \/ k = NoTool => tools'[j] = tools[j]
    BY <1>11, <2>1, <1>ty DEF Cancel, RunnerTypeOK, TurnRecord
  <2>3. k # NoTool => turns[tools[k].owner].chat = c
    BY <2>1 DEF AskInv, PendingIsAsked
  <2> HIDE DEF a, k
  <2>4. PendingIsAsked'
    <3> SUFFICES ASSUME NEW d \in Chats, activeTurns'[d] # NoTurn,
                        turns'[activeTurns'[d]].pendingTool # NoTool
                 PROVE  LET j == turns'[activeTurns'[d]].pendingTool IN
                        /\ tools'[j].state = "pending"
                        /\ tools'[j].owner \in Turns /\ turns'[tools'[j].owner].chat = d
                        /\ d \in CodexChats => tools'[j].owner = activeTurns'[d]
      BY DEF PendingIsAsked
    <3>1. d # c /\ activeTurns'[d] = activeTurns[d]
      BY <2>2
    <3>2. activeTurns[d] \in Turns /\ turns'[activeTurns[d]] = turns[activeTurns[d]]
      BY <3>1, <2>1, <2>2, <1>ty, <1>i DEF RunnerTypeOK, RunnerInv, EntryIsLive
    <3> DEFINE j == turns[activeTurns[d]].pendingTool
    <3>3. j \in Tools /\ turns[tools[j].owner].chat = d
      BY <3>1, <3>2, <1>ty DEF AskInv, PendingIsAsked, RunnerTypeOK, TurnRecord
    <3>5. tools'[j] = tools[j]
      BY <3>1, <3>3, <2>3, <2>2
    <3> QED BY <3>1, <3>2, <3>3, <3>5, <2>2 DEF AskInv, PendingIsAsked
  <2>5. UnaskedBefore'
    BY <2>2 DEF AskInv, UnaskedBefore, Creating
  <2> QED BY <2>4, <2>5, <1>i DEF AskInv
<1>12. CASE UNCHANGED runnerVars
  BY <1>12, <1>i, NothingAsked DEF runnerVars
<1> QED
  BY <1>1, <1>2, <1>3, <1>4, <1>5, <1>6, <1>7, <1>8, <1>9, <1>10, <1>11, <1>12 DEF RunnerNext

\* Whatever the order of requests, answers, cancels and follow-ups, the request that an
\* answer settles is one that a harness of the chat waits on.
THEOREM AnswersReachAskers == RunnerSpec => []AnswerReachesAsker
<1>1. AskInv => AnswerReachesAsker
  BY RunnerConstants DEF AskInv, PendingIsAsked, AnswerReachesAsker
<1> QED BY <1>1, AskInit, AskStep, PTL DEF RunnerSpec

-----------------------------------------------------------------------------
(* What the log says *)

\* An outcome of t; the start of t; an event that tells the status of c.
IsVerdict(e, t) == e.by = t /\ e.type \in Terminal
IsStart(e, t)   == e.by = t /\ e.type = "status_change"
IsMark(e, c)    == e.chat = c /\ e.type \in Terminal \cup {"status_change"}
\* The status an event of the log stands for.
MarkedStatus(e) == IF e.type = "status_change" THEN e.arg ELSE "idle"

NoVerdict(s, t)  == \A i \in DOMAIN s : ~IsVerdict(s[i], t)
\* The log s judges t once at most.
FewVerdicts(s, t) == \A i, j \in DOMAIN s : IsVerdict(s[i], t) /\ IsVerdict(s[j], t) => i = j
IsBegun(s, t)    == \E i \in DOMAIN s : IsStart(s[i], t)

\* Whoever held a chat for being in the state "before" holds it for "now" after s.
Tells(s, c, before, now) ==
    \/ now = before /\ \A i \in DOMAIN s : ~IsMark(s[i], c)
    \/ \E i \in DOMAIN s : /\ IsMark(s[i], c) /\ now = MarkedStatus(s[i])
                           /\ \A j \in DOMAIN s : IsMark(s[j], c) => j <= i

\* The positions of a log that was added to.
LEMMA AddedTo ==
    ASSUME NEW s \in Seq(Event), NEW more \in Seq(Event)
    PROVE  /\ s \o more \in Seq(Event)
           /\ \A i \in DOMAIN s : i \in DOMAIN (s \o more) /\ (s \o more)[i] = s[i]
           /\ \A i \in DOMAIN more : /\ Len(s) + i \in DOMAIN (s \o more)
                                     /\ (s \o more)[Len(s) + i] = more[i]
           /\ \A i \in DOMAIN (s \o more) : i \in DOMAIN s \/ \E j \in DOMAIN more : i = Len(s) + j
           /\ \A i \in DOMAIN s : i <= Len(s)
           /\ \A i \in DOMAIN more : i \in Nat \ {0}
           /\ Len(s) \in Nat
<1>1. /\ Len(s) \in Nat /\ DOMAIN s = 1..Len(s)
      /\ Len(more) \in Nat /\ DOMAIN more = 1..Len(more)
  OBVIOUS
<1>2. DOMAIN (s \o more) = 1..(Len(s) + Len(more)) /\ s \o more \in Seq(Event)
  OBVIOUS
<1>3. \A i \in 1..Len(s) : (s \o more)[i] = s[i]
  OBVIOUS
<1>4. \A i \in 1..Len(more) : (s \o more)[Len(s) + i] = more[i]
  OBVIOUS
<1>5. \A i \in 1..(Len(s) + Len(more)) : i \in 1..Len(s) \/ \E j \in 1..Len(more) : i = Len(s) + j
  <2> SUFFICES ASSUME NEW i \in 1..(Len(s) + Len(more)), i \notin 1..Len(s)
               PROVE  \E j \in 1..Len(more) : i = Len(s) + j
    OBVIOUS
  <2>1. i - Len(s) \in 1..Len(more) /\ i = Len(s) + (i - Len(s))
    BY <1>1
  <2> QED BY <2>1
<1>6. \A i \in 1..Len(more) : Len(s) + i \in 1..(Len(s) + Len(more))
  BY <1>1
<1>7. \A i \in 1..Len(s) : i \in 1..(Len(s) + Len(more)) /\ i <= Len(s)
  BY <1>1
<1>8. \A i \in 1..Len(more) : i \in Nat \ {0}
  OBVIOUS
<1> DEFINE all == s \o more
<1> HIDE DEF all
<1> QED BY <1>1, <1>2, <1>3, <1>4, <1>5, <1>6, <1>7, <1>8, Zenon DEF all

\* Outcomes and starts of a longer log.
LEMMA VerdictsAdded ==
    ASSUME NEW s \in Seq(Event), NEW more \in Seq(Event), NEW t
    PROVE  /\ NoVerdict(s \o more, t) <=> NoVerdict(s, t) /\ NoVerdict(more, t)
           /\ IsBegun(s \o more, t) <=> IsBegun(s, t) \/ IsBegun(more, t)
           /\ NoVerdict(s, t) /\ FewVerdicts(more, t) => FewVerdicts(s \o more, t)
           /\ FewVerdicts(s, t) /\ NoVerdict(more, t) => FewVerdicts(s \o more, t)
<1> DEFINE all == s \o more
<1>a. /\ \A i \in DOMAIN s : i \in DOMAIN all /\ all[i] = s[i]
      /\ \A i \in DOMAIN more : Len(s) + i \in DOMAIN all /\ all[Len(s) + i] = more[i]
      /\ \A i \in DOMAIN all : i \in DOMAIN s \/ \E j \in DOMAIN more : i = Len(s) + j
  BY AddedTo
<1> HIDE DEF all
<1>1. NoVerdict(all, t) <=> NoVerdict(s, t) /\ NoVerdict(more, t)
  BY <1>a DEF NoVerdict
<1>2. IsBegun(all, t) <=> IsBegun(s, t) \/ IsBegun(more, t)
  BY <1>a DEF IsBegun
<1>3. NoVerdict(s, t) /\ FewVerdicts(more, t) => FewVerdicts(all, t)
  BY <1>a DEF NoVerdict, FewVerdicts
<1>4. FewVerdicts(s, t) /\ NoVerdict(more, t) => FewVerdicts(all, t)
  BY <1>a DEF NoVerdict, FewVerdicts
<1> QED BY <1>1, <1>2, <1>3, <1>4 DEF all

\* What is published about other chats says nothing of c, and else the last mark counts.
LEMMA MarksAdded ==
    ASSUME NEW s \in Seq(Event), NEW more \in Seq(Event), NEW c, NEW before, NEW now,
           Tells(s, c, before, now)
    PROVE  /\ (\A i \in DOMAIN more : ~IsMark(more[i], c)) => Tells(s \o more, c, before, now)
           /\ \A k \in DOMAIN more :
                 (IsMark(more[k], c) /\ \A i \in DOMAIN more : IsMark(more[i], c) => i <= k)
                 => Tells(s \o more, c, before, MarkedStatus(more[k]))
<1> DEFINE all == s \o more
<1>a. /\ \A i \in DOMAIN s : i \in DOMAIN all /\ all[i] = s[i] /\ i <= Len(s) /\ i \in Nat
      /\ \A i \in DOMAIN more : Len(s) + i \in DOMAIN all /\ all[Len(s) + i] = more[i] /\ i \in Nat \ {0}
      /\ \A i \in DOMAIN all : i \in DOMAIN s \/ \E j \in DOMAIN more : i = Len(s) + j
      /\ Len(s) \in Nat
  BY AddedTo
<1> HIDE DEF all
<1>1. ASSUME \A i \in DOMAIN more : ~IsMark(more[i], c) PROVE Tells(all, c, before, now)
  BY ZenonT(40), <1>1, <1>a DEF Tells
<1>2. ASSUME NEW k \in DOMAIN more, IsMark(more[k], c),
             \A i \in DOMAIN more : IsMark(more[i], c) => i <= k
      PROVE  Tells(all, c, before, MarkedStatus(more[k]))
  BY <1>2, <1>a DEF Tells
<1> QED BY <1>1, <1>2 DEF all

\* The end of the log is what LoggedStatus chooses.
LEMMA ToldIsLogged ==
    ASSUME events \in Seq(Event), NEW c, NEW now, Tells(events, c, "idle", now)
    PROVE  LoggedStatus(c) = now
<1> DEFINE marks == {i \in DOMAIN events : events[i].chat = c /\ events[i].type \in Terminal \cup {"status_change"}}
<1>0. marks = {i \in DOMAIN events : IsMark(events[i], c)} /\ \A i \in DOMAIN events : i \in Nat
  BY DEF IsMark
<1>1. CASE marks = {}
  BY <1>0, <1>1 DEF Tells, LoggedStatus
<1>2. CASE marks # {}
  BY <1>0, <1>2 DEF Tells, LoggedStatus, MarkedStatus, Terminal
<1> QED BY <1>1, <1>2

-----------------------------------------------------------------------------
(* What a turn of Codex is, from phase to phase *)

\* Before it is read a turn is as it was made, and only an open Codex stream is read.
CodexHarness ==
    \A t \in Turns :
        /\ turns[t].phase = "unused" => ~turns[t].isFollowUp
        /\ turns[t].phase = "unused" \/ Creating(t) =>
              turns[t].harness = "opening" /\ turns[t].status = "starting"
        /\ IsCodex(t) /\ Streaming(t) =>
              turns[t].harness \in {"opening", "open"} /\ ~turns[t].cancelRequested

\* All turns are as they are made.
LEMMA HarnessInit == RunnerInit => CodexHarness
<1> SUFFICES ASSUME RunnerInit, NEW t \in Turns
             PROVE  /\ turns[t].phase = "unused" /\ ~turns[t].isFollowUp
                    /\ turns[t].harness = "opening" /\ turns[t].status = "starting"
  BY DEF CodexHarness, Streaming
<1>1. PICK c \in Chats : turns[t] = [FreshTurn(c) EXCEPT !.phase = "unused"]
  BY DEF RunnerInit
<1> QED BY <1>1 DEF FreshTurn

\* A Codex stream ends in the step that makes it final or cancels it.
LEMMA HarnessStep == RunnerInv /\ CodexHarness /\ [RunnerNext]_runnerVars => CodexHarness'
<1> SUFFICES ASSUME RunnerInv, CodexHarness, [RunnerNext]_runnerVars PROVE CodexHarness'
  OBVIOUS
<1>ty. RunnerTypeOK
  BY DEF RunnerInv
<1> USE DEF Streaming, Creating, IsCodex
<1>o. ASSUME NEW t \in Turns, NEW r, turns' = [turns EXCEPT ![t] = r], r.chat = turns[t].chat,
             r.phase = "unused" => ~r.isFollowUp,
             r.phase \in {"unused", "creating"} => r.harness = "opening" /\ r.status = "starting",
             (r.chat \in CodexChats /\ r.phase = "streaming")
                => (r.harness \in {"opening", "open"} /\ ~r.cancelRequested)
      PROVE  CodexHarness'
  BY <1>o, <1>ty DEF RunnerTypeOK, CodexHarness
<1>r. \A t \in Turns : turns[t] \in TurnRecord
  BY <1>ty DEF RunnerTypeOK
<1>1. ASSUME NEW t \in Turns, NEW append \in BOOLEAN,
             StartTurn(t, append) \/ StartTurnRejected(t, append)
      PROVE  CodexHarness'
  BY <1>1, <1>r, <1>o DEF StartTurn, StartTurnRejected, CodexHarness, TurnRecord
<1>2. ASSUME NEW t \in Turns, CreateTurnOk(t) \/ CreateTurnFail(t) PROVE CodexHarness'
  BY <1>2, <1>r, <1>o DEF CreateTurnOk, CreateTurnFail, RunnerInv, CreatingHasNoEntry, CodexHarness, TurnRecord
<1>3. ASSUME NEW t \in Turns, StreamInit(t) PROVE CodexHarness'
  <2> DEFINE r == [turns[t] EXCEPT
                     !.harness = "open",
                     !.status  = IF turns[t].cancelRequested THEN turns[t].status ELSE "running"]
  <2>1. turns[t].phase = "streaming" /\ turns' = [turns EXCEPT ![t] = r]
    BY <1>3 DEF StreamInit
  <2>2. /\ r.chat = turns[t].chat /\ r.phase = "streaming" /\ r.harness = "open"
        /\ r.cancelRequested = turns[t].cancelRequested
    BY <1>r, <2>1 DEF TurnRecord
  <2> HIDE DEF r
  <2> QED BY <1>o, <2>1, <2>2 DEF CodexHarness
<1>4. ASSUME NEW t \in Turns, NEW isError \in BOOLEAN, StreamResult(t, isError) PROVE CodexHarness'
  <2> DEFINE r == [turns[t] EXCEPT !.harness = "final"]
  <2>1. /\ turns[t].phase = "streaming"
        /\ IF IsCodex(t) THEN turns' = [turns EXCEPT ![t] = [r EXCEPT !.phase = "ended"]]
           ELSE turns' = [turns EXCEPT ![t] = r]
    BY <1>4 DEF StreamResult, Finally
  <2>2. /\ r.chat = turns[t].chat /\ r.phase = "streaming"
        /\ [r EXCEPT !.phase = "ended"].chat = turns[t].chat
        /\ [r EXCEPT !.phase = "ended"].phase = "ended"
    BY <1>r, <2>1 DEF TurnRecord
  <2> HIDE DEF r
  <2> QED BY <1>o, <2>1, <2>2
<1>5. ASSUME NEW t \in Turns, StreamEnd(t) \/ StreamThrow(t) PROVE CodexHarness'
  BY <1>5, <1>r, <1>o DEF StreamEnd, StreamThrow, Finally, TurnRecord
<1>6. ASSUME NEW t \in Turns, InterruptSettles(t) PROVE CodexHarness'
  BY <1>6, <1>r, <1>o DEF InterruptSettles, CodexHarness, TurnRecord
<1>7. ASSUME NEW t \in Turns, NEW k \in Tools, ToolRequest(t, k) PROVE CodexHarness'
  <2> DEFINE a == activeTurns[turns[t].chat]
             r == [turns[a] EXCEPT !.status = "waiting_for_user", !.pendingTool = k]
  <2>1. a \in Turns /\ turns[a].phase = "streaming" /\ turns' = [turns EXCEPT ![a] = r]
    BY <1>7, <1>r, <1>ty DEF ToolRequest, RunnerInv, RunnerTypeOK, EntryIsLive, Live, TurnRecord
  <2>2. /\ r.chat = turns[a].chat /\ r.phase = "streaming" /\ r.harness = turns[a].harness
        /\ r.cancelRequested = turns[a].cancelRequested
    BY <1>r, <2>1 DEF TurnRecord
  <2> HIDE DEF r, a
  <2> QED BY <1>o, <2>1, <2>2 DEF CodexHarness
<1>8. ASSUME NEW c \in Chats, NEW k \in Tools, NEW clear \in BOOLEAN, RespondTool(c, k, clear)
      PROVE  CodexHarness'
  <2> DEFINE a == activeTurns[c]
             f == [FreshTurn(c) EXCEPT !.isFollowUp = TRUE]
             r == [turns[a] EXCEPT !.pendingTool = NoTool, !.status = "running"]
  <2>1. /\ a \in Turns /\ turns[a].phase = "streaming" /\ turns[a].chat = c
        /\ turns' = [turns EXCEPT ![a] = f] \/ turns' = [turns EXCEPT ![a] = r]
    BY <1>8, <1>ty DEF RespondTool, RunnerInv, RunnerTypeOK, EntryIsLive, Live
  <2>2. /\ r.chat = turns[a].chat /\ r.phase = "streaming" /\ r.harness = turns[a].harness
        /\ r.cancelRequested = turns[a].cancelRequested
        /\ f.chat = c /\ f.phase = "creating" /\ f.harness = "opening" /\ f.status = "starting"
    BY <1>r, <2>1 DEF TurnRecord, FreshTurn
  <2> HIDE DEF r, a, f
  <2> QED BY <1>o, <2>1, <2>2 DEF CodexHarness
<1>9. ASSUME NEW c \in Chats, Cancel(c) PROVE CodexHarness'
  <2> DEFINE a == activeTurns[c]
             r == [turns[a] EXCEPT
                     !.cancelRequested = TRUE,
                     !.pendingTool     = NoTool,
                     !.phase           = IF IsCodex(a) THEN "ended" ELSE turns[a].phase]
  <2>1. a \in Turns /\ turns[a].phase = "streaming" /\ turns' = [turns EXCEPT ![a] = r]
    BY <1>9, <1>ty DEF Cancel, RunnerInv, RunnerTypeOK, EntryIsLive, Live
  <2>2. /\ r.chat = turns[a].chat /\ r.phase \in {"streaming", "ended"}
        /\ r.phase = "streaming" => r.chat \notin CodexChats
    BY <1>r, <2>1 DEF TurnRecord
  <2> HIDE DEF r, a
  <2> QED BY <1>o, <2>1, <2>2
<1>10. CASE UNCHANGED runnerVars
  BY <1>10 DEF runnerVars, CodexHarness
<1> QED
  BY <1>1, <1>2, <1>3, <1>4, <1>5, <1>6, <1>7, <1>8, <1>9, <1>10 DEF RunnerNext

-----------------------------------------------------------------------------
(* One outcome for each turn of Codex *)

\* How far the log is with t.
Fits(t) ==
    /\ turns[t].phase = "unused" => NoVerdict(events, t) /\ ~IsBegun(events, t)
    /\ Creating(t) => NoVerdict(events, t) /\ (IsBegun(events, t) <=> turns[t].isFollowUp)
    /\ Streaming(t) => NoVerdict(events, t) /\ IsBegun(events, t)
    /\ turns[t].phase = "ended" => /\ FewVerdicts(events, t)
                                   /\ IsBegun(events, t) <=> ~NoVerdict(events, t)

\* The log and the state of every codex turn fit together.
VerdictsFit == \A t \in Turns : IsCodex(t) => Fits(t)

\* What a step publishes: the events of one turn, about its chat.
Publishes(u, evs) ==
    /\ evs \in Seq(Event) /\ Publish(evs)
    /\ \A i \in DOMAIN evs : evs[i].by = u /\ evs[i].chat = turns[u].chat

\* The other turns stay as they are, and so does what the log says of them.
LEMMA OneTurnFits ==
    ASSUME RunnerTypeOK, VerdictsFit, NEW u \in Turns, NEW evs, Publishes(u, evs),
           \A t \in Turns : turns'[t].chat = turns[t].chat,
           \A t \in Turns : t # u => turns'[t].phase = turns[t].phase
                                     /\ turns'[t].isFollowUp = turns[t].isFollowUp,
           IsCodex(u) => Fits(u)'
    PROVE  VerdictsFit'
<1> SUFFICES ASSUME NEW t \in Turns, IsCodex(t)', t # u PROVE Fits(t)'
  BY DEF VerdictsFit, IsCodex
<1>1. IsCodex(t) /\ Fits(t)
  BY DEF VerdictsFit, IsCodex
<1>2. NoVerdict(evs, t) /\ ~IsBegun(evs, t)
  BY DEF Publishes, NoVerdict, IsBegun, IsVerdict, IsStart
<1>3. events \in Seq(Event) /\ evs \in Seq(Event) /\ events' = events \o evs
  BY DEF RunnerTypeOK, Publishes, Publish
<1>4. /\ NoVerdict(events', t) <=> NoVerdict(events, t)
      /\ IsBegun(events', t) <=> IsBegun(events, t)
      /\ FewVerdicts(events, t) => FewVerdicts(events', t)
  BY <1>2, <1>3, VerdictsAdded
<1> QED BY <1>1, <1>4 DEF Fits, Creating, Streaming

\* A turn that has no outcome has at most one.
LEMMA NoneIsFew == \A s, t : NoVerdict(s, t) => FewVerdicts(s, t)
BY DEF NoVerdict, FewVerdicts

\* What the log says of the turn that published.
LEMMA TurnFits ==
    ASSUME RunnerTypeOK, NEW u \in Turns, NEW evs, Publishes(u, evs)
    PROVE  /\ NoVerdict(events', u) <=> NoVerdict(events, u) /\ NoVerdict(evs, u)
           /\ IsBegun(events', u) <=> IsBegun(events, u) \/ IsBegun(evs, u)
           /\ NoVerdict(events, u) /\ FewVerdicts(evs, u) => FewVerdicts(events', u)
           /\ FewVerdicts(events, u) /\ NoVerdict(evs, u) => FewVerdicts(events', u)
BY VerdictsAdded DEF RunnerTypeOK, Publishes, Publish

\* The inductive invariant behind the verdicts.
VerdictInv == RunnerInv /\ CodexHarness /\ VerdictsFit

\* It holds before any turn.
LEMMA VerdictInit == RunnerInit => VerdictInv
<1> SUFFICES ASSUME RunnerInit PROVE VerdictInv
  OBVIOUS
<1>1. ASSUME NEW t \in Turns PROVE turns[t].phase = "unused"
  <2>1. PICK c \in Chats : turns[t] = [FreshTurn(c) EXCEPT !.phase = "unused"]
    BY DEF RunnerInit
  <2> QED BY <2>1 DEF FreshTurn
<1>2. events = <<>>
  BY DEF RunnerInit
<1>3. \A t \in Turns : Fits(t)
  BY <1>1, <1>2 DEF Fits, Creating, Streaming, NoVerdict, IsBegun
<1> QED BY <1>3, InvInit, HarnessInit DEF VerdictInv, VerdictsFit

\* Each handler publishes an outcome when it ends the turn and at no other time.
LEMMA VerdictStep == VerdictInv /\ [RunnerNext]_runnerVars => VerdictInv'
<1> SUFFICES ASSUME VerdictInv, [RunnerNext]_runnerVars PROVE VerdictsFit'
  BY InvStep, HarnessStep DEF VerdictInv
<1>ty. RunnerTypeOK /\ RunnerTypeOK' /\ CodexHarness /\ VerdictsFit
  BY InvStep DEF VerdictInv, RunnerInv
<1>ev. \A t \in Turns, type \in EventTypes, arg \in EventArgs :
          /\ Ev(t, type, arg) \in Event /\ Ev(t, type, arg).by = t
          /\ Ev(t, type, arg).chat = turns[t].chat /\ Ev(t, type, arg).type = type
  BY <1>ty, EvType DEF Ev, RunnerTypeOK
<1>no. \A t \in Turns : Publish(<<>>) => Publishes(t, <<>>)
  BY DEF Publishes
<1>un. ASSUME NEW t \in Turns, UNCHANGED events PROVE Publishes(t, <<>>)
  BY <1>un, <1>ty DEF Publishes, Publish, RunnerTypeOK
<1>nil. \A t \in Turns : NoVerdict(<<>>, t) /\ ~IsBegun(<<>>, t)
  BY DEF NoVerdict, IsBegun
<1>nf. \A t \in Turns : NoVerdict(<<>>, t) /\ FewVerdicts(<<>>, t) /\ ~IsBegun(<<>>, t)
  BY <1>nil, NoneIsFew
<1>1. ASSUME NEW t \in Turns, NEW append \in BOOLEAN,
             StartTurn(t, append) \/ StartTurnRejected(t, append)
      PROVE  VerdictsFit'
  <2> DEFINE evs == IF append THEN <<Entry(t, "user_prompt")>> ELSE <<>>
  <2>1. /\ turns[t].phase = "unused"
        /\ \/ turns' = [turns EXCEPT ![t].phase = "creating"]
           \/ turns' = [turns EXCEPT ![t].phase = "ended"]
        /\ Publish(evs) \/ UNCHANGED events
    BY <1>1 DEF StartTurn, StartTurnRejected, Prompt
  <2>2. /\ evs \in Seq(Event) /\ NoVerdict(evs, t) /\ ~IsBegun(evs, t)
        /\ \A i \in DOMAIN evs : evs[i].by = t /\ evs[i].chat = turns[t].chat
    BY <1>ev DEF Entry, EventTypes, EventArgs, NoVerdict, IsBegun, IsVerdict, IsStart, Terminal
  <2> HIDE DEF evs
  <2>3. PICK more : Publishes(t, more) /\ NoVerdict(more, t) /\ ~IsBegun(more, t)
    BY <2>1, <2>2, <1>un, <1>nil DEF Publishes
  <2>4. /\ \A u \in Turns : turns'[u].chat = turns[u].chat
        /\ \A u \in Turns : turns'[u].isFollowUp = turns[u].isFollowUp
        /\ \A u \in Turns : u # t => turns'[u].phase = turns[u].phase
        /\ turns'[t].phase \in {"creating", "ended"}
    <3>1. CASE turns' = [turns EXCEPT ![t].phase = "creating"]
      BY <3>1, <1>ty DEF RunnerTypeOK, TurnRecord
    <3>2. CASE turns' = [turns EXCEPT ![t].phase = "ended"]
      BY <3>2, <1>ty DEF RunnerTypeOK, TurnRecord
    <3> QED BY <2>1, <3>1, <3>2
  <2>n. ASSUME IsCodex(t) PROVE NoVerdict(events, t) /\ ~IsBegun(events, t) /\ ~turns'[t].isFollowUp
    BY <2>n, <2>1, <2>4, <1>ty DEF VerdictsFit, Fits, CodexHarness
  <2>m. ASSUME IsCodex(t) PROVE NoVerdict(events', t) /\ FewVerdicts(events', t) /\ ~IsBegun(events', t)
    BY <2>n, <2>m, <2>3, <1>ty, TurnFits, NoneIsFew
  <2>5. IsCodex(t) => Fits(t)'
    BY <2>m, <2>n, <2>4 DEF Fits, Creating, Streaming
  <2> QED BY <2>3, <2>4, <2>5, <1>ty, OneTurnFits
<1>2. ASSUME NEW t \in Turns, CreateTurnOk(t) PROVE VerdictsFit'
  <2> DEFINE evs == <<Ev(t, "status_change", "starting")>>
  <2>1. Creating(t) /\ turns' = [turns EXCEPT ![t].phase = "streaming"] /\ Publish(evs)
    BY <1>2 DEF CreateTurnOk, Creating
  <2>2. NoVerdict(evs, t) /\ IsBegun(evs, t) /\ Publishes(t, evs)
    BY <2>1, <1>ev DEF EventTypes, EventArgs, Status, NoVerdict, IsBegun, IsVerdict, IsStart, Terminal, Publishes
  <2> HIDE DEF evs
  <2>4. /\ \A u \in Turns : turns'[u].chat = turns[u].chat /\ turns'[u].isFollowUp = turns[u].isFollowUp
        /\ \A u \in Turns : u # t => turns'[u].phase = turns[u].phase
        /\ turns'[t].phase = "streaming"
    BY <2>1, <1>ty DEF RunnerTypeOK, TurnRecord
  <2>5. IsCodex(t) => Fits(t)'
    BY <2>1, <2>2, <2>4, <1>ty, TurnFits DEF VerdictsFit, Fits, Creating, Streaming
  <2> QED BY <2>2, <2>4, <2>5, <1>ty, OneTurnFits
<1>3. ASSUME NEW t \in Turns, CreateTurnFail(t) PROVE VerdictsFit'
  <2> DEFINE said == <<Entry(t, "result"), Ev(t, "turn_failed", "none")>>
             evs  == IF turns[t].isFollowUp THEN said ELSE <<>>
  <2>1. Creating(t) /\ turns' = [turns EXCEPT ![t].phase = "ended"] /\ Publish(evs)
    BY <1>3 DEF CreateTurnFail, Creating
  <2>2. /\ said \in Seq(Event) /\ FewVerdicts(said, t) /\ ~NoVerdict(said, t) /\ ~IsBegun(said, t)
        /\ \A i \in DOMAIN said : said[i].by = t /\ said[i].chat = turns[t].chat
    BY <1>ev DEF Entry, EventTypes, EventArgs, NoVerdict, FewVerdicts, IsBegun, IsVerdict, IsStart, Terminal
  <2> HIDE DEF said
  <2>3. /\ Publishes(t, evs) /\ FewVerdicts(evs, t) /\ ~IsBegun(evs, t)
        /\ NoVerdict(evs, t) <=> ~turns[t].isFollowUp
    BY <2>1, <2>2, <1>nf, <1>ty DEF Publishes, RunnerTypeOK, TurnRecord
  <2> HIDE DEF evs
  <2>4. /\ \A u \in Turns : turns'[u].chat = turns[u].chat /\ turns'[u].isFollowUp = turns[u].isFollowUp
        /\ \A u \in Turns : u # t => turns'[u].phase = turns[u].phase
        /\ turns'[t].phase = "ended"
    BY <2>1, <1>ty DEF RunnerTypeOK, TurnRecord
  <2>5. IsCodex(t) => Fits(t)'
    BY <2>1, <2>3, <2>4, <1>ty, TurnFits DEF VerdictsFit, Fits, Creating, Streaming
  <2> QED BY <2>3, <2>4, <2>5, <1>ty, OneTurnFits
<1>q. ASSUME NEW u \in Turns, NEW evs, Publishes(u, evs), NoVerdict(evs, u),
             \A t \in Turns : /\ turns'[t].chat = turns[t].chat
                              /\ turns'[t].phase = turns[t].phase
                              /\ turns'[t].isFollowUp = turns[t].isFollowUp,
             IsCodex(u) => Streaming(u)
      PROVE  VerdictsFit'
  BY <1>q, <1>ty, TurnFits, OneTurnFits DEF VerdictsFit, Fits, Creating, Streaming
<1>4. ASSUME NEW t \in Turns, StreamInit(t) PROVE VerdictsFit'
  <2> DEFINE said == <<Ev(t, "status_change", "running")>>
             evs  == IF turns[t].cancelRequested THEN <<>> ELSE said
             r    == [turns[t] EXCEPT
                        !.harness = "open",
                        !.status  = IF turns[t].cancelRequested THEN turns[t].status ELSE "running"]
  <2>1. Streaming(t) /\ Publish(evs) /\ turns' = [turns EXCEPT ![t] = r]
    BY <1>4 DEF StreamInit, PublishUnlessCancelled
  <2>2. /\ said \in Seq(Event) /\ NoVerdict(said, t)
        /\ \A i \in DOMAIN said : said[i].by = t /\ said[i].chat = turns[t].chat
    BY <1>ev DEF EventTypes, EventArgs, Status, NoVerdict, IsVerdict, Terminal
  <2>3. r.chat = turns[t].chat /\ r.phase = turns[t].phase /\ r.isFollowUp = turns[t].isFollowUp
    BY <1>ty DEF RunnerTypeOK, TurnRecord
  <2> HIDE DEF said, r
  <2>4. Publishes(t, evs) /\ NoVerdict(evs, t)
    BY <2>1, <2>2, <1>nf DEF Publishes
  <2> HIDE DEF evs
  <2> QED BY <2>1, <2>3, <2>4, <1>q, <1>ty DEF RunnerTypeOK
<1>5. ASSUME NEW t \in Turns, NEW isError \in BOOLEAN, StreamResult(t, isError) PROVE VerdictsFit'
  <2> DEFINE said == <<Entry(t, "result"),
                       Ev(t, IF isError THEN "turn_failed" ELSE "turn_finished", "none")>>
             evs  == IF turns[t].cancelRequested THEN <<>> ELSE said
             r    == [turns[t] EXCEPT !.harness = "final"]
  <2>1. /\ Streaming(t) /\ Publish(evs)
        /\ IF IsCodex(t) THEN turns' = [turns EXCEPT ![t] = [r EXCEPT !.phase = "ended"]]
           ELSE turns' = [turns EXCEPT ![t] = r]
    BY <1>5 DEF StreamResult, PublishUnlessCancelled, Finally
  <2>2. /\ said \in Seq(Event) /\ FewVerdicts(said, t) /\ ~NoVerdict(said, t) /\ ~IsBegun(said, t)
        /\ \A i \in DOMAIN said : said[i].by = t /\ said[i].chat = turns[t].chat
    BY <1>ev DEF Entry, EventTypes, EventArgs, NoVerdict, FewVerdicts, IsBegun, IsVerdict, IsStart, Terminal
  <2>3. /\ r.chat = turns[t].chat /\ r.phase = turns[t].phase /\ r.isFollowUp = turns[t].isFollowUp
        /\ [r EXCEPT !.phase = "ended"].chat = turns[t].chat
        /\ [r EXCEPT !.phase = "ended"].isFollowUp = turns[t].isFollowUp
        /\ [r EXCEPT !.phase = "ended"].phase = "ended"
    BY <1>ty DEF RunnerTypeOK, TurnRecord
  <2> HIDE DEF said, r
  <2>4. /\ Publishes(t, evs)
        /\ IsCodex(t) => FewVerdicts(evs, t) /\ ~NoVerdict(evs, t) /\ ~IsBegun(evs, t)
    BY <2>1, <2>2, <1>ty DEF Publishes, CodexHarness
  <2> HIDE DEF evs
  <2>5. /\ \A u \in Turns : turns'[u].chat = turns[u].chat /\ turns'[u].isFollowUp = turns[u].isFollowUp
        /\ \A u \in Turns : u # t => turns'[u].phase = turns[u].phase
        /\ IsCodex(t) => turns'[t].phase = "ended"
    BY <2>1, <2>3, <1>ty DEF RunnerTypeOK
  <2>6. IsCodex(t) => Fits(t)'
    BY <2>1, <2>4, <2>5, <1>ty, TurnFits DEF VerdictsFit, Fits, Creating, Streaming
  <2> QED BY <2>4, <2>5, <2>6, <1>ty, OneTurnFits
<1>6. ASSUME NEW t \in Turns, StreamEnd(t) \/ StreamThrow(t) PROVE VerdictsFit'
  <2> DEFINE said == <<Entry(t, "result"), Ev(t, "turn_failed", "none")>>
  <2>1. /\ ~IsCodex(t)
        /\ turns' = [turns EXCEPT ![t] = [turns[t] EXCEPT !.phase = "ended"]]
        /\ UNCHANGED events \/ Publish(<<>>) \/ Publish(said)
    BY <1>6, <1>ty DEF StreamEnd, StreamThrow, PublishUnlessCancelled, Finally, CodexHarness
  <2>2. /\ said \in Seq(Event)
        /\ \A i \in DOMAIN said : said[i].by = t /\ said[i].chat = turns[t].chat
    BY <1>ev DEF Entry, EventTypes, EventArgs
  <2> HIDE DEF said
  <2>3. \E evs : Publishes(t, evs)
    BY <2>1, <2>2, <1>un, <1>no DEF Publishes
  <2>4. /\ \A u \in Turns : turns'[u].chat = turns[u].chat /\ turns'[u].isFollowUp = turns[u].isFollowUp
        /\ \A u \in Turns : u # t => turns'[u].phase = turns[u].phase
    BY <2>1, <1>ty DEF RunnerTypeOK, TurnRecord
  <2> QED BY <2>1, <2>3, <2>4, <1>ty, OneTurnFits
<1>7. ASSUME NEW t \in Turns, InterruptSettles(t) PROVE VerdictsFit'
  BY <1>7, <1>ty, <1>un, <1>nf, <1>q DEF InterruptSettles, RunnerTypeOK, TurnRecord
<1>8. ASSUME NEW t \in Turns, NEW k \in Tools, ToolRequest(t, k) PROVE VerdictsFit'
  <2> DEFINE evs == <<Ev(t, "status_change", "waiting_for_user"), Ev(t, "pending_tool", "set")>>
             a   == activeTurns[turns[t].chat]
  <2>1. /\ Streaming(t) /\ Publish(evs)
        /\ turns' = [turns EXCEPT ![a].status = "waiting_for_user", ![a].pendingTool = k]
    BY <1>8 DEF ToolRequest
  <2>2. Publishes(t, evs) /\ NoVerdict(evs, t)
    BY SMTT(20), <2>1, <1>ev DEF EventTypes, EventArgs, Status, NoVerdict, IsVerdict, Terminal, Publishes
  <2> HIDE DEF evs, a
  <2>3. \A u \in Turns : /\ turns'[u].chat = turns[u].chat
                         /\ turns'[u].phase = turns[u].phase
                         /\ turns'[u].isFollowUp = turns[u].isFollowUp
    BY <2>1, <1>ty DEF RunnerTypeOK, TurnRecord
  <2> QED BY <2>1, <2>2, <2>3, <1>q
<1>l. ASSUME NEW c \in Chats, activeTurns[c] # NoTurn
      PROVE  /\ activeTurns[c] \in Turns /\ turns[activeTurns[c]].chat = c
             /\ Streaming(activeTurns[c])
  BY <1>l, <1>ty DEF VerdictInv, RunnerInv, RunnerTypeOK, EntryIsLive, Live
<1>9. ASSUME NEW c \in Chats, NEW k \in Tools, NEW clear \in BOOLEAN, RespondTool(c, k, clear)
      PROVE  VerdictsFit'
  <2>a. activeTurns[c] \in Turns
    BY <1>9, <1>l DEF RespondTool
  <2> PICK a \in Turns : a = activeTurns[c]
    BY <2>a
  <2> DEFINE said == <<Entry(a, "tool_result"), Ev(a, "pending_tool", "none"),
                       Ev(a, "status_change", "running")>>
             more == IF IsPlan(k) /\ clear
                     THEN <<Ev(a, "session_token", "none"), Entry(a, "context_cleared")>>
                     ELSE <<>>
             f    == [FreshTurn(c) EXCEPT !.isFollowUp = TRUE]
             r    == [turns[a] EXCEPT !.pendingTool = NoTool, !.status = "running"]
             evs  == said \o more
  <2>1. /\ a \in Turns /\ turns[a].chat = c /\ Streaming(a) /\ Publish(evs)
        /\ IF IsPlan(k) /\ IsCodex(a) THEN turns' = [turns EXCEPT ![a] = f]
           ELSE turns' = [turns EXCEPT ![a] = r]
    BY <1>9, <1>l DEF RespondTool
  <2>2. /\ r.chat = c /\ r.phase = turns[a].phase /\ r.isFollowUp = turns[a].isFollowUp
        /\ f.chat = c /\ f.phase = "creating" /\ f.isFollowUp
    BY <2>1, <1>ty DEF RunnerTypeOK, TurnRecord, FreshTurn
  <2> HIDE DEF r, f
  <2>3. /\ said \in Seq(Event) /\ NoVerdict(said, a)
        /\ \A i \in DOMAIN said : said[i].by = a /\ said[i].chat = turns[a].chat
    BY <1>ev, <2>1 DEF Entry, EventTypes, EventArgs, Status, NoVerdict, IsVerdict, Terminal
  <2>4. /\ more \in Seq(Event) /\ NoVerdict(more, a)
        /\ \A i \in DOMAIN more : more[i].by = a /\ more[i].chat = turns[a].chat
    BY <1>ev, <2>1 DEF Entry, EventTypes, EventArgs, Status, NoVerdict, IsVerdict, Terminal
  <2> HIDE DEF said, more
  <2>5. evs \in Seq(Event) /\ NoVerdict(evs, a)
    BY <2>3, <2>4, VerdictsAdded
  <2>6. \A i \in DOMAIN evs : evs[i].by = a /\ evs[i].chat = turns[a].chat
    BY <2>3, <2>4, AddedTo
  <2> HIDE DEF evs
  <2>7. Publishes(a, evs)
    BY <2>1, <2>5, <2>6 DEF Publishes
  <2>8. CASE turns' = [turns EXCEPT ![a] = r]
    BY <2>1, <2>2, <2>5, <2>7, <2>8, <1>q, <1>ty DEF RunnerTypeOK
  <2>9. CASE turns' = [turns EXCEPT ![a] = f]
    BY <2>1, <2>9, <1>ty, <2>2, <2>5, <2>7, TurnFits, OneTurnFits DEF RunnerTypeOK, VerdictsFit, Fits, Creating,
       Streaming
  <2> QED BY <2>1, <2>8, <2>9
<1>10. ASSUME NEW c \in Chats, Cancel(c) PROVE VerdictsFit'
  <2>a. activeTurns[c] \in Turns
    BY <1>10, <1>l DEF Cancel
  <2> PICK a \in Turns : a = activeTurns[c]
    BY <2>a
  <2> DEFINE discard == IF turns[a].pendingTool # NoTool THEN <<Entry(a, "tool_result")>> ELSE <<>>
             said    == <<Entry(a, "interrupted"), Ev(a, "turn_cancelled", "none")>>
             r       == [turns[a] EXCEPT
                           !.cancelRequested = TRUE,
                           !.pendingTool     = NoTool,
                           !.phase           = IF IsCodex(a) THEN "ended" ELSE turns[a].phase]
             evs     == discard \o said
  <2>1. /\ a \in Turns /\ turns[a].chat = c /\ Streaming(a) /\ Publish(evs)
        /\ turns' = [turns EXCEPT ![a] = r]
    BY <1>10, <1>l DEF Cancel
  <2>2. /\ r.chat = c /\ r.isFollowUp = turns[a].isFollowUp
        /\ IsCodex(a) => r.phase = "ended"
    BY <2>1, <1>ty DEF RunnerTypeOK, TurnRecord
  <2> HIDE DEF r
  <2>3. /\ said \in Seq(Event) /\ FewVerdicts(said, a) /\ ~NoVerdict(said, a) /\ ~IsBegun(said, a)
        /\ \A i \in DOMAIN said : said[i].by = a /\ said[i].chat = turns[a].chat
    BY <1>ev, <2>1 DEF Entry, EventTypes, EventArgs, NoVerdict, FewVerdicts, IsBegun, IsVerdict, IsStart, Terminal
  <2>4. /\ discard \in Seq(Event) /\ NoVerdict(discard, a) /\ ~IsBegun(discard, a)
        /\ \A i \in DOMAIN discard : discard[i].by = a /\ discard[i].chat = turns[a].chat
    BY <1>ev, <2>1 DEF Entry, EventTypes, EventArgs, NoVerdict, IsBegun, IsVerdict, IsStart, Terminal
  <2> HIDE DEF said, discard
  <2>5. evs \in Seq(Event) /\ FewVerdicts(evs, a) /\ ~NoVerdict(evs, a) /\ ~IsBegun(evs, a)
    BY <2>3, <2>4, VerdictsAdded
  <2>6. \A i \in DOMAIN evs : evs[i].by = a /\ evs[i].chat = turns[a].chat
    BY <2>3, <2>4, AddedTo
  <2> HIDE DEF evs
  <2>7. Publishes(a, evs)
    BY <2>1, <2>5, <2>6 DEF Publishes
  <2>8. turns'[a] = r /\ \A u \in Turns : u # a => turns'[u] = turns[u]
    BY <2>1, <1>ty DEF RunnerTypeOK
  <2>9. IsCodex(a) => Fits(a)'
    BY <2>1, <2>2, <2>5, <2>7, <2>8, <1>ty, TurnFits DEF VerdictsFit, Fits, Creating, Streaming
  <2> QED BY <2>1, <2>2, <2>7, <2>8, <2>9, <1>ty, OneTurnFits
<1>11. CASE UNCHANGED runnerVars
  BY <1>11, <1>ty DEF runnerVars, VerdictsFit, Fits, IsCodex, Creating, Streaming
<1> QED
  BY <1>1, <1>2, <1>3, <1>4, <1>5, <1>6, <1>7, <1>8, <1>9, <1>10, <1>11 DEF RunnerNext

\* A Codex turn that was started gets one of the three outcomes at its end and none
\* before, whatever harness, user and plan follow-ups do.
THEOREM EveryTurnHasOneVerdict == RunnerSpec => []OneVerdict
<1>1. VerdictInv => OneVerdict
  <2> SUFFICES ASSUME VerdictInv, NEW t \in Turns, IsCodex(t)
               PROVE  LET verdicts == {i \in DOMAIN events : events[i].by = t /\ events[i].type \in Terminal}
                          started  == \E i \in DOMAIN events :
                                         events[i].by = t /\ events[i].type = "status_change"
                      IN /\ \A i, j \in verdicts : i = j
                         /\ verdicts # {} <=> (turns[t].phase = "ended" /\ started)
    BY DEF OneVerdict
  <2>1. turns[t].phase \in {"unused", "creating", "streaming", "ended"} /\ Fits(t)
    BY DEF VerdictInv, RunnerInv, RunnerTypeOK, TurnRecord, Phases, VerdictsFit
  <2> DEFINE verdicts == {i \in DOMAIN events : IsVerdict(events[i], t)}
  <2>2. /\ \A i, j \in verdicts : i = j
        /\ verdicts # {} <=> (turns[t].phase = "ended" /\ IsBegun(events, t))
    BY <2>1, NoneIsFew DEF Fits, Creating, Streaming, NoVerdict, FewVerdicts
  <2> QED BY <2>2 DEF IsVerdict, IsBegun, IsStart
<1> QED BY <1>1, VerdictInit, VerdictStep, PTL DEF RunnerSpec

-----------------------------------------------------------------------------
(* The log and the status of a Codex chat *)

\* Between a plan's answer and the turn that follows it up.
HasFollowUp(c) == \E t \in Turns : /\ turns[t].chat = c /\ turns[t].isFollowUp
                                   /\ turns[t].phase = "creating"

\* What StatusPublished wants the log to say.
ChatStatus(c) ==
    IF activeTurns[c] # NoTurn THEN turns[activeTurns[c]].status
    ELSE IF HasFollowUp(c) THEN "running" ELSE "idle"

\* A turn that holds the Codex session of its chat is all there is to the chat.
LEMMA SessionHeld ==
    ASSUME RunnerInv, CodexHarness, NEW t \in Turns, IsCodex(t), Creating(t) \/ Streaming(t)
    PROVE  /\ \A u \in Turns : turns[u].chat = turns[t].chat /\ (Creating(u) \/ Streaming(u)) => u = t
           /\ Creating(t) => activeTurns[turns[t].chat] = NoTurn
           /\ Streaming(t) => /\ activeTurns[turns[t].chat] = t /\ ~turns[t].cancelRequested
                              /\ ~HasFollowUp(turns[t].chat)
<1>1. \A u \in Turns : turns[u].chat = turns[t].chat /\ (Creating(u) \/ Streaming(u)) => u = t
  BY DEF RunnerInv, OneTurnPerSession
<1>2. Creating(t) => activeTurns[turns[t].chat] = NoTurn
  BY DEF RunnerInv, CreatingHasNoEntry
<1>3. ASSUME Streaming(t) PROVE activeTurns[turns[t].chat] = t /\ ~turns[t].cancelRequested
  BY <1>3 DEF RunnerInv, LiveTurnTracked, CodexHarness, Live
<1>4. ASSUME Streaming(t) PROVE ~HasFollowUp(turns[t].chat)
  BY <1>1, <1>4 DEF HasFollowUp, Creating, Streaming
<1> QED BY <1>1, <1>2, <1>3, <1>4

\* A step about another chat.
LEMMA StatusElsewhere ==
    ASSUME RunnerInv, NEW c \in Chats, activeTurns'[c] = activeTurns[c],
           \A t \in Turns : turns[t].chat = c => turns'[t] = turns[t],
           \A t \in Turns : turns[t].chat # c => turns'[t].chat # c
    PROVE  ChatStatus(c)' = ChatStatus(c)
BY DEF RunnerInv, RunnerTypeOK, EntryIsLive, HasFollowUp, ChatStatus

\* A step that publishes no mark, and one whose last mark is the k-th it publishes.
LEMMA ToldStep ==
    ASSUME RunnerTypeOK, NEW c, NEW before, Tells(events, c, before, ChatStatus(c)),
           NEW evs \in Seq(Event), Publish(evs),
           \/ /\ \A i \in DOMAIN evs : ~IsMark(evs[i], c)
              /\ ChatStatus(c)' = ChatStatus(c)
           \/ \E k \in DOMAIN evs :
                 /\ IsMark(evs[k], c) /\ ChatStatus(c)' = MarkedStatus(evs[k])
                 /\ \A i \in DOMAIN evs : IsMark(evs[i], c) => i <= k
    PROVE  Tells(events, c, before, ChatStatus(c))'
<1>1. events' = events \o evs /\ events \in Seq(Event)
  BY DEF Publish, RunnerTypeOK
<1> DEFINE now == ChatStatus(c)
           all == events \o evs
<1>2. PICK then : then = now'
  OBVIOUS
<1>3. Tells(all, c, before, then)
  <2> HIDE DEF now
  <2> QED BY <1>2, <1>1, MarksAdded DEF now
<1> QED BY <1>1, <1>2, <1>3 DEF Tells

\* Whatever the runner does, a reader who knew the status of a Codex chat knows it still.
LEMMA StatusStep ==
    ASSUME RunnerInv, CodexHarness, [RunnerNext]_runnerVars,
           NEW c \in CodexChats, NEW before, Tells(events, c, before, ChatStatus(c))
    PROVE  Tells(events, c, before, ChatStatus(c))'
<1>ty. RunnerTypeOK /\ c \in Chats
  BY RunnerConstants DEF RunnerInv
<1> DEFINE Goal == Tells(events, c, before, ChatStatus(c))'
<1>ev. \A t \in Turns, type \in EventTypes, arg \in EventArgs :
          /\ Ev(t, type, arg) \in Event /\ Ev(t, type, arg).chat = turns[t].chat
          /\ Ev(t, type, arg).type = type /\ Ev(t, type, arg).arg = arg
  BY <1>ty, EvType DEF Ev, RunnerTypeOK
<1>hd. \A t \in Turns : turns[t].chat = c /\ (Creating(t) \/ Streaming(t)) =>
          /\ \A u \in Turns : turns[u].chat = c /\ (Creating(u) \/ Streaming(u)) => u = t
          /\ Creating(t) => activeTurns[c] = NoTurn
          /\ Streaming(t) => activeTurns[c] = t /\ ~turns[t].cancelRequested /\ ~HasFollowUp(c)
  BY SessionHeld DEF IsCodex
<1>other. ASSUME NEW d, d # c, NEW evs \in Seq(Event), Publish(evs),
                 \A i \in DOMAIN evs : evs[i].chat = d,
                 activeTurns'[c] = activeTurns[c],
                 \A t \in Turns : turns[t].chat = c => turns'[t] = turns[t],
                 \A t \in Turns : turns[t].chat # c => turns'[t].chat # c
          PROVE  Goal
  BY <1>other, <1>ty, StatusElsewhere, ToldStep DEF IsMark
<1>quiet. ASSUME UNCHANGED events, ChatStatus(c)' = ChatStatus(c) PROVE Goal
  BY <1>quiet DEF Tells
<1>1. ASSUME NEW t \in Turns, NEW append \in BOOLEAN,
             StartTurn(t, append) \/ StartTurnRejected(t, append)
      PROVE  Goal
  <2> DEFINE evs == IF append THEN <<Entry(t, "user_prompt")>> ELSE <<>>
  <2>1. /\ turns[t].phase = "unused" /\ UNCHANGED activeTurns
        /\ \/ turns' = [turns EXCEPT ![t].phase = "creating"]
           \/ turns' = [turns EXCEPT ![t].phase = "ended"]
        /\ Publish(evs) \/ UNCHANGED events
    BY <1>1 DEF StartTurn, StartTurnRejected, Prompt
  <2>2. /\ evs \in Seq(Event) /\ \A i \in DOMAIN evs : ~IsMark(evs[i], c)
    BY <1>ev DEF Entry, EventTypes, EventArgs, IsMark, Terminal
  <2> HIDE DEF evs
  <2>3. /\ ~turns[t].isFollowUp /\ ~Live(t)
        /\ \A u \in Turns : /\ turns'[u].chat = turns[u].chat
                            /\ turns'[u].isFollowUp = turns[u].isFollowUp
                            /\ turns'[u].status = turns[u].status
                            /\ u # t => turns'[u].phase = turns[u].phase
    BY <2>1, <1>ty DEF RunnerTypeOK, TurnRecord, CodexHarness, Live, Streaming
  <2>4. HasFollowUp(c)' <=> HasFollowUp(c)
    BY <2>1, <2>3 DEF HasFollowUp
  <2>5. activeTurns[c] # NoTurn => activeTurns[c] \in Turns
    BY <1>ty DEF RunnerTypeOK
  <2>6. ChatStatus(c)' = ChatStatus(c)
    BY <2>1, <2>3, <2>4, <2>5 DEF ChatStatus
  <2> QED BY <2>1, <2>2, <2>6, <1>ty, <1>quiet, ToldStep
<1>2. ASSUME NEW t \in Turns, CreateTurnOk(t) PROVE Goal
  <2> DEFINE evs == <<Ev(t, "status_change", "starting")>>
  <2>1. /\ Creating(t) /\ turns' = [turns EXCEPT ![t].phase = "streaming"] /\ Publish(evs)
        /\ activeTurns' = [activeTurns EXCEPT ![turns[t].chat] = t]
    BY <1>2 DEF CreateTurnOk, Creating
  <2>2. /\ evs \in Seq(Event) /\ 1 \in DOMAIN evs /\ evs[1].chat = turns[t].chat
        /\ evs[1].type = "status_change" /\ evs[1].arg = "starting"
        /\ \A i \in DOMAIN evs : i = 1
    BY <1>ev DEF EventTypes, EventArgs, Status
  <2> HIDE DEF evs
  <2>3. /\ turns'[t].status = "starting" /\ turns'[t].chat = turns[t].chat
        /\ \A u \in Turns : u # t => turns'[u] = turns[u]
        /\ turns[t].chat \in Chats
    BY <2>1, <1>ty DEF RunnerTypeOK, TurnRecord, CodexHarness
  <2>4. CASE turns[t].chat = c
    <3>1. ChatStatus(c)' = "starting"
      BY <2>1, <2>3, <2>4, <1>ty, RunnerConstants DEF ChatStatus, RunnerTypeOK
    <3> QED BY <2>1, <2>2, <2>4, <3>1, <1>ty, ToldStep DEF IsMark, MarkedStatus
  <2>5. CASE turns[t].chat # c
    BY <2>1, <2>2, <2>3, <2>5, <1>ty, <1>other DEF RunnerTypeOK
  <2> QED BY <2>4, <2>5
<1>3. ASSUME NEW t \in Turns, CreateTurnFail(t) PROVE Goal
  <2> DEFINE said == <<Entry(t, "result"), Ev(t, "turn_failed", "none")>>
             evs  == IF turns[t].isFollowUp THEN said ELSE <<>>
  <2>1. /\ Creating(t) /\ turns' = [turns EXCEPT ![t].phase = "ended"] /\ Publish(evs)
        /\ UNCHANGED activeTurns
    BY <1>3 DEF CreateTurnFail, Creating
  <2>2. /\ said \in Seq(Event) /\ 2 \in DOMAIN said
        /\ said[2].chat = turns[t].chat /\ said[2].type = "turn_failed"
        /\ \A i \in DOMAIN said : i <= 2 /\ said[i].chat = turns[t].chat
    BY <1>ev DEF Entry, EventTypes, EventArgs
  <2> HIDE DEF said
  <2>3. /\ turns'[t].chat = turns[t].chat /\ turns'[t].phase = "ended"
        /\ \A u \in Turns : u # t => turns'[u] = turns[u]
    BY <2>1, <1>ty DEF RunnerTypeOK, TurnRecord
  <2>4. CASE turns[t].chat = c /\ turns[t].isFollowUp
    <3>1. activeTurns'[c] = NoTurn /\ ~HasFollowUp(c)'
      BY <2>1, <2>3, <2>4, <1>hd DEF HasFollowUp, Creating, Streaming
    <3>2. ChatStatus(c)' = "idle"
      BY <3>1 DEF ChatStatus
    <3> QED BY <2>1, <2>2, <2>4, <3>2, <1>ty, ToldStep DEF IsMark, MarkedStatus, Terminal
  <2>5. CASE turns[t].chat = c /\ ~turns[t].isFollowUp
    <3>1. activeTurns'[c] = NoTurn /\ activeTurns[c] = NoTurn /\ (HasFollowUp(c)' <=> HasFollowUp(c))
      BY <2>1, <2>3, <2>5, <1>hd DEF HasFollowUp, Creating, Streaming
    <3>2. ChatStatus(c)' = ChatStatus(c) /\ evs = <<>>
      BY <3>1, <2>5 DEF ChatStatus
    <3>3. <<>> \in Seq(Event) /\ \A i \in DOMAIN <<>> : ~IsMark(<<>>[i], c)
      OBVIOUS
    <3>4. Publish(<<>>)
      BY <2>1, <3>2
    <3> QED BY <3>2, <3>3, <3>4, <1>ty, ToldStep
  <2>6. CASE turns[t].chat # c
    <3>1. evs \in Seq(Event) /\ \A i \in DOMAIN evs : evs[i].chat = turns[t].chat
      BY <2>2
    <3> HIDE DEF evs
    <3> QED BY <2>1, <2>3, <2>6, <3>1, <1>other
  <2> QED BY <2>4, <2>5, <2>6
<1>4. ASSUME NEW t \in Turns, StreamInit(t) PROVE Goal
  <2> DEFINE said == <<Ev(t, "status_change", "running")>>
             evs  == IF turns[t].cancelRequested THEN <<>> ELSE said
             r    == [turns[t] EXCEPT
                        !.harness = "open",
                        !.status  = IF turns[t].cancelRequested THEN turns[t].status ELSE "running"]
  <2>1. /\ Streaming(t) /\ Publish(evs) /\ turns' = [turns EXCEPT ![t] = r]
        /\ UNCHANGED activeTurns
    BY <1>4 DEF StreamInit, PublishUnlessCancelled
  <2>2. /\ said \in Seq(Event) /\ 1 \in DOMAIN said /\ said[1].type = "status_change"
        /\ said[1].arg = "running" /\ \A i \in DOMAIN said : i = 1 /\ said[i].chat = turns[t].chat
    BY <1>ev DEF EventTypes, EventArgs, Status
  <2>3. r.chat = turns[t].chat /\ (~turns[t].cancelRequested => r.status = "running")
    BY <1>ty DEF RunnerTypeOK, TurnRecord
  <2> HIDE DEF said, r
  <2>4. turns'[t] = r /\ \A u \in Turns : u # t => turns'[u] = turns[u]
    BY <2>1, <1>ty DEF RunnerTypeOK
  <2>5. CASE turns[t].chat = c
    <3>1. activeTurns'[c] = t /\ evs = said /\ t # NoTurn
      BY <2>1, <2>5, <1>hd, RunnerConstants
    <3>2. ChatStatus(c)' = "running"
      BY <2>1, <2>3, <2>4, <2>5, <3>1, <1>hd DEF ChatStatus
    <3> QED BY <2>1, <2>2, <2>5, <3>1, <3>2, <1>ty, ToldStep DEF IsMark, MarkedStatus
  <2>6. CASE turns[t].chat # c
    <3>1. evs \in Seq(Event) /\ \A i \in DOMAIN evs : evs[i].chat = turns[t].chat
      BY <2>2
    <3> HIDE DEF evs
    <3> QED BY <2>1, <2>3, <2>4, <2>6, <3>1, <1>other
  <2> QED BY <2>5, <2>6
<1>5. ASSUME NEW t \in Turns, NEW isError \in BOOLEAN, StreamResult(t, isError) PROVE Goal
  <2> DEFINE said == <<Entry(t, "result"),
                       Ev(t, IF isError THEN "turn_failed" ELSE "turn_finished", "none")>>
             evs  == IF turns[t].cancelRequested THEN <<>> ELSE said
             r    == [turns[t] EXCEPT !.harness = "final"]
             q    == [r EXCEPT !.phase = "ended"]
  <2>1. /\ Streaming(t) /\ Publish(evs)
        /\ IF IsCodex(t) THEN /\ turns' = [turns EXCEPT ![t] = q]
                              /\ activeTurns' = [activeTurns EXCEPT ![turns[t].chat] = NoTurn]
           ELSE turns' = [turns EXCEPT ![t] = r] /\ UNCHANGED activeTurns
    BY <1>5 DEF StreamResult, PublishUnlessCancelled, Finally
  <2>2. /\ said \in Seq(Event) /\ 2 \in DOMAIN said /\ said[2].type \in Terminal
        /\ \A i \in DOMAIN said : i <= 2 /\ said[i].chat = turns[t].chat
    BY <1>ev DEF Entry, EventTypes, EventArgs, Terminal
  <2>3. r.chat = turns[t].chat /\ q.chat = turns[t].chat /\ q.phase = "ended"
    BY <1>ty DEF RunnerTypeOK, TurnRecord
  <2> HIDE DEF said, r, q
  <2>4. /\ turns'[t].chat = turns[t].chat /\ \A u \in Turns : u # t => turns'[u] = turns[u]
        /\ IsCodex(t) => turns'[t] = q
        /\ turns[t].chat \in Chats
    BY <2>1, <2>3, <1>ty DEF RunnerTypeOK, TurnRecord
  <2>5. CASE turns[t].chat = c
    <3>1. activeTurns'[c] = NoTurn /\ evs = said
      BY <2>1, <2>5, <1>hd, <1>ty DEF IsCodex, RunnerTypeOK
    <3>2. ~HasFollowUp(c)'
      BY <2>1, <2>3, <2>4, <2>5, <1>hd DEF HasFollowUp, IsCodex, Creating, Streaming
    <3>3. ChatStatus(c)' = "idle"
      BY <3>1, <3>2 DEF ChatStatus
    <3> QED BY <2>1, <2>2, <2>5, <3>1, <3>3, <1>ty, ToldStep DEF IsMark, MarkedStatus, Terminal
  <2>6. CASE turns[t].chat # c
    <3>1. evs \in Seq(Event) /\ \A i \in DOMAIN evs : evs[i].chat = turns[t].chat
      BY <2>2
    <3> HIDE DEF evs
    <3>2. activeTurns'[c] = activeTurns[c]
      BY <2>1, <2>4, <2>6, <1>ty DEF RunnerTypeOK
    <3> QED BY <2>1, <2>4, <2>6, <3>1, <3>2, <1>other
  <2> QED BY <2>5, <2>6
<1>6. ASSUME NEW t \in Turns, StreamEnd(t) \/ StreamThrow(t) PROVE Goal
  <2> DEFINE said == <<Entry(t, "result"), Ev(t, "turn_failed", "none")>>
  <2>1. /\ ~IsCodex(t)
        /\ turns' = [turns EXCEPT ![t] = [turns[t] EXCEPT !.phase = "ended"]]
        /\ activeTurns' = [activeTurns EXCEPT ![turns[t].chat] = NoTurn]
        /\ UNCHANGED events \/ Publish(<<>>) \/ Publish(said)
    BY <1>6 DEF StreamEnd, StreamThrow, PublishUnlessCancelled, Finally, CodexHarness
  <2>2. said \in Seq(Event) /\ \A i \in DOMAIN said : said[i].chat = turns[t].chat
    BY <1>ev DEF Entry, EventTypes, EventArgs
  <2> HIDE DEF said
  <2>3. \E evs \in Seq(Event) : Publish(evs) /\ \A i \in DOMAIN evs : evs[i].chat = turns[t].chat
    <3>1. UNCHANGED events => Publish(<<>>)
      BY <1>ty DEF Publish, RunnerTypeOK
    <3>2. <<>> \in Seq(Event) /\ DOMAIN <<>> = {}
      OBVIOUS
    <3> QED BY <2>1, <2>2, <3>1, <3>2
  <2>4. /\ \A u \in Turns : u # t => turns'[u] = turns[u]
        /\ turns'[t].chat = turns[t].chat /\ turns[t].chat # c /\ turns[t].chat \in Chats
    BY <2>1, <1>ty DEF RunnerTypeOK, TurnRecord, IsCodex
  <2>5. activeTurns'[c] = activeTurns[c]
    BY <2>1, <2>4, <1>ty DEF RunnerTypeOK
  <2> QED BY <2>3, <2>4, <2>5, <1>other
<1>7. ASSUME NEW t \in Turns, InterruptSettles(t) PROVE Goal
  <2>1. /\ turns' = [turns EXCEPT ![t].harness = "stopped"] /\ UNCHANGED <<events, activeTurns>>
    BY <1>7 DEF InterruptSettles
  <2>2. \A u \in Turns : /\ turns'[u].chat = turns[u].chat /\ turns'[u].status = turns[u].status
                         /\ turns'[u].phase = turns[u].phase
                         /\ turns'[u].isFollowUp = turns[u].isFollowUp
    BY <2>1, <1>ty DEF RunnerTypeOK, TurnRecord
  <2>3. activeTurns[c] # NoTurn => activeTurns[c] \in Turns
    BY <1>ty DEF RunnerTypeOK
  <2>4. ChatStatus(c)' = ChatStatus(c)
    BY <2>1, <2>2, <2>3 DEF ChatStatus, HasFollowUp
  <2> QED BY <2>1, <2>4, <1>quiet
<1>8. ASSUME NEW t \in Turns, NEW k \in Tools, ToolRequest(t, k) PROVE Goal
  <2> DEFINE evs == <<Ev(t, "status_change", "waiting_for_user"), Ev(t, "pending_tool", "set")>>
  <2>0. PICK a : a = activeTurns[turns[t].chat]
    OBVIOUS
  <2> DEFINE r == [turns[a] EXCEPT !.status = "waiting_for_user", !.pendingTool = k]
  <2>1. /\ Streaming(t) /\ Publish(evs) /\ a # NoTurn /\ UNCHANGED activeTurns
        /\ turns' = [turns EXCEPT ![a] = r]
    BY <1>8, <2>0 DEF ToolRequest
  <2>2. a \in Turns /\ turns[a].chat = turns[t].chat
    BY <2>0, <2>1, <1>ty DEF RunnerInv, RunnerTypeOK, TurnRecord, EntryIsLive
  <2>3. r.chat = turns[a].chat /\ r.status = "waiting_for_user"
    BY <2>2, <1>ty DEF RunnerTypeOK, TurnRecord
  <2>4. /\ evs \in Seq(Event) /\ 1 \in DOMAIN evs /\ evs[1].type = "status_change"
        /\ evs[1].arg = "waiting_for_user"
        /\ \A i \in DOMAIN evs : (i = 1 \/ evs[i].type = "pending_tool") /\ evs[i].chat = turns[t].chat
    BY <1>ev DEF EventTypes, EventArgs, Status
  <2> HIDE DEF evs, r
  <2>5. turns'[a] = r /\ \A u \in Turns : u # a => turns'[u] = turns[u]
    BY <2>1, <2>2, <1>ty DEF RunnerTypeOK
  <2>6. CASE turns[t].chat = c
    <3>1. ChatStatus(c)' = "waiting_for_user"
      BY <2>0, <2>1, <2>3, <2>5, <2>6 DEF ChatStatus
    <3>2. \A i \in DOMAIN evs : IsMark(evs[i], c) => i <= 1
      BY <2>4 DEF IsMark, Terminal
    <3> QED BY <2>1, <2>4, <2>6, <3>1, <3>2, <1>ty, ToldStep DEF IsMark, MarkedStatus
  <2>7. CASE turns[t].chat # c
    BY <2>1, <2>2, <2>3, <2>4, <2>5, <2>7, <1>other
  <2> QED BY <2>6, <2>7
<1>l. ASSUME NEW d \in Chats, activeTurns[d] # NoTurn
      PROVE  /\ activeTurns[d] \in Turns /\ turns[activeTurns[d]].chat = d
             /\ Streaming(activeTurns[d])
  BY <1>l, <1>ty DEF RunnerInv, RunnerTypeOK, EntryIsLive, Live
<1>9. ASSUME NEW d \in Chats, NEW k \in Tools, NEW clear \in BOOLEAN, RespondTool(d, k, clear)
      PROVE  Goal
  <2>0. activeTurns[d] \in Turns
    BY <1>9, <1>l DEF RespondTool
  <2> PICK a \in Turns : a = activeTurns[d]
    BY <2>0
  <2> DEFINE said == <<Entry(a, "tool_result"), Ev(a, "pending_tool", "none"),
                       Ev(a, "status_change", "running")>>
             more == IF IsPlan(k) /\ clear
                     THEN <<Ev(a, "session_token", "none"), Entry(a, "context_cleared")>>
                     ELSE <<>>
             f    == [FreshTurn(d) EXCEPT !.isFollowUp = TRUE]
             r    == [turns[a] EXCEPT !.pendingTool = NoTool, !.status = "running"]
             evs  == said \o more
  <2>1. /\ turns[a].chat = d /\ Streaming(a) /\ Publish(evs)
        /\ IF IsPlan(k) /\ IsCodex(a)
           THEN turns' = [turns EXCEPT ![a] = f] /\ activeTurns' = [activeTurns EXCEPT ![d] = NoTurn]
           ELSE turns' = [turns EXCEPT ![a] = r] /\ UNCHANGED activeTurns
    BY <1>9, <1>l DEF RespondTool
  <2>2. /\ r.chat = d /\ r.status = "running" /\ r.phase = turns[a].phase
        /\ f.chat = d /\ f.phase = "creating" /\ f.isFollowUp
    BY <2>1, <1>ty DEF RunnerTypeOK, TurnRecord, FreshTurn
  <2> HIDE DEF r, f
  <2>3. /\ said \in Seq(Event) /\ 3 \in DOMAIN said
        /\ said[3].type = "status_change" /\ said[3].arg = "running"
        /\ \A i \in DOMAIN said : i <= 3 /\ said[i].chat = d
    BY <1>ev, <2>1 DEF Entry, EventTypes, EventArgs, Status
  <2>4. /\ more \in Seq(Event)
        /\ \A i \in DOMAIN more : more[i].chat = d /\ more[i].type \notin Terminal \cup {"status_change"}
    BY <1>ev, <2>1 DEF Entry, EventTypes, EventArgs, Terminal
  <2> HIDE DEF said, more
  <2>5. /\ evs \in Seq(Event) /\ 3 \in DOMAIN evs /\ evs[3] = said[3]
        /\ \A i \in DOMAIN evs : /\ evs[i].chat = d
                                 /\ evs[i].type \in Terminal \cup {"status_change"} => i <= 3
    BY <2>3, <2>4, AddedTo
  <2> HIDE DEF evs
  <2>6. /\ turns'[a] = r \/ turns'[a] = f
        /\ turns'[a] = r => turns' = [turns EXCEPT ![a] = r] \/ turns'[a] = f
        /\ \A u \in Turns : u # a => turns'[u] = turns[u]
        /\ \A e \in Chats : e # d => activeTurns'[e] = activeTurns[e]
    BY <2>1, <1>ty DEF RunnerTypeOK
  <2>7. CASE d = c
    <3>1. ChatStatus(c)' = "running"
      <4>1. CASE IsPlan(k) /\ IsCodex(a)
        <5>1. turns'[a] = f /\ activeTurns'[c] = NoTurn
          BY <2>1, <2>7, <4>1, <1>ty DEF RunnerTypeOK
        <5>2. HasFollowUp(c)'
          BY <5>1, <2>2, <2>7 DEF HasFollowUp
        <5> QED BY <5>1, <5>2 DEF ChatStatus
      <4>2. CASE ~(IsPlan(k) /\ IsCodex(a))
        <5>1. turns'[a] = r /\ activeTurns'[c] = a /\ a # NoTurn
          BY <2>1, <2>7, <4>2, <1>ty, RunnerConstants DEF RunnerTypeOK
        <5> QED BY <5>1, <2>2 DEF ChatStatus
      <4> QED BY <4>1, <4>2
    <3>2. IsMark(evs[3], c) /\ MarkedStatus(evs[3]) = "running"
      BY <2>3, <2>5, <2>7 DEF IsMark, MarkedStatus
    <3>3. \A i \in DOMAIN evs : IsMark(evs[i], c) => i <= 3
      BY <2>5 DEF IsMark
    <3> QED BY <2>1, <2>5, <3>1, <3>2, <3>3, <1>ty, ToldStep
  <2>8. CASE d # c
    <3>1. \A t \in Turns : turns[t].chat = c => turns'[t] = turns[t]
      BY <2>1, <2>6, <2>8
    <3>2. \A t \in Turns : turns[t].chat # c => turns'[t].chat # c
      BY <2>1, <2>2, <2>6, <2>8
    <3> QED BY <2>1, <2>5, <2>6, <2>8, <3>1, <3>2, <1>ty, <1>other
  <2> QED BY <2>7, <2>8
<1>10. ASSUME NEW d \in Chats, Cancel(d) PROVE Goal
  <2>0. activeTurns[d] \in Turns
    BY <1>10, <1>l DEF Cancel
  <2> PICK a \in Turns : a = activeTurns[d]
    BY <2>0
  <2> DEFINE discard == IF turns[a].pendingTool # NoTool THEN <<Entry(a, "tool_result")>> ELSE <<>>
             said    == <<Entry(a, "interrupted"), Ev(a, "turn_cancelled", "none")>>
             r       == [turns[a] EXCEPT
                           !.cancelRequested = TRUE,
                           !.pendingTool     = NoTool,
                           !.phase           = IF IsCodex(a) THEN "ended" ELSE turns[a].phase]
             evs     == discard \o said
  <2>1. /\ turns[a].chat = d /\ Streaming(a) /\ Publish(evs)
        /\ turns' = [turns EXCEPT ![a] = r] /\ activeTurns' = [activeTurns EXCEPT ![d] = NoTurn]
    BY <1>10, <1>l DEF Cancel
  <2>2. r.chat = d /\ (IsCodex(a) => r.phase = "ended")
    BY <2>1, <1>ty DEF RunnerTypeOK, TurnRecord
  <2> HIDE DEF r
  <2>3. /\ said \in Seq(Event) /\ 2 \in DOMAIN said
        /\ said[2].chat = d /\ said[2].type = "turn_cancelled"
        /\ \A i \in DOMAIN said : i <= 2 /\ i \in Nat /\ said[i].chat = d
    BY <1>ev, <2>1 DEF Entry, EventTypes, EventArgs
  <2>4. discard \in Seq(Event) /\ Len(discard) \in Nat /\ \A i \in DOMAIN discard : i <= Len(discard) /\ discard[i].chat = d
    BY <1>ev, <2>1 DEF Entry, EventTypes, EventArgs
  <2> HIDE DEF said, discard
  <2>5. /\ evs \in Seq(Event) /\ \A i \in DOMAIN evs : evs[i].chat = d
        /\ \E k \in DOMAIN evs : /\ evs[k].chat = d /\ evs[k].type = "turn_cancelled"
                                 /\ \A i \in DOMAIN evs : i <= k
    <3>1. PICK k : k = Len(discard) + 2
      OBVIOUS
    <3>2. k \in DOMAIN evs /\ evs[k] = said[2]
      BY <2>3, <2>4, <3>1, AddedTo
    <3>3. \A i \in DOMAIN evs : i <= k /\ evs[i].chat = d
      BY <2>3, <2>4, <3>1, AddedTo
    <3>4. evs \in Seq(Event)
      BY <2>3, <2>4, AddedTo
    <3> HIDE DEF evs
    <3> QED BY <2>3, <3>2, <3>3, <3>4
  <2> HIDE DEF evs
  <2>6. /\ turns'[a] = r /\ \A u \in Turns : u # a => turns'[u] = turns[u]
        /\ activeTurns'[d] = NoTurn /\ \A e \in Chats : e # d => activeTurns'[e] = activeTurns[e]
    BY <2>1, <1>ty DEF RunnerTypeOK
  <2>7. CASE d = c
    <3>1. ~HasFollowUp(c)
      BY <2>1, <2>7, <1>hd
    <3>2. ~HasFollowUp(c)'
      BY <3>1, <2>1, <2>2, <2>6, <2>7 DEF HasFollowUp, IsCodex
    <3>3. ChatStatus(c)' = "idle"
      BY <2>6, <2>7, <3>2 DEF ChatStatus
    <3>4. \E k \in DOMAIN evs : /\ IsMark(evs[k], c) /\ MarkedStatus(evs[k]) = "idle"
                                /\ \A i \in DOMAIN evs : IsMark(evs[i], c) => i <= k
      BY <2>5, <2>7 DEF IsMark, MarkedStatus, Terminal
    <3> QED BY <2>1, <2>5, <3>3, <3>4, <1>ty, ToldStep
  <2>8. CASE d # c
    BY <2>1, <2>6, <2>8, <2>2, <2>5, <1>ty, <1>other
  <2> QED BY <2>7, <2>8
<1>11. CASE UNCHANGED runnerVars
  BY <1>11 DEF runnerVars, Tells, ChatStatus, HasFollowUp
<1> QED
  BY <1>1, <1>2, <1>3, <1>4, <1>5, <1>6, <1>7, <1>8, <1>9, <1>10, <1>11 DEF RunnerNext

\* LogTellsStatus, strengthened until every step preserves it.
StatusInv ==
    /\ RunnerInv /\ CodexHarness
    /\ \A c \in CodexChats : Tells(events, c, "idle", ChatStatus(c))

\* At the start nothing runs and nothing is said.
LEMMA StatusInit == RunnerInit => StatusInv
<1> SUFFICES ASSUME RunnerInit PROVE StatusInv
  OBVIOUS
<1>1. ASSUME NEW t \in Turns PROVE turns[t].phase = "unused"
  <2>1. PICK c \in Chats : turns[t] = [FreshTurn(c) EXCEPT !.phase = "unused"]
    BY DEF RunnerInit
  <2> QED BY <2>1 DEF FreshTurn
<1>2. \A c \in CodexChats : ChatStatus(c) = "idle" /\ events = <<>>
  BY <1>1, RunnerConstants DEF RunnerInit, ChatStatus, HasFollowUp
<1> QED BY <1>2, InvInit, HarnessInit DEF StatusInv, Tells

\* The log alone tells the status of every Codex chat, through requests, answers, cancels
\* and plan follow-ups.
THEOREM LogTellsStatus == RunnerSpec => []StatusPublished
<1>1. StatusInv /\ [RunnerNext]_runnerVars => StatusInv'
  BY InvStep, HarnessStep, StatusStep DEF StatusInv
<1>2. StatusInv => StatusPublished
  BY ToldIsLogged DEF StatusPublished, ChatStatus, HasFollowUp, StatusInv, RunnerInv, RunnerTypeOK
<1> QED BY <1>1, <1>2, StatusInit, PTL DEF RunnerSpec

-----------------------------------------------------------------------------
(* Who says what the log says *)

\* All of evs is of the turn u and about its chat.  Only a turn that is being made or read
\* says anything of the chat's status.
Spoken(u, evs) ==
    /\ evs \in Seq(Event)
    /\ \A i \in DOMAIN evs : /\ evs[i].by = u /\ evs[i].chat = turns[u].chat
                             /\ evs[i].type = "status_change" => evs[i].arg \in Status
    /\ \/ Creating(u) \/ Streaming(u)
       \/ \A i \in DOMAIN evs : evs[i].type \notin Terminal \cup {"status_change"}

\* Each handler publishes for one turn.
LEMMA OneSpeaks ==
    ASSUME RunnerInv, CodexHarness, [RunnerNext]_runnerVars
    PROVE  UNCHANGED events \/ \E u \in Turns : \E evs : Spoken(u, evs) /\ Publish(evs)
<1>ty. RunnerTypeOK
  BY DEF RunnerInv
<1> DEFINE Goal == UNCHANGED events \/ \E u \in Turns : \E evs : Spoken(u, evs) /\ Publish(evs)
<1>ev. \A t \in Turns, type \in EventTypes, arg \in EventArgs :
          /\ Ev(t, type, arg) \in Event /\ Ev(t, type, arg).by = t
          /\ Ev(t, type, arg).chat = turns[t].chat
          /\ Ev(t, type, arg).type = type /\ Ev(t, type, arg).arg = arg
  BY <1>ty, EvType DEF Ev, RunnerTypeOK
<1>0. Publish(<<>>) => UNCHANGED events
  BY <1>ty DEF Publish, RunnerTypeOK
<1>1. ASSUME NEW t \in Turns, NEW append \in BOOLEAN,
             StartTurn(t, append) \/ StartTurnRejected(t, append)
      PROVE  Goal
  <2> DEFINE said == <<Entry(t, "user_prompt")>>
  <2>1. UNCHANGED events \/ Publish(said) \/ Publish(<<>>)
    BY <1>1 DEF StartTurn, StartTurnRejected, Prompt
  <2>2. Spoken(t, said)
    BY <1>ev DEF Entry, EventTypes, EventArgs, Spoken, Terminal
  <2> HIDE DEF said
  <2> QED BY <2>1, <2>2, <1>0
<1>2. ASSUME NEW t \in Turns, CreateTurnOk(t) PROVE Goal
  <2> DEFINE said == <<Ev(t, "status_change", "starting")>>
  <2>1. Creating(t) /\ Publish(said)
    BY <1>2 DEF CreateTurnOk, Creating
  <2>2. Spoken(t, said)
    BY <2>1, <1>ev DEF EventTypes, EventArgs, Spoken, Status
  <2> HIDE DEF said
  <2> QED BY <2>1, <2>2
<1>3. ASSUME NEW t \in Turns, CreateTurnFail(t) \/ StreamThrow(t) PROVE Goal
  <2> DEFINE said == <<Entry(t, "result"), Ev(t, "turn_failed", "none")>>
  <2>1. (Creating(t) \/ Streaming(t)) /\ (Publish(said) \/ Publish(<<>>))
    BY <1>3 DEF CreateTurnFail, StreamThrow, PublishUnlessCancelled, Creating
  <2>2. Spoken(t, said)
    BY <2>1, <1>ev DEF Entry, EventTypes, EventArgs, Spoken, Status
  <2> HIDE DEF said
  <2> QED BY <2>1, <2>2, <1>0
<1>4. ASSUME NEW t \in Turns, StreamInit(t) PROVE Goal
  <2> DEFINE said == <<Ev(t, "status_change", "running")>>
  <2>1. Streaming(t) /\ (Publish(said) \/ Publish(<<>>))
    BY <1>4 DEF StreamInit, PublishUnlessCancelled
  <2>2. Spoken(t, said)
    BY <2>1, <1>ev DEF EventTypes, EventArgs, Spoken, Status
  <2> HIDE DEF said
  <2> QED BY <2>1, <2>2, <1>0
<1>5. ASSUME NEW t \in Turns, NEW isError \in BOOLEAN, StreamResult(t, isError) PROVE Goal
  <2> DEFINE said == <<Entry(t, "result"),
                       Ev(t, IF isError THEN "turn_failed" ELSE "turn_finished", "none")>>
  <2>1. Streaming(t) /\ (Publish(said) \/ Publish(<<>>))
    BY <1>5 DEF StreamResult, PublishUnlessCancelled
  <2>2. Spoken(t, said)
    BY <2>1, <1>ev DEF Entry, EventTypes, EventArgs, Spoken, Status
  <2> HIDE DEF said
  <2> QED BY <2>1, <2>2, <1>0
<1>6. ASSUME NEW t \in Turns, StreamEnd(t) \/ InterruptSettles(t) PROVE Goal
  BY <1>6 DEF StreamEnd, InterruptSettles
<1>7. ASSUME NEW t \in Turns, NEW k \in Tools, ToolRequest(t, k) PROVE Goal
  <2> DEFINE said == <<Ev(t, "status_change", "waiting_for_user"), Ev(t, "pending_tool", "set")>>
  <2>1. Streaming(t) /\ Publish(said)
    BY <1>7 DEF ToolRequest
  <2>2. Spoken(t, said)
    BY <2>1, <1>ev DEF EventTypes, EventArgs, Spoken, Status
  <2> HIDE DEF said
  <2> QED BY <2>1, <2>2
<1>l. ASSUME NEW d \in Chats, activeTurns[d] # NoTurn
      PROVE  activeTurns[d] \in Turns /\ Streaming(activeTurns[d])
  BY <1>l, <1>ty DEF RunnerInv, RunnerTypeOK, EntryIsLive, Live
<1>8. ASSUME NEW d \in Chats, NEW k \in Tools, NEW clear \in BOOLEAN, RespondTool(d, k, clear)
      PROVE  Goal
  <2> DEFINE a    == activeTurns[d]
             said == <<Entry(a, "tool_result"), Ev(a, "pending_tool", "none"),
                       Ev(a, "status_change", "running")>>
             more == IF IsPlan(k) /\ clear
                     THEN <<Ev(a, "session_token", "none"), Entry(a, "context_cleared")>>
                     ELSE <<>>
  <2>1. a \in Turns /\ Streaming(a) /\ Publish(said \o more)
    BY <1>8, <1>l DEF RespondTool
  <2> HIDE DEF a
  <2>2. Spoken(a, said)
    BY <2>1, <1>ev DEF Entry, EventTypes, EventArgs, Spoken, Status
  <2>3. Spoken(a, more)
    BY <2>1, <1>ev DEF Entry, EventTypes, EventArgs, Spoken, Status
  <2> HIDE DEF said, more
  <2>4. Spoken(a, said \o more)
    BY <2>1, <2>2, <2>3, AddedTo DEF Spoken
  <2> QED BY <2>1, <2>4
<1>9. ASSUME NEW d \in Chats, Cancel(d) PROVE Goal
  <2> DEFINE a       == activeTurns[d]
             discard == IF turns[a].pendingTool # NoTool THEN <<Entry(a, "tool_result")>> ELSE <<>>
             said    == <<Entry(a, "interrupted"), Ev(a, "turn_cancelled", "none")>>
  <2>1. a \in Turns /\ Streaming(a) /\ Publish(discard \o said)
    BY <1>9, <1>l DEF Cancel
  <2> HIDE DEF a
  <2>2. Spoken(a, discard)
    BY <2>1, <1>ev DEF Entry, EventTypes, EventArgs, Spoken, Status
  <2>3. Spoken(a, said)
    BY <2>1, <1>ev DEF Entry, EventTypes, EventArgs, Spoken, Status
  <2> HIDE DEF said, discard
  <2>4. Spoken(a, discard \o said)
    BY <2>1, <2>2, <2>3, AddedTo DEF Spoken
  <2> QED BY <2>1, <2>4
<1>10. CASE UNCHANGED runnerVars
  BY <1>10 DEF runnerVars
<1> QED
  BY <1>1, <1>2, <1>3, <1>4, <1>5, <1>6, <1>7, <1>8, <1>9, <1>10 DEF RunnerNext

\* The phases of a turn: what is under way was begun, and what was begun is not unused again.
LEMMA PhasesGoOn ==
    ASSUME RunnerInv, [RunnerNext]_runnerVars, NEW t \in Turns
    PROVE  /\ turns'[t].chat = turns[t].chat
           /\ turns'[t].phase = "streaming" => Streaming(t) \/ CreateTurnOk(t)
           /\ turns'[t].phase = "unused" => turns[t].phase = "unused"
           /\ Creating(t)' /\ ~turns'[t].isFollowUp
              => \/ Creating(t) /\ ~turns[t].isFollowUp
                 \/ turns[t].phase = "unused" /\ \E append \in BOOLEAN : StartTurn(t, append)
<1>ty. RunnerTypeOK
  BY DEF RunnerInv
<1> DEFINE Goal == /\ turns'[t].chat = turns[t].chat
                   /\ turns'[t].phase = "streaming" => Streaming(t) \/ CreateTurnOk(t)
                   /\ turns'[t].phase = "unused" => turns[t].phase = "unused"
                   /\ Creating(t)' /\ ~turns'[t].isFollowUp
                      => \/ Creating(t) /\ ~turns[t].isFollowUp
                         \/ /\ turns[t].phase = "unused"
                            /\ \E append \in BOOLEAN : StartTurn(t, append)
<1>o. ASSUME turns'[t] = turns[t] PROVE Goal
  BY <1>o DEF Streaming, Creating
<1>1. ASSUME NEW u \in Turns, NEW append \in BOOLEAN,
             StartTurn(u, append) \/ StartTurnRejected(u, append)
      PROVE  Goal
  BY <1>1, <1>ty, <1>o DEF StartTurn, RunnerTypeOK, TurnRecord, Creating, StartTurnRejected
<1>2. ASSUME NEW u \in Turns, CreateTurnOk(u) PROVE Goal
  BY <1>2, <1>ty, <1>o DEF CreateTurnOk, RunnerTypeOK, TurnRecord, Creating
<1>3. ASSUME NEW u \in Turns, CreateTurnFail(u) \/ StreamThrow(u) \/ StreamEnd(u) PROVE Goal
  BY <1>3, <1>ty, <1>o DEF CreateTurnFail, StreamThrow, StreamEnd, Finally, RunnerTypeOK, TurnRecord, Creating
<1>s. ASSUME NEW u \in Turns, Streaming(u), \A v \in Turns : v # u => turns'[v] = turns[v],
             turns'[u].chat = turns[u].chat, turns'[u].phase # "unused",
             Creating(u)' => turns'[u].isFollowUp
      PROVE  Goal
  BY <1>s, <1>o DEF Creating
<1>4. ASSUME NEW u \in Turns, StreamInit(u) PROVE Goal
  <2> DEFINE r == [turns[u] EXCEPT
                    !.harness = "open",
                    !.status  = IF turns[u].cancelRequested THEN turns[u].status ELSE "running"]
  <2>1. Streaming(u) /\ turns' = [turns EXCEPT ![u] = r]
    BY <1>4 DEF StreamInit
  <2>2. r.chat = turns[u].chat /\ r.phase = "streaming"
    BY <2>1, <1>ty DEF RunnerTypeOK, TurnRecord, Streaming
  <2> HIDE DEF r
  <2> QED BY <2>1, <2>2, <1>s, <1>ty DEF RunnerTypeOK, Creating
<1>5. ASSUME NEW u \in Turns, NEW isError \in BOOLEAN, StreamResult(u, isError) PROVE Goal
  <2> DEFINE r == [turns[u] EXCEPT !.harness = "final"]
             q == [r EXCEPT !.phase = "ended"]
  <2>1. Streaming(u) /\ (turns' = [turns EXCEPT ![u] = r] \/ turns' = [turns EXCEPT ![u] = q])
    BY <1>5 DEF StreamResult, Finally
  <2>2. r.chat = turns[u].chat /\ r.phase = "streaming" /\ q.chat = r.chat /\ q.phase = "ended"
    BY <2>1, <1>ty DEF RunnerTypeOK, TurnRecord, Streaming
  <2> HIDE DEF r, q
  <2> QED BY <2>1, <2>2, <1>s, <1>ty DEF RunnerTypeOK, Creating
<1>6. ASSUME NEW u \in Turns, InterruptSettles(u) PROVE Goal
  BY <1>6, <1>ty, <1>s DEF InterruptSettles, RunnerTypeOK, TurnRecord, Creating, Streaming
<1>7. ASSUME NEW u \in Turns, NEW k \in Tools, ToolRequest(u, k) PROVE Goal
  <2> DEFINE a == activeTurns[turns[u].chat]
             r == [turns[a] EXCEPT !.status = "waiting_for_user", !.pendingTool = k]
  <2>1. a \in Turns /\ Streaming(a) /\ turns' = [turns EXCEPT ![a] = r]
    BY <1>7, <1>ty DEF ToolRequest, RunnerInv, RunnerTypeOK, TurnRecord, EntryIsLive, Live
  <2>2. r.chat = turns[a].chat /\ r.phase = "streaming"
    BY <2>1, <1>ty DEF RunnerTypeOK, TurnRecord, Streaming
  <2> HIDE DEF a, r
  <2> QED BY <2>1, <2>2, <1>s, <1>ty DEF RunnerTypeOK, Creating
<1>8. ASSUME NEW d \in Chats, NEW k \in Tools, NEW clear \in BOOLEAN, RespondTool(d, k, clear)
      PROVE  Goal
  <2> DEFINE a == activeTurns[d]
             f == [FreshTurn(d) EXCEPT !.isFollowUp = TRUE]
             r == [turns[a] EXCEPT !.pendingTool = NoTool, !.status = "running"]
  <2>1. /\ a \in Turns /\ Streaming(a) /\ turns[a].chat = d
        /\ turns' = [turns EXCEPT ![a] = r] \/ turns' = [turns EXCEPT ![a] = f]
    BY <1>8, <1>ty DEF RespondTool, RunnerInv, RunnerTypeOK, EntryIsLive, Live
  <2>2. /\ r.chat = d /\ r.phase = "streaming"
        /\ f.chat = d /\ f.phase = "creating" /\ f.isFollowUp
    BY <2>1, <1>ty DEF RunnerTypeOK, TurnRecord, Streaming, FreshTurn
  <2> HIDE DEF a, r, f
  <2> QED BY <2>1, <2>2, <1>s, <1>ty DEF RunnerTypeOK, Creating
<1>9. ASSUME NEW d \in Chats, Cancel(d) PROVE Goal
  <2> DEFINE a == activeTurns[d]
             r == [turns[a] EXCEPT
                     !.cancelRequested = TRUE,
                     !.pendingTool     = NoTool,
                     !.phase           = IF IsCodex(a) THEN "ended" ELSE turns[a].phase]
  <2>1. a \in Turns /\ Streaming(a) /\ turns' = [turns EXCEPT ![a] = r]
    BY <1>9, <1>ty DEF Cancel, RunnerInv, RunnerTypeOK, EntryIsLive, Live
  <2>2. r.chat = turns[a].chat /\ r.phase \in {"streaming", "ended"}
    BY <2>1, <1>ty DEF RunnerTypeOK, TurnRecord, Streaming
  <2> HIDE DEF a, r
  <2> QED BY <2>1, <2>2, <1>s, <1>ty DEF RunnerTypeOK, Creating
<1>10. CASE UNCHANGED runnerVars
  BY <1>10, <1>o DEF runnerVars
<1> QED
  BY <1>1, <1>2, <1>3, <1>4, <1>5, <1>6, <1>7, <1>8, <1>9, <1>10 DEF RunnerNext

\* What was last said of the chat of a Codex turn that is being read, it said itself.
HasLastWord(t) ==
    \A i \in DOMAIN events :
        /\ IsMark(events[i], turns[t].chat)
        /\ \A j \in DOMAIN events : IsMark(events[j], turns[t].chat) => j <= i
        => events[i].by = t

\* So it is for each of them.
LastWords == \A t \in Turns : IsCodex(t) /\ Streaming(t) => HasLastWord(t)

\* Nobody else speaks for the chat once the turn is read, and its start is a word of its own.
LEMMA LastWordsStep ==
    ASSUME RunnerInv, CodexHarness, LastWords, [RunnerNext]_runnerVars
    PROVE  LastWords'
<1> SUFFICES ASSUME NEW t \in Turns, IsCodex(t)', Streaming(t)' PROVE HasLastWord(t)'
  BY DEF LastWords
<1>ty. RunnerTypeOK /\ turns'[t].chat = turns[t].chat /\ IsCodex(t)
  BY PhasesGoOn DEF RunnerInv, IsCodex
<1>1. CASE CreateTurnOk(t)
  <2> DEFINE e == Ev(t, "status_change", "starting")
  <2>1. e \in Event /\ e.by = t /\ e.chat = turns[t].chat /\ e.type = "status_change"
    BY <1>ty, EvType DEF Ev, RunnerTypeOK, EventTypes, EventArgs, Status
  <2>2. events' = events \o <<e>> /\ events \in Seq(Event)
    BY <1>1, <1>ty DEF CreateTurnOk, Publish, RunnerTypeOK
  <2> HIDE DEF e
  <2>3. /\ DOMAIN events' = 1..(Len(events) + 1) /\ events'[Len(events) + 1] = e
        /\ Len(events) \in Nat
    BY <2>1, <2>2
  <2>4. IsMark(events'[Len(events) + 1], turns'[t].chat) /\ Len(events) + 1 \in DOMAIN events'
    BY <2>1, <2>3, <1>ty DEF IsMark
  <2> QED BY <2>1, <2>3, <2>4, <1>ty DEF HasLastWord
<1>2. CASE Streaming(t)
  <2>0. HasLastWord(t)
    BY <1>2, <1>ty DEF LastWords
  <2>1. CASE UNCHANGED events
    BY <2>0, <2>1, <1>ty DEF HasLastWord
  <2>2. ASSUME NEW u \in Turns, NEW evs, Spoken(u, evs), Publish(evs) PROVE HasLastWord(t)'
    <3>1. \A i \in DOMAIN evs : IsMark(evs[i], turns[t].chat) => evs[i].by = t
      BY <2>2, <1>2, <1>ty, SessionHeld DEF Spoken, IsMark
    <3>2. /\ events' = events \o evs /\ events \in Seq(Event) /\ evs \in Seq(Event)
      BY <2>2, <1>ty DEF Publish, Spoken, RunnerTypeOK
    <3>3. /\ \A i \in DOMAIN events : i \in DOMAIN events' /\ events'[i] = events[i]
          /\ \A i \in DOMAIN events' : i \in DOMAIN events
                                       \/ \E j \in DOMAIN evs : events'[i] = evs[j]
      BY <3>2, AddedTo
    <3> QED BY <2>0, <3>1, <3>3, <1>ty DEF HasLastWord
  <2> QED BY <2>1, <2>2, OneSpeaks
<1> QED BY <1>1, <1>2, PhasesGoOn DEF Streaming

-----------------------------------------------------------------------------
(* What the runner does within the pipeline *)

\* The runner's part of a step is a step of the runner.
LEMMA RunnerPart ==
    ASSUME NEW t \in Turns, TakeCommand(t) \/ CreateTurn(t) \/ RunTurn(t) \/ Interact
    PROVE  RunnerNext
BY DEF TakeCommand, RunnerNext, CreateTurn, RunTurn, Interact

\* A step of the runner, seen in the pipeline.
RunnerPartOf == RunnerNext /\ \/ \E t \in Turns : TakeCommand(t) \/ CreateTurn(t) \/ RunTurn(t)
                              \/ Interact
\* What the hub does apart from reading an event.
HubPart ==
    \/ \E m \in Messages : SubmitMessage(m)
    \/ \E g \in Delegations, c \in Chats : ResumeParent(g, c)
    \/ \E x \in Calls : RequestStart(x) \/ StartAccepted(x) \/ StartRefused(x)
    \/ ApplyQueued \/ ApplyCleared \/ ApplyTurnEnd

\* A step of the pipeline is the runner's, or the hub's on its own, or takes an event
\* from the one to the other.
LEMMA StepKinds == PipelineNext => RunnerPartOf \/ HubPart \/ ConsumeEvent \/ ConsumeTurnEnd
BY RunnerPart DEF Interact, RunnerNext, PipelineNext, HubStep, RunnerPartOf, HubPart

\* The hub on its own leaves the runner alone.
LEMMA HubPartKeepsRunner == HubPart => UNCHANGED runnerVars
<1>1. ASSUME NEW m \in Messages, SubmitMessage(m) PROVE UNCHANGED runnerVars
  BY <1>1 DEF SubmitMessage
<1>2. ASSUME NEW g \in Delegations, NEW c \in Chats, ResumeParent(g, c) PROVE UNCHANGED runnerVars
  BY <1>2 DEF ResumeParent
<1>3. ASSUME NEW x \in Calls, RequestStart(x) \/ StartAccepted(x) \/ StartRefused(x)
      PROVE  UNCHANGED runnerVars
  BY <1>3 DEF RequestStart, StartAccepted, StartRefused
<1>4. CASE ApplyQueued \/ ApplyCleared \/ ApplyTurnEnd
  BY <1>4 DEF ApplyQueued, ApplyCleared, ApplyTurnEnd
<1> QED BY <1>1, <1>2, <1>3, <1>4 DEF HubPart

-----------------------------------------------------------------------------
(* Type correctness *)

\* A status event carries a status.
StatusArgs == \A i \in DOMAIN events : events[i].type = "status_change" => events[i].arg \in Status

\* What remains of a sequence once its head is taken.
LEMMA TailOf ==
    ASSUME NEW S, NEW s \in Seq(S), s # <<>>
    PROVE  /\ Head(s) \in S /\ Head(s) = s[1] /\ 1 \in DOMAIN s
           /\ Tail(s) \in Seq(S) /\ Len(s) \in Nat
           /\ \A i \in DOMAIN Tail(s) : i \in Nat /\ i + 1 \in DOMAIN s /\ Tail(s)[i] = s[i + 1]
           /\ \A i \in DOMAIN s : i \in Nat /\ i >= 1 /\ (i > 1 => i - 1 \in DOMAIN Tail(s) /\ Tail(s)[i - 1] = s[i])
<1>1. DOMAIN s = 1..Len(s) /\ Len(s) \in Nat \ {0}
  OBVIOUS
<1>2. /\ Head(s) = s[1] /\ Head(s) \in S /\ Tail(s) \in Seq(S) /\ DOMAIN Tail(s) = 1..(Len(s) - 1)
      /\ \A i \in 1..(Len(s) - 1) : Tail(s)[i] = s[i + 1]
  OBVIOUS
<1>3. \A i \in 1..(Len(s) - 1) : i \in Nat /\ i + 1 \in 1..Len(s)
  BY <1>1
<1>4. \A i \in 1..Len(s) : i \in Nat /\ i >= 1 /\ (i > 1 => i - 1 \in 1..(Len(s) - 1) /\ (i - 1) + 1 = i)
  BY <1>1
<1>5. 1 \in 1..Len(s)
  BY <1>1
<1>6. \A i \in 1..Len(s) : i > 1 => Tail(s)[i - 1] = s[i]
  <2> SUFFICES ASSUME NEW i \in 1..Len(s), i > 1 PROVE Tail(s)[i - 1] = s[i]
    OBVIOUS
  <2> DEFINE j == i - 1
  <2>1. j \in 1..(Len(s) - 1) /\ j + 1 = i
    BY <1>4
  <2> HIDE DEF j
  <2>2. Tail(s)[j] = s[j + 1]
    BY <2>1, <1>2
  <2> QED BY <2>1, <2>2 DEF j
<1> QED BY <1>1, <1>2, <1>3, <1>4, <1>5, <1>6

\* A sequence with one more member.
LEMMA AppendTo ==
    ASSUME NEW S, NEW s \in Seq(S), NEW e \in S
    PROVE  /\ Append(s, e) \in Seq(S) /\ Len(s) \in Nat
           /\ \A i \in DOMAIN s : i \in Nat /\ i <= Len(s) /\ i \in DOMAIN Append(s, e) /\ Append(s, e)[i] = s[i]
           /\ Len(s) + 1 \in DOMAIN Append(s, e) /\ Append(s, e)[Len(s) + 1] = e
           /\ \A i \in DOMAIN Append(s, e) : i \in DOMAIN s \/ i = Len(s) + 1
OBVIOUS

\* A drain's step.
LEMMA DrainType ==
    ASSUME PipelineTypeOK, NEW c \in Chats, NEW statuses, NEW chain \in Seq(Append_),
           DrainQueuedTurn(c, statuses, chain)
    PROVE  /\ calls' \in [Calls -> CallRecord]
           /\ writeChain' \in Seq(Append_)
           /\ recentlyStarted' \in SUBSET Chats
<1>1. recentlyStarted' \in SUBSET Chats
  BY DEF DrainQueuedTurn, PipelineTypeOK
<1>2. CASE UNCHANGED calls /\ writeChain' = chain
  BY <1>1, <1>2 DEF PipelineTypeOK
<1>3. ASSUME NEW d \in Drains,
             calls' = [calls EXCEPT ![d] = [state |-> "clearing", chat |-> c,
                                            content |-> queued[c], turn |-> NoTurn]],
             writeChain' = Append(chain, [op |-> "clear", chat |-> c, content |-> {}, by |-> d])
      PROVE  calls' \in [Calls -> CallRecord] /\ writeChain' \in Seq(Append_)
  BY <1>3, AppendTo DEF CallRecord, CallStates, PipelineTypeOK, Append_, Calls
<1>4. (\E d \in Drains : /\ calls' = [calls EXCEPT ![d] = [state |-> "clearing", chat |-> c,
                                            content |-> queued[c], turn |-> NoTurn]]
                         /\ writeChain' = Append(chain, [op |-> "clear", chat |-> c, content |-> {}, by |-> d]))
      \/ (UNCHANGED calls /\ writeChain' = chain)
  <2> DEFINE free == {d \in Drains : calls[d].state = "idle"}
  <2>1. free # {} => (CHOOSE x \in free : TRUE) \in Drains
    OBVIOUS
  <2> QED BY <2>1, Zenon DEF DrainQueuedTurn
<1> QED BY <1>1, <1>2, <1>3, <1>4

\* onStateChange, whether or not it drains, keeps what the hub holds well typed.
LEMMA StateChangeType ==
    ASSUME PipelineTypeOK, NEW c \in Chats, NEW statuses \in [Chats -> Status \cup {"idle"}],
           NEW chain \in Seq(Append_), OnStateChange(c, statuses, chain)
    PROVE  /\ calls' \in [Calls -> CallRecord]
           /\ writeChain' \in Seq(Append_)
           /\ recentlyStarted' \in SUBSET Chats
           /\ activeStatuses' = statuses /\ previousStatuses' = statuses
BY DrainType DEF OnStateChange, PipelineTypeOK

\* The hub starts well typed.
LEMMA PipelineTypeInit == PipelineInit => PipelineTypeOK
<1> SUFFICES ASSUME PipelineInit PROVE PipelineTypeOK
  OBVIOUS
<1>1. calls \in [Calls -> CallRecord]
  BY DEF PipelineInit, CallRecord, CallStates
<1>2. [content |-> {}, reply |-> "none", outcome |-> "open"] \in Request
  BY DEF Request
<1>3. commands \in Seq(Turns) /\ writeChain \in Seq(Append_)
  BY DEF PipelineInit
<1>4. requests \in [Turns -> Request] /\ queued \in [Chats -> SUBSET Messages]
  BY <1>2 DEF PipelineInit
<1> QED BY <1>1, <1>3, <1>4 DEF PipelineInit, PipelineTypeOK

\* Each step of the runner, of the consumer and of a call keeps the hub well typed.
LEMMA PipelineTypeStep ==
    ASSUME PipelineTypeOK, RunnerTypeOK, StatusArgs, [PipelineNext]_pipelineVars
    PROVE  PipelineTypeOK'
<1> USE DEF PipelineTypeOK
<1>end. \A e \in Event : [op |-> "turn_end", chat |-> e.chat, content |-> {}, by |-> NoTurn] \in Append_
  BY DEF Append_, Event
<1>cs. \A x \in Calls, s \in CallStates : [calls[x] EXCEPT !.state = s] \in CallRecord
  BY DEF CallRecord
<1>rt. \A x \in Calls, s \in CallStates : Returned(x, s) \in CallRecord
  <2> SUFFICES ASSUME NEW x \in Calls, NEW s \in CallStates PROVE Returned(x, s) \in CallRecord
    OBVIOUS
  <2>1. calls[x] \in CallRecord
    OBVIOUS
  <2>2. [calls[x] EXCEPT !.state = "idle", !.content = {}, !.turn = NoTurn] \in CallRecord
    BY <2>1 DEF CallRecord, CallStates
  <2> QED BY <2>2, <1>cs DEF Returned
<1>1. ASSUME NEW m \in Messages, SubmitMessage(m) PROVE PipelineTypeOK'
  <2> DEFINE call(s) == [calls[m] EXCEPT !.content = {m}, !.state = s]
             w       == [op |-> "queue", chat |-> calls[m].chat, content |-> {m}, by |-> m]
  <2>0. m \in Calls /\ calls[m] \in CallRecord
    BY DEF Calls
  <2>1. \A s \in CallStates : call(s) \in CallRecord
    BY <2>0 DEF CallRecord
  <2>2. w \in Append_
    BY <2>0 DEF Append_, CallRecord
  <2>3. \E s \in CallStates : calls' = [calls EXCEPT ![m] = call(s)]
    BY <1>1 DEF SubmitMessage, CallStates
  <2>4. writeChain' = writeChain \/ writeChain' = Append(writeChain, w)
    BY <1>1 DEF SubmitMessage
  <2> HIDE DEF call, w
  <2>5. calls' \in [Calls -> CallRecord]
    BY <2>1, <2>3
  <2>6. writeChain' \in Seq(Append_)
    BY <2>2, <2>4, AppendTo
  <2> QED BY <2>5, <2>6, <1>1 DEF SubmitMessage
<1>2. ASSUME NEW g \in Delegations, NEW c \in Chats, ResumeParent(g, c) PROVE PipelineTypeOK'
  BY <1>2, DrainType DEF ResumeParent
<1>3. ASSUME NEW x \in Calls, RequestStart(x) PROVE PipelineTypeOK'
  <2> DEFINE free == Unrequested(calls[x].chat)
  <2>1. PICK t \in Turns : /\ calls' = [calls EXCEPT ![x].state = "requested", ![x].turn = t]
                           /\ requests' = [requests EXCEPT ![t].content = calls[x].content]
                           /\ commands' = Append(commands, t)
    <3>1. (CHOOSE u \in free : TRUE) \in Turns
      BY <1>3 DEF RequestStart, Unrequested
    <3> HIDE DEF free
    <3> QED BY <1>3, <3>1 DEF RequestStart, free
  <2>2. calls' \in [Calls -> CallRecord]
    <3>1. [calls[x] EXCEPT !.state = "requested", !.turn = t] \in CallRecord
      BY DEF CallRecord, CallStates
    <3>2. calls' = [calls EXCEPT ![x] = [calls[x] EXCEPT !.state = "requested", !.turn = t]]
      BY <2>1
    <3> QED BY <3>1, <3>2
  <2>3. requests' \in [Turns -> Request]
    <3>1. calls[x].content \in SUBSET Messages
      BY DEF CallRecord
    <3> QED BY <2>1, <3>1 DEF Request
  <2>4. commands' \in Seq(Turns)
    BY <2>1
  <2> QED BY <1>3, <2>2, <2>3, <2>4 DEF RequestStart
<1>4. ASSUME NEW x \in Calls, StartAccepted(x) PROVE PipelineTypeOK'
  <2>1. calls' \in [Calls -> CallRecord]
    BY <1>4, <1>rt DEF StartAccepted, CallStates
  <2>2. requests' \in [Turns -> Request]
    <3>1. PICK t : requests' = [requests EXCEPT ![t].outcome = "accepted"]
      BY <1>4 DEF StartAccepted
    <3>2. \A u \in Turns : [requests[u] EXCEPT !.outcome = "accepted"] \in Request
      BY DEF Request
    <3> QED BY <3>1, <3>2
  <2>3. calls[x].chat \in Chats
    BY DEF CallRecord
  <2> QED BY <1>4, <2>1, <2>2, <2>3 DEF StartAccepted
<1>5. ASSUME NEW x \in Calls, StartRefused(x) PROVE PipelineTypeOK'
  <2>1. calls' \in [Calls -> CallRecord]
    BY <1>5, <1>cs DEF StartRefused, CallStates
  <2>2. requests' \in [Turns -> Request]
    <3>1. PICK t : requests' = [requests EXCEPT ![t].outcome = "refused"]
      BY <1>5 DEF StartRefused
    <3>2. \A u \in Turns : [requests[u] EXCEPT !.outcome = "refused"] \in Request
      BY DEF Request
    <3> QED BY <3>1, <3>2
  <2>3. StoreAppend("queue", x) \in Append_
    BY DEF StoreAppend, Append_, CallRecord
  <2>4. writeChain' \in Seq(Append_)
    <3>1. PICK w \in Append_ : w = StoreAppend("queue", x)
      BY <2>3
    <3>2. writeChain' = Append(writeChain, w) \/ writeChain' = writeChain
      BY <1>5, <3>1 DEF StartRefused
    <3> QED BY <3>2, AppendTo
  <2> QED BY <1>5, <2>1, <2>2, <2>4 DEF StartRefused
<1>6. CASE ConsumeEvent
  <2> DEFINE e == Head(events)
  <2>1. e \in Event /\ e = events[1] /\ 1 \in DOMAIN events
    BY <1>6, TailOf DEF ConsumeEvent, RunnerTypeOK
  <2>2. e.chat \in Chats /\ (e.type = "status_change" => e.arg \in Status)
    BY <2>1 DEF StatusArgs, Event
  <2> HIDE DEF e
  <2>3. PICK statuses \in [Chats -> Status \cup {"idle"}] : statuses = Observed(e)
    BY <2>2 DEF Observed
  <2>4. OnStateChange(e.chat, statuses, writeChain)
    BY <1>6, <2>3 DEF ConsumeEvent, e
  <2> QED BY <1>6, <2>2, <2>4, StateChangeType DEF ConsumeEvent
<1>7. CASE ConsumeTurnEnd
  BY <1>7, TailOf, <1>end, AppendTo DEF ConsumeTurnEnd, RunnerTypeOK
<1>hd. ASSUME writeChain # <<>>
       PROVE  Head(writeChain) \in Append_ /\ Tail(writeChain) \in Seq(Append_)
  BY <1>hd, TailOf
<1>8. CASE ApplyQueued
  <2>1. PICK w \in Append_ : w = Head(writeChain)
    BY <1>8, <1>hd DEF ApplyQueued
  <2>2. w.chat \in Chats /\ w.content \in SUBSET Messages
    BY DEF Append_
  <2>3. queued' \in [Chats -> SUBSET Messages]
    BY <1>8, <2>1, <2>2 DEF ApplyQueued
  <2>4. calls' = [calls EXCEPT ![w.by] = Returned(w.by, "queued")]
    BY <1>8, <2>1 DEF ApplyQueued
  <2>5. calls' \in [Calls -> CallRecord]
    BY <2>4, <1>rt DEF CallStates
  <2> QED BY <1>8, <1>hd, <2>3, <2>5 DEF ApplyQueued
<1>9. CASE ApplyCleared
  <2>1. PICK w \in Append_ : w = Head(writeChain)
    BY <1>9, <1>hd DEF ApplyCleared
  <2>2. queued' \in [Chats -> SUBSET Messages]
    BY <1>9, <2>1 DEF ApplyCleared
  <2>3. calls' = [calls EXCEPT ![w.by].state = "sending"]
    BY <1>9, <2>1 DEF ApplyCleared
  <2>4. calls' \in [Calls -> CallRecord]
    BY ZenonT(40), <2>3 DEF CallStates, CallRecord
  <2> QED BY <1>9, <1>hd, <2>2, <2>4 DEF ApplyCleared
<1>10. CASE ApplyTurnEnd
  <2>1. PICK w \in Append_ : w = Head(writeChain)
    BY <1>10, <1>hd DEF ApplyTurnEnd
  <2>2. PICK c \in Chats : c = w.chat
    BY DEF Append_
  <2>3. PICK statuses \in [Chats -> Status \cup {"idle"}] : statuses = [activeStatuses EXCEPT ![c] = "idle"]
    OBVIOUS
  <2>4. PICK chain \in Seq(Append_) : chain = Tail(writeChain)
    BY <1>10, <1>hd DEF ApplyTurnEnd
  <2>5. OnStateChange(c, statuses, chain)
    BY <1>10, <2>1, <2>2, <2>3, <2>4 DEF ApplyTurnEnd
  <2>6. /\ calls' \in [Calls -> CallRecord] /\ writeChain' \in Seq(Append_)
        /\ recentlyStarted' \in SUBSET Chats
        /\ activeStatuses' = statuses /\ previousStatuses' = statuses
    BY <2>5, StateChangeType
  <2> QED BY <1>10, <2>6 DEF ApplyTurnEnd
<1>11. ASSUME NEW t \in Turns, TakeCommand(t) \/ CreateTurn(t) PROVE PipelineTypeOK'
  <2>1. \/ UNCHANGED requests
        \/ \E reply \in {"ok", "error"} : requests' = [requests EXCEPT ![t].reply = reply]
    BY <1>11 DEF TakeCommand, CreateTurn, Answer
  <2>2. requests' \in [Turns -> Request]
    BY <2>1 DEF Request
  <2>3. commands' \in Seq(Turns)
    <3>1. CASE TakeCommand(t)
      BY <3>1, TailOf DEF TakeCommand
    <3> QED BY <3>1, <1>11 DEF CreateTurn
  <2> QED BY <1>11, <2>2, <2>3 DEF TakeCommand, CreateTurn
<1>12. CASE UNCHANGED hubVars
  BY <1>12 DEF hubVars
<1>13. ASSUME NEW t \in Turns, RunTurn(t) \/ Interact PROVE UNCHANGED hubVars
  BY <1>13 DEF RunTurn, Interact
<1>14. Interact => UNCHANGED hubVars
  BY DEF Interact
<1> QED
  BY <1>1, <1>2, <1>3, <1>4, <1>5, <1>6, <1>7, <1>8, <1>9, <1>10, <1>11, <1>12, <1>13, <1>14
     DEF PipelineNext, HubStep, pipelineVars

-----------------------------------------------------------------------------
(* What the hub knows of a chat *)

\* The end of a turn of c is being written.
Ending(c) == \E i \in DOMAIN writeChain : writeChain[i].op = "turn_end" /\ writeChain[i].chat = c

\* The consumer has one turn-end write under way while it waits, and else none.
EndIsAwaited ==
    /\ \A i, j \in DOMAIN writeChain :
          writeChain[i].op = "turn_end" /\ writeChain[j].op = "turn_end" => i = j
    /\ consuming <=> \E i \in DOMAIN writeChain : writeChain[i].op = "turn_end"

\* What the hub takes a chat for, counting the end it is about to apply.
Taken(c) == IF Ending(c) THEN "idle" ELSE activeStatuses[c]

\* Its view and the events it has yet to read make the status of the chat.
HubTold == \A c \in CodexChats : Tells(events, c, Taken(c), ChatStatus(c))

\* The inductive invariant: what the runner keeps, and what the hub has taken in of it.
HubInv ==
    /\ RunnerInv /\ CodexHarness /\ LastWords /\ StatusArgs
    /\ PipelineTypeOK /\ EndIsAwaited /\ HubTold

\* Reading an event: the view takes its mark over.
LEMMA ReadOne ==
    ASSUME NEW s \in Seq(Event), s # <<>>, NEW c, NEW before, NEW now, Tells(s, c, before, now)
    PROVE  Tells(Tail(s), c, IF IsMark(Head(s), c) THEN MarkedStatus(Head(s)) ELSE before, now)
<1>1. /\ Head(s) = s[1] /\ 1 \in DOMAIN s
      /\ \A i \in DOMAIN Tail(s) : i \in Nat /\ i + 1 \in DOMAIN s /\ Tail(s)[i] = s[i + 1]
      /\ \A i \in DOMAIN s : i \in Nat /\ i >= 1
                             /\ (i > 1 => i - 1 \in DOMAIN Tail(s) /\ Tail(s)[i - 1] = s[i])
  BY TailOf
<1> DEFINE rest == Tail(s)
           base == IF IsMark(Head(s), c) THEN MarkedStatus(Head(s)) ELSE before
<1> HIDE DEF rest
<1>2. CASE now = before /\ \A i \in DOMAIN s : ~IsMark(s[i], c)
  BY <1>1, <1>2 DEF Tells, rest
<1>3. ASSUME NEW i \in DOMAIN s, IsMark(s[i], c), now = MarkedStatus(s[i]),
             \A j \in DOMAIN s : IsMark(s[j], c) => j <= i
      PROVE  Tells(rest, c, base, now)
  <2>1. CASE i = 1
    <3>1. \A j \in DOMAIN rest : ~IsMark(rest[j], c)
      <4> SUFFICES ASSUME NEW j \in DOMAIN rest, IsMark(rest[j], c) PROVE FALSE
        OBVIOUS
      <4>1. j \in Nat /\ j + 1 \in DOMAIN s /\ IsMark(s[j + 1], c)
        BY <1>1 DEF rest
      <4>2. j + 1 <= 1
        BY <4>1, <1>3, <2>1
      <4>3. j >= 1
        BY TailOf DEF rest
      <4> QED BY <4>1, <4>2, <4>3
    <3> QED BY <3>1, <2>1, <1>1, <1>3 DEF Tells
  <2>2. CASE i > 1
    <3>1. i - 1 \in DOMAIN rest /\ rest[i - 1] = s[i]
      BY <1>1, <2>2 DEF rest
    <3>2. \A j \in DOMAIN rest : IsMark(rest[j], c) => j <= i - 1
      <4> SUFFICES ASSUME NEW j \in DOMAIN rest, IsMark(rest[j], c) PROVE j <= i - 1
        OBVIOUS
      <4>1. j \in Nat /\ j + 1 \in DOMAIN s /\ IsMark(s[j + 1], c) /\ i \in Nat
        BY <1>1 DEF rest
      <4>2. j + 1 <= i
        BY <4>1, <1>3
      <4> QED BY <4>1, <4>2
    <3> QED BY <3>1, <3>2, <1>3 DEF Tells
  <2> QED BY <1>1, <2>1, <2>2
<1> QED BY <1>2, <1>3 DEF Tells, rest

\* The chain of a step that neither adds nor applies a turn's end.
LEMMA ChainKeepsEnds ==
    ASSUME PipelineTypeOK, EndIsAwaited, UNCHANGED consuming,
           \/ UNCHANGED writeChain
           \/ \E w \in Append_ : w.op # "turn_end" /\ writeChain' = Append(writeChain, w)
           \/ writeChain # <<>> /\ Head(writeChain).op # "turn_end" /\ writeChain' = Tail(writeChain)
    PROVE  EndIsAwaited' /\ \A c : Ending(c)' <=> Ending(c)
<1>ch. writeChain \in Seq(Append_)
  BY DEF PipelineTypeOK
<1>1. CASE UNCHANGED writeChain
  BY <1>1 DEF EndIsAwaited, Ending
<1>2. ASSUME NEW w \in Append_, w.op # "turn_end", writeChain' = Append(writeChain, w)
      PROVE  EndIsAwaited' /\ \A c : Ending(c)' <=> Ending(c)
  BY <1>2, <1>ch, AppendTo DEF EndIsAwaited, Ending
<1>3. ASSUME writeChain # <<>>, Head(writeChain).op # "turn_end", writeChain' = Tail(writeChain)
      PROVE  EndIsAwaited' /\ \A c : Ending(c)' <=> Ending(c)
  <2>1. /\ Head(writeChain) = writeChain[1]
        /\ \A i \in DOMAIN writeChain' : i \in Nat /\ i + 1 \in DOMAIN writeChain
                                         /\ writeChain'[i] = writeChain[i + 1]
        /\ \A i \in DOMAIN writeChain : i \in Nat /\ i >= 1
              /\ (i > 1 => i - 1 \in DOMAIN writeChain' /\ writeChain'[i - 1] = writeChain[i])
    BY <1>3, <1>ch, TailOf
  <2>2. \A i \in DOMAIN writeChain : writeChain[i].op = "turn_end"
           => i - 1 \in DOMAIN writeChain' /\ writeChain'[i - 1] = writeChain[i]
    BY <2>1, <1>3
  <2>3. \A i, j \in DOMAIN writeChain' :
           writeChain'[i].op = "turn_end" /\ writeChain'[j].op = "turn_end" => i = j
    BY <2>1 DEF EndIsAwaited
  <2>4. \A c : Ending(c)' <=> Ending(c)
    BY <2>1, <2>2 DEF Ending
  <2>5. consuming <=> \E i \in DOMAIN writeChain' : writeChain'[i].op = "turn_end"
    BY <2>1, <2>2 DEF EndIsAwaited
  <2> QED BY <2>3, <2>4, <2>5 DEF EndIsAwaited
<1> QED BY <1>1, <1>2, <1>3

\* What a drain adds to the chain.
LEMMA DrainAppends ==
    ASSUME NEW c \in Chats, NEW statuses, NEW chain, DrainQueuedTurn(c, statuses, chain)
    PROVE  writeChain' = chain \/ \E w \in Append_ : w.op = "clear" /\ writeChain' = Append(chain, w)
<1> DEFINE free == {d \in Drains : calls[d].state = "idle"}
           d    == CHOOSE x \in free : TRUE
           w    == [op |-> "clear", chat |-> c, content |-> {}, by |-> d]
<1>1. writeChain' = chain \/ (free # {} /\ writeChain' = Append(chain, w))
  BY DEF DrainQueuedTurn
<1>2. free # {} => w \in Append_
  BY DEF Append_, Calls
<1>3. w.op = "clear"
  OBVIOUS
<1> HIDE DEF w, free
<1> QED BY <1>1, <1>2, <1>3

\* Steps of the hub other than the two that read an event and the one that applies an end.
LEMMA QuietHub ==
    ASSUME HubInv, HubPart, ~ApplyTurnEnd
    PROVE  /\ UNCHANGED <<runnerVars, activeStatuses>> /\ EndIsAwaited'
           /\ \A c : Ending(c)' <=> Ending(c)
<1> USE DEF HubInv
<1>r. UNCHANGED runnerVars
  BY HubPartKeepsRunner
<1> DEFINE Kept == \/ UNCHANGED writeChain
                   \/ \E w \in Append_ : w.op # "turn_end" /\ writeChain' = Append(writeChain, w)
                   \/ writeChain # <<>> /\ Head(writeChain).op # "turn_end" /\ writeChain' = Tail(writeChain)
<1>1. ASSUME NEW m \in Messages, SubmitMessage(m) PROVE UNCHANGED <<activeStatuses, consuming>> /\ Kept
  BY <1>1 DEF Calls, PipelineTypeOK, CallRecord, Append_, SubmitMessage
<1>2. ASSUME NEW g \in Delegations, NEW c \in Chats, ResumeParent(g, c)
      PROVE  UNCHANGED <<activeStatuses, consuming>> /\ Kept
  BY <1>2, DrainAppends DEF ResumeParent
<1>3. ASSUME NEW x \in Calls, RequestStart(x) \/ StartAccepted(x)
      PROVE  UNCHANGED <<activeStatuses, consuming>> /\ Kept
  BY <1>3 DEF RequestStart, StartAccepted
<1>4. ASSUME NEW x \in Calls, StartRefused(x) PROVE UNCHANGED <<activeStatuses, consuming>> /\ Kept
  BY <1>4 DEF StoreAppend, Append_, PipelineTypeOK, CallRecord, StartRefused
<1>5. ASSUME ApplyQueued \/ ApplyCleared PROVE UNCHANGED <<activeStatuses, consuming>> /\ Kept
  BY <1>5 DEF ApplyQueued, ApplyCleared
<1>6. UNCHANGED <<activeStatuses, consuming>> /\ Kept
  BY <1>1, <1>2, <1>3, <1>4, <1>5 DEF HubPart
<1> HIDE DEF Kept, HubInv
<1>7. PipelineTypeOK /\ EndIsAwaited
  BY DEF HubInv
<1> QED BY <1>r, <1>6, <1>7, ChainKeepsEnds DEF Kept

\* The runner publishes statuses as statuses.
LEMMA StatusArgsStep ==
    ASSUME RunnerInv, CodexHarness, StatusArgs, RunnerNext
    PROVE  StatusArgs'
<1>1. CASE UNCHANGED events
  BY <1>1 DEF StatusArgs
<1>2. ASSUME NEW u \in Turns, NEW evs, Spoken(u, evs), Publish(evs) PROVE StatusArgs'
  BY <1>2, AddedTo DEF Spoken, Publish, RunnerInv, RunnerTypeOK, StatusArgs
<1> QED BY <1>1, <1>2, OneSpeaks

\* The log one event shorter.
LEMMA ReadStep ==
    ASSUME RunnerInv, CodexHarness, LastWords, StatusArgs, events # <<>>, events' = Tail(events),
           UNCHANGED <<turns, activeTurns, tools, starting>>
    PROVE  /\ RunnerInv' /\ CodexHarness' /\ LastWords' /\ StatusArgs'
           /\ \A c : ChatStatus(c)' = ChatStatus(c)
<1>1. /\ Tail(events) \in Seq(Event)
      /\ \A i \in DOMAIN events' : i \in Nat /\ i + 1 \in DOMAIN events /\ events'[i] = events[i + 1]
      /\ \A i \in DOMAIN events : i \in Nat /\ i >= 1
            /\ (i > 1 => i - 1 \in DOMAIN events' /\ events'[i - 1] = events[i])
  BY TailOf DEF RunnerInv, RunnerTypeOK
<1>2. RunnerInv'
  BY <1>1 DEF RunnerInv, RunnerTypeOK, EntryIsLive, Live, Streaming, CreatingHasNoEntry, Creating,
              OneStartAtATime, OneTurnPerSession, UnusedIsFresh, LiveTurnTracked, IsCodex
<1>3. CodexHarness'
  BY DEF CodexHarness, Creating, Streaming, IsCodex
<1>4. StatusArgs'
  BY <1>1 DEF StatusArgs
<1>5. LastWords'
  <2> SUFFICES ASSUME NEW t \in Turns, IsCodex(t), Streaming(t), NEW i \in DOMAIN events',
                      IsMark(events'[i], turns[t].chat),
                      \A j \in DOMAIN events' : IsMark(events'[j], turns[t].chat) => j <= i
               PROVE  events'[i].by = t
    BY DEF LastWords, HasLastWord, IsCodex, Streaming
  <2>1. i \in Nat /\ i + 1 \in DOMAIN events /\ events'[i] = events[i + 1]
    BY <1>1
  <2>2. ASSUME NEW j \in DOMAIN events, IsMark(events[j], turns[t].chat) PROVE j <= i + 1
    <3>1. CASE j > 1
      <4>1. j - 1 <= i /\ j \in Nat
        BY <1>1, <2>2, <3>1
      <4> QED BY <4>1, <2>1
    <3>2. CASE ~(j > 1)
      BY <1>1, <3>2, <2>1
    <3> QED BY <3>1, <3>2
  <2> QED BY <2>1, <2>2 DEF LastWords, HasLastWord
<1>6. \A c : ChatStatus(c)' = ChatStatus(c)
  BY DEF ChatStatus, HasFollowUp
<1> QED BY <1>2, <1>3, <1>4, <1>5, <1>6

\* Nothing happened yet.
LEMMA HubInit == PipelineInit => HubInv
<1> SUFFICES ASSUME PipelineInit PROVE HubInv
  OBVIOUS
<1>1. RunnerInit /\ events = <<>> /\ writeChain = <<>> /\ ~consuming
  BY DEF PipelineInit, RunnerInit
<1>2. RunnerInv /\ CodexHarness /\ PipelineTypeOK
  BY <1>1, InvInit, HarnessInit, PipelineTypeInit
<1>3. LastWords /\ StatusArgs /\ EndIsAwaited
  BY <1>1 DEF LastWords, HasLastWord, StatusArgs, EndIsAwaited
<1>4. \A c \in CodexChats : Tells(events, c, "idle", ChatStatus(c))
  BY <1>1, StatusInit DEF StatusInv
<1>5. \A c \in CodexChats : Taken(c) = "idle"
  BY <1>1, RunnerConstants DEF Taken, Ending, PipelineInit
<1> QED BY <1>2, <1>3, <1>4, <1>5 DEF HubInv, HubTold

\* Every step of the pipeline, and every stutter, keeps the hub's knowledge true.
LEMMA HubStepKeeps == HubInv /\ [PipelineNext]_pipelineVars => HubInv'
<1> SUFFICES ASSUME HubInv, [PipelineNext]_pipelineVars PROVE HubInv'
  OBVIOUS
<1>i. /\ RunnerInv /\ CodexHarness /\ LastWords /\ StatusArgs
      /\ PipelineTypeOK /\ EndIsAwaited /\ HubTold /\ RunnerTypeOK
  BY DEF HubInv, RunnerInv
<1>ty. PipelineTypeOK'
  BY <1>i, PipelineTypeStep
<1>same. ASSUME UNCHANGED <<runnerVars, activeStatuses>>, EndIsAwaited', \A c : Ending(c)' <=> Ending(c)
         PROVE  HubInv'
  BY <1>same, <1>i, InvStep, HarnessStep, LastWordsStep, <1>ty DEF StatusArgs, HubTold, Taken, ChatStatus,
     HasFollowUp, runnerVars, HubInv
<1>1. CASE RunnerPartOf
  <2>1. RunnerNext /\ UNCHANGED <<writeChain, consuming, activeStatuses>>
    BY <1>1 DEF RunnerPartOf, TakeCommand, CreateTurn, RunTurn, Interact, hubVars
  <2>2. RunnerInv' /\ CodexHarness' /\ LastWords' /\ StatusArgs'
    BY <2>1, <1>i, InvStep, HarnessStep, LastWordsStep, StatusArgsStep
  <2>3. EndIsAwaited' /\ \A c : Taken(c)' = Taken(c)
    BY <2>1, <1>i DEF EndIsAwaited, Taken, Ending
  <2>4. ASSUME NEW c \in CodexChats PROVE Tells(events, c, Taken(c), ChatStatus(c))'
    BY <1>i, <2>1, StatusStep, <2>3 DEF HubTold
  <2> QED BY <2>2, <2>3, <2>4, <1>ty DEF HubInv, HubTold
<1>2. CASE HubPart /\ ~ApplyTurnEnd
  BY <1>2, <1>same, QuietHub
<1>3. CASE ApplyTurnEnd
  <2>1. PICK d : d = Head(writeChain).chat
    OBVIOUS
  <2>2. /\ UNCHANGED runnerVars /\ consuming' = FALSE /\ writeChain # <<>>
        /\ Head(writeChain).op = "turn_end"
        /\ OnStateChange(d, [activeStatuses EXCEPT ![d] = "idle"], Tail(writeChain))
    BY <1>3, <2>1 DEF ApplyTurnEnd
  <2>3. /\ Tail(writeChain) \in Seq(Append_) /\ Head(writeChain) = writeChain[1] /\ 1 \in DOMAIN writeChain
        /\ Head(writeChain) \in Append_
        /\ \A i \in DOMAIN Tail(writeChain) : /\ i \in Nat /\ i + 1 \in DOMAIN writeChain
                                              /\ Tail(writeChain)[i] = writeChain[i + 1]
        /\ \A i \in DOMAIN writeChain : i \in Nat /\ i >= 1
    BY <2>2, <1>i, TailOf DEF PipelineTypeOK
  <2>4. d \in Chats
    BY <2>1, <2>3 DEF Append_
  <2>5. PICK chain \in Seq(Append_) : chain = Tail(writeChain)
    BY <2>3
  <2>6. writeChain' = chain \/ \E w \in Append_ : w.op = "clear" /\ writeChain' = Append(chain, w)
    BY <2>2, <2>4, <2>5, DrainAppends DEF OnStateChange
  <2>7. \A i \in DOMAIN chain : chain[i].op # "turn_end"
    BY <2>2, <2>3, <2>5, <1>i DEF EndIsAwaited
  <2>8. \A i \in DOMAIN writeChain' : writeChain'[i].op # "turn_end"
    BY AppendTo, <2>7, <2>6
  <2>9. EndIsAwaited' /\ \A c : ~Ending(c)'
    BY <2>2, <2>8 DEF EndIsAwaited, Ending
  <2>10. \A c : Ending(c) <=> c = d
    BY <2>1, <2>2, <2>3, <1>i DEF Ending, EndIsAwaited
  <2>11. activeStatuses' = [activeStatuses EXCEPT ![d] = "idle"]
    BY <2>2 DEF OnStateChange
  <2>12. \A c \in Chats : Taken(c)' = Taken(c)
    BY <2>4, <2>9, <2>10, <2>11, <1>i DEF Taken, PipelineTypeOK
  <2>13. [RunnerNext]_runnerVars
    BY <2>2
  <2>14. RunnerInv' /\ CodexHarness' /\ LastWords'
    BY <2>13, <1>i, InvStep, HarnessStep, LastWordsStep
  <2>15. StatusArgs' /\ \A c \in CodexChats : Tells(events, c, Taken(c), ChatStatus(c))'
    BY <2>12, RunnerConstants, <2>2, <1>i DEF runnerVars, ChatStatus, HasFollowUp, HubTold, StatusArgs
  <2> QED BY <2>9, <2>14, <2>15, <1>ty DEF HubInv, HubTold
<1>e. ASSUME events # <<>>, events' = Tail(events), ~consuming,
             UNCHANGED <<turns, activeTurns, tools, starting>>, EndIsAwaited',
             \A c \in CodexChats : Taken(c)' = IF IsMark(Head(events), c) THEN MarkedStatus(Head(events))
                                          ELSE activeStatuses[c]
      PROVE  HubInv'
  <2>1. /\ RunnerInv' /\ CodexHarness' /\ LastWords' /\ StatusArgs'
        /\ \A c : ChatStatus(c)' = ChatStatus(c)
    BY <1>e, <1>i, ReadStep
  <2>2. ASSUME NEW c \in CodexChats PROVE Tells(events, c, Taken(c), ChatStatus(c))'
    <3>1. Taken(c) = activeStatuses[c]
      BY <1>e, <1>i DEF EndIsAwaited, Taken, Ending
    <3>2. Tells(events, c, activeStatuses[c], ChatStatus(c)) /\ events \in Seq(Event)
      BY <3>1, <1>i DEF HubTold, RunnerTypeOK
    <3>3. PICK next : next = IF IsMark(Head(events), c) THEN MarkedStatus(Head(events))
                             ELSE activeStatuses[c]
      OBVIOUS
    <3>4. Tells(Tail(events), c, next, ChatStatus(c))
      BY <3>2, <3>3, <1>e, ReadOne
    <3>5. next = Taken(c)' /\ ChatStatus(c)' = ChatStatus(c)
      BY <1>e, <3>3, <2>1
    <3> QED BY <3>4, <3>5, <1>e
  <2> QED BY <1>e, <1>ty, <2>1, <2>2 DEF HubInv, HubTold
<1>hd. ASSUME events # <<>>
       PROVE  /\ Head(events) \in Event /\ Head(events) = events[1] /\ 1 \in DOMAIN events
              /\ Head(events).chat \in Chats
  <2>1. Head(events) \in Event /\ Head(events) = events[1] /\ 1 \in DOMAIN events
    BY <1>hd, <1>i, TailOf DEF RunnerTypeOK
  <2> QED BY <2>1 DEF Event
<1>4. CASE ConsumeEvent
  <2>1. PICK e \in Event : e = Head(events)
    BY <1>4, <1>hd DEF ConsumeEvent
  <2>2. /\ events # <<>> /\ events' = Tail(events) /\ ~consuming /\ UNCHANGED consuming
        /\ UNCHANGED <<turns, activeTurns, tools, starting>>
        /\ OnStateChange(e.chat, Observed(e), writeChain) /\ e.type \notin Terminal /\ e.chat \in Chats
    BY <1>4, <2>1, <1>hd DEF ConsumeEvent
  <2>3. activeStatuses' = Observed(e)
    BY <2>2 DEF OnStateChange
  <2>4. \/ UNCHANGED writeChain
        \/ \E w \in Append_ : w.op # "turn_end" /\ writeChain' = Append(writeChain, w)
    BY <2>2, DrainAppends DEF OnStateChange
  <2>5. EndIsAwaited' /\ \A c : Ending(c)' <=> Ending(c)
    BY <2>2, <2>4, <1>i, ChainKeepsEnds
  <2>6. \A c : ~Ending(c)'
    BY <2>2, <2>5, <1>i DEF EndIsAwaited, Ending
  <2>7. \A c \in CodexChats : Taken(c)' = IF IsMark(e, c) THEN MarkedStatus(e) ELSE activeStatuses[c]
    BY <2>2, <2>3, <2>6, <1>i, RunnerConstants DEF Taken, IsMark, MarkedStatus, Observed, PipelineTypeOK
  <2> QED BY <2>1, <2>2, <2>5, <2>7, <1>e
<1>5. CASE ConsumeTurnEnd
  <2>1. PICK e \in Event : e = Head(events)
    BY <1>5, <1>hd DEF ConsumeTurnEnd
  <2> DEFINE w == [op |-> "turn_end", chat |-> e.chat, content |-> {}, by |-> NoTurn]
  <2>2. /\ events # <<>> /\ events' = Tail(events) /\ ~consuming /\ consuming' = TRUE
        /\ UNCHANGED <<turns, activeTurns, tools, starting, activeStatuses>>
        /\ writeChain' = Append(writeChain, w) /\ e.type \in Terminal /\ e.chat \in Chats
    BY <1>5, <2>1, <1>hd DEF ConsumeTurnEnd
  <2>3. w \in Append_ /\ w.op = "turn_end" /\ w.chat = e.chat
    BY <2>2 DEF Append_
  <2> HIDE DEF w
  <2>4. /\ \A i \in DOMAIN writeChain : i \in DOMAIN writeChain' /\ writeChain'[i] = writeChain[i]
        /\ Len(writeChain) + 1 \in DOMAIN writeChain' /\ writeChain'[Len(writeChain) + 1] = w
        /\ \A i \in DOMAIN writeChain' : i \in DOMAIN writeChain \/ i = Len(writeChain) + 1
    BY <2>2, <2>3, <1>i, AppendTo DEF PipelineTypeOK
  <2>5. \A i \in DOMAIN writeChain : writeChain[i].op # "turn_end"
    BY <2>2, <1>i DEF EndIsAwaited
  <2>6. EndIsAwaited' /\ \A c : Ending(c)' <=> c = e.chat
    BY <2>2, <2>3, <2>4, <2>5 DEF EndIsAwaited, Ending
  <2>7. \A c \in CodexChats : Taken(c)' = IF IsMark(e, c) THEN MarkedStatus(e) ELSE activeStatuses[c]
    BY <2>2, <2>6 DEF Taken, IsMark, MarkedStatus, Terminal
  <2> QED BY <2>1, <2>2, <2>6, <2>7, <1>e
<1>6. CASE UNCHANGED pipelineVars
  BY <1>6, <1>i, <1>same DEF pipelineVars, hubVars, EndIsAwaited, Ending
<1> QED BY <1>1, <1>2, <1>3, <1>4, <1>5, <1>6, StepKinds

\* The hub's types, with the runner it talks to.
THEOREM PipelineTypeCorrect == PipelineSpec => []PipelineTypeOK
<1>1. HubInv => PipelineTypeOK
  BY DEF HubInv
<1> QED BY <1>1, HubInit, HubStepKeeps, PTL DEF PipelineSpec

\* A chat whose turn runs is known to be busy, or the word that says so is still to be
\* read; and once the hub has read all, its status is the turn's, for any interleaving of
\* requests, replies, events and writes.
THEOREM HubKnowsItsChats == PipelineSpec => []HubKnows
<1>1. HubInv => StatusAgrees
  <2> SUFFICES ASSUME HubInv, events = <<>>, ~consuming, NEW c \in CodexChats
               PROVE  activeStatuses[c] = ChatStatus(c)
    BY DEF StatusAgrees, ChatStatus, HasFollowUp
  <2>1. Taken(c) = activeStatuses[c] /\ Tells(events, c, Taken(c), ChatStatus(c))
    BY DEF HubInv, EndIsAwaited, Taken, Ending, HubTold
  <2> QED BY <2>1 DEF Tells
<1>2. HubInv => BusyOrAnnounced
  <2> SUFFICES ASSUME HubInv, NEW t \in Turns, IsCodex(t), Live(t), activeStatuses[turns[t].chat] = "idle"
               PROVE  \E i \in DOMAIN events : events[i].by = t /\ events[i].type = "status_change"
    BY DEF BusyOrAnnounced, hasActiveOrJustStartedTurn, hasObservedActiveTurn
  <2> DEFINE c == turns[t].chat
  <2>0. Streaming(t) /\ c \in CodexChats /\ RunnerTypeOK
    BY DEF Live, IsCodex, HubInv, RunnerInv
  <2>1. activeTurns[c] = t /\ t # NoTurn
    BY <2>0, SessionHeld, RunnerConstants DEF HubInv
  <2>2. ChatStatus(c) = turns[t].status /\ turns[t].status # "idle"
    BY <2>0, <2>1 DEF ChatStatus, RunnerTypeOK, TurnRecord, Status
  <2>3. Taken(c) = "idle"
    BY DEF Taken
  <2>4. PICK i \in DOMAIN events : /\ IsMark(events[i], c) /\ ChatStatus(c) = MarkedStatus(events[i])
                                  /\ \A j \in DOMAIN events : IsMark(events[j], c) => j <= i
    BY <2>0, <2>2, <2>3 DEF HubInv, HubTold, Tells
  <2>5. events[i].by = t
    BY <2>0, <2>4 DEF HubInv, LastWords, HasLastWord
  <2>6. events[i].type = "status_change"
    BY <2>2, <2>4 DEF MarkedStatus
  <2> QED BY <2>5, <2>6
<1> QED BY <1>1, <1>2, HubInit, HubStepKeeps, PTL DEF PipelineSpec, HubKnows

-----------------------------------------------------------------------------
(* Where a message is *)

\* Calls that have a message in hand: theirs to enqueue, to send or to put back.
InHand == {"enqueueing", "sending", "requeueing"}

\* A request counts until it is refused and whoever made it has taken that in.
Counts(t) == \/ requests[t].reply # "error"
             \/ \E d \in Drains : calls[d].state = "requested" /\ calls[d].turn = t

\* m is with the call i, in the queue of the chat i, or in the request for the turn i.
At(m, kind, i) ==
    \/ kind = "call" /\ i \in Calls /\ calls[i].state \in InHand /\ m \in calls[i].content
    \/ kind = "queue" /\ i \in Chats /\ m \in queued[i]
    \/ kind = "request" /\ i \in Turns /\ m \in requests[i].content /\ Counts(i)

\* A message is in one place at a time.
OnePlace == \A m \in Messages : \A k, l, i, j : At(m, k, i) /\ At(m, l, j) => k = l /\ i = j

\* A message that was not submitted is nowhere.
NowhereYet == \A m \in Messages : calls[m].state = "idle" => \A k, i : ~At(m, k, i)

\* Each enqueue that is under way is that of a call which waits for it.
QueueLink ==
    /\ \A i \in DOMAIN writeChain : writeChain[i].op = "queue" =>
          /\ writeChain[i].by \in Calls
          /\ calls[writeChain[i].by].state \in {"enqueueing", "requeueing"}
          /\ calls[writeChain[i].by].content = writeChain[i].content
    /\ \A i, j \in DOMAIN writeChain :
          /\ writeChain[i].op = "queue" /\ writeChain[j].op = "queue"
          /\ writeChain[i].by = writeChain[j].by
          => i = j

\* What a drain has read is in the queue until its clear is applied.
ClearLink ==
    \A i \in DOMAIN writeChain : writeChain[i].op = "clear" =>
        /\ writeChain[i].by \in Drains
        /\ calls[writeChain[i].by].state = "clearing"
        /\ calls[writeChain[i].by].content \subseteq queued[writeChain[i].chat]

\* A turn's end is applied when the queue was cleared for the one before it.
ChainOrder ==
    \A i, j \in DOMAIN writeChain :
        i < j /\ writeChain[i].op # "queue" /\ writeChain[j].op # "queue"
        => writeChain[i].op = "clear" /\ writeChain[j].op = "turn_end"

\* The order of the write chain, and the calls that stand behind it.
ChainInv == QueueLink /\ ClearLink /\ ChainOrder

\* A call that awaits a reply made the request, and no other call did.
RequestLink ==
    /\ \A x \in Calls : calls[x].state = "requested" =>
          calls[x].turn \in Turns /\ requests[calls[x].turn].content = calls[x].content
    /\ \A x, y \in Calls :
          /\ calls[x].state = "requested" /\ calls[y].state = "requested"
          /\ calls[x].turn = calls[y].turn
          => x = y

\* A turn nobody asked for has no request.
UnaskedTurns ==
    \A t \in Turns : turns[t].phase = "unused" =>
        /\ requests[t].reply = "none"
        /\ (\A i \in DOMAIN commands : commands[i] # t)
           => \A x \in Calls : ~(calls[x].state = "requested" /\ calls[x].turn = t)

\* A request is answered once.
AnsweredOnce == \A t \in Turns : Creating(t) /\ ~turns[t].isFollowUp => requests[t].reply = "none"

\* The inductive invariant: a message has one place, and the calls keep it so.
OnceInv ==
    /\ HubInv /\ previousStatuses = activeStatuses
    /\ OnePlace /\ NowhereYet /\ ChainInv
    /\ RequestLink /\ UnaskedTurns /\ AnsweredOnce

\* A message stays where it is, or leaves its place for one other.
LEMMA MoveStep ==
    ASSUME OnePlace, NowhereYet,
           \A m \in Messages : calls'[m].state = "idle" => calls[m].state = "idle",
           \A m \in Messages :
              \/ \A k, i : At(m, k, i)' => At(m, k, i)
              \/ /\ \E k, i : \A l, j : At(m, l, j)' => l = k /\ j = i
                 /\ calls'[m].state # "idle" \/ \E k, i : At(m, k, i)
    PROVE  OnePlace' /\ NowhereYet'
<1>1. OnePlace'
  <2> SUFFICES ASSUME NEW m \in Messages, NEW k, NEW l, NEW i, NEW j, At(m, k, i)', At(m, l, j)'
               PROVE  k = l /\ i = j
    BY DEF OnePlace
  <2>1. CASE \A n, h : At(m, n, h)' => At(m, n, h)
    BY <2>1 DEF OnePlace
  <2>2. ASSUME NEW n, NEW h, \A q, r : At(m, q, r)' => q = n /\ r = h PROVE k = l /\ i = j
    <3>1. k = n /\ i = h
      BY <2>2
    <3>2. l = n /\ j = h
      BY <2>2
    <3> QED BY <3>1, <3>2
  <2> QED BY <2>1, <2>2
<1>2. NowhereYet'
  <2> SUFFICES ASSUME NEW m \in Messages, calls'[m].state = "idle", NEW k, NEW i, At(m, k, i)' PROVE FALSE
    BY DEF NowhereYet
  <2>1. \A n, h : ~At(m, n, h)
    BY DEF NowhereYet
  <2>2. \A n, h : At(m, n, h)' => At(m, n, h)
    BY <2>1
  <2> QED BY <2>1, <2>2
<1> QED BY <1>1, <1>2

-----------------------------------------------------------------------------
(* The write chain and the calls that wait for it *)

\* What an append is made of.
LEMMA ChainMembers ==
    ASSUME NEW chain \in Seq(Append_)
    PROVE  \A i \in DOMAIN chain : /\ chain[i].op \in {"queue", "clear", "turn_end"}
                                   /\ chain[i].chat \in Chats
                                   /\ chain[i].by \in Calls \cup {NoTurn}
<1>1. \A i \in DOMAIN chain : chain[i] \in Append_
  OBVIOUS
<1>2. \A w \in Append_ : w.op \in {"queue", "clear", "turn_end"} /\ w.chat \in Chats /\ w.by \in Calls \cup {NoTurn}
  BY DEF Append_
<1> QED BY <1>1, <1>2

\* Calls that wait for the chain.
OnChain == {"enqueueing", "requeueing", "clearing"}

\* A step of a call that does not wait for the chain leaves it alone.
LEMMA ChainSame ==
    ASSUME PipelineTypeOK, ChainInv, UNCHANGED writeChain,
           \A x \in Calls : calls[x].state \in OnChain => calls'[x] = calls[x],
           \A c \in Chats : queued[c] \subseteq queued'[c]
    PROVE  ChainInv'
<1>1. \A i \in DOMAIN writeChain : writeChain[i].chat \in Chats /\ writeChain[i].by \in Calls \cup {NoTurn}
  BY ChainMembers DEF PipelineTypeOK
<1>2. Drains \subseteq Calls
  BY DEF Calls
<1>3. QueueLink'
  BY DEF ChainInv, QueueLink, OnChain
<1>4. ClearLink'
  BY <1>1, <1>2 DEF ChainInv, ClearLink, OnChain
<1>5. ChainOrder'
  BY DEF ChainInv, ChainOrder
<1> QED BY <1>3, <1>4, <1>5 DEF ChainInv

\* A call starts to enqueue.
LEMMA ChainQueues ==
    ASSUME PipelineTypeOK, ChainInv, NEW x \in Calls, NEW w \in Append_,
           writeChain' = Append(writeChain, w), w.op = "queue", w.by = x,
           calls[x].state \notin OnChain,
           calls'[x].state \in {"enqueueing", "requeueing"}, calls'[x].content = w.content,
           \A y \in Calls : y # x => calls'[y] = calls[y], UNCHANGED queued
    PROVE  ChainInv'
<1>1. /\ \A i \in DOMAIN writeChain : i \in Nat /\ i <= Len(writeChain) /\ writeChain'[i] = writeChain[i]
      /\ writeChain'[Len(writeChain) + 1] = w /\ Len(writeChain) \in Nat
      /\ \A i \in DOMAIN writeChain' : i \in DOMAIN writeChain \/ i = Len(writeChain) + 1
  BY AppendTo DEF PipelineTypeOK
<1>2. Drains \subseteq Calls /\ \A i \in DOMAIN writeChain : writeChain[i].by \in Calls \cup {NoTurn}
  BY ChainMembers DEF Calls, PipelineTypeOK
<1>3. \A i \in DOMAIN writeChain : writeChain[i].op # "turn_end" => writeChain[i].by # x
  BY ChainMembers DEF PipelineTypeOK, ChainInv, QueueLink, ClearLink, OnChain
<1>4. QueueLink'
  BY <1>1, <1>3 DEF ChainInv, QueueLink
<1>5. ClearLink'
  <2> SUFFICES ASSUME NEW i \in DOMAIN writeChain', writeChain'[i].op = "clear"
               PROVE  /\ writeChain'[i].by \in Drains
                      /\ calls'[writeChain'[i].by].state = "clearing"
                      /\ calls'[writeChain'[i].by].content \subseteq queued'[writeChain'[i].chat]
    BY DEF ClearLink
  <2>1. i \in DOMAIN writeChain /\ writeChain'[i] = writeChain[i]
    BY <1>1
  <2>2. writeChain[i].by \in Drains /\ writeChain[i].by # x
    BY <2>1, <1>3 DEF ChainInv, ClearLink
  <2> QED BY <2>1, <2>2, <1>2 DEF ChainInv, ClearLink
<1>6. ChainOrder'
  BY <1>1 DEF ChainInv, ChainOrder
<1> QED BY <1>4, <1>5, <1>6 DEF ChainInv

\* The end of a turn is to be written.
LEMMA ChainEnds ==
    ASSUME PipelineTypeOK, ChainInv, EndIsAwaited, ~consuming, NEW w \in Append_,
           writeChain' = Append(writeChain, w), w.op = "turn_end", UNCHANGED <<calls, queued>>
    PROVE  ChainInv'
<1>1. /\ \A i \in DOMAIN writeChain : i \in Nat /\ i <= Len(writeChain) /\ writeChain'[i] = writeChain[i]
      /\ writeChain'[Len(writeChain) + 1] = w /\ Len(writeChain) \in Nat
      /\ \A i \in DOMAIN writeChain' : i \in DOMAIN writeChain \/ i = Len(writeChain) + 1
  BY AppendTo DEF PipelineTypeOK
<1>2. \A i \in DOMAIN writeChain : writeChain[i].op \in {"queue", "clear"}
  BY ChainMembers DEF PipelineTypeOK, EndIsAwaited
<1>3. QueueLink' /\ ClearLink'
  BY <1>1 DEF ChainInv, QueueLink, ClearLink
<1>4. ChainOrder'
  <2> SUFFICES ASSUME NEW i \in DOMAIN writeChain', NEW j \in DOMAIN writeChain', i < j,
                      writeChain'[i].op # "queue", writeChain'[j].op # "queue"
               PROVE  writeChain'[i].op = "clear" /\ writeChain'[j].op = "turn_end"
    BY DEF ChainOrder
  <2>1. i \in DOMAIN writeChain
    BY <1>1
  <2>2. CASE j = Len(writeChain) + 1
    BY <1>1, <1>2, <2>1, <2>2
  <2>3. CASE j \in DOMAIN writeChain
    BY <1>1, <2>1, <2>3 DEF ChainInv, ChainOrder
  <2> QED BY <1>1, <2>2, <2>3
<1> QED BY <1>3, <1>4 DEF ChainInv

\* The head of the chain is applied, and the calls of the others wait on.
LEMMA ChainApplies ==
    ASSUME PipelineTypeOK, ChainInv, writeChain # <<>>,
           writeChain' = Tail(writeChain),
           \A x \in Calls : x # Head(writeChain).by => calls'[x] = calls[x],
           Head(writeChain).op = "turn_end" => UNCHANGED calls,
           Head(writeChain).op \in {"turn_end", "queue"} =>
              \A c \in Chats : queued[c] \subseteq queued'[c]
    PROVE  ChainInv'
<1> DEFINE rest == Tail(writeChain)
<1>1. /\ rest \in Seq(Append_) /\ Head(writeChain) = writeChain[1] /\ 1 \in DOMAIN writeChain
      /\ \A i \in DOMAIN rest : i \in Nat /\ i + 1 \in DOMAIN writeChain /\ rest[i] = writeChain[i + 1]
      /\ Head(writeChain) \in Append_
  BY TailOf DEF PipelineTypeOK
<1>2. \A i \in DOMAIN rest : i \in Nat /\ i >= 1
  BY <1>1
<1>t. \A i \in DOMAIN rest : rest[i].chat \in Chats /\ rest[i].by \in Calls \cup {NoTurn}
  BY <1>1, ChainMembers
<1> HIDE DEF rest
<1>d. Drains \subseteq Calls
  BY DEF Calls
<1>3. \A i \in DOMAIN rest : rest[i].op = "queue" =>
         /\ rest[i].by # Head(writeChain).by \/ UNCHANGED calls
         /\ calls[rest[i].by].state \in {"enqueueing", "requeueing"}
         /\ calls[rest[i].by].content = rest[i].content /\ rest[i].by \in Calls
  <2> SUFFICES ASSUME NEW i \in DOMAIN rest, rest[i].op = "queue"
               PROVE  /\ rest[i].by # Head(writeChain).by \/ UNCHANGED calls
                      /\ calls[rest[i].by].state \in {"enqueueing", "requeueing"}
                      /\ calls[rest[i].by].content = rest[i].content /\ rest[i].by \in Calls
    OBVIOUS
  <2>1. i + 1 \in DOMAIN writeChain /\ writeChain[i + 1] = rest[i] /\ i + 1 # 1
    BY <1>1, <1>2
  <2>2. /\ rest[i].by \in Calls /\ calls[rest[i].by].state \in {"enqueueing", "requeueing"}
        /\ calls[rest[i].by].content = rest[i].content
    BY <2>1 DEF ChainInv, QueueLink
  <2>3. CASE Head(writeChain).op = "queue"
    BY <1>1, <2>1, <2>2, <2>3 DEF ChainInv, QueueLink
  <2>4. CASE Head(writeChain).op = "clear"
    <3>1. calls[Head(writeChain).by].state = "clearing"
      BY <1>1, <2>4 DEF ChainInv, ClearLink
    <3> QED BY <2>2, <3>1
  <2>5. CASE Head(writeChain).op = "turn_end"
    BY <2>2, <2>5
  <2> QED BY <1>1, <2>3, <2>4, <2>5 DEF Append_
<1>4. QueueLink'
  BY <1>1, <1>2, <1>3 DEF ChainInv, QueueLink, rest
<1>5. ChainOrder'
  BY <1>2, <1>1 DEF ChainOrder, rest, ChainInv
<1>6. \A i \in DOMAIN rest : rest[i].op = "clear" => Head(writeChain).op = "queue"
  BY <1>2, <1>1 DEF ChainInv, ChainOrder
<1>7. ClearLink'
  <2> SUFFICES ASSUME NEW i \in DOMAIN rest, rest[i].op = "clear"
               PROVE  /\ rest[i].by \in Drains
                      /\ calls'[rest[i].by].state = "clearing"
                      /\ calls'[rest[i].by].content \subseteq queued'[rest[i].chat]
    BY DEF ClearLink, rest
  <2>1. i + 1 \in DOMAIN writeChain /\ writeChain[i + 1] = rest[i]
    BY <1>1
  <2>2. /\ rest[i].by \in Drains /\ calls[rest[i].by].state = "clearing"
        /\ calls[rest[i].by].content \subseteq queued[rest[i].chat]
    BY <2>1 DEF ChainInv, ClearLink
  <2>3. Head(writeChain).op = "queue" /\ calls[Head(writeChain).by].state \in {"enqueueing", "requeueing"}
    BY <1>1, <1>6 DEF ChainInv, QueueLink
  <2>4. calls'[rest[i].by] = calls[rest[i].by]
    BY <2>2, <2>3, <1>d
  <2> QED BY <1>t, <2>2, <2>3, <2>4
<1> QED BY <1>4, <1>5, <1>7 DEF ChainInv

-----------------------------------------------------------------------------
(* A message starts one turn at most *)

\* A step that asks for no turn and changes no request keeps the requests' ties.
LEMMA LinkSame ==
    ASSUME RequestLink, UnaskedTurns, AnsweredOnce, UNCHANGED <<turns, commands>>,
           \A x \in Calls : calls'[x].state = "requested" => calls'[x] = calls[x],
           \A t \in Turns : /\ requests'[t].content = requests[t].content
                            /\ requests'[t].reply = requests[t].reply
    PROVE  RequestLink' /\ UnaskedTurns' /\ AnsweredOnce'
BY DEF RequestLink, UnaskedTurns, AnsweredOnce, Creating

\* What a drain makes of the calls.
LEMMA DrainCalls ==
    ASSUME NEW c \in Chats, NEW statuses, NEW chain, DrainQueuedTurn(c, statuses, chain)
    PROVE  \/ UNCHANGED calls /\ writeChain' = chain
           \/ \E d \in Drains :
                 /\ calls[d].state = "idle"
                 /\ calls' = [calls EXCEPT ![d] = [state |-> "clearing", chat |-> c,
                                                   content |-> queued[c], turn |-> NoTurn]]
                 /\ writeChain' = Append(chain, [op |-> "clear", chat |-> c,
                                                 content |-> {}, by |-> d])
<1> DEFINE free == {d \in Drains : calls[d].state = "idle"}
<1>1. free # {} => (CHOOSE x \in free : TRUE) \in Drains /\ calls[CHOOSE x \in free : TRUE].state = "idle"
  OBVIOUS
<1> QED BY <1>1, Zenon DEF DrainQueuedTurn

\* An event that ends no turn sets off no drain.
LEMMA NoDrainOnEvents ==
    ASSUME HubInv, previousStatuses = activeStatuses, ConsumeEvent
    PROVE  UNCHANGED <<calls, writeChain>> /\ previousStatuses' = activeStatuses'
<1>1. PICK e \in Event : e = Head(events) /\ (e.type = "status_change" => e.arg \in Status)
  BY TailOf DEF ConsumeEvent, HubInv, RunnerInv, RunnerTypeOK, StatusArgs
<1>2. OnStateChange(e.chat, Observed(e), writeChain) /\ e.chat \in Chats
  BY <1>1 DEF ConsumeEvent, Event
<1>3. Observed(e)[e.chat] = "idle" => activeStatuses[e.chat] = "idle"
  BY <1>1, <1>2 DEF Observed, Status, HubInv, PipelineTypeOK
<1>4. ~(previousStatuses[e.chat] \notin {"idle", "waiting_for_user"} /\ Observed(e)[e.chat] = "idle")
  BY <1>3
<1> QED BY <1>2, <1>4 DEF OnStateChange

\* No step but a submit makes a place, given what drains and direct sends may do.
LEMMA OnceStep ==
    ASSUME Delegations = {}, SlowCalls \cap Drains = {}, OnceInv, [PipelineNext]_pipelineVars
    PROVE  OnceInv'
<1>i. /\ HubInv /\ previousStatuses = activeStatuses /\ OnePlace /\ NowhereYet /\ ChainInv
      /\ RequestLink /\ UnaskedTurns /\ AnsweredOnce
  BY DEF OnceInv
<1>h. PipelineTypeOK /\ EndIsAwaited /\ RunnerInv /\ RunnerTypeOK /\ CodexHarness
  BY <1>i DEF HubInv, RunnerInv
<1>n. HubInv'
  BY <1>i, HubStepKeeps
<1>c. Messages \subseteq Calls /\ Drains \subseteq Calls /\ Messages \cap Drains = {}
  BY PipelineConstants DEF Calls
<1>t. /\ calls \in [Calls -> CallRecord] /\ requests \in [Turns -> Request]
      /\ queued \in [Chats -> SUBSET Messages]
      /\ \A x \in Calls : calls[x].content \subseteq Messages /\ calls[x].chat \in Chats
  BY <1>h DEF PipelineTypeOK, CallRecord
<1> DEFINE Places == OnePlace' /\ NowhereYet'
           Links  == RequestLink' /\ UnaskedTurns' /\ AnsweredOnce'
<1>1. ASSUME NEW n \in Messages, SubmitMessage(n) PROVE OnceInv'
  <2> DEFINE r(s) == [calls[n] EXCEPT !.content = {n}, !.state = s]
             w    == [op |-> "queue", chat |-> calls[n].chat, content |-> {n}, by |-> n]
  <2>1. /\ calls[n].state = "idle" /\ UNCHANGED <<runnerVars, requests, commands, queued>>
        /\ \/ calls' = [calls EXCEPT ![n] = r("sending")] /\ UNCHANGED writeChain
           \/ calls' = [calls EXCEPT ![n] = r("enqueueing")] /\ writeChain' = Append(writeChain, w)
        /\ previousStatuses' = activeStatuses'
    BY <1>1, <1>i DEF SubmitMessage
  <2>2. \A s : r(s).content = {n} /\ r(s).state = s
    BY <1>c, <1>t DEF CallRecord
  <2>3. w \in Append_ /\ w.op = "queue" /\ w.by = n /\ w.content = {n}
    BY <1>c, <1>t DEF Append_
  <2> HIDE DEF r, w
  <2>4. /\ calls'[n].content = {n} /\ calls'[n].state \in {"sending", "enqueueing"}
        /\ \A x \in Calls : x # n => calls'[x] = calls[x]
        /\ UNCHANGED writeChain \/ (calls'[n].state = "enqueueing" /\ writeChain' = Append(writeChain, w))
    BY <2>1, <2>2, <1>c, <1>t
  <2>5. ChainInv'
    <3>1. CASE UNCHANGED writeChain
      BY <2>1, <2>4, <3>1, <1>i, <1>h, ChainSame DEF OnChain
    <3>2. CASE calls'[n].state = "enqueueing" /\ writeChain' = Append(writeChain, w)
      BY <2>1, <2>3, <2>4, <3>2, <1>c, <1>i, <1>h, ChainQueues DEF OnChain
    <3> QED BY <2>4, <3>1, <3>2
  <2>6. Places
    <3>0. \A t \in Turns : Counts(t)' => Counts(t)
      BY <2>1, <2>4, <1>c DEF Counts
    <3>1. ASSUME NEW m \in Messages, m # n, NEW k, NEW i, At(m, k, i)' PROVE At(m, k, i)
      BY <2>1, <2>4, <3>0, <3>1 DEF At
    <3>2. ASSUME NEW k, NEW i, At(n, k, i)' PROVE k = "call" /\ i = n
      BY <2>1, <1>i, <2>4, <3>0, <3>2 DEF NowhereYet, At
    <3>3. \A m \in Messages : calls'[m].state = "idle" => calls[m].state = "idle"
      BY <2>1, <2>4, <1>c
    <3>4. calls'[n].state # "idle"
      BY <2>4
    <3> HIDE DEF At
    <3>5. ASSUME NEW m \in Messages
          PROVE  \/ \A k, i : At(m, k, i)' => At(m, k, i)
                 \/ /\ \E k, i : \A l, j : At(m, l, j)' => l = k /\ j = i
                    /\ calls'[m].state # "idle" \/ \E k, i : At(m, k, i)
      BY <3>1, <3>2, <3>4
    <3> QED BY <3>3, <3>5, <1>i, MoveStep
  <2>7. Links
    BY <2>4, <2>1, <1>i, LinkSame DEF runnerVars
  <2> QED BY <2>1, <2>5, <2>6, <2>7, <1>n DEF OnceInv
<1>2. ASSUME NEW x \in Calls, RequestStart(x) PROVE OnceInv'
  <2>1. PICK t \in Unrequested(calls[x].chat) :
           /\ calls' = [calls EXCEPT ![x].state = "requested", ![x].turn = t]
           /\ requests' = [requests EXCEPT ![t].content = calls[x].content]
           /\ commands' = Append(commands, t)
    <3> DEFINE free == Unrequested(calls[x].chat)
    <3>1. (CHOOSE u \in free : TRUE) \in free
      BY <1>2 DEF RequestStart
    <3> HIDE DEF free
    <3> QED BY <1>2, <3>1 DEF RequestStart, free
  <2>2. /\ calls[x].state = "sending" /\ UNCHANGED <<runnerVars, queued, writeChain>>
        /\ previousStatuses' = activeStatuses'
    BY <1>2, <1>i DEF RequestStart
  <2>3. t \in Turns /\ turns[t].phase = "unused" /\ \A i \in DOMAIN commands : commands[i] # t
    BY DEF Unrequested
  <2>4. /\ calls'[x].state = "requested" /\ calls'[x].turn = t /\ calls'[x].content = calls[x].content
        /\ \A y \in Calls : y # x => calls'[y] = calls[y]
    BY <2>1, <1>t DEF CallRecord
  <2>5. /\ requests'[t].content = calls[x].content
        /\ \A u \in Turns : requests'[u].reply = requests[u].reply
        /\ \A u \in Turns : u # t => requests'[u] = requests[u]
    BY <2>1, <2>3, <1>t DEF Request
  <2>6. requests[t].reply = "none" /\ \A y \in Calls : ~(calls[y].state = "requested" /\ calls[y].turn = t)
    BY <2>3, <1>i DEF UnaskedTurns
  <2>7. ChainInv'
    BY <2>2, <2>4, <1>h, <1>i, ChainSame DEF OnChain
  <2>8. Places
    <3>0. \A u \in Turns : u # t => (Counts(u)' => Counts(u))
      BY <2>4, <2>5, <1>c DEF Counts
    <3>1. ASSUME NEW m \in Messages, m \notin calls[x].content, NEW k, NEW i, At(m, k, i)' PROVE At(m, k, i)
      BY <2>2, <2>4, <2>5, <3>0, <3>1 DEF At
    <3>2. ASSUME NEW m \in Messages, m \in calls[x].content PROVE At(m, "call", x)
      BY <2>2, <3>2 DEF At, InHand
    <3>3. ASSUME NEW m \in Messages, m \in calls[x].content, NEW k, NEW i, At(m, k, i)'
          PROVE  k = "request" /\ i = t
      <4>1. \A l, j : At(m, l, j) => l = "call" /\ j = x
        BY <3>2, <3>3, <1>i DEF OnePlace
      <4>2. CASE k = "call"
        <5>1. i \in Calls /\ calls'[i].state \in InHand /\ m \in calls'[i].content
          BY <3>3, <4>2 DEF At
        <5>2. i # x
          BY <5>1, <2>4 DEF InHand
        <5> QED BY <5>1, <5>2, <2>4, <4>1, <4>2 DEF At
      <4>3. CASE k = "queue"
        BY <3>3, <4>1, <4>3, <2>2 DEF At
      <4>4. CASE k = "request" /\ i # t
        BY <3>3, <4>1, <4>4, <3>0, <2>5 DEF At
      <4> QED BY <3>3, <4>2, <4>3, <4>4 DEF At
    <3>4. \A m \in Messages : calls'[m].state = "idle" => calls[m].state = "idle"
      BY <2>4, <1>c
    <3>5. ASSUME NEW m \in Messages
          PROVE  \/ \A k, i : At(m, k, i)' => At(m, k, i)
                 \/ /\ \E k, i : \A l, j : At(m, l, j)' => l = k /\ j = i
                    /\ calls'[m].state # "idle" \/ \E k, i : At(m, k, i)
      BY <3>1, <3>2, <3>3
    <3> QED BY <3>4, <3>5, <1>i, MoveStep
  <2>9. RequestLink'
    BY <2>6, <2>3, <2>4, <2>5, <1>i DEF RequestLink
  <2>10. UnaskedTurns'
    BY <2>1, <1>h, <2>3, AppendTo, <2>2, <2>4, <2>5, <1>i DEF PipelineTypeOK, UnaskedTurns, runnerVars
  <2>11. AnsweredOnce'
    BY <2>2, <2>5, <1>i DEF AnsweredOnce, Creating, runnerVars
  <2> QED BY <2>2, <2>7, <2>8, <2>9, <2>10, <2>11, <1>n DEF OnceInv
<1>s. ASSUME \A m \in Messages : \A k, i : At(m, k, i)' => At(m, k, i),
             \A m \in Messages : calls'[m].state = "idle" => calls[m].state = "idle"
      PROVE  Places
  <2> HIDE DEF At
  <2> QED BY <1>s, <1>i, MoveStep
<1>3. ASSUME NEW x \in Calls, StartAccepted(x) PROVE OnceInv'
  <2>1. PICK t : t = calls[x].turn
    OBVIOUS
  <2>2. /\ calls[x].state = "requested" /\ requests[t].reply = "ok"
        /\ calls' = [calls EXCEPT ![x] = Returned(x, "started")]
        /\ requests' = [requests EXCEPT ![t].outcome = "accepted"]
        /\ UNCHANGED <<runnerVars, commands, queued, writeChain>>
        /\ previousStatuses' = activeStatuses'
    BY <1>3, <2>1, <1>i DEF StartAccepted
  <2>3. t \in Turns
    BY <2>1, <2>2, <1>i DEF RequestLink
  <2>4. Returned(x, "started").state \in {"idle", "started"} /\ (x \in Messages => Returned(x, "started").state = "started")
    BY <1>c, <1>t DEF Returned, CallRecord
  <2>5. /\ calls'[x].state \in {"idle", "started"} /\ (x \in Messages => calls'[x].state = "started")
        /\ \A y \in Calls : y # x => calls'[y] = calls[y]
        /\ \A u \in Turns : requests'[u].reply = requests[u].reply /\ requests'[u].content = requests[u].content
    BY <2>2, <2>3, <2>4, <1>t DEF Request
  <2>6. ChainInv'
    BY <2>2, <2>5, <1>h, <1>i, ChainSame DEF OnChain
  <2>7. \A u \in Turns : Counts(u)' => Counts(u)
    BY <2>2, <2>5, <1>c DEF Counts
  <2>8. Places
    BY <2>2, <2>5, <2>7, <1>c, <1>s DEF At, InHand
  <2>9. Links
    BY <2>5, <2>2, <1>i, LinkSame DEF runnerVars
  <2> QED BY <2>2, <2>6, <2>8, <2>9, <1>n DEF OnceInv
<1>4. ASSUME NEW x \in Calls, StartRefused(x) PROVE OnceInv'
  <2>1. PICK t : t = calls[x].turn
    OBVIOUS
  <2> DEFINE w == StoreAppend("queue", x)
  <2>2. /\ calls[x].state = "requested" /\ (x \in Drains => requests[t].reply = "error")
        /\ requests' = [requests EXCEPT ![t].outcome = "refused"]
        /\ IF x \in Drains THEN /\ calls' = [calls EXCEPT ![x].state = "requeueing"]
                                /\ writeChain' = Append(writeChain, w)
           ELSE calls' = [calls EXCEPT ![x].state = "refused"] /\ UNCHANGED writeChain
        /\ UNCHANGED <<runnerVars, commands, queued>>
        /\ previousStatuses' = activeStatuses'
    BY <1>4, <2>1, <1>i DEF StartRefused
  <2>3. t \in Turns /\ requests[t].content = calls[x].content
    BY <2>1, <2>2, <1>i DEF RequestLink
  <2>4. /\ calls'[x].state = IF x \in Drains THEN "requeueing" ELSE "refused"
        /\ calls'[x].content = calls[x].content
        /\ \A y \in Calls : y # x => calls'[y] = calls[y]
    BY <2>2, <1>t DEF CallRecord
  <2>5. \A u \in Turns : requests'[u].reply = requests[u].reply /\ requests'[u].content = requests[u].content
    BY <2>2, <2>3, <1>t DEF Request
  <2>6. w \in Append_ /\ w.op = "queue" /\ w.by = x /\ w.content = calls[x].content
    BY <1>t DEF StoreAppend, Append_
  <2> HIDE DEF w
  <2>7. ChainInv'
    BY <2>2, <2>4, <2>6, <1>h, <1>i, ChainQueues, ChainSame DEF OnChain
  <2>8. \A u \in Turns : Counts(u)' => Counts(u)
    BY <2>4, <2>5, <1>c DEF Counts
  <2>9. \A m \in Messages : calls'[m].state = "idle" => calls[m].state = "idle"
    BY <2>4, <1>c
  <2>10. Places
    <3>1. CASE x \notin Drains
      BY <2>2, <2>4, <2>5, <2>8, <3>1, <2>9, <1>s DEF At, InHand
    <3>2. CASE x \in Drains
      <4>1. ~Counts(t)'
        BY <2>1, <2>2, <2>3, <2>4, <2>5, <3>2, <1>c, <1>i DEF Counts, RequestLink
      <4>2. ASSUME NEW m \in Messages, m \notin calls[x].content, NEW k, NEW i, At(m, k, i)' PROVE At(m, k, i)
        BY <2>2, <2>4, <2>5, <2>8, <4>2 DEF At
      <4>3. ASSUME NEW m \in Messages, m \in calls[x].content PROVE At(m, "request", t)
        BY <2>1, <2>2, <2>3, <3>2, <4>3 DEF At, Counts
      <4>4. ASSUME NEW m \in Messages, m \in calls[x].content, NEW k, NEW i, At(m, k, i)'
            PROVE  k = "call" /\ i = x
        <5>1. \A l, j : At(m, l, j) => l = "request" /\ j = t
          BY <4>3, <4>4, <1>i DEF OnePlace
        <5>2. CASE k = "call" /\ i # x
          BY <4>4, <5>1, <5>2, <2>4 DEF At
        <5>3. CASE k = "queue"
          BY <4>4, <5>1, <5>3, <2>2 DEF At
        <5>4. CASE k = "request"
          BY <4>4, <5>4, <2>5, <2>8, <5>1, <4>1 DEF At
        <5> QED BY <4>4, <5>2, <5>3, <5>4 DEF At
      <4>5. ASSUME NEW m \in Messages
            PROVE  \/ \A k, i : At(m, k, i)' => At(m, k, i)
                   \/ /\ \E k, i : \A l, j : At(m, l, j)' => l = k /\ j = i
                      /\ calls'[m].state # "idle" \/ \E k, i : At(m, k, i)
        BY <4>2, <4>3, <4>4
      <4> QED BY <2>9, <4>5, <1>i, MoveStep
    <3> QED BY <3>1, <3>2
  <2>11. Links
    BY <2>4, <2>2, <2>5, <1>i, LinkSame DEF runnerVars
  <2> QED BY <2>2, <2>7, <2>10, <2>11, <1>n DEF OnceInv
<1>k. ASSUME UNCHANGED <<calls, queued, requests, commands, turns>>, ChainInv',
             previousStatuses' = activeStatuses'
      PROVE  OnceInv'
  BY <1>k, <1>s, <1>i, LinkSame, <1>n DEF At, Counts, OnceInv
<1>5. CASE ConsumeEvent
  BY <1>5, <1>i, NoDrainOnEvents, <1>h, ChainSame, <1>k DEF ConsumeEvent
<1>6. CASE ConsumeTurnEnd
  <2>1. PICK e \in Event : e = Head(events)
    BY <1>6, <1>h, TailOf DEF ConsumeTurnEnd, RunnerTypeOK
  <2> DEFINE w == [op |-> "turn_end", chat |-> e.chat, content |-> {}, by |-> NoTurn]
  <2>2. /\ writeChain' = Append(writeChain, w) /\ ~consuming
        /\ UNCHANGED <<calls, queued, requests, commands, turns>> /\ previousStatuses' = activeStatuses'
    BY <1>6, <2>1, <1>i DEF ConsumeTurnEnd
  <2>3. w \in Append_ /\ w.op = "turn_end"
    BY DEF Append_, Event
  <2> HIDE DEF w
  <2>4. ChainInv'
    BY <2>2, <2>3, <1>h, <1>i, ChainEnds
  <2> QED BY <2>2, <2>4, <1>k
<1>hd. ASSUME writeChain # <<>>
       PROVE  /\ Head(writeChain) \in Append_ /\ Head(writeChain) = writeChain[1] /\ 1 \in DOMAIN writeChain
              /\ Head(writeChain).chat \in Chats
  <2>1. Head(writeChain) \in Append_ /\ Head(writeChain) = writeChain[1] /\ 1 \in DOMAIN writeChain
    BY <1>hd, <1>h, TailOf DEF PipelineTypeOK
  <2> QED BY <2>1 DEF Append_
<1>7. CASE ApplyQueued
  <2>1. PICK w \in Append_ : w = Head(writeChain)
    BY <1>7, <1>hd DEF ApplyQueued
  <2>2. PICK x : x = w.by
    OBVIOUS
  <2>3. /\ writeChain # <<>> /\ w.op = "queue" /\ w.chat \in Chats
        /\ queued' = [queued EXCEPT ![w.chat] = @ \cup w.content]
        /\ writeChain' = Tail(writeChain)
        /\ calls' = [calls EXCEPT ![x] = Returned(x, "queued")]
        /\ UNCHANGED <<runnerVars, requests, commands>> /\ previousStatuses' = activeStatuses'
    BY <1>7, <2>1, <2>2, <1>hd, <1>i DEF ApplyQueued
  <2>4. /\ x \in Calls /\ calls[x].state \in {"enqueueing", "requeueing"} /\ calls[x].content = w.content
    BY <2>1, <2>2, <2>3, <1>hd, <1>i DEF ChainInv, QueueLink
  <2>5. Returned(x, "queued").state \in {"idle", "queued"} /\ (x \in Messages => Returned(x, "queued").state = "queued")
    BY <2>4, <1>c, <1>t DEF Returned, CallRecord
  <2>6. /\ calls'[x].state \in {"idle", "queued"} /\ (x \in Messages => calls'[x].state = "queued")
        /\ \A y \in Calls : y # x => calls'[y] = calls[y]
    BY <2>3, <2>4, <2>5, <1>t
  <2>7. /\ queued'[w.chat] = queued[w.chat] \cup w.content
        /\ \A c \in Chats : c # w.chat => queued'[c] = queued[c]
    BY <2>3, <1>t
  <2>8. ChainInv'
    BY <2>7, <2>1, <2>2, <2>3, <2>6, <1>h, <1>i, ChainApplies
  <2>9. \A u \in Turns : Counts(u)' => Counts(u)
    BY <2>3, <2>6, <1>c DEF Counts
  <2>10. \A m \in Messages : calls'[m].state = "idle" => calls[m].state = "idle"
    BY <2>6, <1>c
  <2>11. Places
    <3>1. ASSUME NEW m \in Messages, m \notin w.content, NEW k, NEW i, At(m, k, i)' PROVE At(m, k, i)
      BY <2>3, <2>6, <2>7, <2>9, <3>1 DEF At, InHand
    <3>2. ASSUME NEW m \in Messages, m \in w.content PROVE At(m, "call", x)
      BY <2>4, <3>2 DEF At, InHand
    <3>3. ASSUME NEW m \in Messages, m \in w.content, NEW k, NEW i, At(m, k, i)'
          PROVE  k = "queue" /\ i = w.chat
      <4>1. \A l, j : At(m, l, j) => l = "call" /\ j = x
        BY <3>2, <3>3, <1>i DEF OnePlace
      <4>2. CASE k = "call"
        BY <3>3, <4>2, <2>6, <4>1 DEF At, InHand
      <4>3. CASE k = "queue" /\ i # w.chat
        BY <3>3, <4>1, <4>3, <2>7 DEF At
      <4>4. CASE k = "request"
        BY <3>3, <4>1, <4>4, <2>3, <2>9 DEF At
      <4> QED BY <3>3, <4>2, <4>3, <4>4 DEF At
    <3>5. ASSUME NEW m \in Messages
          PROVE  \/ \A k, i : At(m, k, i)' => At(m, k, i)
                 \/ /\ \E k, i : \A l, j : At(m, l, j)' => l = k /\ j = i
                    /\ calls'[m].state # "idle" \/ \E k, i : At(m, k, i)
      BY <3>1, <3>2, <3>3
    <3> QED BY <2>10, <3>5, <1>i, MoveStep
  <2>12. Links
    BY <2>6, <2>3, <1>i, LinkSame DEF runnerVars
  <2> QED BY <2>3, <2>8, <2>11, <2>12, <1>n DEF OnceInv
<1>8. CASE ApplyCleared
  <2>1. PICK w \in Append_ : w = Head(writeChain)
    BY <1>8, <1>hd DEF ApplyCleared
  <2>2. PICK x : x = w.by
    OBVIOUS
  <2>3. /\ writeChain # <<>> /\ w.op = "clear" /\ w.chat \in Chats
        /\ queued' = [queued EXCEPT ![w.chat] = {}]
        /\ writeChain' = Tail(writeChain)
        /\ calls' = [calls EXCEPT ![x].state = "sending"]
        /\ UNCHANGED <<runnerVars, requests, commands>> /\ previousStatuses' = activeStatuses'
    BY <1>8, <2>1, <2>2, <1>hd, <1>i DEF ApplyCleared
  <2>4. x \in Drains /\ x \in Calls /\ calls[x].state = "clearing" /\ calls[x].content \subseteq queued[w.chat]
    BY <2>1, <2>2, <2>3, <1>hd, <1>c, <1>i DEF ChainInv, ClearLink
  <2>6. /\ calls'[x].state = "sending" /\ calls'[x].content = calls[x].content
        /\ \A y \in Calls : y # x => calls'[y] = calls[y]
    BY <2>3, <2>4, <1>t DEF CallRecord
  <2>7. /\ queued'[w.chat] = {} /\ \A c \in Chats : c # w.chat => queued'[c] = queued[c]
    BY <2>3, <1>t
  <2>8. ChainInv'
    BY <2>1, <2>2, <2>3, <2>6, <1>h, <1>i, ChainApplies
  <2>9. \A u \in Turns : Counts(u)' => Counts(u)
    BY <2>3, <2>6, <1>c DEF Counts
  <2>10. \A m \in Messages : calls'[m].state = "idle" => calls[m].state = "idle"
    BY <2>6, <1>c
  <2>11. Places
    <3>1. ASSUME NEW m \in Messages, m \notin calls[x].content, NEW k, NEW i, At(m, k, i)' PROVE At(m, k, i)
      BY <2>3, <2>6, <2>7, <2>9, <3>1 DEF At, InHand
    <3>2. ASSUME NEW m \in Messages, m \in calls[x].content PROVE At(m, "queue", w.chat)
      BY <2>3, <2>4, <3>2 DEF At
    <3>3. ASSUME NEW m \in Messages, m \in calls[x].content, NEW k, NEW i, At(m, k, i)'
          PROVE  k = "call" /\ i = x
      <4>1. \A l, j : At(m, l, j) => l = "queue" /\ j = w.chat
        BY <3>2, <3>3, <1>i DEF OnePlace
      <4>2. CASE k = "call" /\ i # x
        BY <3>3, <4>1, <4>2, <2>6 DEF At
      <4>3. CASE k = "queue"
        BY <3>3, <4>3, <2>7, <4>1 DEF At
      <4>4. CASE k = "request"
        BY <3>3, <4>1, <4>4, <2>3, <2>9 DEF At
      <4> QED BY <3>3, <4>2, <4>3, <4>4 DEF At
    <3>5. ASSUME NEW m \in Messages
          PROVE  \/ \A k, i : At(m, k, i)' => At(m, k, i)
                 \/ /\ \E k, i : \A l, j : At(m, l, j)' => l = k /\ j = i
                    /\ calls'[m].state # "idle" \/ \E k, i : At(m, k, i)
      BY <3>1, <3>2, <3>3
    <3> QED BY <2>10, <3>5, <1>i, MoveStep
  <2>12. Links
    BY <2>6, <2>3, <1>i, LinkSame DEF runnerVars
  <2> QED BY <2>3, <2>8, <2>11, <2>12, <1>n DEF OnceInv
<1>9. CASE ApplyTurnEnd
  <2>1. PICK c : c = Head(writeChain).chat
    OBVIOUS
  <2>2. PICK statuses : statuses = [activeStatuses EXCEPT ![c] = "idle"]
    OBVIOUS
  <2>3. PICK chain : chain = Tail(writeChain)
    OBVIOUS
  <2>4. /\ writeChain # <<>> /\ Head(writeChain).op = "turn_end" /\ c \in Chats
        /\ OnStateChange(c, statuses, chain) /\ UNCHANGED <<runnerVars, requests, commands, queued>>
    BY <1>9, <2>1, <2>2, <2>3, <1>hd DEF ApplyTurnEnd
  <2>5. previousStatuses' = activeStatuses'
    BY <2>4 DEF OnStateChange
  <2>6. /\ chain \in Seq(Append_) /\ Head(writeChain) = writeChain[1] /\ 1 \in DOMAIN writeChain
        /\ \A i \in DOMAIN chain : i \in Nat /\ i + 1 \in DOMAIN writeChain /\ chain[i] = writeChain[i + 1]
    BY <2>3, <2>4, <1>h, TailOf DEF PipelineTypeOK
  <2>7. ASSUME NEW i \in DOMAIN chain
        PROVE  /\ chain[i].op = "queue" /\ chain[i].by \in Calls
               /\ calls[chain[i].by].state \in {"enqueueing", "requeueing"}
               /\ calls[chain[i].by].content = chain[i].content
    BY <2>6, <2>4, <1>i DEF ChainInv, ChainOrder, QueueLink
  <2>8. \A i, j \in DOMAIN chain : chain[i].by = chain[j].by => i = j
    BY <2>6, <2>7, <1>i DEF ChainInv, QueueLink
  <2>9. CASE UNCHANGED calls /\ writeChain' = chain
    BY <2>4, <2>7, <2>8, <2>9, <2>5, <1>k DEF ChainInv, QueueLink, ClearLink, ChainOrder, runnerVars
  <2>10. ASSUME NEW d \in Drains, calls[d].state = "idle",
                calls' = [calls EXCEPT ![d] = [state |-> "clearing", chat |-> c,
                                               content |-> queued[c], turn |-> NoTurn]],
                writeChain' = Append(chain, [op |-> "clear", chat |-> c, content |-> {}, by |-> d])
         PROVE  OnceInv'
    <3> DEFINE w == [op |-> "clear", chat |-> c, content |-> {}, by |-> d]
               r == [state |-> "clearing", chat |-> c, content |-> queued[c], turn |-> NoTurn]
    <3>1. w \in Append_ /\ w.op = "clear" /\ w.chat = c /\ w.by = d
      BY <2>4, <1>c DEF Append_
    <3>2. writeChain' = Append(chain, w) /\ calls' = [calls EXCEPT ![d] = r]
      BY <2>10
    <3>3. r.state = "clearing" /\ r.content = queued[c]
      OBVIOUS
    <3> HIDE DEF w, r
    <3>4. calls'[d] = r /\ \A y \in Calls : y # d => calls'[y] = calls[y]
      BY <3>2, <1>c, <1>t
    <3>5. /\ \A i \in DOMAIN chain : i \in Nat /\ i <= Len(chain) /\ writeChain'[i] = chain[i]
          /\ writeChain'[Len(chain) + 1] = w /\ Len(chain) \in Nat
          /\ \A i \in DOMAIN writeChain' : i \in DOMAIN chain \/ i = Len(chain) + 1
      BY <2>6, <3>1, <3>2, AppendTo
    <3>6. \A i \in DOMAIN chain : calls'[chain[i].by] = calls[chain[i].by]
      BY <2>7, <2>10, <3>4
    <3>7. QueueLink'
      <4>1. \A i \in DOMAIN writeChain' : writeChain'[i].op = "queue" => i \in DOMAIN chain /\ writeChain'[i] = chain[i]
        BY <3>1, <3>5
      <4>2. \A i \in DOMAIN writeChain' : writeChain'[i].op = "queue" =>
               /\ writeChain'[i].by \in Calls
               /\ calls'[writeChain'[i].by].state \in {"enqueueing", "requeueing"}
               /\ calls'[writeChain'[i].by].content = writeChain'[i].content
        BY <4>1, <3>6, <2>7
      <4>3. \A i, j \in DOMAIN writeChain' :
               writeChain'[i].op = "queue" /\ writeChain'[j].op = "queue"
               /\ writeChain'[i].by = writeChain'[j].by => i = j
        BY <4>1, <2>8
      <4> QED BY <4>2, <4>3 DEF QueueLink
    <3>8. ClearLink'
      BY <3>1, <3>5, <2>7, <3>3, <3>4, <2>4 DEF ClearLink
    <3>9. ChainOrder'
      BY <3>5, <2>7 DEF ChainOrder
    <3>10. \A u \in Turns : Counts(u)' => Counts(u)
      BY <2>4, <3>3, <3>4, <1>c DEF Counts
    <3>11. Places
      BY <2>4, <3>3, <3>4, <3>10, <1>c, <1>s DEF At, InHand
    <3>12. Links
      BY <3>3, <3>4, <2>4, <1>i, LinkSame DEF runnerVars
    <3> QED BY <2>5, <3>7, <3>8, <3>9, <3>11, <3>12, <1>n DEF OnceInv, ChainInv
  <2>11. \/ UNCHANGED calls /\ writeChain' = chain
         \/ \E d \in Drains :
               /\ calls[d].state = "idle"
               /\ calls' = [calls EXCEPT ![d] = [state |-> "clearing", chat |-> c,
                                                 content |-> queued[c], turn |-> NoTurn]]
               /\ writeChain' = Append(chain, [op |-> "clear", chat |-> c, content |-> {}, by |-> d])
    <3>1. \/ DrainQueuedTurn(c, statuses, chain)
          \/ writeChain' = chain /\ UNCHANGED calls
      BY <2>4 DEF OnStateChange
    <3>2. CASE DrainQueuedTurn(c, statuses, chain)
      BY <3>2, <2>4, DrainCalls
    <3>3. CASE writeChain' = chain /\ UNCHANGED calls
      BY <3>3
    <3> QED BY <3>1, <3>2, <3>3
  <2> QED BY <2>9, <2>10, <2>11
<1>r. ASSUME [RunnerNext]_runnerVars, UNCHANGED <<calls, queued, writeChain, activeStatuses, previousStatuses>>,
             \/ UNCHANGED requests
             \/ \E t \in Turns, reply \in {"ok", "error"} :
                   /\ requests[t].reply = "none"
                   /\ requests' = [requests EXCEPT ![t].reply = reply]
                   /\ turns'[t].phase # "unused" /\ ~(Creating(t)' /\ ~turns'[t].isFollowUp),
             \A t \in Turns : turns'[t].phase = "unused" /\ (\A i \in DOMAIN commands' : commands'[i] # t)
                              => \A i \in DOMAIN commands : commands[i] # t
      PROVE  OnceInv'
  <2>1. \A t \in Turns : /\ requests'[t].content = requests[t].content
                         /\ requests'[t].reply = "error" \/ requests[t].reply # "error"
                         /\ \/ requests'[t].reply = requests[t].reply
                            \/ turns'[t].phase # "unused" /\ ~(Creating(t)' /\ ~turns'[t].isFollowUp)
    <3>1. ASSUME UNCHANGED requests, NEW t \in Turns
          PROVE  requests'[t] = requests[t]
      BY <3>1
    <3>2. ASSUME NEW t \in Turns, NEW reply \in {"ok", "error"}, requests[t].reply = "none",
                 requests' = [requests EXCEPT ![t].reply = reply],
                 turns'[t].phase # "unused" /\ ~(Creating(t)' /\ ~turns'[t].isFollowUp),
                 NEW u \in Turns
          PROVE  /\ requests'[u].content = requests[u].content
                 /\ requests'[u].reply = "error" \/ requests[u].reply # "error"
                 /\ \/ requests'[u].reply = requests[u].reply
                    \/ turns'[u].phase # "unused" /\ ~(Creating(u)' /\ ~turns'[u].isFollowUp)
      <4>1. requests'[t].content = requests[t].content /\ (u # t => requests'[u] = requests[u])
        BY <3>2, <1>t DEF Request
      <4> QED BY <3>2, <4>1
    <3>3. CASE UNCHANGED requests
      BY <3>1, <3>3
    <3>4. CASE \E t \in Turns, reply \in {"ok", "error"} :
                /\ requests[t].reply = "none"
                /\ requests' = [requests EXCEPT ![t].reply = reply]
                /\ turns'[t].phase # "unused" /\ ~(Creating(t)' /\ ~turns'[t].isFollowUp)
      <4>1. PICK t \in Turns, reply \in {"ok", "error"} :
                /\ requests[t].reply = "none"
                /\ requests' = [requests EXCEPT ![t].reply = reply]
                /\ turns'[t].phase # "unused" /\ ~(Creating(t)' /\ ~turns'[t].isFollowUp)
        BY <3>4
      <4> QED BY <4>1, <3>2
    <3> QED BY <3>3, <3>4, <1>r
  <2>2. \A t \in Turns : Counts(t)' => Counts(t)
    BY <2>1, <1>r DEF Counts
  <2>3. Places
    <3>1. \A m \in Messages : \A k, i : At(m, k, i)' => At(m, k, i)
      BY <2>1, <2>2, <1>r DEF At
    <3> QED BY <3>1, <1>r, <1>s
  <2>4. ChainInv'
    BY <1>r, <1>h, <1>i, ChainSame
  <2>5. RequestLink'
    BY <1>r, <2>1, <1>i DEF RequestLink
  <2>6. \A t \in Turns : /\ turns'[t].phase = "unused" => turns[t].phase = "unused"
                         /\ Creating(t)' /\ ~turns'[t].isFollowUp
                            => turns[t].phase = "unused" \/ (Creating(t) /\ ~turns[t].isFollowUp)
    BY <1>r, <1>h, PhasesGoOn
  <2>7. UnaskedTurns'
    BY <1>r, <2>1, <2>6, <1>i DEF UnaskedTurns
  <2>8. AnsweredOnce'
    BY <2>1, <2>6, <1>i DEF AnsweredOnce, UnaskedTurns
  <2> QED BY <2>3, <2>4, <2>5, <2>7, <2>8, <1>i, <1>r, <1>n DEF OnceInv
<1>10. ASSUME NEW t \in Turns, TakeCommand(t) PROVE OnceInv'
  <2>1. /\ [RunnerNext]_runnerVars /\ UNCHANGED <<calls, queued, writeChain, activeStatuses, previousStatuses>>
        /\ commands # <<>> /\ Head(commands) = t /\ commands' = Tail(commands)
    BY <1>10, RunnerPart DEF TakeCommand
  <2>2. /\ turns[t].phase = "unused" /\ turns'[t].phase \in {"creating", "ended"}
        /\ UNCHANGED requests \/ (turns'[t].phase = "ended" /\ Answer(t, "error"))
    <3>1. CASE StartTurn(t, TRUE) /\ UNCHANGED requests
      BY <3>1, <1>h DEF StartTurn, RunnerTypeOK, TurnRecord
    <3>2. CASE StartTurnRejected(t, TRUE) /\ Answer(t, "error")
      BY <3>2, <1>h DEF StartTurnRejected, RunnerTypeOK, TurnRecord
    <3> QED BY <1>10, <3>1, <3>2 DEF TakeCommand
  <2>3. requests[t].reply = "none"
    BY <2>2, <1>i DEF UnaskedTurns
  <2>4. \/ UNCHANGED requests
        \/ \E u \in Turns, reply \in {"ok", "error"} :
              /\ requests[u].reply = "none"
              /\ requests' = [requests EXCEPT ![u].reply = reply]
              /\ turns'[u].phase # "unused" /\ ~(Creating(u)' /\ ~turns'[u].isFollowUp)
    BY <2>2, <2>3 DEF Answer, Creating
  <2>5. \A u \in Turns : turns'[u].phase = "unused" /\ (\A i \in DOMAIN commands' : commands'[i] # u)
                         => \A i \in DOMAIN commands : commands[i] # u
    <3> SUFFICES ASSUME NEW u \in Turns, turns'[u].phase = "unused",
                        \A i \in DOMAIN commands' : commands'[i] # u,
                        NEW i \in DOMAIN commands, commands[i] = u
                 PROVE  FALSE
      OBVIOUS
    <3>1. /\ Head(commands) = commands[1]
          /\ i \in Nat /\ i >= 1 /\ (i > 1 => i - 1 \in DOMAIN commands' /\ commands'[i - 1] = commands[i])
      BY <2>1, <1>h, TailOf DEF PipelineTypeOK
    <3>2. i = 1
      BY <3>1
    <3> QED BY <3>1, <3>2, <2>1, <2>2
  <2> QED BY <2>1, <2>4, <2>5, <1>r
<1>11. ASSUME NEW t \in Turns, CreateTurn(t) PROVE OnceInv'
  <2>1. /\ [RunnerNext]_runnerVars
        /\ UNCHANGED <<calls, queued, writeChain, activeStatuses, previousStatuses, commands>>
    BY <1>11, RunnerPart DEF CreateTurn
  <2>2. /\ Creating(t) /\ turns'[t].phase \in {"streaming", "ended"}
        /\ \E reply \in {"ok", "error"} : Answer(t, reply)
    BY <1>h, <1>11 DEF CreateTurnOk, RunnerTypeOK, TurnRecord, Creating, CreateTurnFail, CreateTurn
  <2>3. ~turns[t].isFollowUp => requests[t].reply = "none"
    BY <2>2, <1>i DEF AnsweredOnce
  <2>4. \/ UNCHANGED requests
        \/ \E u \in Turns, reply \in {"ok", "error"} :
              /\ requests[u].reply = "none"
              /\ requests' = [requests EXCEPT ![u].reply = reply]
              /\ turns'[u].phase # "unused" /\ ~(Creating(u)' /\ ~turns'[u].isFollowUp)
    BY <2>2, <2>3 DEF Answer, Creating
  <2> QED BY <2>1, <2>4, <1>r
<1>12. ASSUME NEW t \in Turns, RunTurn(t) PROVE OnceInv'
  BY <1>12, RunnerPart, <1>r DEF RunTurn, hubVars
<1>13. CASE Interact
  BY <1>13, <1>r DEF Interact, RunnerNext, hubVars
<1>14. CASE UNCHANGED pipelineVars
  BY <1>14, <1>r DEF pipelineVars, hubVars
<1> QED
  BY <1>1, <1>2, <1>3, <1>4, <1>5, <1>6, <1>7, <1>8, <1>9, <1>10, <1>11, <1>12, <1>13, <1>14
     DEF PipelineNext, HubStep

\* Nothing was submitted yet.
LEMMA OnceInit == PipelineInit => OnceInv
<1> SUFFICES ASSUME PipelineInit PROVE OnceInv
  OBVIOUS
<1>1. /\ \A x \in Calls : calls[x].state = "idle"
      /\ \A t \in Turns : requests[t].content = {} /\ requests[t].reply = "none"
      /\ \A c \in Chats : queued[c] = {}
      /\ writeChain = <<>> /\ previousStatuses = activeStatuses
  BY DEF PipelineInit
<1>2. \A m, k, i : ~At(m, k, i)
  BY <1>1 DEF At, InHand
<1>3. OnePlace /\ NowhereYet
  BY <1>2 DEF OnePlace, NowhereYet
<1>4. ChainInv
  BY <1>1 DEF ChainInv, QueueLink, ClearLink, ChainOrder
<1>5. RequestLink /\ UnaskedTurns /\ AnsweredOnce
  BY <1>1 DEF RequestLink, UnaskedTurns, AnsweredOnce
<1> QED BY <1>1, <1>3, <1>4, <1>5, HubInit DEF OnceInv

\* When no drain's request times out and no resumed parent drains a queue a second time,
\* a message is part of one turn that was started, at most.
THEOREM StartsOnce ==
    ASSUME Delegations = {}, SlowCalls \cap Drains = {}
    PROVE  PipelineSpec => []StartedAtMostOnce
<1>1. OnceInv => StartedAtMostOnce
  <2> SUFFICES ASSUME OnceInv, NEW t \in Turns, NEW u \in Turns,
                      requests[t].reply = "ok", requests[u].reply = "ok",
                      requests[t].content \cap requests[u].content # {}
               PROVE  t = u
    BY DEF StartedAtMostOnce
  <2>1. PICK m : m \in requests[t].content /\ m \in requests[u].content
    OBVIOUS
  <2>2. m \in Messages
    BY <2>1 DEF OnceInv, HubInv, PipelineTypeOK, Request
  <2>3. At(m, "request", t) /\ At(m, "request", u)
    BY <2>1 DEF At, Counts
  <2> QED BY <2>2, <2>3 DEF OnceInv, OnePlace
<1>2. OnceInv /\ [PipelineNext]_pipelineVars => OnceInv'
  BY OnceStep
<1> QED BY <1>1, <1>2, OnceInit, PTL DEF PipelineSpec
=============================================================================
