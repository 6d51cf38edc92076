---------------------------- MODULE CodexSession ----------------------------
(***************************************************************************)
(* One chat's Codex sessions: CodexAppServerManager                        *)
(* (src/server/codex-app-server.ts) between the app-server processes it    *)
(* spawns, which are external, and the runner that starts turns, reads     *)
(* their streams and closes them (see RunnerAgent).                        *)
(*                                                                         *)
(* A session is a process and the JSON-RPC with it.  Nothing in a line the *)
(* process writes is compared with the turn it is about: it goes to        *)
(* context.pendingTurn, whichever turn that is.  A line is handled when it *)
(* comes; a stream that ends is read to its end, and closed or followed up, *)
(* before the next line: all of that runs in microtasks.                   *)
(***************************************************************************)
EXTENDS Naturals, FiniteSets

CONSTANTS
    MaxTurns,       \* bounds the turns started, follow-ups included
    NoCodexTurn

ASSUME CodexConstants == MaxTurns \in Nat \ {0} /\ NoCodexTurn \notin 1..MaxTurns

VARIABLES
    session,        \* SessionContext of the chat, and whether its process lives
    threadKnown,    \* the runner has a session token to resume with
    pendingTurns,   \* PendingTurn of each turn, with the call that made it
    appServer,      \* external: the turn the process works on with its item, and the next
    itemKind        \* bound: the items of a behaviour are of one kind, one in each turn

codexVars == <<session, threadKnown, pendingTurns, appServer, itemKind>>

CodexTurns == 1..MaxTurns
\* tool: commandExecution, mcpToolCall, fileChange and the like; dynamic: an item
\* that is also the subject of an item/tool/call request.
ItemKinds == {"tool", "search", "dynamic"}
Item == CodexTurns  \* a turn has one item here, named by its turn

\* "none": not in the map; "closed": in the map after failContext; otherwise what
\* startSession waits for.  "broken": its handshake was refused.
SessionStates == {"none", "initialize", "thread/resume", "thread/start", "open", "broken", "closed"}
\* call: what has become of createTurn; asking: who waits for the user; entries
\* are counted by item: the calls and the results in the queue.
CodexTurn ==
    [call: {"none", "session", "requested", "live", "over", "failed", "hung"},
     planMode: BOOLEAN, planned: BOOLEAN, followUp: BOOLEAN,
     asking: {"no", "question", "answered", "plan"}, resolved: BOOLEAN, done: BOOLEAN,
     startedToolIds: SUBSET Item, handledDynamicToolIds: SUBSET Item,
     pendingWebSearch: Item \cup {NoCodexTurn},
     calls: [Item -> Nat], results: [Item -> Nat],
     verdicts: SUBSET (CodexTurns \cup {NoCodexTurn})]

FreshCodexTurn(plan) ==
    [call |-> "session", planMode |-> plan, planned |-> FALSE, followUp |-> FALSE,
     asking |-> "no", resolved |-> FALSE, done |-> FALSE, startedToolIds |-> {}, handledDynamicToolIds |-> {},
     pendingWebSearch |-> NoCodexTurn, calls |-> [i \in Item |-> 0], results |-> [i \in Item |-> 0],
     verdicts |-> {}]

IdleServer == [turn |-> NoCodexTurn, next |-> NoCodexTurn, item |-> "none"]

CodexInit ==
    /\ session = [state |-> "none", pendingTurn |-> NoCodexTurn]
    /\ threadKnown \in BOOLEAN
    /\ pendingTurns = [t \in CodexTurns |-> [FreshCodexTurn(FALSE) EXCEPT !.call = "none"]]
    /\ appServer = IdleServer
    /\ itemKind \in ItemKinds

Busy(t) == pendingTurns[t].call \in {"session", "requested", "live"}
Unstarted == {t \in CodexTurns : pendingTurns[t].call = "none"
                               /\ \A u \in CodexTurns : u < t => pendingTurns[u].call # "none"}

-----------------------------------------------------------------------------
(* The queue of a turn; nothing is pushed to one that is done *)

PushCalls(turn, items) ==
    IF turn.done THEN turn
    ELSE [turn EXCEPT !.calls = [i \in Item |-> IF i \in items THEN @[i] + 1 ELSE @[i]]]
PushResults(turn, items) ==
    IF turn.done THEN turn
    ELSE [turn EXCEPT !.results = [i \in Item |-> IF i \in items THEN @[i] + 1 ELSE @[i]]]
\* The result entry that ends a turn, and queue.finish().
PushVerdict(turn, origin) ==
    IF turn.done THEN turn
    ELSE [turn EXCEPT !.verdicts = @ \cup {origin}, !.done = TRUE]

-----------------------------------------------------------------------------
(* Starting: startSession, then startTurn *)

\* turn/start is sent: context.pendingTurn is the turn before it is answered.
SendTurnStart(t) ==
    /\ session' = [session EXCEPT !.pendingTurn = t]
    /\ appServer' = IF session.state # "open" THEN appServer
                    ELSE IF appServer.turn = NoCodexTurn THEN [IdleServer EXCEPT !.turn = t]
                    ELSE [appServer EXCEPT !.next = t]

\* A session in the map that is not closed is used as it is.
StartCodexTurn(t, turn) ==
    IF session.state \notin {"none", "closed"}
    THEN /\ pendingTurns' = [pendingTurns EXCEPT ![t] = [turn EXCEPT !.call = "requested"]]
         /\ SendTurnStart(t)
    ELSE /\ pendingTurns' = [pendingTurns EXCEPT ![t] = turn]
         /\ session' = [state |-> "initialize", pendingTurn |-> NoCodexTurn]
         /\ appServer' = IdleServer

\* The runner takes a start_turn: it starts one turn of the chat at a time.
RunnerStarts(plan) ==
    /\ ~\E t \in CodexTurns : Busy(t) \/ pendingTurns[t].call = "hung"
    /\ \E t \in Unstarted : StartCodexTurn(t, FreshCodexTurn(plan))
    /\ UNCHANGED threadKnown

\* An answer to initialize, thread/resume or thread/start; a refused resume is
\* tried as a new thread, any other refusal is thrown and the session stays.
HandshakeAnswered(ok) ==
    \E t \in CodexTurns :
        /\ pendingTurns[t].call = "session"
        /\ LET next == IF session.state = "initialize"
                       THEN IF threadKnown THEN "thread/resume" ELSE "thread/start"
                       ELSE IF ok THEN "open" ELSE "thread/start"
           IN IF ~ok /\ session.state # "thread/resume"
              THEN /\ session' = [session EXCEPT !.state = "broken"]
                   /\ pendingTurns' = [pendingTurns EXCEPT ![t].call = "failed"]
                   /\ UNCHANGED <<threadKnown, appServer>>
              ELSE IF next = "open"
              THEN /\ session' = [state |-> "open", pendingTurn |-> t]
                   /\ pendingTurns' = [pendingTurns EXCEPT ![t].call = "requested"]
                   /\ appServer' = [IdleServer EXCEPT !.turn = t]
                   /\ threadKnown' = TRUE
              ELSE session' = [session EXCEPT !.state = next] /\ UNCHANGED <<threadKnown, pendingTurns, appServer>>

-----------------------------------------------------------------------------
(* The end of a stream, and of a session *)

NoSession == [state |-> "none", pendingTurn |-> NoCodexTurn]

\* Fault seeded in CloseAfter: the session is kept for the next turn.
CloseAfterKept(s) == IF s.state = "closed" THEN NoSession ELSE [s EXCEPT !.pendingTurn = NoCodexTurn]

\* What close() makes of the session: stopSession kills the process and forgets it.
CloseAfter(s) == NoSession

\* A turn that the runner has, and whose queue is done, is read to the end and
\* closed; one whose createTurn is still waiting is read when it returns.
AfterStream(t, turn, s, server) ==
    /\ IF turn.call = "live" /\ turn.done
       THEN /\ pendingTurns' = [pendingTurns EXCEPT ![t] = [turn EXCEPT !.call = "over"]]
            /\ session' = CloseAfter(s)
            /\ appServer' = IF CloseAfter(s) = NoSession THEN IdleServer ELSE server
       ELSE /\ pendingTurns' = [pendingTurns EXCEPT ![t] = turn]
            /\ session' = s
            /\ appServer' = server

\* turn/start is answered.  Where it is refused the next start finds the session
\* as it is; for a follow-up the runner closes the turn before, and so the session.
TurnStartAnswered(ok) ==
    \E t \in CodexTurns :
        /\ pendingTurns[t].call = "requested"
        /\ ok => session.state = "open"
        /\ ~ok => ~pendingTurns[t].done
        /\ IF ok THEN AfterStream(t, [pendingTurns[t] EXCEPT !.call = "live"], session, appServer)
           ELSE /\ pendingTurns' = [pendingTurns EXCEPT ![t].call = "failed", ![t].done = TRUE]
                /\ session' = IF pendingTurns[t].followUp THEN CloseAfter(session)
                              ELSE [session EXCEPT !.pendingTurn = NoCodexTurn]
                /\ appServer' = IdleServer
        /\ UNCHANGED threadKnown

\* The runner cancels the turn it has: interrupt() ends the queue, and the
\* runner closes what it has read to the end.  A request waiting for the user
\* is given up; the plan's is let go, on a session that is gone.
Interrupt ==
    \E t \in CodexTurns :
        /\ pendingTurns[t].call = "live"
        /\ AfterStream(t, [pendingTurns[t] EXCEPT !.resolved = TRUE, !.done = TRUE, !.asking = "answered"],
                       [session EXCEPT !.pendingTurn = NoCodexTurn], appServer)
        /\ UNCHANGED threadKnown

-----------------------------------------------------------------------------
(* Lines of the app-server, for context.pendingTurn *)

Works == session.state = "open" /\ appServer.turn # NoCodexTurn
Pending == session.pendingTurn
\* The app-server goes on when no request of its turn is open.
Proceeds == Works /\ (Pending # NoCodexTurn => pendingTurns[Pending].asking \in {"no", "answered"})
Mark(status) == appServer' = [appServer EXCEPT !.item = status]
Handle(turn) == pendingTurns' = IF Pending = NoCodexTurn THEN pendingTurns ELSE [pendingTurns EXCEPT ![Pending] = turn]

\* item/started; a search may have no query yet.
ItemStarted(query) ==
    LET i == appServer.turn
        p == pendingTurns[Pending]
        shown == i \notin p.handledDynamicToolIds /\ query
    IN
    /\ Proceeds /\ appServer.item \in {"none", "called"} /\ (itemKind # "search" => query)
    /\ (itemKind = "dynamic" => appServer.item = "called")
    /\ Mark("started")
    /\ Handle(IF shown THEN PushCalls([p EXCEPT !.startedToolIds = @ \cup {i}], {i}) ELSE p)
    /\ UNCHANGED <<session, threadKnown>>

\* Fault seeded in ItemCompleted: what was started is not asked.
ItemCompletedAgain ==
    LET i == appServer.turn
        p == pendingTurns[Pending]
    IN
    /\ Proceeds /\ appServer.item # "completed"
    /\ (itemKind = "dynamic" => appServer.item \in {"called", "started"})
    /\ Mark("completed")
    /\ Handle(IF i \in p.handledDynamicToolIds THEN p ELSE PushResults(PushCalls(p, {i}), {i}))
    /\ UNCHANGED <<session, threadKnown>>

\* item/completed: the call is made up for where none was shown, then the result.
ItemCompleted ==
    LET i == appServer.turn
        p == pendingTurns[Pending]
        new == IF i \in p.startedToolIds THEN {} ELSE {i}
        found == IF itemKind = "search" THEN i ELSE p.pendingWebSearch
    IN
    /\ Proceeds /\ appServer.item # "completed"
    /\ (itemKind = "dynamic" => appServer.item \in {"called", "started"})
    /\ Mark("completed")
    /\ Handle(IF i \in p.handledDynamicToolIds THEN p
              ELSE PushResults(PushCalls([p EXCEPT !.startedToolIds = @ \cup new,
                                                   !.pendingWebSearch = found], new), {i}))
    /\ UNCHANGED <<session, threadKnown>>

\* item/completed of an agentMessage: its text is the result of a search, too.
AgentMessage ==
    LET p == pendingTurns[Pending]
    IN
    /\ Proceeds /\ Pending # NoCodexTurn /\ p.pendingWebSearch # NoCodexTurn
    /\ Handle(PushResults([p EXCEPT !.pendingWebSearch = NoCodexTurn], {p.pendingWebSearch}))
    /\ UNCHANGED <<session, threadKnown, appServer>>

\* item/tool/call: present_content, update_plan or a tool that is not known; each
\* shows its call and its result and is answered.  Without a turn: an error.
DynamicToolCall ==
    LET i == appServer.turn
        p == pendingTurns[Pending]
    IN
    /\ Proceeds /\ itemKind = "dynamic" /\ appServer.item = "none"
    /\ Mark("called")
    /\ Handle(PushResults(PushCalls([p EXCEPT !.handledDynamicToolIds = @ \cup {i}], {i}), {i}))
    /\ UNCHANGED <<session, threadKnown>>

\* item/tool/requestUserInput, or ask_user_question: the request waits.  Once in
\* a turn, and after the answer to its turn/start.
UserInputRequest ==
    /\ Proceeds /\ Pending # NoCodexTurn /\ pendingTurns[Pending].call = "live"
    /\ pendingTurns[Pending].asking = "no"
    /\ pendingTurns' = [pendingTurns EXCEPT ![Pending].asking = "question"]
    /\ UNCHANGED <<session, threadKnown, appServer>>

UserAnswers ==
    /\ \E t \in CodexTurns : /\ pendingTurns[t].asking = "question"
                             /\ pendingTurns' = [pendingTurns EXCEPT ![t].asking = "answered"]
    /\ UNCHANGED <<session, threadKnown, appServer>>

\* item/plan/delta, turn/plan/updated and the plan item.
PlanText ==
    /\ Proceeds /\ Pending # NoCodexTurn /\ Pending # MaxTurns
    /\ pendingTurns[Pending].planMode /\ ~pendingTurns[Pending].planned
    /\ pendingTurns' = [pendingTurns EXCEPT ![Pending].planned = TRUE]
    /\ UNCHANGED <<session, threadKnown, appServer>>

\* turn/completed: a plan that succeeded asks the user first, and has no result
\* entry; any other turn ends with one.
TurnCompleted(status) ==
    LET t == Pending
        origin == appServer.turn
        idle == [IdleServer EXCEPT !.turn = appServer.next]
    IN
    /\ Proceeds
    /\ IF t = NoCodexTurn
       THEN appServer' = idle /\ UNCHANGED <<session, pendingTurns>>
       ELSE IF status = "completed" /\ pendingTurns[t].planMode /\ pendingTurns[t].planned
            THEN /\ pendingTurns[t].call = "live"
                 /\ pendingTurns' = [pendingTurns EXCEPT ![t].asking = "plan", ![t].pendingWebSearch = NoCodexTurn]
                 /\ appServer' = idle /\ UNCHANGED session
            ELSE AfterStream(t, PushVerdict([pendingTurns[t] EXCEPT !.resolved = TRUE,
                                                             !.pendingWebSearch = NoCodexTurn], origin),
                             [session EXCEPT !.pendingTurn = NoCodexTurn], idle)
    /\ UNCHANGED threadKnown

\* The plan is approved or to be revised: its turn ends, and the runner starts
\* the next one at once, in the session as it is.
PlanAnswered(plan) ==
    \E t \in CodexTurns :
        /\ pendingTurns[t].asking = "plan" /\ pendingTurns[t].call = "live"
        /\ \E u \in Unstarted :
              /\ pendingTurns' = [pendingTurns EXCEPT ![t].asking = "answered", ![t].resolved = TRUE, ![t].done = TRUE,
                                        ![t].call = "over",
                                        ![u] = [FreshCodexTurn(plan) EXCEPT !.call = "requested",
                                                                            !.followUp = TRUE]]
              /\ SendTurnStart(u)
        /\ UNCHANGED threadKnown

-----------------------------------------------------------------------------
(* The process ends by itself, or reports an error: failContext *)

\* Fault seeded in Rejected: requests that wait are not told.
NotRejected(call, mentionsResume) == call

\* Requests that wait are rejected.  A message that names thread/resume passes
\* for a refused resume, and the thread/start that follows is written nowhere.
Rejected(call, mentionsResume) ==
    IF call = "session" /\ session.state = "thread/resume" /\ mentionsResume THEN "hung"
    ELSE IF call \in {"session", "requested"} THEN "failed"
    ELSE call

FailContext(mentionsResume) ==
    LET t == CHOOSE u \in CodexTurns : Busy(u)
        open == session.pendingTurn = t /\ ~pendingTurns[t].resolved
        turn == IF open THEN PushVerdict(pendingTurns[t], NoCodexTurn) ELSE pendingTurns[t]
        call == Rejected(turn.call, mentionsResume)
        s    == IF session.state = "thread/resume" /\ ~mentionsResume THEN NoSession
                ELSE [state |-> "closed", pendingTurn |-> NoCodexTurn]
    IN
    /\ session.state \notin {"none", "closed"} /\ \E u \in CodexTurns : Busy(u)
    /\ AfterStream(t, [turn EXCEPT !.call = call,
                                   !.done = @ \/ call = "failed",
                                   !.asking = IF turn.done THEN "answered" ELSE @], s, IdleServer)
    /\ UNCHANGED threadKnown

IdleProcessExits ==
    /\ session.state \notin {"none", "closed"} /\ ~\E u \in CodexTurns : Busy(u)
    /\ session' = [state |-> "closed", pendingTurn |-> NoCodexTurn]
    /\ appServer' = IdleServer
    /\ UNCHANGED <<threadKnown, pendingTurns>>

-----------------------------------------------------------------------------

AppServerAnswers == \E ok \in BOOLEAN : HandshakeAnswered(ok) \/ TurnStartAnswered(ok)
AppServerEnds    == \E status \in {"completed", "failed"} : TurnCompleted(status)
UserResponds     == UserAnswers \/ \E plan \in BOOLEAN : PlanAnswered(plan)

CodexStep ==
    \/ \E plan \in BOOLEAN : RunnerStarts(plan)
    \/ AppServerAnswers
    \/ Interrupt
    \/ \E query \in BOOLEAN : ItemStarted(query)
    \/ ItemCompleted \/ AgentMessage \/ DynamicToolCall \/ UserInputRequest \/ PlanText
    \/ AppServerEnds
    \/ UserResponds
    \/ \E mentionsResume \in BOOLEAN : FailContext(mentionsResume)
    \/ IdleProcessExits

CodexNext == CodexStep /\ UNCHANGED itemKind

CodexSpec == CodexInit /\ [][CodexNext]_codexVars /\ WF_codexVars(AppServerAnswers /\ UNCHANGED itemKind)
                       /\ WF_codexVars(AppServerEnds /\ UNCHANGED itemKind) /\ WF_codexVars(UserResponds /\ UNCHANGED itemKind)

-----------------------------------------------------------------------------
(* Properties *)

\* The session, its turns and what their queues were given, as PendingTurn has them.
CodexTypeOK ==
    /\ session \in [state: SessionStates, pendingTurn: CodexTurns \cup {NoCodexTurn}]
    /\ threadKnown \in BOOLEAN
    /\ pendingTurns \in [CodexTurns -> CodexTurn]
    /\ appServer.turn \in CodexTurns \cup {NoCodexTurn}

\* A turn's transcript is its own: no call, result or verdict of a turn that was
\* interrupted before it gets into its stream, although no line is checked.
TurnsKeepApart ==
    \A t \in CodexTurns :
        /\ pendingTurns[t].verdicts \subseteq {t, NoCodexTurn}
        /\ \A i \in Item : pendingTurns[t].calls[i] + pendingTurns[t].results[i] > 0 => i = t

\* A tool is shown once, and has a result only after it was shown, in whatever
\* order its request, its start and its completion come.
ResultsFollowCalls ==
    \A t \in CodexTurns, i \in Item :
        /\ pendingTurns[t].calls[i] <= 1
        /\ pendingTurns[t].results[i] > 0 => pendingTurns[t].calls[i] = 1

\* A turn's transcript tells that turn, each tool once and in order, although what the
\* app-server sends is matched with no turn.
OwnTranscripts == TurnsKeepApart /\ ResultsFollowCalls

\* Every start is answered and every turn is over in the end, where the
\* app-server answers or exits and the user responds: except for the start whose
\* thread/start was written to a session that was closed.
TurnsSettle == \A t \in CodexTurns : Busy(t) ~> pendingTurns[t].call \in {"over", "failed", "hung"}

=============================================================================
