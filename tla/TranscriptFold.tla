--------------------------- MODULE TranscriptFold ---------------------------
(***************************************************************************)
(* From the entries of a transcript to the units a tab shows:              *)
(* foldTranscriptRenderUnits (src/shared/transcript-render.ts) over the    *)
(* window of the last entries (src/server/read-models.ts), as a chat grows *)
(* while a turn runs and ends.  An entry is its kind, with the kind of the *)
(* tool it calls or the call it is a result of; its position is its id, and *)
(* a call has a tool id of its own.  Contents are left out; the kinds that *)
(* are shown each for itself are represented by "user_prompt".             *)
(***************************************************************************)
EXTENDS Naturals, SequencesExt, FiniteSetsExt

CONSTANTS
    EntryKinds,     \* kinds of entries that occur, beside tool calls and results
    ToolKinds,      \* kinds of tools that are called
    MaxLog,         \* bound on the entries of the chat
    Window          \* TRANSCRIPT_RENDER_WINDOW_SIZE

ASSUME FoldConstants == /\ {MaxLog, Window} \subseteq Nat \ {0}
                        /\ EntryKinds \cap {"tool_call", "tool_result", "tool", "wip_block", "tool_group"} = {}
                        /\ ToolKinds \subseteq {"work", "ask_user_question", "exit_plan_mode",
                                                "todo_write", "present_content", "unknown_tool"}

VARIABLES
    log,            \* the entries of the chat
    loading         \* isLoading: the chat has a turn

foldVars == <<log, loading>>

None == 0
DEDICATED_TOOL_KINDS == {"ask_user_question", "exit_plan_mode", "todo_write", "present_content"}
Entry(kind, tool, of, error) == [kind |-> kind, tool |-> tool, of |-> of, error |-> error]

FoldInit == log = <<>> /\ loading = FALSE

AppendEntry(e) ==
    /\ Len(log) < MaxLog
    /\ log' = Append(log, e)
    /\ UNCHANGED loading

Says == \E kind \in EntryKinds : AppendEntry(Entry(kind, "", None, FALSE))
CallsTool == \E tool \in ToolKinds : AppendEntry(Entry("tool_call", tool, None, FALSE))

\* A tool may have several results: the runner's and the one its harness repeats.
ToolReturns ==
    \E call \in DOMAIN log, error \in BOOLEAN :
        log[call].kind = "tool_call" /\ AppendEntry(Entry("tool_result", "", call, error))

TurnToggles == loading' = ~loading /\ UNCHANGED log

FoldStep == Says \/ CallsTool \/ ToolReturns \/ TurnToggles

FoldSpec == FoldInit /\ [][FoldStep]_foldVars

-----------------------------------------------------------------------------
(* hydrateTranscriptEntries: the messages of a window *)

InWindow == {i \in DOMAIN log : i > Len(log) - Window}

\* The numbers of a set from the least to the greatest.
Ascending(S) == [k \in 1..Cardinality(S) |-> CHOOSE x \in S : Cardinality({y \in S : y < x}) = k - 1]

\* The results of a call that is in the window.
ResultsOf(call) == {r \in InWindow : log[r].kind = "tool_result" /\ log[r].of = call}

\* The result that counts: for a question or a plan the first one, else the last.
ResultKept(call) ==
    IF log[call].tool \in {"ask_user_question", "exit_plan_mode"} THEN Min(ResultsOf(call)) ELSE Max(ResultsOf(call))

IsError(call) == ResultsOf(call) # {} /\ log[ResultKept(call)].error

MessageOf(i) ==
    [kind |-> IF log[i].kind = "tool_call" THEN "tool" ELSE log[i].kind, tool |-> log[i].tool,
     error |-> log[i].kind = "tool_call" /\ IsError(i),
     sources |-> <<i>> \o IF log[i].kind = "tool_call" THEN Ascending(ResultsOf(i)) ELSE <<>>]

\* Results and usage notes make no message.
Items ==
    LET made == {i \in InWindow : log[i].kind \notin {"tool_result", "context_usage"}}
        order == Ascending(made)
    IN [k \in DOMAIN order |-> MessageOf(order[k])]

IsWorkTool(m) ==
    m.kind = "tool" /\ ~m.error /\ m.tool \notin DEDICATED_TOOL_KINDS \cup {"unknown_tool"}

IsStandaloneTool(m) == m.kind = "tool" /\ ~IsWorkTool(m)
ShouldEjectRationaleBefore(m) == IsStandaloneTool(m) /\ m.tool # "todo_write"
IsWipAbsorbable(m) == m.kind = "assistant_text" \/ IsWorkTool(m)

Texts(items) == {k \in DOMAIN items : items[k].kind = "assistant_text"}
Tools(items) == {k \in DOMAIN items : items[k].kind = "tool"}

\* Fault seeded in AnswerIndex: the first text is taken for the answer.
AnswerIndexFirst(items) == IF Texts(items) = {} THEN 0 ELSE Min(Texts(items))

\* findAnswerIndex: which text is the answer, if one is.  While the turn runs a text is
\* no answer when a tool was called after it, nor when it only follows another text.
AnswerIndex(items) ==
    LET last == Max({0} \cup Texts(items)) IN
    IF ~loading THEN last
    ELSE IF \E k \in Tools(items) : k > last THEN 0
    ELSE IF last = Len(items) /\ Tools(items) = {} /\ Texts(items) # {last} THEN 0
    ELSE last

\* shouldSkipSingle: only the latest status and todo list, the first header of each
\* kind, and no result beside a cleared context.
Skipped(items, k) ==
    LET m == items[k] IN
    \/ m.kind = "status" /\ \E j \in DOMAIN items : j > k /\ items[j].kind = "status"
    \/ m.kind \in {"system_init", "account_info"} /\ \E j \in 1..(k - 1) : items[j].kind = m.kind
    \/ m.kind = "result" /\ \E j \in DOMAIN items \cap {k - 1, k + 1} : items[j].kind = "context_cleared"
    \/ m.tool = "todo_write" /\ \E j \in DOMAIN items : j > k /\ items[j].tool = "todo_write"

-----------------------------------------------------------------------------
(* foldTranscriptRenderUnits *)

Unit(kind, members) == [kind |-> kind, sources |-> FlattenSeq([k \in DOMAIN members |-> members[k].sources])]

SingleKind(m) ==
    CASE m.kind = "assistant_text" -> "assistant_response"
      [] m.kind = "tool" -> IF m.tool = "present_content" THEN "artifact" ELSE "standalone_tool"
      [] OTHER -> m.kind

Singles(members) == [k \in DOMAIN members |-> Unit(SingleKind(members[k]), <<members[k]>>)]

\* The messages from k on that the loop takes up before it stops at one that is skipped
\* or does not belong.
RunEnd(items, k, belonging) ==
    LET stops == {j \in (k + 1)..Len(items) : Skipped(items, j) \/ j \notin belonging}
    IN Min({Len(items) + 1} \cup stops) - 1

\* A block of narration and work: what precedes a tool that stands alone is its
\* rationale and is shown outside of it.
WipUnits(items, k, end) ==
    LET ejects == end < Len(items) /\ ShouldEjectRationaleBefore(items[end + 1])
        work == {j \in k..end : items[j].kind # "assistant_text"}
        cut == IF ejects THEN Max({k - 1} \cup work) ELSE end
        steps == SubSeq(items, k, cut)
    IN (IF Len(steps) >= 2 \/ (loading /\ steps # <<>>) THEN <<Unit("wip_block", steps)>>
        ELSE Singles(steps)) \o Singles(SubSeq(items, cut + 1, end))

ToolUnits(items, k, end) ==
    LET tools == SubSeq(items, k, end)
    IN IF Len(tools) >= 2 THEN <<Unit("tool_group", tools)>> ELSE Singles(tools)

\* The loop: units from the message k on; a status comes last of all.
UnitsFrom(items) ==
    LET answer == AnswerIndex(items)
        status == Max({0} \cup {k \in DOMAIN items : items[k].kind = "status"})
        work == {k \in DOMAIN items : IsWorkTool(items[k])}
        absorbable == {k \in DOMAIN items : IsWipAbsorbable(items[k])}
        from[k \in 1..(Len(items) + 1)] ==
            IF k > Len(items) THEN IF status = 0 THEN <<>> ELSE Singles(<<items[status]>>)
            ELSE IF Skipped(items, k) \/ items[k].kind = "status" THEN from[k + 1]
            ELSE IF items[k].kind = "assistant_text" /\ k # answer
                 THEN LET end == RunEnd(items, k, absorbable \ {answer})
                      IN WipUnits(items, k, end) \o from[end + 1]
            ELSE IF IsWorkTool(items[k])
                 THEN LET end == RunEnd(items, k, work)
                      IN ToolUnits(items, k, end) \o from[end + 1]
            ELSE Singles(<<items[k]>>) \o from[k + 1]
    IN from[1]

Units == UnitsFrom(Items)

\* getTranscriptRenderUnitId: the key under which React keeps what a unit shows.
UnitId(u) ==
    IF u.kind \in {"wip_block", "tool_group"} THEN <<u.kind, Head(u.sources), Last(u.sources)>>
    ELSE <<u.kind, Head(u.sources)>>

-----------------------------------------------------------------------------
(* Properties *)

\* Entries and what they refer to are as the runner and the harnesses write them.
FoldTypeOK ==
    /\ Len(log) <= MaxLog /\ loading \in BOOLEAN
    /\ \A i \in DOMAIN log :
          /\ log[i].kind \in EntryKinds \cup {"tool_call", "tool_result"}
          /\ log[i].kind = "tool_result" => log[i].of < i /\ log[log[i].of].kind = "tool_call"

\* What is not superseded is shown once: every message that is not skipped is in one
\* unit with all results of its call, units are in the order of the chat but for the
\* status at its end, and no two of them have one key.
ShownOnceInOrder ==
    LET units == Units items == Items
        shown == FlattenSeq([k \in DOMAIN units |-> units[k].sources])
        heads == [k \in DOMAIN units |-> Head(units[k].sources)]
        kept == {k \in DOMAIN items : ~Skipped(items, k)}
    IN /\ IsInjective(shown)
       /\ ToSet(shown) = UNION {ToSet(items[k].sources) : k \in kept}
       /\ \A i, j \in DOMAIN units : i < j /\ units[j].kind # "status" => heads[i] < heads[j]
       /\ IsInjective([k \in DOMAIN units |-> UnitId(units[k])])

\* What the user must see is never folded away: when the turn is over the last thing
\* the assistant said, a failed tool, a question and what is presented.
NothingHidden ==
    LET units == Units
        folded == UNION {ToSet(units[k].sources) :
                            k \in {j \in DOMAIN units : units[j].kind \in {"wip_block", "tool_group"}}}
    IN /\ \A i \in folded : log[i].kind = "tool_call" => ~IsError(i) /\ log[i].tool = "work"
       /\ ~loading => \A i \in {j \in folded : log[j].kind = "assistant_text"} :
                         \E j \in InWindow : j > i /\ log[j].kind = "assistant_text"

\* The units a transcript is folded into show every entry of the window that is kept,
\* once, in order, and hide nothing the user has to see.
RenderedFaithfully == ShownOnceInOrder /\ NothingHidden
=============================================================================
