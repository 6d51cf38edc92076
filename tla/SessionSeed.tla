---------------------------- MODULE SessionSeed ----------------------------
(***************************************************************************)
(* A new session made from others: ForkSessionDialog and MergeSessionDialog,*)
(* handleForkSession and handleMergeSession with the hub calls they make   *)
(* one after the other, and the prompt that session-seed.ts makes of the   *)
(* transcripts.  Of a text only its length is kept; an excerpt is          *)
(* the set of the transcript's positions that it tells.                    *)
(***************************************************************************)
EXTENDS Integers, Sequences, FiniteSets, SequencesExt

CONSTANTS
    Sources,        \* chats a session can be made from
    FirstLogs,    \* what they may hold at first
    MaxMergeSessions,
    TotalChars, FloorChars, LineChars, SummaryChars,    \* limits of session-seed.ts,
    ForkLines, ForkChars,                               \* scaled down
    HeaderChars, OmittedChars,  \* the header of an excerpt, and how much longer it may be
    MaxJobs,        \* bounds the sessions that are made
    MaxAdded        \* bounds the sources' own changes meanwhile

ASSUME SeedConstants ==
    /\ {MaxMergeSessions, TotalChars, FloorChars, LineChars, SummaryChars, ForkLines, ForkChars,
        HeaderChars, OmittedChars, MaxJobs, MaxAdded} \subseteq Nat
    /\ MaxMergeSessions * FloorChars <= TotalChars /\ HeaderChars + 2 < FloorChars
    /\ HeaderChars + OmittedChars + 2 + LineChars <= ForkChars /\ HeaderChars + OmittedChars + 1 < SummaryChars
    /\ MaxMergeSessions > 0 /\ ForkLines > 0 /\ LineChars > 0
    \* A line begins with who says it.
    /\ \A log \in FirstLogs : log \in Seq([kind: {"text", "other", "cleared"}, length: Nat])
    /\ \A log \in FirstLogs : \A i \in DOMAIN log : log[i].kind = "text" => log[i].length > 0

VARIABLES
    dialog,     \* the dialog that is open: its kind and what is filled in
    written,      \* the transcript of each source; it stays when its chat is deleted
    deleted,    \* the sources that were deleted
    jobs,       \* the sessions being made: what each waits for and has learnt
    added

seedVars == <<dialog, written, deleted, jobs, added>>

\* An entry: a line of the excerpt with the length it has there, one that is not
\* shown, or the end of a context.
Text(length) == [kind |-> "text", length |-> length]
Other == [kind |-> "other", length |-> 0]
Cleared == [kind |-> "cleared", length |-> 0]

\* A body is made anew when its dialog opens: its default preset has an intent.
Closed == [kind |-> "none", chosen |-> <<>>, intent |-> FALSE, close |-> FALSE, pending |-> 0, failed |-> FALSE]
FreshBody(kind) == [Closed EXCEPT !.kind = kind, !.intent = TRUE]

SeedInit ==
    /\ dialog = Closed /\ deleted = {} /\ jobs = <<>> /\ added = 0
    /\ written \in [Sources -> FirstLogs]

-----------------------------------------------------------------------------
(* Excerpts and budgets of session-seed.ts *)

\* toTranscriptLine and truncateLine
LineLength(entry) == IF entry.length < LineChars THEN entry.length ELSE LineChars

\* sliceAfterLastContextCleared: the positions that count.
AfterCleared(log) == {i \in DOMAIN log : \A j \in DOMAIN log : log[j].kind = "cleared" => j < i}
LinesOf(log, positions) == {i \in positions : log[i].kind = "text"}

\* The sums of the first of these numbers, and of all.
SumTo(numbers) ==
    LET upTo[n \in 0 .. Len(numbers)] == IF n = 0 THEN 0 ELSE upTo[n - 1] + numbers[n] IN upTo
Total(numbers) == SumTo(numbers)[Len(numbers)]

\* The length of the lines at these positions, each with its line break.
Cost(log, lines) == Total([i \in DOMAIN log |-> IF i \in lines THEN LineLength(log[i]) + 1 ELSE 0])
\* The newest lines that fit.
Since(lines, i) == {k \in lines : k >= i}
Fitting(log, lines, chars) == {i \in lines : Cost(log, Since(lines, i)) <= chars}

Excerpt(lines, header, chars) == [lines |-> lines, header |-> header, length |-> header + chars]
NoContext == Excerpt({}, 0, 0)

\* buildForkTranscriptExcerpt
ForkExcerpt(log) ==
    LET lines == LinesOf(log, DOMAIN log)
        recent == {i \in lines : Cardinality(Since(lines, i)) <= ForkLines}
        header == HeaderChars + (IF recent = lines THEN 0 ELSE OmittedChars)
        shown == IF header + Cost(log, recent) <= ForkChars THEN recent
                 ELSE Fitting(log, recent, ForkChars - header - 1)
    IN  IF lines = {} THEN NoContext ELSE Excerpt(shown, header, Cost(log, shown))

\* buildBudgetedTranscriptExcerpt: the last line is cut if not even it fits.
BudgetedExcerpt(log, budget) ==
    LET lines == LinesOf(log, AfterCleared(log))
        room == budget - (HeaderChars + 1)
        whole == Fitting(log, lines, room)
        shown == IF whole = {} THEN {i \in lines : Since(lines, i) = {i}} ELSE whole
        header == HeaderChars + (IF shown = lines THEN 0 ELSE OmittedChars)
    IN  IF lines = {} \/ (whole = {} /\ room <= 1) THEN NoContext
        ELSE Excerpt(shown, header, IF whole = {} THEN 1 + (room - 1) ELSE Cost(log, shown))

\* computeUsableLength
UsableLength(log) ==
    LET lines == LinesOf(log, AfterCleared(log))
    IN  Total([i \in DOMAIN log |-> IF i \in lines THEN LineLength(log[i]) ELSE 0])

\* Fault seeded in Budgets: the floors are not taken off what is shared.
BudgetsOnTop(read) ==
    LET usable == [i \in DOMAIN read |-> UsableLength(read[i])]
        total == Total(usable)
    IN  [i \in DOMAIN read |-> IF usable[i] = 0 THEN 0 ELSE FloorChars + (TotalChars * usable[i]) \div total]

\* allocateSessionBudgets: a floor for each that has lines, the rest by their lengths.
Budgets(read) ==
    LET usable == [i \in DOMAIN read |-> UsableLength(read[i])]
        nonEmpty == Cardinality({i \in DOMAIN read : usable[i] > 0})
        total == Total(usable)
    IN  [i \in DOMAIN read |->
            IF usable[i] = 0 THEN 0
            ELSE FloorChars + ((TotalChars - nonEmpty * FloorChars) * usable[i]) \div total]

\* buildSourceExcerpt: a single source is told as a fork's is.
SourceExcerpts(read) ==
    [i \in DOMAIN read |-> IF Len(read) = 1 THEN ForkExcerpt(read[1]) ELSE BudgetedExcerpt(read[i], Budgets(read)[i])]

-----------------------------------------------------------------------------
(* The dialogs *)

Job(kind, sources, close) ==
    [kind |-> kind, sources |-> sources, close |-> close, stage |-> "creating", read |-> <<>>,
     summaries |-> <<>>, sent |-> FALSE, closed |-> {}]

Opened(kind) ==
    /\ dialog.kind = "none"
    /\ dialog' = FreshBody(kind)
    /\ UNCHANGED <<written, deleted, jobs, added>>

\* Escape or a click beside it: it may be dismissed while its session is created.
Dismissed == dialog.kind # "none" /\ dialog' = Closed /\ UNCHANGED <<written, deleted, jobs, added>>

\* toggleChat: of the rows the sidebar still has.
ChatToggled(c) ==
    /\ dialog.kind = "merge" /\ dialog.pending = 0
    /\ IF c \in Range(dialog.chosen)
       THEN \E i \in DOMAIN dialog.chosen :
                dialog.chosen[i] = c /\ dialog' = [dialog EXCEPT !.chosen = RemoveAt(@, i)]
       ELSE /\ c \notin deleted /\ Len(dialog.chosen) < MaxMergeSessions
            /\ dialog' = [dialog EXCEPT !.chosen = Append(@, c)]
    /\ UNCHANGED <<written, deleted, jobs, added>>

\* The box for the intent, emptied or filled, and handlePresetChange, which fills it.
IntentEdited ==
    /\ dialog.kind # "none" /\ dialog.pending = 0
    /\ dialog' = [dialog EXCEPT !.intent = ~@]
    /\ UNCHANGED <<written, deleted, jobs, added>>

CloseSourcesTicked ==
    /\ dialog.kind = "merge" /\ dialog.pending = 0
    /\ dialog' = [dialog EXCEPT !.close = ~@]
    /\ UNCHANGED <<written, deleted, jobs, added>>

Confirm(sources, close) ==
    /\ dialog.intent /\ dialog.pending = 0 /\ Len(jobs) < MaxJobs
    /\ dialog' = [dialog EXCEPT !.pending = Len(jobs) + 1, !.failed = FALSE]
    /\ jobs' = Append(jobs, Job(dialog.kind, sources, close))
    /\ UNCHANGED <<written, deleted, added>>

\* handleConfirm of the fork dialog: the chat that is open.
ForkConfirmed(c) == dialog.kind = "fork" /\ c \notin deleted /\ Confirm(<<c>>, FALSE)
\* handleConfirm of the merge dialog
MergeConfirmed == dialog.kind = "merge" /\ dialog.chosen # <<>> /\ Confirm(dialog.chosen, dialog.close)

-----------------------------------------------------------------------------
(* A session being made *)

Stage(j, stage) == jobs' = [jobs EXCEPT ![j].stage = stage]
At(j, stage) == jobs[j].stage = stage
Bootstrap(j) == UNCHANGED <<dialog, written, deleted, added>>

\* onClose closes whatever dialog is open by then; an error is shown in its own one only.
ChatRenamed(j, ok) ==
    /\ At(j, "renaming")
    /\ Stage(j, IF ok THEN "asking" ELSE "failed")
    /\ dialog' = IF ok THEN Closed
                 ELSE IF dialog.pending = j THEN [dialog EXCEPT !.pending = 0, !.failed = TRUE] ELSE dialog
    /\ UNCHANGED <<written, deleted, added>>

ChatCreated(j, ok) ==
    /\ At(j, "creating")
    /\ Stage(j, IF ok THEN "renaming" ELSE "failed")
    /\ dialog' = IF ~ok /\ dialog.pending = j THEN [dialog EXCEPT !.pending = 0, !.failed = TRUE] ELSE dialog
    /\ UNCHANGED <<written, deleted, added>>

\* chat.generateForkPrompt, chat.generateMergePrompt: one chat that is gone fails all.
PromptAsked(j) ==
    /\ At(j, "asking")
    /\ Stage(j, IF Range(jobs[j].sources) \cap deleted = {} THEN "reading" ELSE "failed")
    /\ Bootstrap(j)

\* The transcripts are read side by side: each as it is at some time from then on.
SourceRead(j) ==
    LET job == jobs[j]
        next == Len(job.read) + 1
    IN
    /\ At(j, "reading")
    /\ jobs' = [jobs EXCEPT ![j].read = Append(@, written[job.sources[next]]),
                            ![j].stage = IF next = Len(job.sources) THEN "analyzing" ELSE @]
    /\ Bootstrap(j)

\* analyzeSessionSeedIntent: either provider's answer, or the intent as it was given.
IntentAnalyzed(j) == At(j, "analyzing") /\ Stage(j, "compacting") /\ Bootstrap(j)

\* generateStructured asks Claude, then Codex, and gives nothing if neither answers in
\* time: then the excerpt is the summary, cut at its end, where its newest lines are.
TellsLines(log, excerpt, generated) ==
    IF generated THEN excerpt.lines
    ELSE {n \in excerpt.lines : excerpt.header + Cost(log, {k \in excerpt.lines : k < n}) + 1 < SummaryChars}

\* compactSourceContext, of all sources side by side.
ContextCompacted(j) ==
    LET excerpts == SourceExcerpts(jobs[j].read)
    IN
    /\ At(j, "compacting")
    /\ \E generated \in BOOLEAN :
          jobs' = [jobs EXCEPT ![j].stage = "sending",
                               ![j].summaries = [i \in DOMAIN excerpts |->
                                    [of |-> jobs[j].sources[i], excerpt |-> excerpts[i],
                                     tells |-> TellsLines(jobs[j].read[i], excerpts[i], generated)]]]
    /\ Bootstrap(j)

\* The answer is later than two minutes, or an error.
GenerateFailed(j) == (At(j, "analyzing") \/ At(j, "compacting")) /\ Stage(j, "failed") /\ Bootstrap(j)

\* Fault seeded in PromptSent: the sources are closed all the same.
PromptSentOrNot(j, ok) ==
    /\ At(j, "sending")
    /\ jobs' = [jobs EXCEPT ![j].sent = ok, ![j].stage = IF jobs[j].close THEN "closing" ELSE "done"]
    /\ Bootstrap(j)

\* chat.send with the final prompt
PromptSent(j, ok) ==
    /\ At(j, "sending")
    /\ jobs' = [jobs EXCEPT ![j].sent = ok,
                            ![j].stage = IF ~ok THEN "failed" ELSE IF jobs[j].close THEN "closing" ELSE "done"]
    /\ Bootstrap(j)

\* closeSources: one after the other, whether or not one fails, as it does for a chat
\* that is gone.
SourceClosed(j, ok) ==
    LET rest == jobs[j].sources
        gone == IF ok THEN {Head(rest)} \ deleted ELSE {}
    IN
    /\ At(j, "closing")
    /\ jobs' = [jobs EXCEPT ![j].sources = Tail(rest), ![j].closed = @ \cup gone,
                            ![j].stage = IF Len(rest) = 1 THEN "done" ELSE @]
    /\ deleted' = deleted \cup gone
    /\ UNCHANGED <<dialog, written, added>>

\* external: an agent or a user goes on in a source.
SourceWritten(c) ==
    /\ c \notin deleted /\ added < MaxAdded /\ added' = added + 1
    /\ \E entry \in {Text(LineChars), Cleared} : written' = [written EXCEPT ![c] = Append(@, entry)]
    /\ UNCHANGED <<dialog, deleted, jobs>>

\* external: a user deletes a source.
SourceDeleted(c) ==
    /\ c \notin deleted /\ added < MaxAdded /\ added' = added + 1
    /\ deleted' = deleted \cup {c}
    /\ UNCHANGED <<dialog, written, jobs>>

SeedStep ==
    \/ \E kind \in {"fork", "merge"} : Opened(kind)
    \/ Dismissed \/ IntentEdited \/ CloseSourcesTicked \/ MergeConfirmed
    \/ \E c \in Sources : ChatToggled(c) \/ ForkConfirmed(c) \/ SourceWritten(c) \/ SourceDeleted(c)
    \/ \E j \in DOMAIN jobs :
          \/ PromptAsked(j) \/ SourceRead(j) \/ IntentAnalyzed(j) \/ ContextCompacted(j) \/ GenerateFailed(j)
          \/ \E ok \in BOOLEAN : ChatCreated(j, ok) \/ ChatRenamed(j, ok) \/ PromptSent(j, ok) \/ SourceClosed(j, ok)

SeedSpec == SeedInit /\ [][SeedStep]_seedVars

-----------------------------------------------------------------------------
(* Properties *)

\* Dialogs and sessions have the shape the code gives them.
SeedTypeOK ==
    /\ dialog.kind \in {"none", "fork", "merge"} /\ dialog.pending \in 0..Len(jobs)
    /\ Len(dialog.chosen) <= MaxMergeSessions
    /\ deleted \subseteq Sources /\ added \in 0..MaxAdded
    /\ \A j \in DOMAIN jobs : Len(jobs[j].read) <= MaxMergeSessions

\* A source that a merge closed is told in a prompt that was sent: in some line at
\* least, if it had one since its context was cleared when it was read.  What was written
\* later is lost with it (useChatCommands.ts:855).
ClosedIsTold ==
    \A j \in DOMAIN jobs : \A c \in jobs[j].closed :
        /\ jobs[j].sent
        /\ \E i \in DOMAIN jobs[j].summaries :
              /\ jobs[j].summaries[i].of = c
              /\ LinesOf(jobs[j].read[i], AfterCleared(jobs[j].read[i])) # {} => jobs[j].summaries[i].tells # {}

\* What the providers are given of several sources is within the limit for all, tells
\* nothing from before a context was cleared, leaves out old lines only, and leaves no
\* source that has lines without one.  Left out: the longer header of an excerpt that
\* omits lines, which no budget counts (session-seed.ts:113).
ExcerptsAreFair ==
    \A j \in DOMAIN jobs :
        LET told == jobs[j].summaries
            read == jobs[j].read
        IN  Len(told) > 1 =>
            /\ Total([i \in DOMAIN told |-> told[i].excerpt.length]) <= TotalChars + Len(told) * OmittedChars
            /\ \A i \in DOMAIN told :
                  LET lines == LinesOf(read[i], AfterCleared(read[i]))
                      shown == told[i].excerpt.lines
                  IN  /\ shown \subseteq lines
                      /\ \A n \in shown : Since(lines, n) \subseteq shown
                      /\ lines # {} => shown # {}

SeedsAreTrue == ClosedIsTold /\ ExcerptsAreFair
=============================================================================
