---------------------------- MODULE QuestionForm ----------------------------
(***************************************************************************)
(* A question or a plan an agent puts to the user, from the request the    *)
(* runner holds to the cards that show it: AskUserQuestionMessage and      *)
(* ExitPlanModeMessage in each browser tab, chat.respondTool, respondTool  *)
(* and cancel of the runner, the harness that passes the answer on, and    *)
(* the results in the transcript, of which there may be two: the runner's, *)
(* and the Claude SDK's own, which does not tell the answers.              *)
(*                                                                         *)
(* Answers are kept as text.  The options of a question with multiSelect   *)
(* are joined by a separator, and split at it again: a text here is the    *)
(* sequence of its pieces.                                                 *)
(***************************************************************************)
EXTENDS Naturals, Sequences, FiniteSets

CONSTANTS
    FormTabs,       \* browser tabs that show the chat
    Options,        \* for each question, numbered from 1, the labels it offers
    MultiSelect,    \* the questions that take several
    Typed,          \* what users type in the box, "" included, without blanks around it
    Blanks,         \* one of these texts: blanks and nothing else
    MaxClicks       \* bounds what is chosen and typed

NoText == <<>>

Questions == DOMAIN Options
\* What may be chosen or typed, and the pieces it consists of.
FormTexts == Typed \cup UNION {Options[q] : q \in Questions}
Pieces    == UNION {{text[i] : i \in DOMAIN text} : text \in FormTexts}

\* There is a question, and an option has a label.
ASSUME QuestionConstants ==
    /\ Len(Options) \in Nat \ {0} /\ Questions = 1..Len(Options) /\ MultiSelect \subseteq Questions
    /\ FormTexts \subseteq Seq(Pieces) /\ NoText \in Typed /\ \A q \in Questions : NoText \notin Options[q]
    /\ MaxClicks \in Nat

VARIABLES
    request,    \* what is asked, by which provider, and what pendingTool holds
    told,       \* the reply the agent was given
    results,    \* the tool_result entries of the transcript
    forms,      \* each tab's card
    advances,   \* each tab's timers that go on to the next question
    responses,  \* each tab's chat.respondTool commands under way
    clicks

questionVars == <<request, told, results, forms, advances, responses, clicks>>

\* What is sent for the questions or about the plan; what a result is read as.
AskReply(verdict, answers) == [verdict |-> verdict, answers |-> answers]
NoAnswers  == [q \in Questions |-> <<>>]
NoReply    == AskReply("none", NoAnswers)
Verdicts   == {"approved", "approved_cleared", "adjusted"}

\* index: the question shown; seen: how many results the tab has; sent: the answers
\* that were submitted in this card; row: whether the virtual list renders the card.
FreshForm(seen, sent) ==
    [row |-> TRUE, seen |-> seen, index |-> 1, answers |-> [q \in Questions |-> NoText],
     custom |-> [q \in Questions |-> NoText], sent |-> sent, submitted |-> seen > 0]

QuestionInit ==
    /\ request \in [asks: {"questions", "plan"}, provider: {"claude", "codex"}, pending: {TRUE}]
    /\ told = NoReply /\ results = <<>>
    /\ forms = [tab \in FormTabs |-> FreshForm(0, NoReply)]
    /\ advances = [tab \in FormTabs |-> {}]
    /\ responses = [tab \in FormTabs |-> <<>>]
    /\ clicks = 0

-----------------------------------------------------------------------------
(* What a card shows *)

\* Fault seeded in HydratedResult: the last result counts.
HydratedResultLast(seen) == IF seen = 0 THEN NoReply ELSE results[seen]

\* The result of the call in a tab: the first one, although the SDK echoes another.
HydratedResult(seen) == IF seen = 0 THEN NoReply ELSE results[1]

IsComplete(tab) == forms[tab].seen > 0
Open(tab) == forms[tab].row /\ ~forms[tab].submitted /\ ~IsComplete(tab)

\* What a card that is done tells: what was submitted in it before what is saved.
CardTells(tab) ==
    IF request.asks = "questions" /\ forms[tab].sent # NoReply THEN forms[tab].sent
    ELSE HydratedResult(forms[tab].seen)

\* The pieces of a text, each a text of its own.
Split(text) == [i \in DOMAIN text |-> <<text[i]>>]

\* The box as it is sent: trimmed.
Trimmed(form, q) == IF form.custom[q] = Blanks THEN NoText ELSE form.custom[q]

\* getEffectiveAnswers
EffectiveAnswers(form, q) ==
    LET value == IF Trimmed(form, q) # NoText THEN Trimmed(form, q) ELSE form.answers[q]
    IN  IF q \in MultiSelect THEN Split(form.answers[q] \o Trimmed(form, q))
        ELSE IF value = NoText THEN <<>> ELSE <<value>>

\* getSelectedOptions: the options that are ticked.
SelectedOptions(form, q) ==
    LET ticked == IF q \in MultiSelect THEN Split(form.answers[q]) ELSE <<form.answers[q]>>
    IN  {label \in Options[q] : \E i \in DOMAIN ticked : ticked[i] = label}

-----------------------------------------------------------------------------
(* Filling in *)

Click == clicks < MaxClicks /\ clicks' = clicks + 1
Asked(tab) == forms[tab].index
Change(tab, form) == forms' = [forms EXCEPT ![tab] = form]

\* A text without the pieces that are the label: of its first n pieces, and of all.
Keeping(text, label) ==
    LET kept[n \in 0..Len(text)] ==
            IF n = 0 THEN <<>>
            ELSE IF <<text[n]>> = label THEN kept[n - 1] ELSE Append(kept[n - 1], text[n])
    IN  kept
Without(text, label) == Keeping(text, label)[Len(text)]

\* handleOptionSelect: one of several is toggled; a single one goes on by itself,
\* after a moment, to the question after the one it was chosen in.
OptionSelected(tab, label) ==
    LET q == Asked(tab)
        form == forms[tab]
        others == Without(form.answers[q], label)
        toggled == IF Len(others) < Len(form.answers[q]) THEN others ELSE others \o label
    IN
    /\ Open(tab) /\ request.asks = "questions" /\ label \in Options[q] /\ Click
    /\ IF q \in MultiSelect
       THEN /\ Change(tab, [form EXCEPT !.answers[q] = toggled])
            /\ UNCHANGED advances
       ELSE /\ Change(tab, [form EXCEPT !.answers[q] = label, !.custom[q] = NoText])
            /\ advances' = IF q = Len(Options) THEN advances ELSE [advances EXCEPT ![tab] = @ \cup {q + 1}]
    /\ UNCHANGED <<request, told, results, responses>>

Advanced(tab) ==
    /\ \E next \in advances[tab] : /\ Change(tab, [forms[tab] EXCEPT !.index = next])
                                   /\ advances' = [advances EXCEPT ![tab] = @ \ {next}]
    /\ UNCHANGED <<request, told, results, responses, clicks>>

\* Fault seeded in CustomTyped: what was ticked stays.
CustomTypedBeside(tab, text) ==
    LET q == Asked(tab)
        form == [forms[tab] EXCEPT !.custom[q] = text]
    IN
    /\ Open(tab) /\ request.asks = "questions" /\ text # forms[tab].custom[q] /\ Click
    /\ Change(tab, form)
    /\ UNCHANGED <<request, told, results, advances, responses>>

\* handleCustomInputChange, clearCustomInput
CustomTyped(tab, text) ==
    LET q == Asked(tab)
        form == [forms[tab] EXCEPT !.custom[q] = text]
    IN
    /\ Open(tab) /\ request.asks = "questions" /\ text # forms[tab].custom[q] /\ Click
    /\ Change(tab, IF text # NoText /\ q \notin MultiSelect THEN [form EXCEPT !.answers[q] = NoText] ELSE form)
    /\ UNCHANGED <<request, told, results, advances, responses>>

\* handleNext, by its button or, an option being enough, the Enter key, and handleBack.
QuestionMoved(tab) ==
    LET q == Asked(tab)
        form == forms[tab]
    IN
    /\ Open(tab) /\ request.asks = "questions"
    /\ \E next \in {q - 1, q + 1} \cap Questions :
          /\ next > q => EffectiveAnswers(form, q) # <<>>
          /\ Change(tab, [form EXCEPT !.index = next])
    /\ UNCHANGED <<request, told, results, advances, responses, clicks>>

\* handleSubmit and handleAskUserQuestion: the card is done before the hub has answered.
Submitted(tab) ==
    LET form == forms[tab]
        reply == AskReply("answered", [q \in Questions |-> EffectiveAnswers(form, q)])
    IN
    /\ Open(tab) /\ request.asks = "questions" /\ form.index = Len(Options)
    /\ \A q \in Questions : EffectiveAnswers(form, q) # <<>>
    /\ Change(tab, [form EXCEPT !.sent = reply, !.submitted = TRUE])
    /\ responses' = [responses EXCEPT ![tab] = Append(@, reply)]
    /\ UNCHANGED <<request, told, results, advances, clicks>>

\* The buttons of a plan and handleExitPlanMode: they stay until there is a result.
PlanConfirmed(tab, verdict) ==
    /\ Open(tab) /\ request.asks = "plan" /\ Click
    /\ responses' = [responses EXCEPT ![tab] = Append(@, AskReply(verdict, NoAnswers))]
    /\ UNCHANGED <<request, told, results, forms, advances>>

\* The list drops the row of a card that is out of sight, and makes a new one.
RowScrolled(tab) ==
    /\ Change(tab, IF forms[tab].row THEN [forms[tab] EXCEPT !.row = FALSE]
                   ELSE FreshForm(forms[tab].seen, HydratedResult(forms[tab].seen)))
    /\ advances' = [advances EXCEPT ![tab] = {}]
    /\ UNCHANGED <<request, told, results, responses, clicks>>

-----------------------------------------------------------------------------
(* Runner and harness *)

\* respondTool: the result is published, then the harness is told; without a
\* request the command fails.
Responded(tab) ==
    /\ responses[tab] # <<>>
    /\ responses' = [responses EXCEPT ![tab] = Tail(@)]
    /\ IF request.pending
       THEN /\ request' = [request EXCEPT !.pending = FALSE]
            /\ results' = Append(results, Head(responses[tab]))
            /\ told' = Head(responses[tab])
       ELSE UNCHANGED <<request, results, told>>
    /\ UNCHANGED <<forms, advances, clicks>>

\* The command does not reach the runner: the tab shows an error and nothing else.
ResponseFailed(tab) ==
    /\ responses[tab] # <<>>
    /\ responses' = [responses EXCEPT ![tab] = Tail(@)]
    /\ UNCHANGED <<request, told, results, forms, advances, clicks>>

\* cancel: discardedToolResult; the agent is told of a Codex plan only.
RequestCancelled ==
    LET discarded == AskReply("discarded", NoAnswers)
    IN
    /\ request.pending
    /\ request' = [request EXCEPT !.pending = FALSE]
    /\ results' = Append(results, discarded)
    /\ told' = IF request.provider = "codex" /\ request.asks = "plan" THEN discarded ELSE told
    /\ UNCHANGED <<forms, advances, responses, clicks>>

\* external: Claude's own result of the call, in which nothing of the reply is found.
Echoed ==
    /\ request.provider = "claude" /\ told # NoReply /\ Len(results) = 1
    /\ results' = Append(results, AskReply("unread", NoAnswers))
    /\ UNCHANGED <<request, told, forms, advances, responses, clicks>>

\* A tab receives the next result.
ResultSeen(tab) ==
    /\ forms[tab].seen < Len(results)
    /\ Change(tab, [forms[tab] EXCEPT !.seen = @ + 1])
    /\ UNCHANGED <<request, told, results, advances, responses, clicks>>

QuestionStep ==
    \/ \E tab \in FormTabs :
          \/ \E label \in UNION {Options[q] : q \in Questions} : OptionSelected(tab, label)
          \/ \E text \in Typed : CustomTyped(tab, text)
          \/ \E verdict \in Verdicts : PlanConfirmed(tab, verdict)
          \/ Advanced(tab) \/ QuestionMoved(tab) \/ Submitted(tab) \/ RowScrolled(tab)
          \/ Responded(tab) \/ ResponseFailed(tab) \/ ResultSeen(tab)
    \/ RequestCancelled \/ Echoed

QuestionSpec == QuestionInit /\ [][QuestionStep]_questionVars

-----------------------------------------------------------------------------
(* Properties *)

\* The request, the replies and the cards have the shape the code gives them.
QuestionTypeOK ==
    /\ request \in [asks: {"questions", "plan"}, provider: {"claude", "codex"}, pending: BOOLEAN]
    /\ told.verdict \in Verdicts \cup {"none", "answered", "discarded"}
    /\ Len(results) <= 2 /\ clicks \in 0..MaxClicks
    /\ \A tab \in FormTabs :
          /\ forms[tab].index \in Questions /\ forms[tab].seen \in 0..Len(results)
          /\ advances[tab] \subseteq Questions

\* What a form would send is what it shows as chosen: the ticked options and the box.
\* Left out: blanks in the box, which answer nothing (202), and an option of a multiSelect
\* question that has the separator in its label, which is taken apart
\* (AskUserQuestionMessage.tsx:209).
FormsMeanWhatTheyShow ==
    \A tab \in FormTabs, q \in Questions :
        LET form == forms[tab]
            box == IF Trimmed(form, q) = NoText THEN {} ELSE {Trimmed(form, q)}
            answer == EffectiveAnswers(form, q)
            shown == SelectedOptions(form, q) \cup box
        IN  IF q \notin MultiSelect THEN {answer[i] : i \in DOMAIN answer} = shown
            ELSE (\A label \in Options[q] : Len(label) = 1)
                 => {answer[i] : i \in DOMAIN answer} = UNION {{<<text[i]>> : i \in DOMAIN text} : text \in shown}

\* A card that is done tells what the agent was told, in every tab and however often
\* it is rendered anew.  Left out: the card in which an answer was submitted that has
\* not or did not get through, since another tab was first, the turn was cancelled or the
\* command failed: it shows its own while it is rendered, and cannot be submitted again.
CardsTellWhatWasTold ==
    \A tab \in FormTabs :
        LET own == request.asks = "questions" /\ forms[tab].sent \notin {NoReply, told}
        IN  forms[tab].row /\ (forms[tab].submitted \/ IsComplete(tab)) /\ ~own
            => \/ CardTells(tab) = told
               \/ CardTells(tab).verdict = "discarded" /\ told = NoReply

AnswersArrive == FormsMeanWhatTheyShow /\ CardsTellWhatWasTold
=============================================================================
