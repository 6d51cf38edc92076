------------------------------ MODULE MCClient ------------------------------
(***************************************************************************)
(* The TLC instance of the browser tab: its connection to the hub, its     *)
(* view of a chat, its submits, how it folds a transcript into units, its  *)
(* composer's models, its routes, where it is scrolled, the Puggy          *)
(* templates it renders, and the questions it puts to the user.  As in     *)
(* MCParts one part is in focus and the others rest as they began.         *)
(***************************************************************************)
EXTENDS ClientSession, TranscriptView, SubmitPipeline, TranscriptFold, PuggyTemplate, SessionModels,
        Navigation, ScrollFollow, QuestionForm, TLC

VARIABLE focus      \* the part that runs

clientPartVars == <<focus, clientVars, viewVars, submitVars, foldVars, puggyVars, sessionVars, navigationVars,
                    scrollVars, questionVars>>

\* A part that rests has but one initial state.
ClientPartsInit ==
    /\ focus \in {"client", "view", "submit", "fold", "puggy", "models", "navigation", "scroll", "question"}
    /\ ClientInit /\ ViewInit /\ SubmitInit
    /\ FoldInit
    /\ PuggyInit /\ (focus # "puggy" => Len(module) = 1)
    /\ SessionInit /\ (focus # "models" => prefs.default = "codex" /\ prefs.composer.provider = "codex")
    /\ NavigationInit /\ (focus # "navigation" => ~chatHub.large)
    /\ ScrollInit /\ (focus # "scroll" => pane.chat = CHOOSE c \in ScrollChats : TRUE)
    /\ QuestionInit /\ (focus # "question" => request.asks = "plan" /\ request.provider = "claude")

\* While the part p takes its steps, one by one, the other parts rest.
OthersRest(p) ==
    /\ UNCHANGED focus
    /\ (p # "client" => UNCHANGED clientVars)
    /\ (p # "view" => UNCHANGED viewVars)
    /\ (p # "submit" => UNCHANGED submitVars)
    /\ (p # "fold" => UNCHANGED foldVars)
    /\ (p # "puggy" => UNCHANGED puggyVars)
    /\ (p # "models" => UNCHANGED sessionVars)
    /\ (p # "navigation" => UNCHANGED navigationVars)
    /\ (p # "scroll" => UNCHANGED scrollVars)
    /\ (p # "question" => UNCHANGED questionVars)

ClientPartsNext ==
    \/ focus = "client" /\ ClientNext /\ OthersRest("client")
    \/ focus = "view" /\ ViewStep /\ OthersRest("view")
    \/ focus = "submit" /\ SubmitStep /\ OthersRest("submit")
    \/ focus = "fold" /\ FoldStep /\ OthersRest("fold")
    \/ focus = "puggy" /\ PuggyStep /\ OthersRest("puggy")
    \/ focus = "models" /\ SessionStep /\ OthersRest("models")
    \/ focus = "navigation" /\ NavigationStep /\ OthersRest("navigation")
    \/ focus = "scroll" /\ ScrollStep /\ OthersRest("scroll")
    \/ focus = "question" /\ QuestionStep /\ OthersRest("question")

ClientPartsSpec == ClientPartsInit /\ [][ClientPartsNext]_clientPartVars

\* A line at the left or one level down: each container with a child, a few without.
TemplateLines ==
    {SourceLine(i, "text", 1) : i \in {0, 2, 4}}
    \cup {SourceLine(i, kind, 1) : i \in {0, 2}, kind \in {"if", "else", "call", "include"}}
    \cup {SourceLine(i, "each", 2) : i \in {0, 2}}
    \cup {SourceLine(0, kind, 1) : kind \in {"raw", "mixin", "extends", "block"}}
    \cup {SourceLine(0, "if", 0), SourceLine(2, "expr", -1)}

\* A module that includes itself, and a layout with a block and a mixin.
TemplateModules ==
    {<<SourceLine(0, "include", 1)>>,
     <<SourceLine(0, "block", 1), SourceLine(2, "text", 1), SourceLine(0, "mixin", 1), SourceLine(2, "call", 1)>>}

\* A label of one piece, and one with the separator in it.
OptionLabels == <<{<<"a">>, <<"a", "b">>}, {<<"a">>, <<"b">>}>>
BlankText    == <<" ">>
TypedTexts   == {<<>>, <<"x">>, BlankText}

\* Chats that nothing tells apart; no property here is a liveness property.
Symmetry == Permutations(Stored) \cup Permutations(ChatKeys \ Stored)

\* Every variable of the part that runs has the shape the code gives it.
ClientPartsTypeOK ==
    CASE focus = "client" -> ClientTypeOK
      [] focus = "view"   -> ViewTypeOK
      [] focus = "submit" -> SubmitTypeOK
      [] focus = "fold"   -> FoldTypeOK
      [] focus = "puggy"  -> PuggyTypeOK
      [] focus = "models" -> SessionModelTypeOK
      [] focus = "navigation" -> NavigationTypeOK
      [] focus = "scroll" -> ScrollTypeOK
      [] focus = "question" -> QuestionTypeOK

\* What a user says arrives: an acknowledged message is kept, and the cards of a question
\* or plan send what they show and tell what the agent was told.
SaidIsHeard == AckedIsKept /\ AnswersArrive
=============================================================================
