--------------------------- MODULE MCRunnerAgent ---------------------------
(* TLC instances of RunnerAgent: the values come from the configurations.  *)
EXTENDS RunnerAgent, TLC

\* Turn and request ids are interchangeable: safety runs only.
Symmetry == Permutations(Turns) \cup Permutations(Tools)

CONSTANTS ClaudeTurns, ClaudeTools     \* the ids a Claude chat is given

\* A behaviour is about one chat, with either provider.
OneChatInit == RunnerInit /\ \E c \in Chats : \A t \in Turns : turns[t].chat = c

\* Interchangeable ids are numbers and are used in their order.  The two actions
\* that fairness is about use none, so this takes nothing from it.
IdsInOrder ==
    /\ \A t, u \in Turns :
          t < u /\ turns[u].phase # "unused" => turns[t].phase # "unused"
    /\ \A k, l \in Tools :
          k < l /\ tools[l].state # "unused" => tools[k].state # "unused"
    /\ \A t \in Turns : turns[t].phase # "unused" => IsCodex(t) \/ t \in ClaudeTurns
    /\ \A k \in Tools :
          tools[k].owner # NoTurn => IsCodex(tools[k].owner) \/ k \in ClaudeTools

OneChatSpec ==
    OneChatInit /\ [][RunnerNext /\ IdsInOrder']_runnerVars /\ RunnerFairness

=============================================================================
