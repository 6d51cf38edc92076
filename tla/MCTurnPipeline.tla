--------------------------- MODULE MCTurnPipeline ---------------------------
(* TLC instances of TurnPipeline: the values come from the configurations. *)
EXTENDS TurnPipeline, TLC

\* Messages, and tool requests, are interchangeable: safety runs only.
Symmetry == Permutations(Tools) \cup Permutations(Messages \ DirectSends)

=============================================================================
