---------------------------- MODULE MCEventStore ----------------------------
(* TLC instances of EventStore: the values come from the configurations. *)
EXTENDS EventStore, TLC

\* Chats are interchangeable, and so are messages: safety runs only.
Symmetry == Permutations(Chats) \cup Permutations(Messages)

=============================================================================
