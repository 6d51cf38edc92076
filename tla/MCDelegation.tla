--------------------------- MODULE MCDelegation ---------------------------
(* The TLC instance of Delegation: each behaviour has its own trouble.     *)
EXTENDS Delegation

InstanceBudgets ==
    {[turns |-> 3, asks |-> 0, deletes |-> 0, restarts |-> 0],
     [turns |-> 2, asks |-> 1, deletes |-> 0, restarts |-> 0],
     [turns |-> 2, asks |-> 0, deletes |-> 1, restarts |-> 0],
     [turns |-> 2, asks |-> 0, deletes |-> 0, restarts |-> 1],
     [turns |-> 1, asks |-> 0, deletes |-> 0, restarts |-> 2]}

=============================================================================
