\* One parent, two agents, and turns that wait, chats deleted, or a hub that restarts.
SPECIFICATION DelegationSpec
CONSTANTS
    Parents = {p}
    Agents = {a1, a2}
    Reconcilers = {r1, r2}
    NoAgent = NoAgent
    NoEvent = NoEvent
    Budgets <- InstanceBudgets
INVARIANTS OneResult SettledIsTold ParentsResume
PROPERTIES EndIsSettled
CHECK_DEADLOCK FALSE
