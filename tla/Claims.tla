------------------------------- MODULE Claims --------------------------------
(***************************************************************************)
(* The file claims of one workspace (src/server/event-store.ts): sessions  *)
(* declare through coordination-mcp.ts, or a tab through its panel, which  *)
(* files they work on, and give them back.  The hub handles the commands   *)
(* of one type one after the other (nats-responders.ts); both types write  *)
(* through the one chain of the store.  The log is the coordination log,   *)
(* whose replay applies the same events again: after a crash the state is  *)
(* what had been written.  Todos, worktrees and rules take the same path,  *)
(* one event for each operation and no check, and are left out.            *)
(***************************************************************************)
EXTENDS Naturals, Sequences, FiniteSets

CONSTANTS
    Paths,          \* the files a claim may name
    MaxClaims,      \* bound on the claims created
    MaxReleases,    \* bound on the release commands
    MaxCrashes      \* bound on the crashes of the hub

ASSUME ClaimConstants == {MaxClaims, MaxReleases, MaxCrashes} \subseteq Nat

VARIABLES
    claims,         \* coord.claims, in the order of its insertions
    claimChain,     \* the events of claims in writeChain that are not applied yet
    creating,       \* the one claim.create command being handled: what it waits for
    releasing,      \* whether a claim.release command is being handled
    crashed,        \* claims whose creation a crash cut off (history)
    claimBudget     \* releases and crashes that are left

claimVars == <<claims, claimChain, creating, releasing, crashed, claimBudget>>

ClaimIds == 1..MaxClaims
NoClaim == [status |-> "none", files |-> {}, conflictsWith |-> 0]
ClaimEvent(type, id, files, other) == [type |-> type, id |-> id, files |-> files, other |-> other]

ClaimsInit ==
    /\ claims = [id \in ClaimIds |-> NoClaim]
    /\ claimChain = <<>>
    /\ creating = "idle"
    /\ releasing = FALSE
    /\ crashed = {}
    /\ claimBudget = [releases |-> MaxReleases, crashes |-> MaxCrashes]

Known(id) == claims[id].status # "none"

\* createClaim up to its first await.  Ids are those of the insertions, which come
\* in the order of the commands; a claim names at least one file.
CreateClaim(files) ==
    /\ creating = "idle"
    /\ \E id \in ClaimIds :
          /\ ~Known(id) /\ \A before \in ClaimIds : before < id => Known(before)
          /\ claimChain' = Append(claimChain, ClaimEvent("claim_created", id, files, 0))
    /\ creating' = "created"
    /\ UNCHANGED <<claims, releasing, crashed, claimBudget>>

\* releaseClaim: its id is learnt from a reply or a snapshot; the status is not looked at.
ReleaseClaim(id) ==
    /\ ~releasing /\ Known(id) /\ claimBudget.releases > 0
    /\ claimChain' = Append(claimChain, ClaimEvent("claim_released", id, {}, 0))
    /\ releasing' = TRUE
    /\ claimBudget' = [claimBudget EXCEPT !.releases = @ - 1]
    /\ UNCHANGED <<claims, creating, crashed>>

\* Fault seeded in Marked: the claim that was there first is marked as well.
MarkedBoth(id, other) ==
    [claims EXCEPT ![id].status = "conflict", ![other].status = "conflict"]

Marked(id, other) == [claims EXCEPT ![id].status = "conflict", ![id].conflictsWith = other]

\* applyEvent of one event of the log to the claims.
WithEvent(e) ==
    CASE e.type = "claim_created" ->
            [claims EXCEPT ![e.id] = [status |-> "active", files |-> e.files, conflictsWith |-> 0]]
      [] e.type = "claim_released" -> [claims EXCEPT ![e.id].status = "released"]
      [] e.type = "claim_conflict_detected" -> Marked(e.id, e.other)

\* Fault seeded in Overlapping: only a claim of the same files counts.
OverlappingSame(id, files) ==
    {other \in ClaimIds \ {id} : claims[other].status = "active" /\ claims[other].files = files}

Overlapping(id, files) ==
    {other \in ClaimIds \ {id} : claims[other].status = "active" /\ claims[other].files \cap files # {}}

\* One link of the chain is written and applied.  The command that waits for it goes
\* on before any other link: createClaim compares its claim with the active ones and
\* appends a conflict with the first it overlaps.
ClaimWritten ==
    /\ claimChain # <<>>
    /\ LET e == Head(claimChain) found == Overlapping(e.id, e.files) IN
       /\ claims' = WithEvent(e)
       /\ IF e.type = "claim_created" /\ found # {}
          THEN \E first \in found :
                  /\ \A other \in found : first <= other
                  /\ claimChain' = Append(Tail(claimChain),
                                          ClaimEvent("claim_conflict_detected", e.id, {}, first))
          ELSE claimChain' = Tail(claimChain)
       /\ creating' = IF e.type = "claim_released" THEN creating
                      ELSE IF e.type = "claim_created" /\ found # {} THEN "flagging" ELSE "idle"
       /\ releasing' = (releasing /\ e.type # "claim_released")
    /\ UNCHANGED <<crashed, claimBudget>>

MarksIn(events) == {events[k].id : k \in {j \in DOMAIN events : events[j].type = "claim_conflict_detected"}}

\* The hub dies and starts again: the line it was writing is there or not, what was
\* behind it is lost, and the commands with it.
ClaimsCrash ==
    /\ claimBudget.crashes > 0
    /\ \/ /\ claims' = claims
          /\ crashed' = crashed \union MarksIn(claimChain)
       \/ /\ claimChain # <<>>
          /\ claims' = WithEvent(Head(claimChain))
          /\ crashed' = crashed \union MarksIn(Tail(claimChain)) \union
                {id \in {Head(claimChain).id} : Head(claimChain).type = "claim_created"}
    /\ claimChain' = <<>> /\ creating' = "idle" /\ releasing' = FALSE
    /\ claimBudget' = [claimBudget EXCEPT !.crashes = @ - 1]

ClaimStep ==
    \/ \E files \in SUBSET Paths \ {{}} : CreateClaim(files)
    \/ \E id \in ClaimIds : ReleaseClaim(id)
    \/ ClaimWritten \/ ClaimsCrash

ClaimSpec == ClaimsInit /\ [][ClaimStep]_claimVars

-----------------------------------------------------------------------------
(* Properties *)

\* Claims, the chain's events and the two commands have the shape the code gives them.
ClaimTypeOK ==
    /\ claims \in [ClaimIds -> [status: {"none", "active", "released", "conflict"},
                                files: SUBSET Paths, conflictsWith: 0..MaxClaims]]
    /\ claimChain \in Seq([type: {"claim_created", "claim_released", "claim_conflict_detected"},
                           id: ClaimIds, files: SUBSET Paths, other: 0..MaxClaims])
    /\ creating \in {"idle", "created", "flagging"}
    /\ releasing \in BOOLEAN
    /\ crashed \subseteq ClaimIds
    /\ claimBudget \in [releases: 0..MaxReleases, crashes: 0..MaxCrashes]

\* Two sessions do not both hold an active claim on a file: of two that overlap, the
\* later is marked as a conflict, or its mark is on its way through the chain.  A
\* crash of the hub between the two events of a creation is the one way to lose it.
ActiveClaimsAreApart ==
    \A one, two \in ClaimIds :
        /\ one < two
        /\ claims[one].status = "active" /\ claims[two].status = "active"
        /\ claims[one].files \cap claims[two].files # {}
        => two \in MarksIn(claimChain) \union crashed

\* A claim that was given back stays so: no mark that was decided before its release
\* is applied after it.
ReleasedStaysReleased ==
    [][\A id \in ClaimIds : claims[id].status = "released" => claims'[id] = claims[id]]_claimVars
=============================================================================
