------------------------------ MODULE MCStores ------------------------------
(***************************************************************************)
(* The TLC instance of what the hub stores: the event store, its other     *)
(* records, claims, transcripts and sandboxes, the sessions that are       *)
(* seeded from stored transcripts, and the inspector that shows those of a *)
(* chat's agents.  As in MCParts one of them is in focus and the others    *)
(* rest as they began.                                                     *)
(***************************************************************************)
EXTENDS EventStore, WorkspaceRecords, Claims, TranscriptCache, Sandboxes, SessionSeed, AgentInspector, TLC

VARIABLE focus      \* the part that runs

storesVars == <<focus, storeVars, recordVars, claimVars, cacheVars, sandboxVars, seedVars, inspectorVars>>

StoresInit ==
    /\ focus \in {"store", "records", "claims", "cache", "sandbox", "seed", "inspector"}
    /\ StoreInit /\ RecordsInit /\ ClaimsInit /\ CacheInit /\ SandboxInit /\ SeedInit /\ InspectorInit
    /\ (focus # "seed" => \A c \in Sources : written[c] = <<>>)

\* While the part p takes its steps, one by one, the other parts rest.
OthersRest(p) ==
    /\ UNCHANGED focus
    /\ (p # "store" => UNCHANGED storeVars)
    /\ (p # "records" => UNCHANGED recordVars)
    /\ (p # "claims" => UNCHANGED claimVars)
    /\ (p # "cache" => UNCHANGED cacheVars)
    /\ (p # "sandbox" => UNCHANGED sandboxVars)
    /\ (p # "seed" => UNCHANGED seedVars)
    /\ (p # "inspector" => UNCHANGED inspectorVars)

StoresNext ==
    \/ focus = "store" /\ StoreNext /\ OthersRest("store")
    \/ focus = "records" /\ RecordStep /\ OthersRest("records")
    \/ focus = "claims" /\ ClaimStep /\ OthersRest("claims")
    \/ focus = "cache" /\ CacheStep /\ OthersRest("cache")
    \/ focus = "sandbox" /\ SandboxStep /\ OthersRest("sandbox")
    \/ focus = "seed" /\ SeedStep /\ OthersRest("seed")
    \/ focus = "inspector" /\ InspectorStep /\ OthersRest("inspector")

StoresSpec == StoresInit /\ [][StoresNext]_storesVars

\* The chats of the store are interchangeable, and so are its messages, the sources of a
\* session and the agents inspected: only their part mentions them, and no property of
\* this instance is a liveness property.
Symmetry == Permutations(Chats) \cup Permutations(Messages) \cup Permutations(Sources) \cup Permutations(Spawned)

\* Transcripts to begin with: an empty one, one that was cleared and has a line that is
\* cut, and one that is longer than a fork tells.
SeedLogs == {<<>>, <<Text(2), Cleared, Other, Text(9), Text(4)>>, <<Text(5), Text(2), Text(5)>>}

\* Every variable of the part that runs has the shape the code gives it.
StoresTypeOK ==
    CASE focus = "store"  -> StoreTypeOK
      [] focus = "records" -> RecordTypeOK
      [] focus = "claims" -> ClaimTypeOK
      [] focus = "cache"  -> CacheTypeOK
      [] focus = "sandbox" -> SandboxTypeOK
      [] focus = "seed"  -> SeedTypeOK
      [] focus = "inspector" -> InspectorTypeOK

\* What stored transcripts are read for: the cache tells all of them, a session made from
\* others is told of each, and the inspector shows that of the agent selected.
TranscriptsAreTold == CacheTellsAll /\ SeedsAreTrue /\ InspectorTells
=============================================================================
