---------------------------- MODULE StoreProofs -----------------------------
(***************************************************************************)
(* Proofs about the event store: the file claims of a workspace, for any   *)
(* files, claims and crashes; the chats and their files, up to the         *)
(* refinement of DurableStore, for logs and write chains of any length;    *)
(* what is recorded of a sandbox, for any commands and deaths; the cached  *)
(* transcripts, for any number of reads that overlap; and the workspaces,  *)
(* repositories and other records, which a start rebuilds from logs it     *)
(* replays in another order than they were written in.                     *)
(***************************************************************************)
EXTENDS Claims, EventStore, Sandboxes, TranscriptCache, WorkspaceRecords, FiniteSetTheorems,
        SequenceTheorems, TLAPS

-----------------------------------------------------------------------------
(* Claims *)

\* An event of the chain.
EventRecord == [type: {"claim_created", "claim_released", "claim_conflict_detected"},
                id: ClaimIds, files: SUBSET Paths, other: 0..MaxClaims]

\* Claims become known in the order of their ids.
KnownInOrder == \A one, two \in ClaimIds : one < two /\ Known(two) => Known(one)

\* Only a known claim is released.
ReleasesAreKnown ==
    \A k \in DOMAIN claimChain : claimChain[k].type = "claim_released" => Known(claimChain[k].id)

\* The creation in the chain is that of the next claim.
CreationIsNext ==
    \A k \in DOMAIN claimChain :
        claimChain[k].type = "claim_created" =>
            /\ creating = "created" /\ ~Known(claimChain[k].id)
            /\ \A before \in ClaimIds : before < claimChain[k].id => Known(before)

\* A mark is on its way to an active claim, and no release of that claim before it.
MarkIsFirst ==
    \A k \in DOMAIN claimChain :
        claimChain[k].type = "claim_conflict_detected" =>
            /\ creating = "flagging" /\ claims[claimChain[k].id].status = "active"
            /\ \A j \in DOMAIN claimChain :
                  j < k /\ claimChain[j].type = "claim_released" => claimChain[j].id # claimChain[k].id

\* The chain has one event of the command that creates at most.
OneCreation ==
    \A j, k \in DOMAIN claimChain :
        claimChain[j].type # "claim_released" /\ claimChain[k].type # "claim_released" => j = k

\* The inductive invariant of the claims.
ClaimInv ==
    /\ ClaimTypeOK /\ KnownInOrder /\ ReleasesAreKnown /\ CreationIsNext
    /\ MarkIsFirst /\ OneCreation /\ ActiveClaimsAreApart

\* What Append and Tail make of a sequence of events.
LEMMA AppendedEvent ==
    ASSUME NEW s \in Seq(EventRecord), NEW e \in EventRecord
    PROVE  /\ Append(s, e) \in Seq(EventRecord)
           /\ DOMAIN Append(s, e) = DOMAIN s \union {Len(s) + 1}
           /\ \A k \in DOMAIN s : Append(s, e)[k] = s[k] /\ k < Len(s) + 1
           /\ Append(s, e)[Len(s) + 1] = e
  OBVIOUS

\* The chain without its first link.
LEMMA RemainingEvents ==
    ASSUME NEW s \in Seq(EventRecord), s # <<>>
    PROVE  /\ Tail(s) \in Seq(EventRecord)
           /\ Head(s) = s[1] /\ 1 \in DOMAIN s /\ s[1] \in EventRecord
           /\ \A k \in DOMAIN Tail(s) : k + 1 \in DOMAIN s /\ Tail(s)[k] = s[k + 1] /\ k + 1 > 1
           /\ \A k \in DOMAIN s : k = 1 \/ (k - 1 \in DOMAIN Tail(s) /\ s[k] = Tail(s)[k - 1])
           /\ DOMAIN Tail(s) \subseteq Nat /\ DOMAIN s \subseteq Nat
  OBVIOUS

\* Initially there is no claim.
LEMMA ClaimInvInit == ClaimsInit => ClaimInv
<1> SUFFICES ASSUME ClaimsInit PROVE ClaimInv
  OBVIOUS
<1> USE ClaimConstants DEF ClaimsInit
<1>1. NoClaim \in [status: {"none", "active", "released", "conflict"},
                   files: SUBSET Paths, conflictsWith: 0..MaxClaims]
  BY DEF NoClaim
<1>2. claims \in [ClaimIds -> [status: {"none", "active", "released", "conflict"},
                              files: SUBSET Paths, conflictsWith: 0..MaxClaims]]
  BY <1>1
<1>3. claimChain \in Seq([type: {"claim_created", "claim_released", "claim_conflict_detected"},
                          id: ClaimIds, files: SUBSET Paths, other: 0..MaxClaims])
  OBVIOUS
<1>4. claimBudget \in [releases: 0..MaxReleases, crashes: 0..MaxCrashes]
  OBVIOUS
<1>5. ClaimTypeOK
  BY <1>2, <1>3, <1>4, Zenon DEF ClaimTypeOK
<1>6. KnownInOrder /\ ActiveClaimsAreApart
  BY DEF KnownInOrder, ActiveClaimsAreApart, Known, NoClaim
<1>7. DOMAIN claimChain = {}
  OBVIOUS
<1> QED
  BY <1>5, <1>6, <1>7, Zenon DEF ClaimInv, ReleasesAreKnown, CreationIsNext, MarkIsFirst, OneCreation

\* createClaim appends the creation of the next claim, when no other creation is there.
LEMMA CreateStep ==
    ASSUME ClaimInv, NEW files \in SUBSET Paths, CreateClaim(files)
    PROVE  ClaimInv'
<1> USE ClaimConstants DEF ClaimInv, ClaimIds
<1>1. PICK id \in ClaimIds :
          /\ ~Known(id) /\ \A before \in ClaimIds : before < id => Known(before)
          /\ claimChain' = Append(claimChain, ClaimEvent("claim_created", id, files, 0))
  BY DEF CreateClaim
<1> DEFINE e == ClaimEvent("claim_created", id, files, 0)
           last == Len(claimChain) + 1
<1>2. e \in EventRecord /\ e.type = "claim_created" /\ e.id = id
  BY DEF ClaimEvent, EventRecord
<1>3. claimChain \in Seq(EventRecord)
  BY DEF ClaimTypeOK, EventRecord
<1>4. /\ claimChain' \in Seq(EventRecord)
      /\ DOMAIN claimChain' = DOMAIN claimChain \union {last}
      /\ \A k \in DOMAIN claimChain : claimChain'[k] = claimChain[k] /\ k < last
      /\ claimChain'[last] = e
  BY <1>1, <1>2, <1>3, AppendedEvent
<1> HIDE DEF e, last
<1>5. /\ creating = "idle" /\ creating' = "created" /\ claims' = claims /\ releasing' = releasing
      /\ crashed' = crashed /\ claimBudget' = claimBudget
  BY DEF CreateClaim
<1>6. \A k \in DOMAIN claimChain : claimChain[k].type = "claim_released"
  <2>1. \A k \in DOMAIN claimChain : claimChain[k] \in EventRecord
    BY <1>3
  <2> QED
    BY <1>5, <2>1 DEF CreationIsNext, MarkIsFirst, EventRecord
<1>7. ClaimTypeOK'
  BY <1>4, <1>5 DEF ClaimTypeOK, EventRecord
<1>8. KnownInOrder'
  BY <1>5 DEF KnownInOrder, Known
<1>9. ReleasesAreKnown'
  BY <1>2, <1>4, <1>5 DEF ReleasesAreKnown, Known
<1>10. CreationIsNext'
  BY <1>1, <1>2, <1>4, <1>5, <1>6 DEF CreationIsNext, Known
<1>11. MarkIsFirst'
  BY <1>2, <1>4, <1>6 DEF MarkIsFirst
<1>12. OneCreation'
  BY <1>2, <1>4, <1>6 DEF OneCreation
<1>13. MarksIn(claimChain) \subseteq MarksIn(claimChain')
  BY <1>4 DEF MarksIn
<1>14. ActiveClaimsAreApart'
  BY <1>5, <1>13 DEF ActiveClaimsAreApart
<1> QED
  BY <1>7, <1>8, <1>9, <1>10, <1>11, <1>12, <1>14

\* releaseClaim appends behind any mark of its claim.
LEMMA ReleaseStep ==
    ASSUME ClaimInv, NEW id \in ClaimIds, ReleaseClaim(id)
    PROVE  ClaimInv'
<1> USE ClaimConstants DEF ClaimInv, ClaimIds
<1> DEFINE e == ClaimEvent("claim_released", id, {}, 0)
           last == Len(claimChain) + 1
<1>2. e \in EventRecord /\ e.type = "claim_released" /\ e.id = id
  BY DEF ClaimEvent, EventRecord
<1>3. claimChain \in Seq(EventRecord)
  BY DEF ClaimTypeOK, EventRecord
<1>4. /\ claimChain' \in Seq(EventRecord)
      /\ DOMAIN claimChain' = DOMAIN claimChain \union {last}
      /\ \A k \in DOMAIN claimChain : claimChain'[k] = claimChain[k] /\ k < last
      /\ claimChain'[last] = e /\ DOMAIN claimChain \subseteq Nat /\ last \in Nat
  BY <1>2, <1>3, AppendedEvent DEF ReleaseClaim
<1> HIDE DEF e, last
<1>5. /\ Known(id) /\ creating' = creating /\ claims' = claims /\ crashed' = crashed
  BY DEF ReleaseClaim
<1>6. claimBudget' \in [releases: 0..MaxReleases, crashes: 0..MaxCrashes] /\ releasing' \in BOOLEAN
  <2>1. /\ claimBudget \in [releases: 0..MaxReleases, crashes: 0..MaxCrashes]
        /\ claimBudget.releases > 0 /\ MaxReleases \in Nat
    BY DEF ReleaseClaim, ClaimTypeOK
  <2>2. claimBudget.releases - 1 \in 0..MaxReleases
    BY <2>1
  <2> QED
    BY <2>1, <2>2 DEF ReleaseClaim
<1>7. ClaimTypeOK'
  BY <1>4, <1>5, <1>6 DEF ClaimTypeOK, EventRecord
<1>8. KnownInOrder'
  BY <1>5 DEF KnownInOrder, Known
<1>9. ReleasesAreKnown'
  BY <1>2, <1>4, <1>5 DEF ReleasesAreKnown, Known
<1>10. CreationIsNext'
  BY <1>2, <1>4, <1>5 DEF CreationIsNext, Known
<1>11. MarkIsFirst'
  <2> SUFFICES ASSUME NEW k \in DOMAIN claimChain', claimChain'[k].type = "claim_conflict_detected"
               PROVE  /\ creating' = "flagging" /\ claims'[claimChain'[k].id].status = "active"
                      /\ \A j \in DOMAIN claimChain' :
                            j < k /\ claimChain'[j].type = "claim_released"
                              => claimChain'[j].id # claimChain'[k].id
    BY DEF MarkIsFirst
  <2>1. k \in DOMAIN claimChain /\ claimChain[k].type = "claim_conflict_detected"
    BY <1>2, <1>4
  <2>2. /\ creating = "flagging" /\ claims[claimChain[k].id].status = "active"
        /\ \A j \in DOMAIN claimChain :
              j < k /\ claimChain[j].type = "claim_released" => claimChain[j].id # claimChain[k].id
    BY <2>1 DEF MarkIsFirst
  <2> QED
    BY <1>4, <1>5, <2>1, <2>2
<1>12. OneCreation'
  BY <1>2, <1>4 DEF OneCreation
<1>13. MarksIn(claimChain) \subseteq MarksIn(claimChain')
  BY <1>4 DEF MarksIn
<1>14. ActiveClaimsAreApart'
  BY <1>5, <1>13 DEF ActiveClaimsAreApart
<1> QED
  BY <1>7, <1>8, <1>9, <1>10, <1>11, <1>12, <1>14

\* What the event at the head of the chain does to the claims: only its own claim
\* changes, a creation makes it active, a release and a mark make it inactive.
LEMMA EventApplied ==
    ASSUME ClaimInv, claimChain # <<>>, claims' = WithEvent(Head(claimChain)),
           NEW e, e = Head(claimChain)
    PROVE  /\ e \in EventRecord /\ e = claimChain[1] /\ 1 \in DOMAIN claimChain
           /\ claims' \in [ClaimIds -> [status: {"none", "active", "released", "conflict"},
                                       files: SUBSET Paths, conflictsWith: 0..MaxClaims]]
           /\ \A id \in ClaimIds \ {e.id} : claims'[id] = claims[id]
           /\ e.type = "claim_created" =>
                 /\ claims'[e.id].status = "active" /\ claims'[e.id].files = e.files
                 /\ ~Known(e.id) /\ \A before \in ClaimIds : before < e.id => Known(before)
           /\ e.type = "claim_released" => claims'[e.id].status = "released" /\ Known(e.id)
           /\ e.type = "claim_conflict_detected" =>
                 claims'[e.id].status = "conflict" /\ claims[e.id].status = "active"
<1> USE ClaimConstants DEF ClaimInv
<1>1. claimChain \in Seq(EventRecord)
  BY DEF ClaimTypeOK, EventRecord
<1>2. e \in EventRecord /\ e = claimChain[1] /\ 1 \in DOMAIN claimChain
  BY <1>1, RemainingEvents
<1>3. /\ e.type \in {"claim_created", "claim_released", "claim_conflict_detected"}
      /\ e.id \in ClaimIds /\ e.files \in SUBSET Paths /\ e.other \in 0..MaxClaims
  BY <1>2 DEF EventRecord
<1>4. claims \in [ClaimIds -> [status: {"none", "active", "released", "conflict"},
                              files: SUBSET Paths, conflictsWith: 0..MaxClaims]]
  BY DEF ClaimTypeOK
<1>5. CASE e.type = "claim_created"
  <2>1. claims' = [claims EXCEPT ![e.id] =
                     [status |-> "active", files |-> e.files, conflictsWith |-> 0]]
    BY <1>5 DEF WithEvent
  <2>2. [status |-> "active", files |-> e.files, conflictsWith |-> 0] \in
          [status: {"none", "active", "released", "conflict"},
           files: SUBSET Paths, conflictsWith: 0..MaxClaims]
    BY <1>3
  <2>3. ~Known(e.id) /\ \A before \in ClaimIds : before < e.id => Known(before)
    BY <1>2, <1>5 DEF CreationIsNext
  <2> QED
    BY <1>2, <1>3, <1>4, <1>5, <2>1, <2>2, <2>3
<1>6. CASE e.type = "claim_released"
  <2>1. claims' = [claims EXCEPT ![e.id].status = "released"]
    BY <1>6 DEF WithEvent
  <2>2. Known(e.id)
    BY <1>2, <1>6 DEF ReleasesAreKnown
  <2> QED
    BY ZenonT(40), <1>2, <1>3, <1>4, <1>6, <2>1, <2>2
<1>7. CASE e.type = "claim_conflict_detected"
  <2>1. claims' = [claims EXCEPT ![e.id].status = "conflict", ![e.id].conflictsWith = e.other]
    BY <1>7 DEF WithEvent, Marked
  <2>2. claims[e.id].status = "active"
    BY <1>2, <1>7 DEF MarkIsFirst
  <2> DEFINE marked == [claims[e.id] EXCEPT !.status = "conflict", !.conflictsWith = e.other]
  <2>3. marked.status = "conflict" /\ marked \in [status: {"none", "active", "released", "conflict"},
                                                 files: SUBSET Paths, conflictsWith: 0..MaxClaims]
    BY <1>3, <1>4
  <2>4. claims' = [claims EXCEPT ![e.id] = marked]
    BY <1>3, <1>4, <2>1
  <2> HIDE DEF marked
  <2> QED
    BY <1>2, <1>3, <1>4, <1>7, <2>2, <2>3, <2>4
<1> QED
  BY <1>3, <1>5, <1>6, <1>7

\* After it, two active claims that overlap are marked, cut off, or the later one is
\* the claim just made, which createClaim finds to overlap.
LEMMA AppliedApart ==
    ASSUME ClaimInv, claimChain # <<>>, claims' = WithEvent(Head(claimChain)),
           NEW one \in ClaimIds, NEW two \in ClaimIds, one < two,
           claims'[one].status = "active", claims'[two].status = "active",
           claims'[one].files \cap claims'[two].files # {}
    PROVE  \/ two \in MarksIn(Tail(claimChain)) \union crashed
           \/ /\ Head(claimChain).type = "claim_created" /\ two = Head(claimChain).id
              /\ one \in Overlapping(two, Head(claimChain).files)
<1> DEFINE e == Head(claimChain)
<1>1. /\ e \in EventRecord /\ e = claimChain[1]
      /\ \A id \in ClaimIds \ {e.id} : claims'[id] = claims[id]
      /\ e.type = "claim_created" =>
            /\ claims'[e.id].files = e.files /\ ~Known(e.id)
      /\ e.type = "claim_released" => claims'[e.id].status = "released"
      /\ e.type = "claim_conflict_detected" => claims'[e.id].status = "conflict"
  BY EventApplied
<1>2. e.type \in {"claim_created", "claim_released", "claim_conflict_detected"} /\ e.id \in ClaimIds
  BY <1>1 DEF EventRecord
<1>3. claimChain \in Seq(EventRecord)
  BY DEF ClaimInv, ClaimTypeOK, EventRecord
<1>4. \A k \in DOMAIN claimChain :
         k = 1 \/ (k - 1 \in DOMAIN Tail(claimChain) /\ claimChain[k] = Tail(claimChain)[k - 1])
  BY <1>3, RemainingEvents
<1> HIDE DEF e
<1>5. \A id \in MarksIn(claimChain) : id # e.id => id \in MarksIn(Tail(claimChain))
  BY <1>1, <1>4 DEF MarksIn
<1>6. CASE e.type # "claim_created"
  BY <1>1, <1>2, <1>6, <1>5 DEF ClaimInv, ActiveClaimsAreApart
<1>7. CASE e.type = "claim_created"
  <2>1. CASE one # e.id /\ two # e.id
    <3>1. two \in MarksIn(claimChain) \union crashed
      BY <1>1, <2>1 DEF ClaimInv, ActiveClaimsAreApart
    <3> QED
      BY <1>5, <2>1, <3>1
  <2>2. CASE one = e.id
    <3>1. Known(two)
      BY <1>1, <2>2 DEF Known, ClaimIds
    <3> QED
      BY <1>1, <1>7, <2>2, <3>1 DEF ClaimInv, KnownInOrder
  <2>3. CASE two = e.id
    <3>1. claims[one] = claims'[one]
      BY <1>1, <2>3 DEF ClaimIds
    <3>2. one \in Overlapping(two, e.files)
      BY <1>1, <1>7, <2>3, <3>1 DEF Overlapping, ClaimIds
    <3> QED
      BY <1>7, <2>3, <3>2 DEF e
  <2> QED
    BY <2>1, <2>2, <2>3
<1> QED
  BY <1>6, <1>7

\* The rest of the chain keeps what the chain as a whole had: there is no creation in
\* it once the creation at its head is gone.
LEMMA RestIsQuiet ==
    ASSUME ClaimInv, claimChain # <<>>
    PROVE  /\ Tail(claimChain) \in Seq(EventRecord)
           /\ \A k \in DOMAIN Tail(claimChain) :
                 /\ Tail(claimChain)[k] \in EventRecord
                 /\ Head(claimChain).type # "claim_released"
                       => Tail(claimChain)[k].type = "claim_released"
                 /\ Tail(claimChain)[k].type = "claim_released" => Known(Tail(claimChain)[k].id)
<1>1. claimChain \in Seq(EventRecord)
  BY DEF ClaimInv, ClaimTypeOK, EventRecord
<1>2. Tail(claimChain) \in Seq(EventRecord)
  BY <1>1, RemainingEvents
<1> SUFFICES ASSUME NEW k \in DOMAIN Tail(claimChain)
             PROVE  /\ Tail(claimChain)[k] \in EventRecord
                    /\ Head(claimChain).type # "claim_released"
                          => Tail(claimChain)[k].type = "claim_released"
                    /\ Tail(claimChain)[k].type = "claim_released" => Known(Tail(claimChain)[k].id)
  BY <1>2
<1>3. /\ k + 1 \in DOMAIN claimChain /\ Tail(claimChain)[k] = claimChain[k + 1] /\ k + 1 # 1
      /\ 1 \in DOMAIN claimChain /\ Head(claimChain) = claimChain[1]
  BY <1>1, RemainingEvents
<1>4. Tail(claimChain)[k] \in EventRecord
  BY <1>2
<1>5. Head(claimChain).type # "claim_released" => Tail(claimChain)[k].type = "claim_released"
  BY <1>3 DEF ClaimInv, OneCreation
<1>6. Tail(claimChain)[k].type = "claim_released" => Known(Tail(claimChain)[k].id)
  BY <1>3 DEF ClaimInv, ReleasesAreKnown
<1> QED
  BY <1>4, <1>5, <1>6

\* A link of the chain is written: the command behind it goes on in the same stretch.
LEMMA WrittenStep ==
    ASSUME ClaimInv, ClaimWritten
    PROVE  ClaimInv'
<1> USE ClaimConstants
<1> DEFINE e == Head(claimChain)
           rest == Tail(claimChain)
           found == Overlapping(e.id, e.files)
<1>1. /\ claimChain # <<>> /\ claims' = WithEvent(e)
      /\ crashed' = crashed /\ claimBudget' = claimBudget
  BY DEF ClaimWritten
<1>2. /\ e \in EventRecord /\ e = claimChain[1] /\ 1 \in DOMAIN claimChain
      /\ claims' \in [ClaimIds -> [status: {"none", "active", "released", "conflict"},
                                  files: SUBSET Paths, conflictsWith: 0..MaxClaims]]
      /\ \A id \in ClaimIds \ {e.id} : claims'[id] = claims[id]
      /\ e.type = "claim_created" =>
            /\ claims'[e.id].status = "active" /\ claims'[e.id].files = e.files
            /\ ~Known(e.id) /\ \A before \in ClaimIds : before < e.id => Known(before)
      /\ e.type = "claim_released" => claims'[e.id].status = "released" /\ Known(e.id)
      /\ e.type = "claim_conflict_detected" =>
            claims'[e.id].status = "conflict" /\ claims[e.id].status = "active"
  BY <1>1, EventApplied
<1>3. e.type \in {"claim_created", "claim_released", "claim_conflict_detected"} /\ e.id \in ClaimIds
  BY <1>2 DEF EventRecord
<1>4. /\ rest \in Seq(EventRecord)
      /\ \A k \in DOMAIN rest :
            /\ rest[k] \in EventRecord
            /\ e.type # "claim_released" => rest[k].type = "claim_released"
            /\ rest[k].type = "claim_released" => Known(rest[k].id)
  BY <1>1, RestIsQuiet
<1>5. KnownInOrder' /\ \A id \in ClaimIds : Known(id) => Known(id)'
  BY <1>2, <1>3 DEF ClaimInv, KnownInOrder, Known, ClaimIds
<1>6. CASE e.type = "claim_created" /\ found # {}
  <2>1. PICK first \in found :
           claimChain' = Append(rest, ClaimEvent("claim_conflict_detected", e.id, {}, first))
    BY <1>6 DEF ClaimWritten
  <2>2. creating' = "flagging" /\ releasing' = releasing
    BY <1>6 DEF ClaimWritten, ClaimInv, ClaimTypeOK
  <2> DEFINE mark == ClaimEvent("claim_conflict_detected", e.id, {}, first)
             last == Len(rest) + 1
  <2>3. mark \in EventRecord /\ mark.type = "claim_conflict_detected" /\ mark.id = e.id
    BY <1>3, <2>1 DEF ClaimEvent, EventRecord, Overlapping, ClaimIds
  <2>4. /\ claimChain' \in Seq(EventRecord)
        /\ DOMAIN claimChain' = DOMAIN rest \union {last}
        /\ \A k \in DOMAIN rest : claimChain'[k] = rest[k] /\ k < last
        /\ claimChain'[last] = mark
    BY <1>4, <2>1, <2>3, AppendedEvent
  <2> HIDE DEF e, rest, found, mark, last
  <2>5. ClaimTypeOK'
    BY <1>1, <1>2, <2>2, <2>4 DEF ClaimInv, ClaimTypeOK, EventRecord
  <2>6. ReleasesAreKnown'
    BY <1>4, <1>5, <1>6, <2>3, <2>4 DEF ReleasesAreKnown, EventRecord
  <2>7. CreationIsNext'
    BY <1>4, <1>6, <2>3, <2>4 DEF CreationIsNext
  <2>8. MarkIsFirst'
    BY <1>2, <1>4, <1>6, <2>2, <2>3, <2>4 DEF MarkIsFirst
  <2>9. OneCreation'
    BY <1>4, <1>6, <2>3, <2>4 DEF OneCreation
  <2>10. MarksIn(rest) \union {e.id} \subseteq MarksIn(claimChain')
    BY <2>3, <2>4 DEF MarksIn
  <2>11. ActiveClaimsAreApart'
    BY <1>1, <2>10, AppliedApart DEF ActiveClaimsAreApart, e, rest
  <2> QED
    BY <1>5, <2>5, <2>6, <2>7, <2>8, <2>9, <2>11 DEF ClaimInv
<1>7. CASE ~(e.type = "claim_created" /\ found # {})
  <2>1. claimChain' = rest
    BY <1>7 DEF ClaimWritten
  <2>2. /\ creating' \in {"idle", "created", "flagging"} /\ releasing' \in BOOLEAN
        /\ e.type = "claim_released" => creating' = creating
    BY <1>7 DEF ClaimWritten, ClaimInv, ClaimTypeOK
  <2>3. claimChain \in Seq(EventRecord)
    BY DEF ClaimInv, ClaimTypeOK, EventRecord
  <2>4. \A k \in DOMAIN rest : /\ k + 1 \in DOMAIN claimChain /\ rest[k] = claimChain[k + 1]
                                /\ k \in Nat
    BY <1>1, <2>3, RemainingEvents
  <2>5. ActiveClaimsAreApart'
    BY <1>1, <1>7, <2>1, AppliedApart DEF ActiveClaimsAreApart
  <2> HIDE DEF e, rest, found
  <2>6. ClaimTypeOK'
    BY <1>1, <1>2, <1>4, <2>1, <2>2 DEF ClaimInv, ClaimTypeOK, EventRecord
  <2>7. ReleasesAreKnown'
    BY <1>4, <1>5, <2>1 DEF ReleasesAreKnown, EventRecord
  <2>8. CreationIsNext'
    <3>1. CASE e.type = "claim_released"
      <4>1. ASSUME NEW k \in DOMAIN rest, rest[k].type = "claim_created"
            PROVE  /\ creating' = "created" /\ claims'[rest[k].id].status = "none"
                   /\ \A before \in ClaimIds :
                         before < rest[k].id => claims'[before].status # "none"
        <5>1. /\ creating = "created" /\ ~Known(rest[k].id) /\ rest[k].id \in ClaimIds
              /\ \A before \in ClaimIds : before < rest[k].id => Known(before)
          BY <1>4, <2>4, <4>1 DEF ClaimInv, CreationIsNext, EventRecord
        <5>2. rest[k].id # e.id
          BY <1>2, <3>1, <5>1
        <5>3. claims'[rest[k].id].status = "none"
          BY <1>2, <5>1, <5>2 DEF Known
        <5>4. \A before \in ClaimIds :
                 before < rest[k].id => claims'[before].status # "none"
          BY <1>2, <3>1, <5>1 DEF Known
        <5> QED
          BY <2>2, <3>1, <5>1, <5>3, <5>4
      <4> QED
        BY <2>1, <4>1 DEF CreationIsNext, Known
    <3>2. CASE e.type # "claim_released"
      BY <1>4, <2>1, <3>2 DEF CreationIsNext
    <3> QED
      BY <3>1, <3>2
  <2>9. MarkIsFirst'
    <3>1. CASE e.type = "claim_released"
      <4> SUFFICES ASSUME NEW k \in DOMAIN rest, rest[k].type = "claim_conflict_detected"
                   PROVE  /\ creating' = "flagging" /\ claims'[rest[k].id].status = "active"
                          /\ \A j \in DOMAIN rest :
                                j < k /\ rest[j].type = "claim_released" => rest[j].id # rest[k].id
        BY <2>1 DEF MarkIsFirst
      <4>1. /\ creating = "flagging" /\ claims[claimChain[k + 1].id].status = "active"
            /\ \A j \in DOMAIN claimChain :
                  j < k + 1 /\ claimChain[j].type = "claim_released"
                    => claimChain[j].id # claimChain[k + 1].id
        BY <2>4 DEF ClaimInv, MarkIsFirst
      <4>2. e.id # rest[k].id
        BY <1>2, <2>4, <3>1, <4>1
      <4>3. rest[k].id \in ClaimIds
        BY <1>4 DEF EventRecord
      <4>4. claims'[rest[k].id].status = "active"
        BY <1>2, <2>4, <4>1, <4>2, <4>3
      <4>5. \A j \in DOMAIN rest :
               j < k /\ rest[j].type = "claim_released" => rest[j].id # rest[k].id
        BY <2>4, <4>1
      <4> QED
        BY <2>2, <3>1, <4>1, <4>4, <4>5
    <3>2. CASE e.type # "claim_released"
      BY <1>4, <2>1, <3>2 DEF MarkIsFirst
    <3> QED
      BY <3>1, <3>2
  <2>10. OneCreation'
    BY <2>1, <2>4 DEF ClaimInv, OneCreation
  <2> QED
    BY <1>5, <2>5, <2>6, <2>7, <2>8, <2>9, <2>10 DEF ClaimInv
<1> QED
  BY <1>6, <1>7

\* A crash takes the chain; what it took of a creation is noted.
LEMMA CrashStep ==
    ASSUME ClaimInv, ClaimsCrash
    PROVE  ClaimInv'
<1> USE ClaimConstants
<1>1. /\ claimChain' = <<>> /\ creating' = "idle" /\ releasing' = FALSE
      /\ claimBudget' = [claimBudget EXCEPT !.crashes = @ - 1] /\ claimBudget.crashes > 0
  BY DEF ClaimsCrash
<1>2. DOMAIN claimChain' = {}
  BY <1>1
<1>3. claimBudget' \in [releases: 0..MaxReleases, crashes: 0..MaxCrashes]
  BY <1>1 DEF ClaimInv, ClaimTypeOK
<1>4. MarksIn(claimChain) \subseteq ClaimIds
  <2>1. claimChain \in Seq(EventRecord)
    BY DEF ClaimInv, ClaimTypeOK, EventRecord
  <2>2. \A k \in DOMAIN claimChain : claimChain[k] \in EventRecord
    BY <2>1
  <2> QED
    BY <2>2 DEF MarksIn, EventRecord
<1>5. /\ claims' \in [ClaimIds -> [status: {"none", "active", "released", "conflict"},
                                  files: SUBSET Paths, conflictsWith: 0..MaxClaims]]
      /\ crashed' \subseteq ClaimIds /\ KnownInOrder' /\ ActiveClaimsAreApart'
  <2>1. CASE claims' = claims /\ crashed' = crashed \union MarksIn(claimChain)
    BY <1>4, <2>1 DEF ClaimInv, ClaimTypeOK, KnownInOrder, Known, ActiveClaimsAreApart
  <2>2. CASE /\ claimChain # <<>>
             /\ claims' = WithEvent(Head(claimChain))
             /\ crashed' = crashed \union MarksIn(Tail(claimChain)) \union
                   {id \in {Head(claimChain).id} : Head(claimChain).type = "claim_created"}
    <3> DEFINE e == Head(claimChain)
    <3>1. /\ e \in EventRecord
          /\ claims' \in [ClaimIds -> [status: {"none", "active", "released", "conflict"},
                                      files: SUBSET Paths, conflictsWith: 0..MaxClaims]]
          /\ \A id \in ClaimIds \ {e.id} : claims'[id] = claims[id]
          /\ e.type = "claim_created" =>
                /\ claims'[e.id].status = "active"
                /\ \A before \in ClaimIds : before < e.id => Known(before)
          /\ e.type = "claim_released" => claims'[e.id].status = "released" /\ Known(e.id)
          /\ e.type = "claim_conflict_detected" =>
                claims'[e.id].status = "conflict" /\ claims[e.id].status = "active"
      BY <2>2, EventApplied
    <3>2. e.type \in {"claim_created", "claim_released", "claim_conflict_detected"} /\ e.id \in ClaimIds
      BY <3>1 DEF EventRecord
    <3>3. MarksIn(Tail(claimChain)) \subseteq ClaimIds
      BY <2>2, RestIsQuiet DEF MarksIn, EventRecord
    <3>4. crashed' \subseteq ClaimIds
      BY <2>2, <3>2, <3>3 DEF ClaimInv, ClaimTypeOK
    <3>5. ActiveClaimsAreApart'
      BY <2>2, AppliedApart DEF ActiveClaimsAreApart
    <3>6. KnownInOrder'
      <4> HIDE DEF e
      <4> QED
        BY <3>1, <3>2 DEF ClaimInv, KnownInOrder, Known, ClaimIds
    <3> QED
      BY <3>1, <3>4, <3>5, <3>6
  <2> QED
    BY <2>1, <2>2 DEF ClaimsCrash
<1>6. ClaimTypeOK'
  <2>1. claimChain' \in Seq([type: {"claim_created", "claim_released", "claim_conflict_detected"},
                             id: ClaimIds, files: SUBSET Paths, other: 0..MaxClaims])
    BY <1>1
  <2> QED
    BY <1>1, <1>3, <1>5, <2>1, Zenon DEF ClaimTypeOK
<1> QED
  BY <1>2, <1>5, <1>6 DEF ClaimInv, ReleasesAreKnown, CreationIsNext, MarkIsFirst, OneCreation

\* Every step keeps the invariant.
LEMMA ClaimInvStep == ClaimInv /\ [ClaimStep]_claimVars => ClaimInv'
<1> SUFFICES ASSUME ClaimInv, [ClaimStep]_claimVars PROVE ClaimInv'
  OBVIOUS
<1>1. CASE \E files \in SUBSET Paths \ {{}} : CreateClaim(files)
  BY <1>1, CreateStep
<1>2. CASE \E id \in ClaimIds : ReleaseClaim(id)
  BY <1>2, ReleaseStep
<1>3. CASE ClaimWritten
  BY <1>3, WrittenStep
<1>4. CASE ClaimsCrash
  BY <1>4, CrashStep
<1>5. CASE UNCHANGED claimVars
  <2>1. UNCHANGED <<claims, claimChain, creating, releasing, crashed, claimBudget>>
    BY <1>5 DEF claimVars
  <2>2. ClaimTypeOK' /\ KnownInOrder' /\ ActiveClaimsAreApart'
    BY <2>1 DEF ClaimInv, ClaimTypeOK, KnownInOrder, ActiveClaimsAreApart, Known
  <2>3. ReleasesAreKnown' /\ CreationIsNext'
    BY <2>1 DEF ClaimInv, ReleasesAreKnown, CreationIsNext, Known
  <2>4. MarkIsFirst' /\ OneCreation'
    BY <2>1 DEF ClaimInv, MarkIsFirst, OneCreation
  <2> QED
    BY <2>2, <2>3, <2>4 DEF ClaimInv
<1> QED
  BY <1>1, <1>2, <1>3, <1>4, <1>5 DEF ClaimStep

\* What a step does to a claim that was given back: nothing.
LEMMA ReleasedStep ==
    ClaimInv /\ [ClaimStep]_claimVars =>
        \A id \in ClaimIds : claims[id].status = "released" => claims'[id] = claims[id]
<1> SUFFICES ASSUME ClaimInv, [ClaimStep]_claimVars,
                    NEW id \in ClaimIds, claims[id].status = "released"
             PROVE  claims'[id] = claims[id]
  OBVIOUS
<1>1. CASE claims' = claims
  BY <1>1
<1>2. CASE claimChain # <<>> /\ claims' = WithEvent(Head(claimChain))
  <2> DEFINE e == Head(claimChain)
  <2>1. /\ e \in EventRecord
        /\ \A other \in ClaimIds \ {e.id} : claims'[other] = claims[other]
        /\ e.type = "claim_created" => ~Known(e.id)
        /\ e.type = "claim_conflict_detected" => claims[e.id].status = "active"
    BY <1>2, EventApplied
  <2>2. e.type \in {"claim_created", "claim_released", "claim_conflict_detected"}
    BY <2>1 DEF EventRecord
  <2>3. CASE e.id = id
    <3>1. e.type = "claim_released"
      BY <2>1, <2>2, <2>3 DEF Known
    <3>2. claims' = [claims EXCEPT ![id].status = "released"]
      BY <1>2, <2>3, <3>1 DEF WithEvent
    <3>3. claims[id] \in [status: {"none", "active", "released", "conflict"},
                         files: SUBSET Paths, conflictsWith: 0..MaxClaims]
      BY DEF ClaimInv, ClaimTypeOK
    <3>4. [claims[id] EXCEPT !.status = "released"] = claims[id]
      BY <3>3
    <3> QED
      BY <3>2, <3>4 DEF ClaimInv, ClaimTypeOK
  <2>4. CASE e.id # id
    BY <2>1, <2>4
  <2> QED
    BY <2>3, <2>4
<1>3. claims' = claims \/ (claimChain # <<>> /\ claims' = WithEvent(Head(claimChain)))
  BY DEF ClaimStep, claimVars, CreateClaim, ReleaseClaim, ClaimWritten, ClaimsCrash
<1> QED
  BY <1>1, <1>2, <1>3

\* Overlapping claims are never both active without the later one marked, its mark on
\* the way, or a crash between the two events of its creation (createClaim).
THEOREM ClaimsKeepApart == ClaimSpec => []ActiveClaimsAreApart
<1>1. ClaimInv => ActiveClaimsAreApart
  BY DEF ClaimInv
<1> QED
  BY ClaimInvInit, ClaimInvStep, <1>1, PTL DEF ClaimSpec

\* A claim given back stays as it is: no mark is applied after its release.
THEOREM ReleasedIsFinal == ClaimSpec => ReleasedStaysReleased
<1>1. ClaimInv /\ [ClaimStep]_claimVars =>
         [\A id \in ClaimIds : claims[id].status = "released" => claims'[id] = claims[id]]_claimVars
  BY ReleasedStep
<1> QED
  BY ClaimInvInit, ClaimInvStep, <1>1, PTL DEF ClaimSpec, ReleasedStaysReleased

-----------------------------------------------------------------------------
(* Induction: what a replay of any length does *)

\* What holds of 0 and goes on from each number to the next holds of all.
LEMMA NumberByNumber ==
    ASSUME NEW S, 0 \in S, \A n \in Nat : n \in S => n + 1 \in S
    PROVE  \A n \in Nat : n \in S
<1> SUFFICES ASSUME NEW k \in Nat, k \notin S PROVE FALSE
  OBVIOUS
<1> DEFINE U == {0 .. n : n \in {m \in Nat : m \notin S}}
<1>1. \A n \in Nat : 0 .. n \in FiniteSubsetsOf(Nat)
  BY FS_Interval DEF FiniteSubsetsOf
<1>2. U \subseteq FiniteSubsetsOf(Nat) /\ U # {}
  BY <1>1
<1>3. PICK T \in U : \A V \in U : <<V, T>> \notin StrictSubsetOrdering(Nat)
  <2>1. IsWellFoundedOn(StrictSubsetOrdering(Nat), FiniteSubsetsOf(Nat))
    BY FS_StrictSubsetOrderingWellFounded
  <2> HIDE DEF U
  <2> QED BY <1>2, <2>1, WFMin
<1>4. PICK x \in Nat : x \notin S /\ T = 0 .. x
  OBVIOUS
<1>5. x - 1 \in Nat /\ x - 1 \notin S
  BY <1>4
<1>6. <<0 .. x - 1, 0 .. x>> \in StrictSubsetOrdering(Nat)
  BY <1>5 DEF StrictSubsetOrdering
<1> QED BY <1>3, <1>4, <1>5, <1>6

\* What a line makes of a state.
After(s, line) == IF Parses(line) THEN applyEvent(s, line.event) ELSE s

\* f is what Replaying is defined as.
Solves(f, s, logged) == f = [n \in 0 .. Len(logged) |-> IF n = 0 THEN s ELSE After(f[n - 1], logged[n])]

\* The equation that defines a replay has a solution.
LEMMA ReplayExists ==
    ASSUME NEW s, NEW logged, Len(logged) \in Nat
    PROVE  \E f : Solves(f, s, logged)
<1> DEFINE Upto(f, m) == f = [n \in 0 .. m |-> IF n = 0 THEN s ELSE After(f[n - 1], logged[n])]
           S == {m \in Nat : \E f : Upto(f, m)}
<1>1. 0 \in S
  <2>1. Upto([n \in 0 .. 0 |-> s], 0)
    OBVIOUS
  <2> QED BY <2>1
<1>2. ASSUME NEW m \in Nat, m \in S PROVE m + 1 \in S
  <2>1. PICK f : Upto(f, m)
    BY <1>2
  <2> DEFINE g == [n \in 0 .. m + 1 |-> IF n = m + 1 THEN After(f[m], logged[n]) ELSE f[n]]
  <2>2. \A n \in 0 .. m : f[n] = IF n = 0 THEN s ELSE After(f[n - 1], logged[n])
    BY <2>1
  <2>3. \A n \in 0 .. m + 1 : g[n] = IF n = 0 THEN s ELSE After(g[n - 1], logged[n])
    <3> SUFFICES ASSUME NEW n \in 0 .. m + 1 PROVE g[n] = IF n = 0 THEN s ELSE After(g[n - 1], logged[n])
      OBVIOUS
    <3>1. CASE n = m + 1
      BY <3>1
    <3>2. CASE n # m + 1
      BY <3>2, <2>2
    <3> QED BY <3>1, <3>2
  <2>4. Upto(g, m + 1)
    <3>1. g = [n \in 0 .. m + 1 |-> g[n]]
      OBVIOUS
    <3> HIDE DEF g
    <3> QED BY <2>3, <3>1
  <2>5. \E h : Upto(h, m + 1)
    <3> HIDE DEF g, Upto
    <3> QED BY <2>4
  <2> QED BY <2>5
<1>3. Len(logged) \in S
  <2> HIDE DEF S
  <2> QED BY <1>1, <1>2, NumberByNumber
<1>4. \E f : Upto(f, Len(logged))
  <2> HIDE DEF Upto
  <2> QED BY <1>3
<1> QED BY <1>4, Zenon DEF Solves

\* A replay begins with the state it is given and takes the lines one by one.
LEMMA ReplayGoes ==
    ASSUME NEW s, NEW logged, Len(logged) \in Nat
    PROVE  /\ Replaying(s, logged)[0] = s
           /\ \A n \in 1 .. Len(logged) :
                 Replaying(s, logged)[n] = After(Replaying(s, logged)[n - 1], logged[n])
<1> DEFINE r == Replaying(s, logged)
<1>1. r = CHOOSE f : Solves(f, s, logged)
  BY Zenon DEF Replaying, After, Solves
<1>2. \E f : Solves(f, s, logged)
  BY ReplayExists
<1>3. Solves(r, s, logged)
  <2> HIDE DEF r
  <2> QED BY <1>1, <1>2
<1>4. \A n \in 0 .. Len(logged) : r[n] = IF n = 0 THEN s ELSE After(r[n - 1], logged[n])
  <2> HIDE DEF r
  <2> QED BY <1>3 DEF Solves
<1> HIDE DEF r
<1> QED BY <1>4 DEF r

\* An empty log changes nothing.
LEMMA ReplayNothing == \A s : replayLog(s, <<>>) = s
BY ReplayGoes DEF replayLog

\* A line more is replayed after all others.
LEMMA ReplayAppended ==
    ASSUME NEW s, NEW logged \in Seq(Line), NEW line \in Line
    PROVE  replayLog(s, Append(logged, line)) = After(replayLog(s, logged), line)
<1> DEFINE more == Append(logged, line)
           r    == Replaying(s, logged)
           q    == Replaying(s, more)
           S    == {n \in Nat : n <= Len(logged) => q[n] = r[n]}
<1>1. /\ Len(logged) \in Nat /\ Len(more) = Len(logged) + 1
      /\ more[Len(logged) + 1] = line
      /\ \A n \in 1 .. Len(logged) : more[n] = logged[n]
  OBVIOUS
<1>2. /\ r[0] = s /\ \A n \in 1 .. Len(logged) : r[n] = After(r[n - 1], logged[n])
  BY <1>1, ReplayGoes
<1>3. /\ q[0] = s /\ \A n \in 1 .. Len(more) : q[n] = After(q[n - 1], more[n])
  <2>1. Len(more) \in Nat
    BY <1>1
  <2> HIDE DEF more
  <2> QED BY <2>1, ReplayGoes
<1> HIDE DEF more, r, q
<1>4. 0 \in S
  BY <1>2, <1>3
<1>5. ASSUME NEW n \in Nat, n \in S PROVE n + 1 \in S
  <2>1. CASE n + 1 <= Len(logged)
    <3>1. n + 1 \in 1 .. Len(logged) /\ n + 1 \in 1 .. Len(more) /\ n <= Len(logged)
      BY <1>1, <2>1
    <3>2. q[n + 1] = After(q[n], more[n + 1]) /\ r[n + 1] = After(r[n], logged[n + 1])
      <4>1. (n + 1) - 1 = n
        OBVIOUS
      <4> QED BY <1>2, <1>3, <3>1, <4>1
    <3> QED BY <1>1, <1>5, <3>1, <3>2
  <2>2. CASE ~(n + 1 <= Len(logged))
    BY <2>2
  <2> QED BY <2>1, <2>2
<1>6. q[Len(logged)] = r[Len(logged)]
  <2>1. Len(logged) \in S
    <3> HIDE DEF S
    <3> QED BY <1>1, <1>4, <1>5, NumberByNumber
  <2> QED BY <1>1, <2>1
<1>7. q[Len(logged) + 1] = After(q[Len(logged)], line)
  BY <1>1, <1>3
<1> QED BY <1>1, <1>6, <1>7 DEF replayLog, more, r, q

-----------------------------------------------------------------------------
(* One event *)

\* An event as the operations make them.
Issued(e) ==
    /\ e \in StoreEvent
    /\ e.type = "turn_ended" => e.arg \in Outcomes \ {"none"}
    /\ e.type = "chat_turn_queued" => e.arg \in Messages
    /\ e.type \notin {"turn_ended", "chat_turn_queued"} => e.arg = "none"

\* What each event does to the chat it is about.
LEMMA ChatAfterIs ==
    ASSUME NEW chat \in ChatRecord, NEW e, Issued(e)
    PROVE  /\ ChatAfter(chat, e) \in ChatRecord
           /\ e.type = "chat_created" => /\ ChatAfter(chat, e).life = "live"
                                         /\ ChatAfter(chat, e).outcome = "none"
           /\ e.type # "chat_created" /\ chat.life = "none" => ChatAfter(chat, e) = chat
           /\ e.type = "chat_deleted" => ChatAfter(chat, e).life # "live"
           /\ e.type \in {"chat_read_state_set", "chat_turn_queued", "chat_queued_turn_cleared"} =>
                 /\ ChatAfter(chat, e).life = chat.life
                 /\ ChatAfter(chat, e).outcome = chat.outcome
           /\ e.type = "turn_ended" =>
                 /\ ChatAfter(chat, e).life = chat.life
                 /\ ChatAfter(chat, e).outcome = IF chat.life = "none" THEN chat.outcome ELSE e.arg
<1> USE DEF ChatRecord, Issued, StoreEvent, Outcomes, NoChat
<1>1. CASE e.type = "chat_created"
  BY <1>1 DEF ChatAfter
<1>2. CASE e.type # "chat_created" /\ chat.life = "none"
  BY <1>2 DEF ChatAfter
<1>3. CASE e.type = "chat_deleted" /\ chat.life # "none"
  BY <1>3 DEF ChatAfter
<1>4. CASE e.type = "chat_read_state_set" /\ chat.life # "none"
  BY <1>4 DEF ChatAfter
<1>5. CASE e.type = "turn_ended" /\ chat.life # "none"
  BY <1>5 DEF ChatAfter
<1>6. CASE e.type \in {"chat_turn_queued", "chat_queued_turn_cleared"} /\ chat.life # "none"
  BY <1>6 DEF ChatAfter
<1> QED BY <1>1, <1>2, <1>3, <1>4, <1>5, <1>6

\* What each event does to the queue of the chat it is about.
LEMMA QueueAfterIs ==
    ASSUME NEW queue \in Seq(Messages), NEW chat \in ChatRecord, NEW e, Issued(e)
    PROVE  /\ QueueAfter(queue, chat, e) \in Seq(Messages)
           /\ e.type = "chat_turn_queued" => QueueAfter(queue, chat, e) = Append(queue, e.arg)
           /\ e.type = "chat_queued_turn_cleared" => QueueAfter(queue, chat, e) = <<>>
           /\ e.type = "chat_deleted" /\ chat.life # "none" => QueueAfter(queue, chat, e) = <<>>
           /\ \/ e.type \in {"chat_created", "chat_read_state_set", "turn_ended"}
              \/ e.type = "chat_deleted" /\ chat.life = "none"
              => QueueAfter(queue, chat, e) = queue
<1> USE DEF Issued, StoreEvent
<1>0. <<>> \in Seq(Messages)
  OBVIOUS
<1>1. CASE e.type = "chat_turn_queued"
  BY <1>1 DEF QueueAfter
<1>2. CASE e.type = "chat_queued_turn_cleared"
  BY <1>0, <1>2 DEF QueueAfter
<1>3. CASE e.type = "chat_deleted" /\ chat.life # "none"
  BY <1>0, <1>3 DEF QueueAfter
<1>4. CASE \/ e.type \in {"chat_created", "chat_read_state_set", "turn_ended"}
           \/ e.type = "chat_deleted" /\ chat.life = "none"
  BY <1>4 DEF QueueAfter
<1> QED BY <1>1, <1>2, <1>3, <1>4

\* An event changes the chat it is about and no other.
LEMMA ApplyAt ==
    ASSUME NEW s \in State, NEW e, Issued(e)
    PROVE  /\ applyEvent(s, e) \in State
           /\ \A c \in Chats :
                 /\ applyEvent(s, e).chatsById[c] =
                       IF c = e.chat THEN ChatAfter(s.chatsById[c], e) ELSE s.chatsById[c]
                 /\ applyEvent(s, e).queued[c] =
                       IF c = e.chat THEN QueueAfter(s.queued[c], s.chatsById[c], e) ELSE s.queued[c]
BY ChatAfterIs, QueueAfterIs DEF Issued, StoreEvent, State, applyEvent

-----------------------------------------------------------------------------
(* States that show the same chats *)

\* r and s agree on what a reader of the live chats finds.
SeenAlike(r, s) ==
    \A c \in Chats :
        /\ Live(r, c) <=> Live(s, c)
        /\ Live(s, c) => /\ r.chatsById[c].outcome = s.chatsById[c].outcome
                         /\ r.queued[c] = s.queued[c]

\* States that are alike show the same.
LEMMA AlikeVisible == \A r, s : SeenAlike(r, s) => Visible(r) = Visible(s)
BY DEF SeenAlike, Visible

\* An event that is no creation leaves states alike.
LEMMA AlikeAfter ==
    ASSUME NEW r \in State, NEW s \in State, SeenAlike(r, s), NEW e, Issued(e),
           e.type = "chat_created" => r.queued[e.chat] = s.queued[e.chat]
    PROVE  SeenAlike(applyEvent(r, e), applyEvent(s, e))
<1> DEFINE rr == applyEvent(r, e)
           ss == applyEvent(s, e)
<1> SUFFICES ASSUME NEW c \in Chats
             PROVE  /\ Live(rr, c) <=> Live(ss, c)
                    /\ Live(ss, c) => /\ rr.chatsById[c].outcome = ss.chatsById[c].outcome
                                      /\ rr.queued[c] = ss.queued[c]
  BY DEF SeenAlike
<1>1. /\ rr.chatsById[c] = IF c = e.chat THEN ChatAfter(r.chatsById[c], e) ELSE r.chatsById[c]
      /\ rr.queued[c] = IF c = e.chat THEN QueueAfter(r.queued[c], r.chatsById[c], e) ELSE r.queued[c]
      /\ ss.chatsById[c] = IF c = e.chat THEN ChatAfter(s.chatsById[c], e) ELSE s.chatsById[c]
      /\ ss.queued[c] = IF c = e.chat THEN QueueAfter(s.queued[c], s.chatsById[c], e) ELSE s.queued[c]
  BY ApplyAt
<1> HIDE DEF rr, ss
<1>2. /\ Live(r, c) <=> Live(s, c)
      /\ Live(s, c) => r.chatsById[c].outcome = s.chatsById[c].outcome /\ r.queued[c] = s.queued[c]
  BY DEF SeenAlike
<1>3. CASE c # e.chat
  BY <1>1, <1>2, <1>3 DEF Live
<1>4. CASE c = e.chat
  <2>1. /\ r.chatsById[c] \in ChatRecord /\ s.chatsById[c] \in ChatRecord
        /\ r.queued[c] \in Seq(Messages) /\ s.queued[c] \in Seq(Messages)
    BY DEF State
  <2> DEFINE rc == r.chatsById[c]
             sc == s.chatsById[c]
             rq == r.queued[c]
             sq == s.queued[c]
  <2>2. /\ rr.chatsById[c] = ChatAfter(rc, e) /\ rr.queued[c] = QueueAfter(rq, rc, e)
        /\ ss.chatsById[c] = ChatAfter(sc, e) /\ ss.queued[c] = QueueAfter(sq, sc, e)
    BY <1>1, <1>4
  <2>3. /\ rc.life = "live" <=> sc.life = "live"
        /\ sc.life = "live" => rc.outcome = sc.outcome /\ rq = sq
        /\ e.type = "chat_created" => rq = sq
    BY <1>2, <1>4 DEF Live
  <2>4. e.type \in {"chat_created", "chat_deleted", "chat_read_state_set", "turn_ended",
                    "chat_turn_queued", "chat_queued_turn_cleared"}
    BY DEF Issued, StoreEvent
  <2> HIDE DEF rc, sc, rq, sq
  <2>5. rc \in ChatRecord /\ sc \in ChatRecord /\ rq \in Seq(Messages) /\ sq \in Seq(Messages)
    BY <2>1 DEF rc, sc, rq, sq
  <2> DEFINE live(x) == ChatAfter(x, e).life = "live"
             out(x)  == ChatAfter(x, e).outcome
             que(q, x) == QueueAfter(q, x, e)
  <2> SUFFICES /\ live(rc) <=> live(sc)
               /\ live(sc) => out(rc) = out(sc) /\ que(rq, rc) = que(sq, sc)
    BY <2>2 DEF Live
  <2>6. CASE e.type = "chat_created"
    <3>1. live(rc) /\ live(sc) /\ out(rc) = "none" /\ out(sc) = "none"
      BY <2>5, <2>6, ChatAfterIs
    <3>2. que(rq, rc) = rq /\ que(sq, sc) = sq
      BY <2>5, <2>6, QueueAfterIs
    <3> QED BY <2>3, <2>6, <3>1, <3>2
  <2>7. CASE e.type = "chat_deleted"
    BY <2>5, <2>7, ChatAfterIs
  <2>8. CASE e.type = "chat_read_state_set"
    <3>1. \A x \in {rc, sc} : (live(x) <=> x.life = "live") /\ out(x) = x.outcome
      BY <2>5, <2>8, ChatAfterIs
    <3>2. que(rq, rc) = rq /\ que(sq, sc) = sq
      BY <2>5, <2>8, QueueAfterIs
    <3> QED BY <2>3, <3>1, <3>2
  <2>9. CASE e.type = "turn_ended"
    <3>1. \A x \in {rc, sc} : /\ live(x) <=> x.life = "live"
                              /\ x.life = "live" => out(x) = e.arg
      BY <2>5, <2>9, ChatAfterIs
    <3>2. que(rq, rc) = rq /\ que(sq, sc) = sq
      BY <2>5, <2>9, QueueAfterIs
    <3> QED BY <2>3, <3>1, <3>2
  <2>10. CASE e.type \in {"chat_turn_queued", "chat_queued_turn_cleared"}
    <3>1. \A x \in {rc, sc} : (live(x) <=> x.life = "live") /\ out(x) = x.outcome
      BY <2>5, <2>10, ChatAfterIs
    <3>2. rq = sq => que(rq, rc) = que(sq, sc)
      <4>1. CASE e.type = "chat_turn_queued"
        <5>1. que(rq, rc) = Append(rq, e.arg) /\ que(sq, sc) = Append(sq, e.arg)
          BY <2>5, <4>1, QueueAfterIs
        <5> QED BY <5>1
      <4>2. CASE e.type = "chat_queued_turn_cleared"
        BY <2>5, <4>2, QueueAfterIs
      <4> QED BY <2>10, <4>1, <4>2
    <3> QED BY <2>3, <3>1, <3>2
  <2> QED BY <2>4, <2>6, <2>7, <2>8, <2>9, <2>10
<1> QED BY <1>3, <1>4

\* An event of chats.jsonl before or after one of turns.jsonl: alike, unless the
\* one creates the chat of the other.
LEMMA EitherOrder ==
    ASSUME NEW s \in State, NEW e, Issued(e), LogOf(e) = "chats", NEW t, Issued(t), LogOf(t) = "turns",
           e.type = "chat_created" => t.chat # e.chat
    PROVE  SeenAlike(applyEvent(applyEvent(s, e), t), applyEvent(applyEvent(s, t), e))
<1>1. /\ e.type \in {"chat_created", "chat_deleted", "chat_read_state_set"}
      /\ t.type \in {"turn_ended", "chat_turn_queued", "chat_queued_turn_cleared"}
  BY DEF LogOf, Issued, StoreEvent
<1>2. applyEvent(s, e) \in State /\ applyEvent(s, t) \in State
  BY ApplyAt
<1> DEFINE et == applyEvent(applyEvent(s, e), t)
           te == applyEvent(applyEvent(s, t), e)
<1> SUFFICES ASSUME NEW c \in Chats
             PROVE  /\ Live(et, c) <=> Live(te, c)
                    /\ Live(te, c) => /\ et.chatsById[c].outcome = te.chatsById[c].outcome
                                      /\ et.queued[c] = te.queued[c]
  BY DEF SeenAlike
<1> DEFINE x == s.chatsById[c]
           q == s.queued[c]
<1>3. x \in ChatRecord /\ q \in Seq(Messages)
  BY DEF State
<1>4. /\ applyEvent(s, e).chatsById[c] = IF c = e.chat THEN ChatAfter(x, e) ELSE x
      /\ applyEvent(s, e).queued[c] = IF c = e.chat THEN QueueAfter(q, x, e) ELSE q
      /\ applyEvent(s, t).chatsById[c] = IF c = t.chat THEN ChatAfter(x, t) ELSE x
      /\ applyEvent(s, t).queued[c] = IF c = t.chat THEN QueueAfter(q, x, t) ELSE q
  BY ApplyAt
<1>5. /\ et.chatsById[c] = IF c = t.chat THEN ChatAfter(applyEvent(s, e).chatsById[c], t)
                           ELSE applyEvent(s, e).chatsById[c]
      /\ et.queued[c] = IF c = t.chat
                        THEN QueueAfter(applyEvent(s, e).queued[c], applyEvent(s, e).chatsById[c], t)
                        ELSE applyEvent(s, e).queued[c]
      /\ te.chatsById[c] = IF c = e.chat THEN ChatAfter(applyEvent(s, t).chatsById[c], e)
                           ELSE applyEvent(s, t).chatsById[c]
      /\ te.queued[c] = IF c = e.chat
                        THEN QueueAfter(applyEvent(s, t).queued[c], applyEvent(s, t).chatsById[c], e)
                        ELSE applyEvent(s, t).queued[c]
  BY <1>2, ApplyAt
<1> HIDE DEF et, te, x, q
<1>6. CASE c # t.chat \/ c # e.chat
  BY <1>4, <1>5, <1>6 DEF Live
<1>7. CASE c = t.chat /\ c = e.chat
  <2> DEFINE xe == ChatAfter(x, e)
             xt == ChatAfter(x, t)
             qe == QueueAfter(q, x, e)
             qt == QueueAfter(q, x, t)
  <2>1. /\ et.chatsById[c] = ChatAfter(xe, t) /\ et.queued[c] = QueueAfter(qe, xe, t)
        /\ te.chatsById[c] = ChatAfter(xt, e) /\ te.queued[c] = QueueAfter(qt, xt, e)
    BY <1>4, <1>5, <1>7
  <2>2. /\ xe \in ChatRecord /\ xt \in ChatRecord /\ qe \in Seq(Messages) /\ qt \in Seq(Messages)
    BY <1>3, ChatAfterIs, QueueAfterIs
  <2>3. e.type \in {"chat_deleted", "chat_read_state_set"}
    BY <1>1, <1>7
  <2>4. xt.life = x.life
    BY <1>1, <1>3, ChatAfterIs
  <2> HIDE DEF xe, xt, qe, qt
  <2>5. CASE e.type = "chat_deleted"
    <3>1. xe.life # "live"
      BY <1>3, <2>5, ChatAfterIs DEF xe
    <3>2. ChatAfter(xe, t).life # "live"
      BY <1>1, <2>2, <3>1, ChatAfterIs
    <3>3. ChatAfter(xt, e).life # "live"
      BY <2>2, <2>5, ChatAfterIs
    <3> QED BY <2>1, <3>2, <3>3 DEF Live
  <2>6. CASE e.type = "chat_read_state_set"
    <3>1. xe.life = x.life /\ xe.outcome = x.outcome /\ qe = q
      BY <1>3, <2>6, ChatAfterIs, QueueAfterIs DEF xe, qe
    <3>2. /\ ChatAfter(xt, e).life = xt.life /\ ChatAfter(xt, e).outcome = xt.outcome
          /\ QueueAfter(qt, xt, e) = qt
      BY <2>2, <2>6, ChatAfterIs, QueueAfterIs
    <3>3. ChatAfter(xe, t).life = x.life /\ ChatAfter(xe, t).outcome = xt.outcome
      <4>1. CASE t.type = "turn_ended"
        <5>1. xt.outcome = IF x.life = "none" THEN x.outcome ELSE t.arg
          BY <1>3, <4>1, ChatAfterIs DEF xt
        <5>2. /\ ChatAfter(xe, t).life = xe.life
              /\ ChatAfter(xe, t).outcome = IF xe.life = "none" THEN xe.outcome ELSE t.arg
          BY <2>2, <4>1, ChatAfterIs
        <5> QED BY <3>1, <5>1, <5>2
      <4>2. CASE t.type \in {"chat_turn_queued", "chat_queued_turn_cleared"}
        <5>1. xt.outcome = x.outcome
          BY <1>3, <4>2, ChatAfterIs DEF xt
        <5>2. ChatAfter(xe, t).life = xe.life /\ ChatAfter(xe, t).outcome = xe.outcome
          BY <2>2, <4>2, ChatAfterIs
        <5> QED BY <3>1, <5>1, <5>2
      <4> QED BY <1>1, <4>1, <4>2
    <3>4. QueueAfter(qe, xe, t) = qt
      <4>1. CASE t.type = "turn_ended"
        <5>1. qt = q
          BY <1>3, <4>1, QueueAfterIs DEF qt
        <5>2. QueueAfter(qe, xe, t) = qe
          BY <2>2, <4>1, QueueAfterIs
        <5> QED BY <3>1, <5>1, <5>2
      <4>2. CASE t.type = "chat_turn_queued"
        <5>1. qt = Append(q, t.arg)
          BY <1>3, <4>2, QueueAfterIs DEF qt
        <5>2. QueueAfter(qe, xe, t) = Append(qe, t.arg)
          BY <2>2, <4>2, QueueAfterIs
        <5> QED BY <3>1, <5>1, <5>2
      <4>3. CASE t.type = "chat_queued_turn_cleared"
        <5>1. qt = <<>>
          BY <1>3, <4>3, QueueAfterIs DEF qt
        <5>2. QueueAfter(qe, xe, t) = <<>>
          BY <2>2, <4>3, QueueAfterIs
        <5> QED BY <5>1, <5>2
      <4> QED BY <1>1, <4>1, <4>2, <4>3
    <3> QED BY <2>1, <2>4, <3>2, <3>3, <3>4 DEF Live
  <2> QED BY <2>3, <2>5, <2>6
<1> QED BY <1>6, <1>7

-----------------------------------------------------------------------------
(* Replays *)

\* A log of whole lines, each of an event that belongs there.
ProperLog(logged, f) ==
    /\ logged \in Seq(Line)
    /\ \A i \in DOMAIN logged : Issued(logged[i].event) /\ LogOf(logged[i].event) = f

\* What holds before a replay, and of each state a line makes from one of which it
\* holds, holds at the end.
LEMMA ReplayKeeps ==
    ASSUME NEW s, NEW logged \in Seq(Line), NEW T, s \in T,
           \A x \in T, n \in 1 .. Len(logged) : After(x, logged[n]) \in T
    PROVE  replayLog(s, logged) \in T
<1> DEFINE r == Replaying(s, logged)
           S == {n \in Nat : n <= Len(logged) => r[n] \in T}
<1>1. /\ r[0] = s /\ \A n \in 1 .. Len(logged) : r[n] = After(r[n - 1], logged[n])
  BY ReplayGoes
<1> HIDE DEF r
<1>2. 0 \in S
  BY <1>1
<1>3. ASSUME NEW n \in Nat, n \in S PROVE n + 1 \in S
  BY <1>3, <1>1
<1>4. Len(logged) \in S
  <2> HIDE DEF S
  <2> QED BY <1>2, <1>3, NumberByNumber
<1> QED BY <1>4 DEF replayLog, r

\* A replay of issued events ends in a state.
LEMMA ReplayTyped ==
    ASSUME NEW s \in State, NEW logged \in Seq(Line), \A i \in DOMAIN logged : Issued(logged[i].event)
    PROVE  replayLog(s, logged) \in State
BY ApplyAt, ReplayKeeps DEF After

\* c has never been heard of in s.
Unheard(s, c) == s.chatsById[c].life = "none" /\ s.queued[c] = <<>>

\* A chat no line is about stays unheard of.
LEMMA ReplayLeaves ==
    ASSUME NEW s \in State, NEW logged \in Seq(Line), \A i \in DOMAIN logged : Issued(logged[i].event),
           NEW c \in Chats, Unheard(s, c), \A i \in DOMAIN logged : logged[i].event.chat # c
    PROVE  Unheard(replayLog(s, logged), c)
<1> DEFINE T == {x \in State : Unheard(x, c)}
<1>1. ASSUME NEW x \in T, NEW n \in 1 .. Len(logged) PROVE After(x, logged[n]) \in T
  BY ApplyAt DEF After, Unheard
<1>2. replayLog(s, logged) \in T
  <2>1. s \in T
    OBVIOUS
  <2> HIDE DEF T
  <2> QED BY <1>1, <2>1, ReplayKeeps
<1> QED BY <1>2

\* An event of chats.jsonl is replayed before all of turns.jsonl and was applied after
\* them: alike, if no line there is about a chat that it creates.
LEMMA ReplayedEarlier ==
    ASSUME NEW s \in State, NEW e, Issued(e), LogOf(e) = "chats", NEW logged, ProperLog(logged, "turns"),
           e.type = "chat_created" => \A i \in DOMAIN logged : logged[i].event.chat # e.chat
    PROVE  SeenAlike(replayLog(applyEvent(s, e), logged), applyEvent(replayLog(s, logged), e))
<1> DEFINE r == Replaying(s, logged)
           q == Replaying(applyEvent(s, e), logged)
           S == {n \in Nat : n <= Len(logged) => /\ r[n] \in State /\ q[n] \in State
                                                /\ SeenAlike(q[n], applyEvent(r[n], e))}
<1>1. logged \in Seq(Line) /\ Len(logged) \in Nat /\ DOMAIN logged = 1 .. Len(logged)
  BY DEF ProperLog
<1>2. /\ r[0] = s /\ \A n \in 1 .. Len(logged) : r[n] = After(r[n - 1], logged[n])
      /\ q[0] = applyEvent(s, e) /\ \A n \in 1 .. Len(logged) : q[n] = After(q[n - 1], logged[n])
  BY <1>1, ReplayGoes
<1> HIDE DEF r, q
<1>3. 0 \in S
  BY <1>2, ApplyAt DEF SeenAlike
<1>4. ASSUME NEW n \in Nat, n \in S PROVE n + 1 \in S
  <2> SUFFICES ASSUME n + 1 <= Len(logged)
               PROVE  /\ r[n + 1] \in State /\ q[n + 1] \in State
                      /\ SeenAlike(q[n + 1], applyEvent(r[n + 1], e))
    OBVIOUS
  <2>1. n + 1 \in 1 .. Len(logged) /\ (n + 1) - 1 = n
        /\ r[n] \in State /\ q[n] \in State /\ SeenAlike(q[n], applyEvent(r[n], e))
    BY <1>4
  <2>2. r[n + 1] = After(r[n], logged[n + 1]) /\ q[n + 1] = After(q[n], logged[n + 1])
    BY <1>2, <2>1
  <2>3. CASE ~Parses(logged[n + 1])
    BY <2>1, <2>2, <2>3 DEF After
  <2>4. CASE Parses(logged[n + 1])
    <3> DEFINE t == logged[n + 1].event
    <3>1. /\ Issued(t) /\ LogOf(t) = "turns" /\ t.type # "chat_created"
          /\ e.type = "chat_created" => t.chat # e.chat
      BY <1>1, <2>1 DEF ProperLog, LogOf
    <3>2. r[n + 1] = applyEvent(r[n], t) /\ q[n + 1] = applyEvent(q[n], t)
      BY <2>2, <2>4 DEF After
    <3> HIDE DEF t
    <3>3. /\ applyEvent(r[n], t) \in State /\ applyEvent(q[n], t) \in State
          /\ applyEvent(r[n], e) \in State
      BY <2>1, <3>1, ApplyAt
    <3>4. SeenAlike(applyEvent(q[n], t), applyEvent(applyEvent(r[n], e), t))
      BY <2>1, <3>1, <3>3, AlikeAfter
    <3>5. SeenAlike(applyEvent(applyEvent(r[n], e), t), applyEvent(applyEvent(r[n], t), e))
      BY <2>1, <3>1, EitherOrder
    <3>6. SeenAlike(applyEvent(q[n], t), applyEvent(applyEvent(r[n], t), e))
      BY <3>4, <3>5 DEF SeenAlike
    <3> QED BY <3>2, <3>3, <3>6
  <2> QED BY <2>3, <2>4
<1>5. Len(logged) \in S
  <2> HIDE DEF S
  <2> QED BY <1>1, <1>3, <1>4, NumberByNumber
<1> QED BY <1>1, <1>5 DEF replayLog, r, q

-----------------------------------------------------------------------------
(* Type correctness of the store *)

\* The types, and what else a replay relies on: every event is one that an operation makes,
\* and lies in the log of its type.
StoreTyped ==
    /\ StoreTypeOK
    /\ \A i \in DOMAIN writeChain : Issued(writeChain[i])
    /\ \A f \in Logs : \A i \in DOMAIN logs[f] :
          Issued(logs[f][i].event) /\ LogOf(logs[f][i].event) = f
    /\ acknowledged.number + Len(writeChain) <= MaxWrites

\* Sequences of the write chain.
LEMMA ChainSeq ==
    ASSUME NEW s \in Seq(StoreEvent)
    PROVE  /\ Len(s) \in Nat
           /\ \A e \in StoreEvent :
                 /\ Append(s, e) \in Seq(StoreEvent) /\ Len(Append(s, e)) = Len(s) + 1
                 /\ Append(s, e)[Len(s) + 1] = e
                 /\ \A i \in DOMAIN Append(s, e) :
                       (i \in DOMAIN s /\ Append(s, e)[i] = s[i]) \/ i = Len(s) + 1
                 /\ \A i \in DOMAIN s : i # Len(s) + 1 /\ i \in DOMAIN Append(s, e)
           /\ s # <<>> => /\ Head(s) = s[1] /\ 1 \in DOMAIN s /\ Head(s) \in StoreEvent
                          /\ Tail(s) \in Seq(StoreEvent) /\ Len(Tail(s)) = Len(s) - 1
                          /\ \A i \in DOMAIN Tail(s) :
                                i \in Nat \ {0} /\ i + 1 \in DOMAIN s /\ Tail(s)[i] = s[i + 1]
OBVIOUS

\* The events of a log to which e is appended, in part or as a whole, are those there were and e.
LEMMA LineType ==
    ASSUME NEW logged \in Seq(Line), NEW e \in StoreEvent,
           NEW text \in {"whole", "cut", "unended"}
    PROVE  /\ LineAppended(logged, e, text) \in Seq(Line)
           /\ \A i \in DOMAIN LineAppended(logged, e, text) :
                 \/ i \in DOMAIN logged /\ LineAppended(logged, e, text)[i].event = logged[i].event
                 \/ LineAppended(logged, e, text)[i].event = e
<1>1. CASE Unterminated(logged)
  <2> DEFINE n == Len(logged)
             t == IF text = "whole" THEN "garbled" ELSE "cut"
  <2>1. n \in Nat /\ logged # <<>> /\ n \in 1 .. n /\ DOMAIN logged = 1 .. n /\ logged[n] \in Line
    BY <1>1 DEF Unterminated
  <2>2. LineAppended(logged, e, text) = [logged EXCEPT ![n] = [logged[n] EXCEPT !.text = t]]
    BY <1>1 DEF LineAppended
  <2>3. [logged[n] EXCEPT !.text = t] \in Line /\ [logged[n] EXCEPT !.text = t].event = logged[n].event
    BY <2>1 DEF Line
  <2> HIDE DEF n, t
  <2> QED BY <2>1, <2>2, <2>3
<1>2. CASE ~Unterminated(logged)
  <2> DEFINE line == [event |-> e, text |-> text]
  <2>1. line \in Line /\ line.event = e
    BY DEF Line
  <2>2. LineAppended(logged, e, text) = Append(logged, line)
    BY <1>2 DEF LineAppended
  <2> HIDE DEF line
  <2> QED BY <2>1, <2>2
<1> QED BY <1>1, <1>2

\* The empty state is one.
LEMMA EmptyTyped == EmptyState \in State
BY DEF NoChat, ChatRecord, Outcomes, EmptyState, State

\* So is what a snapshot keeps of one, and it shows the same chats.
LEMMA SnapshotTyped ==
    ASSUME NEW s \in State
    PROVE  /\ createSnapshot(s) \in State /\ SeenAlike(createSnapshot(s), s)
           /\ \A c \in Chats : Unheard(s, c) => Unheard(createSnapshot(s), c)
<1>1. NoChat \in ChatRecord /\ NoChat.life = "none"
  BY DEF NoChat, ChatRecord, Outcomes
<1>2. /\ s.chatsById \in [Chats -> ChatRecord] /\ s.queued \in [Chats -> Seq(Messages)]
      /\ createSnapshot(s) = [chatsById |-> [c \in Chats |-> IF Live(s, c) THEN s.chatsById[c] ELSE NoChat],
                              queued |-> s.queued]
  <2>1. s = [chatsById |-> s.chatsById, queued |-> s.queued]
    BY DEF State
  <2> DEFINE kept == [c \in Chats |-> IF Live(s, c) THEN s.chatsById[c] ELSE NoChat]
  <2>2. createSnapshot(s) = [s EXCEPT !.chatsById = kept]
    BY DEF createSnapshot
  <2> HIDE DEF kept
  <2>3. createSnapshot(s) = [chatsById |-> kept, queued |-> s.queued]
    BY <2>1, <2>2
  <2> QED BY <2>3 DEF State, kept
<1> QED BY <1>1, <1>2 DEF State, SeenAlike, Live, Unheard

\* What a start recovers is a state.
LEMMA RecoveredTyped == StoreTyped => Recovered \in State
BY EmptyTyped, ReplayTyped DEF loadSnapshot, StoreTyped, StoreTypeOK, Logs, Recovered

\* The types hold of an empty directory.
LEMMA StoreTypedInit == StoreInit => StoreTyped
<1> SUFFICES ASSUME StoreInit PROVE StoreTyped
  OBVIOUS
<1>1. /\ EmptyState \in State /\ <<>> \in Seq(Line) /\ <<>> \in Seq(StoreEvent)
      /\ Len(<<>>) = 0 /\ \A i : i \notin DOMAIN <<>>
  BY EmptyTyped
<1>2. /\ logs \in [Logs -> Seq(Line)]
      /\ \A f \in Logs : \A i : i \notin DOMAIN logs[f]
  BY <1>1 DEF StoreInit
<1>3. /\ snapshot \in [text: {"empty", "cut", "whole"}, state: State]
      /\ acknowledged.number = 0 /\ acknowledged.event = NoEvent
  BY <1>1 DEF StoreInit
<1>4. /\ phase = "down" /\ state \in State /\ rewriting = {} /\ writeChain = <<>> /\ poisoned = FALSE
      /\ created = {}
  BY <1>1 DEF StoreInit
<1>5. 0 \in 0 .. MaxWrites
  BY StoreConstants
<1>6. StoreTypeOK
  BY <1>1, <1>2, <1>3, <1>4, <1>5 DEF StoreTypeOK, Phases
<1> QED BY <1>1, <1>2, <1>3, <1>4, <1>6, StoreConstants DEF StoreTyped

\* An operation's event is one, and goes to the end of the chain.
LEMMA AppendsTyped ==
    ASSUME StoreTyped, NEW e, Issued(e), Appends(e), created' \subseteq Chats
    PROVE  StoreTyped'
BY ChainSeq, StoreConstants DEF Issued, Appends, StoreTyped, StoreTypeOK

\* The operations append what they should.
LEMMA OperationsIssue ==
    ASSUME NEW c \in Chats
    PROVE  /\ Issued(Event("chat_created", c, "none"))
           /\ Issued(Event("chat_deleted", c, "none"))
           /\ Issued(Event("chat_read_state_set", c, "none"))
           /\ \A outcome \in Outcomes \ {"none"} : Issued(Event("turn_ended", c, outcome))
           /\ \A m \in Messages : Issued(Event("chat_turn_queued", c, m))
           /\ Issued(Event("chat_queued_turn_cleared", c, "none"))
BY DEF Issued, Event, StoreEvent, Outcomes

\* An operation of c: its event, and what must be so of the chat.
Operates(c, e) ==
    /\ Issued(e) /\ e.chat = c /\ Appends(e)
    /\ \/ e.type = "chat_created" /\ c \notin created /\ created' = created \cup {c}
       \/ e.type # "chat_created" /\ ~Unheard(state, c) /\ UNCHANGED created

\* The six operations are all of that kind.
LEMMA OperationKinds ==
    ASSUME NEW c \in Chats,
           \/ createChat(c) \/ deleteChat(c) \/ markRead(c)
           \/ \E outcome \in Outcomes \ {"none"} : recordTurnEnd(c, outcome)
           \/ \E m \in Messages : enqueueQueuedTurn(c, m)
           \/ clearQueuedTurn(c)
    PROVE  \E e : Operates(c, e)
<1>0. Live(state, c) \/ state.queued[c] # <<>> => ~Unheard(state, c)
  BY DEF Live, Unheard
<1>1. CASE createChat(c)
  <2>1. Operates(c, Event("chat_created", c, "none"))
    BY <1>1, OperationsIssue DEF Operates, createChat, Event
  <2> QED BY <2>1
<1>2. CASE deleteChat(c)
  <2>1. Operates(c, Event("chat_deleted", c, "none"))
    BY <1>0, <1>2, OperationsIssue DEF Operates, deleteChat, Event
  <2> QED BY <2>1
<1>3. CASE markRead(c)
  <2>1. Operates(c, Event("chat_read_state_set", c, "none"))
    BY <1>0, <1>3, OperationsIssue DEF Operates, markRead, Event
  <2> QED BY <2>1
<1>4. ASSUME NEW outcome \in Outcomes \ {"none"}, recordTurnEnd(c, outcome) PROVE \E e : Operates(c, e)
  <2>1. Operates(c, Event("turn_ended", c, outcome))
    BY <1>0, <1>4, OperationsIssue DEF Operates, recordTurnEnd, Event
  <2> QED BY <2>1
<1>5. ASSUME NEW m \in Messages, enqueueQueuedTurn(c, m) PROVE \E e : Operates(c, e)
  <2>1. Operates(c, Event("chat_turn_queued", c, m))
    BY <1>0, <1>5, OperationsIssue DEF Operates, enqueueQueuedTurn, Event
  <2> QED BY <2>1
<1>6. CASE clearQueuedTurn(c)
  <2>1. Operates(c, Event("chat_queued_turn_cleared", c, "none"))
    BY <1>0, <1>6, OperationsIssue DEF Operates, clearQueuedTurn, Event
  <2> QED BY <2>1
<1> QED BY <1>1, <1>2, <1>3, <1>4, <1>5, <1>6

\* A log that got e appended, or part of it, or was not touched.
LEMMA LogsTyped ==
    ASSUME StoreTyped, NEW e, Issued(e), NEW logged, logs' = [logs EXCEPT ![LogOf(e)] = logged],
           \/ logged = logs[LogOf(e)]
           \/ \E text \in {"whole", "cut", "unended"} : logged = LineAppended(logs[LogOf(e)], e, text)
    PROVE  /\ logs' \in [Logs -> Seq(Line)]
           /\ \A f \in Logs : \A i \in DOMAIN logs'[f] :
                 Issued(logs'[f][i].event) /\ LogOf(logs'[f][i].event) = f
<1>1. /\ LogOf(e) \in Logs /\ e \in StoreEvent /\ logs \in [Logs -> Seq(Line)]
  BY DEF LogOf, Logs, Issued, StoreTyped, StoreTypeOK
<1>2. /\ logged \in Seq(Line)
      /\ \A i \in DOMAIN logged : \/ i \in DOMAIN logs[LogOf(e)] /\ logged[i].event = logs[LogOf(e)][i].event
                                 \/ logged[i].event = e
  <2>1. logs[LogOf(e)] \in Seq(Line)
    BY <1>1
  <2>2. CASE logged = logs[LogOf(e)]
    BY <2>1, <2>2
  <2>3. ASSUME NEW text \in {"whole", "cut", "unended"}, logged = LineAppended(logs[LogOf(e)], e, text)
        PROVE  /\ logged \in Seq(Line)
               /\ \A i \in DOMAIN logged :
                     \/ i \in DOMAIN logs[LogOf(e)] /\ logged[i].event = logs[LogOf(e)][i].event
                     \/ logged[i].event = e
    BY <1>1, <2>1, <2>3, LineType
  <2> QED BY <2>2, <2>3
<1>3. \A i \in DOMAIN logged : Issued(logged[i].event) /\ LogOf(logged[i].event) = LogOf(e)
  BY <1>1, <1>2 DEF StoreTyped
<1> HIDE DEF Logs
<1> QED BY <1>1, <1>2, <1>3 DEF StoreTyped

\* Every step keeps the types: one case for each action.
LEMMA StoreTypedStep == StoreTyped /\ [StoreNext]_storeVars => StoreTyped'
<1> SUFFICES ASSUME StoreTyped, [StoreNext]_storeVars PROVE StoreTyped'
  OBVIOUS
<1>t. /\ state \in State /\ snapshot \in [text: {"empty", "cut", "whole"}, state: State]
      /\ writeChain \in Seq(StoreEvent) /\ logs \in [Logs -> Seq(Line)]
      /\ acknowledged.number \in Nat /\ created \subseteq Chats /\ rewriting \subseteq Files
  BY DEF StoreTyped, StoreTypeOK
<1>e. EmptyState \in State /\ Recovered \in State
  BY EmptyTyped, RecoveredTyped
<1>s. \A s \in State : createSnapshot(s) \in State
  BY SnapshotTyped
<1>0. /\ <<>> \in Seq(StoreEvent) /\ <<>> \in Seq(Line) /\ Len(<<>>) = 0 /\ \A i : i \notin DOMAIN <<>>
  OBVIOUS
<1>1. ASSUME NEW c \in Chats, NEW e, Operates(c, e) PROVE StoreTyped'
  BY <1>1, <1>t, AppendsTyped DEF Operates
<1>h. writeChain # <<>> => /\ Issued(Head(writeChain)) /\ Len(writeChain) \in Nat \ {0}
                           /\ Tail(writeChain) \in Seq(StoreEvent)
                           /\ Len(Tail(writeChain)) = Len(writeChain) - 1
                           /\ \A i \in DOMAIN Tail(writeChain) : Issued(Tail(writeChain)[i])
  BY <1>t, ChainSeq DEF StoreTyped
<1>p. ASSUME writeChain # <<>>, NEW logged \in PartlyAppended(logs[LogOf(Head(writeChain))], Head(writeChain)),
             logs' = [logs EXCEPT ![LogOf(Head(writeChain))] = logged]
      PROVE  /\ logs' \in [Logs -> Seq(Line)]
             /\ \A f \in Logs : \A i \in DOMAIN logs'[f] :
                   Issued(logs'[f][i].event) /\ LogOf(logs'[f][i].event) = f
  BY <1>p, <1>h, LogsTyped DEF PartlyAppended
<1>2. CASE Written
  <2> DEFINE e == Head(writeChain)
  <2>1. /\ writeChain # <<>> /\ phase = "up"
        /\ logs' = [logs EXCEPT ![LogOf(e)] = LineAppended(@, e, "whole")]
        /\ state' = applyEvent(state, e)
        /\ acknowledged' = [number |-> acknowledged.number + 1, event |-> e]
        /\ writeChain' = Tail(writeChain)
        /\ UNCHANGED <<phase, snapshot, rewriting, poisoned, created>>
    BY <1>2 DEF Written
  <2>2. Issued(e) /\ e \in StoreEvent
    BY <1>h, <2>1 DEF Issued
  <2> HIDE DEF e
  <2>3. state' \in State
    BY <1>t, <2>1, <2>2, ApplyAt
  <2>4. LogOf(e) \in Logs /\ logs' = [logs EXCEPT ![LogOf(e)] = LineAppended(logs[LogOf(e)], e, "whole")]
    BY <2>1, <1>t DEF LogOf, Logs
  <2>5. /\ logs' \in [Logs -> Seq(Line)]
        /\ \A f \in Logs : \A i \in DOMAIN logs'[f] :
              Issued(logs'[f][i].event) /\ LogOf(logs'[f][i].event) = f
    BY <2>2, <2>4, LogsTyped
  <2>6. /\ acknowledged'.number = acknowledged.number + 1 /\ acknowledged'.event = e
        /\ acknowledged'.number + Len(writeChain') <= MaxWrites
        /\ acknowledged'.number \in 0 .. MaxWrites
    BY <2>1, <1>h, <1>t, StoreConstants DEF StoreTyped
  <2>7. writeChain' \in Seq(StoreEvent) /\ \A i \in DOMAIN writeChain' : Issued(writeChain'[i])
    BY <2>1, <1>h
  <2> QED BY <2>1, <2>2, <2>3, <2>5, <2>6, <2>7 DEF StoreTyped, StoreTypeOK
<1>3. CASE WriteFails
  <2>1. /\ logs' \in [Logs -> Seq(Line)]
        /\ \A f \in Logs : \A i \in DOMAIN logs'[f] :
              Issued(logs'[f][i].event) /\ LogOf(logs'[f][i].event) = f
    BY <1>3, <1>p DEF WriteFails
  <2> QED BY <1>0, <1>3, <1>t, <2>1 DEF WriteFails, StoreTyped, StoreTypeOK
<1>4. CASE Boot
  <2>1. /\ state' \in State /\ phase' \in Phases /\ rewriting' \subseteq Files
        /\ rewriting' # {} => phase' \in {"compacting", "closing", "clearing"}
        /\ snapshot' \in [text: {"empty", "cut", "whole"}, state: State]
    <3>1. CASE snapshot.text = "cut" \/ \E f \in Logs : Corrupt(logs[f])
      BY <1>4, <1>e, <1>t, <3>1 DEF Boot, Phases
    <3>2. CASE ~(snapshot.text = "cut" \/ \E f \in Logs : Corrupt(logs[f]))
      <4>1. /\ phase = "down" /\ state' = Recovered
            /\ IF Len(logs["chats"]) + Len(logs["turns"]) >= CompactAt
               THEN StartCompaction("compacting", Recovered)
               ELSE phase' = "up" /\ UNCHANGED <<snapshot, rewriting>>
        BY <1>4, <3>2 DEF Boot
      <4>2. CASE StartCompaction("compacting", Recovered)
        <5> DEFINE kept == createSnapshot(Recovered)
        <5>1. kept \in State
          BY <1>e, <1>s
        <5>2. phase' = "compacting" /\ snapshot' = [text |-> "cut", state |-> kept] /\ rewriting' = Files
          BY <4>2 DEF StartCompaction
        <5> HIDE DEF kept
        <5> QED BY <1>e, <4>1, <5>1, <5>2 DEF Phases
      <4>3. CASE phase' = "up" /\ UNCHANGED <<snapshot, rewriting>>
        BY <1>e, <1>t, <4>1, <4>3 DEF Phases, StoreTyped, StoreTypeOK
      <4> QED BY <4>1, <4>2, <4>3
    <3> QED BY <3>1, <3>2
  <2> QED BY <1>4, <2>1, <1>t DEF Boot, StoreTyped, StoreTypeOK
<1>5. CASE Shutdown
  BY <1>5, <1>s, <1>t DEF Shutdown, StartCompaction, Phases, StoreTyped, StoreTypeOK
<1>6. CASE RewriteSnapshot
  BY <1>6, <1>e, <1>t DEF RewriteSnapshot, StoreTyped, StoreTypeOK
<1>7. ASSUME NEW f \in Logs, EmptyLog(f) PROVE StoreTyped'
  BY <1>0, <1>7, <1>t DEF EmptyLog, StoreTyped, StoreTypeOK
<1>8. CASE Rewritten
  BY <1>8, <1>e, <1>t DEF Rewritten, Phases, StoreTyped, StoreTypeOK
<1>9. CASE Crash
  <2>1. /\ logs' \in [Logs -> Seq(Line)]
        /\ \A f \in Logs : \A i \in DOMAIN logs'[f] :
              Issued(logs'[f][i].event) /\ LogOf(logs'[f][i].event) = f
    BY <1>9, <1>p DEF Crash, StoreTyped, StoreTypeOK
  <2>2. /\ phase' = "down" /\ state' \in State /\ writeChain' = <<>> /\ poisoned' = FALSE
        /\ UNCHANGED <<snapshot, rewriting, created, acknowledged>>
    BY <1>9, <1>e DEF Crash
  <2>3. rewriting' = {}
    BY <1>9, <2>2 DEF Crash, StoreTyped, StoreTypeOK
  <2>4. StoreTypeOK'
    BY <1>0, <1>t, <2>1, <2>2, <2>3 DEF Phases, StoreTyped, StoreTypeOK
  <2> QED BY <1>0, <1>t, <2>1, <2>2, <2>4 DEF StoreTyped, StoreTypeOK
<1>10. CASE UNCHANGED storeVars
  BY <1>10 DEF storeVars, StoreTyped, StoreTypeOK
<1> QED
  BY <1>1, <1>2, <1>3, <1>4, <1>5, <1>6, <1>7, <1>8, <1>9, <1>10, OperationKinds DEF StoreNext

\* Every reachable state of the store is well typed, whatever is torn or fails.
THEOREM StoreTypeCorrect == StoreSpec => []StoreTypeOK
<1>1. StoreTyped => StoreTypeOK
  BY DEF StoreTyped
<1> QED BY <1>1, StoreTypedInit, StoreTypedStep, PTL DEF StoreSpec

-----------------------------------------------------------------------------
(* The store keeps its promise *)

\* Nothing that is remembered or written is about c.
Untouched(c) ==
    /\ Unheard(state, c) /\ Unheard(snapshot.state, c)
    /\ \A f \in Logs : \A i \in DOMAIN logs[f] : logs[f][i].event.chat # c

\* A chat is created once, and nothing is done to it before.
CreatedOnce ==
    /\ \A c \in Chats \ created : Untouched(c) /\ \A i \in DOMAIN writeChain : writeChain[i].chat # c
    /\ \A i \in DOMAIN writeChain : writeChain[i].type = "chat_created" =>
          /\ Untouched(writeChain[i].chat)
          /\ \A j \in DOMAIN writeChain : writeChain[j].chat = writeChain[i].chat => j = i

\* No line is torn, and no start finds half a snapshot.
FilesAreWhole ==
    /\ \A f \in Logs : \A i \in DOMAIN logs[f] : logs[f][i].text = "whole"
    /\ phase \in {"down", "up"} => snapshot.text # "cut"

\* The files, or the state they are being rewritten from, show what there is in memory.
FilesTellAll ==
    /\ phase # "clearing"
    /\ phase = "up" => SeenAlike(Recovered, state)
    /\ phase \in {"compacting", "closing"} =>
          /\ snapshot.state = createSnapshot(state)
          /\ "snapshot" \notin rewriting => snapshot.text = "whole"
          /\ \A f \in Logs : f \in rewriting \/ logs[f] = <<>>

\* The inductive invariant behind the promise.
PromiseInv == StoreTyped /\ CreatedOnce /\ FilesAreWhole /\ FilesTellAll

\* Where every line is whole, an append is a line more.
LEMMA WholeLineAppended ==
    ASSUME NEW logged \in Seq(Line), \A i \in DOMAIN logged : logged[i].text = "whole", NEW e
    PROVE  LineAppended(logged, e, "whole") = Append(logged, [event |-> e, text |-> "whole"])
BY DEF LineAppended, Unterminated

\* Chats that nothing is written about are unheard of when the files are read.
LEMMA UntouchedUnheard ==
    ASSUME StoreTyped, NEW c \in Chats, Untouched(c)
    PROVE  /\ Unheard(Recovered, c)
           /\ Unheard(replayLog(loadSnapshot, logs["chats"]), c)
<1>1. loadSnapshot \in State /\ Unheard(loadSnapshot, c)
  BY EmptyTyped DEF loadSnapshot, StoreTyped, StoreTypeOK, Untouched, Unheard, EmptyState, NoChat
<1>2. \A f \in Logs : logs[f] \in Seq(Line)
  BY DEF StoreTyped, StoreTypeOK
<1> DEFINE first == replayLog(loadSnapshot, logs["chats"])
<1>3. first \in State /\ Unheard(first, c)
  BY <1>2, <1>1, ReplayTyped, ReplayLeaves DEF StoreTyped, Logs, Untouched
<1>4. Recovered = replayLog(first, logs["turns"])
  BY DEF Recovered
<1> HIDE DEF first
<1>5. /\ logs["turns"] \in Seq(Line)
      /\ \A i \in DOMAIN logs["turns"] : Issued(logs["turns"][i].event) /\ logs["turns"][i].event.chat # c
  BY <1>2 DEF StoreTyped, Logs, Untouched
<1> QED BY <1>3, <1>4, <1>5, ReplayLeaves DEF first

\* What the files tell when an event was written: that it was applied to what they told.
LEMMA WrittenTells ==
    ASSUME PromiseInv, NEW e, Issued(e), e.type = "chat_created" => Untouched(e.chat),
           UNCHANGED snapshot,
           logs' = [logs EXCEPT ![LogOf(e)] = LineAppended(logs[LogOf(e)], e, "whole")]
    PROVE  SeenAlike(Recovered', applyEvent(Recovered, e))
<1> DEFINE line  == [event |-> e, text |-> "whole"]
           first == replayLog(loadSnapshot, logs["chats"])
<1>1. /\ StoreTyped /\ e \in StoreEvent /\ LogOf(e) \in Logs /\ line \in Line /\ Parses(line)
      /\ line.event = e
      /\ logs \in [Logs -> Seq(Line)] /\ logs["chats"] \in Seq(Line) /\ logs["turns"] \in Seq(Line)
  BY DEF PromiseInv, Issued, LogOf, Logs, Line, Parses, StoreTyped, StoreTypeOK
<1>2. loadSnapshot \in State /\ loadSnapshot' = loadSnapshot
  BY EmptyTyped DEF loadSnapshot, PromiseInv, StoreTyped, StoreTypeOK
<1>3. LineAppended(logs[LogOf(e)], e, "whole") = Append(logs[LogOf(e)], line)
  BY <1>1, WholeLineAppended DEF PromiseInv, FilesAreWhole
<1> HIDE DEF line
<1>4. first \in State
  BY <1>1, <1>2, ReplayTyped DEF StoreTyped, Logs
<1>5. CASE LogOf(e) = "turns"
  <2>1. logs'["chats"] = logs["chats"] /\ logs'["turns"] = Append(logs["turns"], line)
    BY <1>1, <1>3, <1>5 DEF Logs
  <2>2. Recovered' = replayLog(first, Append(logs["turns"], line))
    BY <1>2, <2>1 DEF Recovered
  <2>3. replayLog(first, Append(logs["turns"], line)) = After(replayLog(first, logs["turns"]), line)
    <3> HIDE DEF first
    <3> QED BY <1>1, ReplayAppended
  <2>4. Recovered' = applyEvent(Recovered, e)
    BY <1>1, <2>2, <2>3 DEF After, Recovered
  <2> QED BY <2>4 DEF SeenAlike
<1>6. CASE LogOf(e) = "chats"
  <2>1. logs'["turns"] = logs["turns"] /\ logs'["chats"] = Append(logs["chats"], line)
    BY <1>1, <1>3, <1>6 DEF Logs
  <2>2. Recovered' = replayLog(replayLog(loadSnapshot, Append(logs["chats"], line)), logs["turns"])
    BY <1>2, <2>1 DEF Recovered
  <2>3. replayLog(loadSnapshot, Append(logs["chats"], line)) = applyEvent(first, e)
    BY <1>1, ReplayAppended DEF After
  <2>4. ProperLog(logs["turns"], "turns")
    BY <1>1 DEF ProperLog, StoreTyped, Logs
  <2>5. e.type = "chat_created" => \A i \in DOMAIN logs["turns"] : logs["turns"][i].event.chat # e.chat
    BY DEF Untouched, Logs
  <2>6. Recovered = replayLog(first, logs["turns"])
    BY DEF Recovered
  <2> HIDE DEF first
  <2>7. SeenAlike(replayLog(applyEvent(first, e), logs["turns"]), applyEvent(replayLog(first, logs["turns"]), e))
    BY <1>4, <1>6, <2>4, <2>5, ReplayedEarlier
  <2> QED BY <2>2, <2>3, <2>6, <2>7
<1> QED BY <1>1, <1>5, <1>6 DEF Logs

\* A step that hands out no id, appends nothing and writes about no new chat.
LEMMA CreatedOnceKept ==
    ASSUME StoreTyped, CreatedOnce, UNCHANGED created, writeChain' = writeChain \/ writeChain' = <<>>,
           \A c \in Chats : Untouched(c) => Untouched(c)'
    PROVE  CreatedOnce'
BY DEF StoreTyped, Issued, StoreEvent, CreatedOnce

\* While nothing touches the files, a chat that is unheard of stays untouched.
LEMMA UntouchedKept ==
    ASSUME UNCHANGED <<logs, snapshot>>, NEW c, Untouched(c), Unheard(state, c)'
    PROVE  Untouched(c)'
BY DEF Untouched, Unheard

\* The invariant holds of an empty directory.
LEMMA PromiseInit == StoreInit => PromiseInv
<1> SUFFICES ASSUME StoreInit PROVE PromiseInv
  OBVIOUS
<1>1. StoreTyped
  BY StoreTypedInit
<1>2. /\ \A f \in Logs : \A i : i \notin DOMAIN logs[f]
      /\ \A i : i \notin DOMAIN writeChain
  BY DEF StoreInit
<1>3. state = EmptyState /\ snapshot.state = EmptyState /\ snapshot.text = "empty" /\ phase = "down"
  BY DEF StoreInit
<1>4. \A c \in Chats : Untouched(c)
  BY <1>2, <1>3 DEF Unheard, EmptyState, NoChat, Untouched
<1> QED BY <1>1, <1>2, <1>3, <1>4 DEF PromiseInv, CreatedOnce, FilesAreWhole, FilesTellAll

\* An operation's event joins the chain.
LEMMA PromiseOperates ==
    ASSUME PromiseInv, NEW c \in Chats, NEW e, Operates(c, e)
    PROVE  CreatedOnce' /\ FilesAreWhole' /\ FilesTellAll'
<1>1. /\ e \in StoreEvent /\ e.chat = c /\ writeChain \in Seq(StoreEvent)
      /\ writeChain' = Append(writeChain, e)
      /\ UNCHANGED <<phase, state, logs, snapshot, rewriting>>
  BY DEF Operates, Issued, Appends, PromiseInv, StoreTyped, StoreTypeOK
<1>2. \A d : Untouched(d) <=> Untouched(d)'
  BY <1>1 DEF Untouched, Unheard
<1>3. /\ \A i \in DOMAIN writeChain' :
            (i \in DOMAIN writeChain /\ writeChain'[i] = writeChain[i]) \/ i = Len(writeChain) + 1
      /\ writeChain'[Len(writeChain) + 1] = e
  BY <1>1, ChainSeq
<1>4. /\ \A d \in Chats \ created : Untouched(d) /\ \A i \in DOMAIN writeChain : writeChain[i].chat # d
      /\ \A i \in DOMAIN writeChain : writeChain[i].type = "chat_created" =>
            /\ Untouched(writeChain[i].chat)
            /\ \A j \in DOMAIN writeChain : writeChain[j].chat = writeChain[i].chat => j = i
  BY DEF PromiseInv, CreatedOnce
<1>5. \/ e.type = "chat_created" /\ c \notin created /\ created' = created \cup {c}
      \/ e.type # "chat_created" /\ ~Untouched(c) /\ c \in created /\ created' = created
  BY <1>4 DEF Operates, Untouched
<1>6. \A d \in Chats \ created' : Untouched(d) /\ \A i \in DOMAIN writeChain' : writeChain'[i].chat # d
  BY <1>1, <1>3, <1>4, <1>5
<1>7. ASSUME NEW i \in DOMAIN writeChain', writeChain'[i].type = "chat_created"
      PROVE  /\ Untouched(writeChain'[i].chat)
             /\ \A j \in DOMAIN writeChain' : writeChain'[j].chat = writeChain'[i].chat => j = i
  <2>1. CASE i \in DOMAIN writeChain /\ writeChain'[i] = writeChain[i]
    <3>1. Untouched(writeChain[i].chat) /\ writeChain[i].chat # c
      BY <1>4, <1>5, <1>7, <2>1
    <3> QED BY <1>1, <1>3, <1>4, <1>7, <2>1, <3>1
  <2>2. CASE i = Len(writeChain) + 1
    <3>1. e.type = "chat_created" /\ c \notin created /\ writeChain'[i].chat = c
      BY <1>1, <1>3, <1>5, <1>7, <2>2
    <3>2. Untouched(c) /\ \A j \in DOMAIN writeChain : writeChain[j].chat # c
      BY <1>4, <3>1
    <3> QED BY <1>3, <2>2, <3>1, <3>2
  <2> QED BY <1>3, <2>1, <2>2
<1>8. CreatedOnce'
  BY <1>2, <1>6, <1>7 DEF CreatedOnce
<1>9. Recovered' = Recovered
  BY <1>1 DEF Recovered, loadSnapshot
<1> QED BY <1>1, <1>8, <1>9 DEF PromiseInv, FilesAreWhole, FilesTellAll

\* An event is written, applied and acknowledged.
LEMMA PromiseWritten ==
    ASSUME PromiseInv, Written
    PROVE  CreatedOnce' /\ FilesAreWhole' /\ FilesTellAll'
<1> DEFINE e == Head(writeChain)
<1>1. /\ writeChain # <<>> /\ phase = "up"
      /\ logs' = [logs EXCEPT ![LogOf(e)] = LineAppended(@, e, "whole")]
      /\ state' = applyEvent(state, e)
      /\ writeChain' = Tail(writeChain)
      /\ UNCHANGED <<phase, snapshot, rewriting, created>>
  BY DEF Written
<1>2. /\ StoreTyped /\ writeChain \in Seq(StoreEvent) /\ state \in State
      /\ logs \in [Logs -> Seq(Line)]
  BY DEF PromiseInv, StoreTyped, StoreTypeOK
<1>3. /\ 1 \in DOMAIN writeChain /\ e = writeChain[1] /\ Issued(e) /\ e \in StoreEvent /\ e.chat \in Chats
      /\ \A i \in DOMAIN writeChain' :
            i \in Nat \ {0} /\ i + 1 \in DOMAIN writeChain /\ writeChain'[i] = writeChain[i + 1]
  BY <1>1, <1>2, ChainSeq DEF StoreTyped, Issued, StoreEvent
<1>4. LogOf(e) \in Logs /\ logs' = [logs EXCEPT ![LogOf(e)] = LineAppended(logs[LogOf(e)], e, "whole")]
  BY <1>1, <1>2 DEF LogOf, Logs
<1> HIDE DEF e
<1>5. e.type = "chat_created" => Untouched(e.chat)
  BY <1>3 DEF PromiseInv, CreatedOnce
<1> DEFINE line == [event |-> e, text |-> "whole"]
<1>6. LineAppended(logs[LogOf(e)], e, "whole") = Append(logs[LogOf(e)], line)
  BY <1>2, <1>4, WholeLineAppended DEF PromiseInv, FilesAreWhole
<1>7. line.event = e /\ line.text = "whole" /\ line \in Line
  BY <1>3 DEF Line
<1> HIDE DEF line
<1>8. \A f \in Logs : \A i \in DOMAIN logs'[f] :
         logs'[f][i] = line \/ (i \in DOMAIN logs[f] /\ logs'[f][i] = logs[f][i])
  <2> SUFFICES ASSUME NEW f \in Logs, NEW i \in DOMAIN logs'[f]
               PROVE  logs'[f][i] = line \/ (i \in DOMAIN logs[f] /\ logs'[f][i] = logs[f][i])
    OBVIOUS
  <2>1. CASE f = LogOf(e)
    <3>1. logs'[f] = Append(logs[f], line) /\ logs[f] \in Seq(Line)
      BY <1>2, <1>4, <1>6, <2>1
    <3>2. Append(logs[f], line) \in Seq(Line)
      BY <1>7, <3>1
    <3> QED BY <1>7, <3>1, <3>2
  <2>2. CASE f # LogOf(e)
    BY <1>2, <1>4, <2>2
  <2> QED BY <2>1, <2>2
<1>9. ASSUME NEW d \in Chats, d # e.chat, Untouched(d) PROVE Untouched(d)'
  BY <1>1, <1>2, <1>3, <1>9, ApplyAt, <1>7, <1>8 DEF Untouched, Unheard
<1>10. CreatedOnce'
  <2>1. ASSUME NEW d \in Chats \ created
        PROVE  Untouched(d)' /\ \A i \in DOMAIN writeChain' : writeChain'[i].chat # d
    BY <1>3, <1>9 DEF PromiseInv, CreatedOnce
  <2>2. ASSUME NEW i \in DOMAIN writeChain', writeChain'[i].type = "chat_created"
        PROVE  /\ Untouched(writeChain[i].chat)'
               /\ \A j \in DOMAIN writeChain' : writeChain'[j].chat = writeChain'[i].chat => j = i
    <3>1. i \in Nat \ {0} /\ i + 1 \in DOMAIN writeChain /\ writeChain'[i] = writeChain[i + 1]
      BY <1>3
    <3>2. /\ Untouched(writeChain[i + 1].chat)
          /\ \A j \in DOMAIN writeChain : writeChain[j].chat = writeChain[i + 1].chat => j = i + 1
      BY <2>2, <3>1 DEF PromiseInv, CreatedOnce
    <3>3. writeChain[i + 1].chat # e.chat
      BY <1>3, <3>1, <3>2
    <3>4. writeChain[i + 1].chat \in Chats
      BY <1>2, <3>1 DEF StoreTyped, Issued, StoreEvent
    <3>5. Untouched(writeChain[i].chat)'
      <4> DEFINE d == writeChain[i + 1].chat
      <4>1. d \in Chats /\ d # e.chat /\ Untouched(d) /\ writeChain'[i].chat = d
        BY <3>1, <3>2, <3>3, <3>4
      <4>2. PICK x \in Chats : x = d
        BY <4>1
      <4>3. Untouched(x) /\ x # e.chat /\ writeChain'[i].chat = x
        <5> HIDE DEF d
        <5> QED BY <4>1, <4>2
      <4>4. Untouched(x)'
        BY <1>9, <4>3
      <4> QED BY <4>3, <4>4 DEF Untouched
    <3>6. ASSUME NEW j \in DOMAIN writeChain', writeChain'[j].chat = writeChain'[i].chat PROVE j = i
      BY <1>3, <3>1, <3>2, <3>6
    <3> QED BY <3>5, <3>6
  <2> QED BY <1>1, <2>1, <2>2 DEF CreatedOnce
<1>11. FilesAreWhole'
  BY <1>1, <1>7, <1>8 DEF PromiseInv, FilesAreWhole
<1>12. SeenAlike(Recovered', state')
  <2>1. SeenAlike(Recovered', applyEvent(Recovered, e))
    BY <1>1, <1>3, <1>4, <1>5, WrittenTells
  <2>2. Recovered \in State /\ SeenAlike(Recovered, state)
    BY <1>1, <1>2, RecoveredTyped DEF PromiseInv, FilesTellAll
  <2>3. e.type = "chat_created" => Recovered.queued[e.chat] = state.queued[e.chat]
    BY <1>2, <1>3, <1>5, UntouchedUnheard DEF Untouched, Unheard
  <2>4. SeenAlike(applyEvent(Recovered, e), applyEvent(state, e))
    BY <1>2, <1>3, <2>2, <2>3, AlikeAfter
  <2> QED BY <1>1, <2>1, <2>4 DEF SeenAlike
<1> QED BY <1>1, <1>10, <1>11, <1>12 DEF PromiseInv, FilesTellAll

\* A start, whose files are all readable.
LEMMA PromiseBoot ==
    ASSUME PromiseInv, Boot
    PROVE  /\ CreatedOnce' /\ FilesAreWhole' /\ FilesTellAll'
           /\ phase = "down" /\ phase' # "down" /\ state' = Recovered
<1>1. /\ phase = "down" /\ snapshot.text # "cut" /\ StoreTyped
      /\ \A f \in Logs : ~Corrupt(logs[f])
  <2>1. phase = "down"
    BY DEF Boot
  <2>2. ASSUME NEW f \in Logs PROVE ~Corrupt(logs[f])
    <3>1. logs[f] \in Seq(Line) /\ \A i \in DOMAIN logs[f] : Parses(logs[f][i])
      BY DEF PromiseInv, FilesAreWhole, StoreTyped, StoreTypeOK, Parses
    <3> DEFINE logged == logs[f]
    <3>2. logged \in Seq(Line) /\ \A i \in DOMAIN logged : Parses(logged[i])
      BY <3>1
    <3> HIDE DEF logged
    <3>3. \A i \in 1 .. Len(logged) - 1 : i \in DOMAIN logged
      BY <3>2
    <3>4. ~Corrupt(logged)
      BY <3>2, <3>3 DEF Corrupt
    <3> QED BY <3>4 DEF logged
  <2> QED BY <2>1, <2>2 DEF PromiseInv, FilesAreWhole
<1>2. /\ state' = Recovered
      /\ IF Len(logs["chats"]) + Len(logs["turns"]) >= CompactAt
         THEN StartCompaction("compacting", Recovered)
         ELSE phase' = "up" /\ UNCHANGED <<snapshot, rewriting>>
      /\ UNCHANGED <<logs, writeChain, poisoned, created, acknowledged>>
  BY <1>1 DEF Boot
<1>3. Recovered \in State
  BY <1>1, RecoveredTyped
<1>4. CASE phase' = "up" /\ UNCHANGED <<snapshot, rewriting>>
  <2>1. Recovered' = state'
    BY <1>2, <1>4 DEF Recovered, loadSnapshot
  <2>2. \A c \in Chats : Untouched(c) => Untouched(c)'
    <3> SUFFICES ASSUME NEW c \in Chats, Untouched(c) PROVE Untouched(c)'
      OBVIOUS
    <3>1. Unheard(state, c)'
      BY <1>1, <1>2, UntouchedUnheard DEF Unheard
    <3> QED BY <1>2, <1>4, <3>1, UntouchedKept
  <2>3. CreatedOnce'
    BY <1>1, <1>2, <2>2, CreatedOnceKept DEF PromiseInv
  <2> QED BY <1>1, <1>2, <1>4, <2>1, <2>3 DEF PromiseInv, FilesAreWhole, FilesTellAll, SeenAlike
<1>5. CASE StartCompaction("compacting", Recovered)
  <2>1. /\ phase' = "compacting" /\ snapshot'.state = createSnapshot(state') /\ rewriting' = Files
    BY <1>2, <1>5 DEF StartCompaction
  <2>2. \A c \in Chats : Untouched(c) => Untouched(c)'
    <3> SUFFICES ASSUME NEW c \in Chats, Untouched(c) PROVE Untouched(c)'
      OBVIOUS
    <3>1. Unheard(Recovered, c)
      BY <1>1, UntouchedUnheard
    <3>2. Unheard(createSnapshot(Recovered), c)
      BY <1>3, <3>1, SnapshotTyped
    <3> QED BY <1>2, <2>1, <3>1, <3>2 DEF Untouched, Unheard
  <2>3. CreatedOnce'
    BY <1>1, <1>2, <2>2, CreatedOnceKept DEF PromiseInv
  <2> QED BY <1>1, <1>2, <2>1, <2>3 DEF PromiseInv, FilesAreWhole, FilesTellAll, Files
<1> QED BY <1>1, <1>2, <1>4, <1>5

\* A compaction has written everything: the process goes on, or down.
LEMMA PromiseRewritten ==
    ASSUME PromiseInv, Rewritten
    PROVE  /\ CreatedOnce' /\ FilesAreWhole' /\ FilesTellAll'
           /\ phase # "down" /\ phase' \in {"up", "down"}
           /\ phase' = "up" => state' = state
           /\ SeenAlike(Recovered', state)
<1>1. /\ phase \in {"compacting", "closing"} /\ rewriting = {} /\ phase' \in {"up", "down"}
      /\ phase' = "up" => phase = "compacting" /\ state' = state
      /\ phase' = "down" => phase = "closing" /\ state' = EmptyState
      /\ UNCHANGED <<logs, snapshot, writeChain, created>>
  BY DEF Rewritten, PromiseInv, FilesTellAll
<1>2. /\ snapshot.text = "whole" /\ snapshot.state = createSnapshot(state)
      /\ logs["chats"] = <<>> /\ logs["turns"] = <<>> /\ state \in State /\ StoreTyped
  BY <1>1 DEF PromiseInv, FilesTellAll, StoreTyped, StoreTypeOK, Logs
<1>3. Recovered' = createSnapshot(state)
  BY <1>1, <1>2, ReplayNothing DEF loadSnapshot, Recovered
<1>4. SeenAlike(Recovered', state)
  BY <1>2, <1>3, SnapshotTyped
<1>5. \A c \in Chats : Untouched(c) => Untouched(c)'
  BY <1>1, UntouchedKept DEF Unheard, EmptyState, NoChat, Untouched
<1>6. CreatedOnce'
  BY <1>1, <1>2, <1>5, CreatedOnceKept DEF PromiseInv
<1>7. FilesAreWhole'
  BY <1>1, <1>2 DEF PromiseInv, FilesAreWhole
<1>8. FilesTellAll'
  BY <1>1, <1>4 DEF FilesTellAll, SeenAlike
<1> QED BY <1>1, <1>4, <1>6, <1>7, <1>8

\* Without torn writes, an append that does not complete leaves the log as it was.
LEMMA NothingTorn ==
    ASSUME "torn" \notin Faults, StoreTyped, NEW e, LogOf(e) \in Logs,
           \E logged \in PartlyAppended(logs[LogOf(e)], e) : logs' = [logs EXCEPT ![LogOf(e)] = logged]
    PROVE  logs' = logs
BY DEF PartlyAppended, StoreTyped, StoreTypeOK

\* The steps that leave the files and what is shown alone.
LEMMA PromiseQuiet ==
    ASSUME PromiseInv, UNCHANGED <<logs, snapshot, rewriting, created>>,
           \/ UNCHANGED <<phase, state>>
           \/ phase' = "down" /\ phase = "up" /\ state' = EmptyState,
           writeChain' = writeChain \/ writeChain' = <<>>
    PROVE  CreatedOnce' /\ FilesAreWhole' /\ FilesTellAll' /\ Recovered' = Recovered
<1>1. Recovered' = Recovered
  BY DEF Recovered, loadSnapshot
<1>2. \A c \in Chats : Untouched(c) => Untouched(c)'
  BY UntouchedKept DEF Unheard, EmptyState, NoChat, Untouched
<1>3. CreatedOnce'
  BY <1>2, CreatedOnceKept DEF PromiseInv
<1> QED BY <1>1, <1>3 DEF PromiseInv, FilesAreWhole, FilesTellAll, SeenAlike

\* Every step keeps the invariant: one case for each action.
LEMMA PromiseStep ==
    ASSUME "torn" \notin Faults, PromiseInv, [StoreNext]_storeVars
    PROVE  PromiseInv'
<1>t. StoreTyped /\ StoreTyped'
  BY StoreTypedStep DEF PromiseInv
<1>h. writeChain # <<>> => LogOf(Head(writeChain)) \in Logs
  BY DEF LogOf, Logs
<1> SUFFICES CreatedOnce' /\ FilesAreWhole' /\ FilesTellAll'
  BY <1>t DEF PromiseInv
<1>0. /\ state \in State /\ snapshot \in [text: {"empty", "cut", "whole"}, state: State]
      /\ logs \in [Logs -> Seq(Line)]
      /\ rewriting # {} => phase \in {"compacting", "closing"}
      /\ phase # "clearing"
  BY <1>t DEF PromiseInv, FilesTellAll, StoreTyped, StoreTypeOK
<1>1. ASSUME NEW c \in Chats, NEW e, Operates(c, e) PROVE CreatedOnce' /\ FilesAreWhole' /\ FilesTellAll'
  BY <1>1, PromiseOperates
<1>2. CASE Written
  BY <1>2, PromiseWritten
<1>3. CASE WriteFails
  BY <1>3, <1>h, <1>t, NothingTorn, PromiseQuiet DEF WriteFails
<1>4. CASE Boot
  BY <1>4, PromiseBoot
<1>5. CASE Shutdown
  <2>1. /\ phase' = "closing" /\ snapshot'.state = createSnapshot(state') /\ rewriting' = Files
        /\ UNCHANGED <<state, logs, writeChain, created>>
    BY <1>5 DEF Shutdown, StartCompaction
  <2>2. \A c \in Chats : Untouched(c) => Untouched(c)'
    <3> SUFFICES ASSUME NEW c \in Chats, Untouched(c) PROVE Untouched(c)'
      OBVIOUS
    <3>1. Unheard(state, c)
      BY DEF Untouched
    <3>2. Unheard(createSnapshot(state), c)
      BY <1>0, <3>1, SnapshotTyped
    <3> QED BY <2>1, <3>1, <3>2 DEF Untouched, Unheard
  <2>3. CreatedOnce'
    BY <1>t, <2>1, <2>2, CreatedOnceKept DEF PromiseInv
  <2> QED BY <2>1, <2>3 DEF PromiseInv, FilesAreWhole, FilesTellAll, Files
<1>6. CASE RewriteSnapshot
  <2>1. /\ snapshot'.text = "whole" /\ snapshot'.state = snapshot.state
        /\ rewriting' = rewriting \ {"snapshot"} /\ phase \in {"compacting", "closing"}
        /\ UNCHANGED <<phase, state, logs, writeChain, created>>
    BY <1>0, <1>6 DEF RewriteSnapshot
  <2>2. \A c \in Chats : Untouched(c) => Untouched(c)'
    BY <2>1 DEF Untouched, Unheard
  <2>3. CreatedOnce'
    BY <1>t, <2>1, <2>2, CreatedOnceKept DEF PromiseInv
  <2>4. "snapshot" \notin Logs
    BY DEF Logs
  <2> QED BY <2>1, <2>3, <2>4 DEF PromiseInv, FilesAreWhole, FilesTellAll
<1>7. ASSUME NEW f \in Logs, EmptyLog(f) PROVE CreatedOnce' /\ FilesAreWhole' /\ FilesTellAll'
  <2>1. /\ "snapshot" \notin rewriting /\ logs' = [logs EXCEPT ![f] = <<>>]
        /\ rewriting' = rewriting \ {f} /\ phase \in {"compacting", "closing"}
        /\ UNCHANGED <<phase, state, snapshot, writeChain, created>>
    BY <1>0, <1>7 DEF EmptyLog
  <2>2. /\ logs'[f] = <<>> /\ \A i : i \notin DOMAIN logs'[f]
        /\ \A g \in Logs \ {f} : logs'[g] = logs[g]
    BY <1>0, <2>1
  <2>3. \A c \in Chats : Untouched(c) => Untouched(c)'
    BY <2>1, <2>2 DEF Untouched, Unheard
  <2>4. CreatedOnce'
    BY <1>t, <2>1, <2>3, CreatedOnceKept DEF PromiseInv
  <2> QED BY <2>1, <2>2, <2>4 DEF PromiseInv, FilesAreWhole, FilesTellAll
<1>8. CASE Rewritten
  BY <1>8, PromiseRewritten
<1>9. CASE Crash
  BY <1>9, <1>h, <1>t, NothingTorn, PromiseQuiet DEF Crash
<1>10. CASE UNCHANGED storeVars
  BY <1>10, PromiseQuiet DEF storeVars
<1> QED
  BY <1>1, <1>2, <1>3, <1>4, <1>5, <1>6, <1>7, <1>8, <1>9, <1>10, OperationKinds DEF StoreNext

\* What an event makes of the chats that are shown.
LEMMA VisibleAfter ==
    ASSUME NEW s \in State, NEW e, Issued(e)
    PROVE  /\ DOMAIN Visible(s) = {d \in Chats : Live(s, d)}
           /\ DOMAIN Visible(applyEvent(s, e)) = {d \in Chats : Live(applyEvent(s, e), d)}
           /\ \A d \in Chats : d # e.chat =>
                 /\ Live(applyEvent(s, e), d) <=> Live(s, d)
                 /\ Live(s, d) => Visible(applyEvent(s, e))[d] = Visible(s)[d]
           /\ Live(s, e.chat) =>
                 Visible(s)[e.chat] = [outcome |-> s.chatsById[e.chat].outcome, queued |-> s.queued[e.chat]]
           /\ Live(applyEvent(s, e), e.chat) =>
                 Visible(applyEvent(s, e))[e.chat] =
                     [outcome |-> ChatAfter(s.chatsById[e.chat], e).outcome,
                      queued  |-> QueueAfter(s.queued[e.chat], s.chatsById[e.chat], e)]
           /\ Live(applyEvent(s, e), e.chat) <=> ChatAfter(s.chatsById[e.chat], e).life = "live"
<1> DEFINE t == applyEvent(s, e)
<1>1. \A c \in Chats :
         /\ t.chatsById[c] = IF c = e.chat THEN ChatAfter(s.chatsById[c], e) ELSE s.chatsById[c]
         /\ t.queued[c] = IF c = e.chat THEN QueueAfter(s.queued[c], s.chatsById[c], e) ELSE s.queued[c]
  BY ApplyAt
<1>2. e.chat \in Chats
  BY DEF Issued, StoreEvent
<1> HIDE DEF t
<1>3. \A x \in {s, t} :
         /\ DOMAIN Visible(x) = {d \in Chats : Live(x, d)}
         /\ \A d \in Chats : Live(x, d) =>
               Visible(x)[d] = [outcome |-> x.chatsById[d].outcome, queued |-> x.queued[d]]
  BY DEF Visible
<1>4. \A d \in Chats : d # e.chat => t.chatsById[d] = s.chatsById[d] /\ t.queued[d] = s.queued[d]
  BY <1>1
<1>5. \A d \in Chats : d # e.chat => (Live(t, d) <=> Live(s, d))
  BY <1>4 DEF Live
<1>6. \A d \in Chats : d # e.chat => (Live(s, d) => Visible(t)[d] = Visible(s)[d])
  BY <1>3, <1>4, <1>5
<1>7. Live(t, e.chat) <=> ChatAfter(s.chatsById[e.chat], e).life = "live"
  BY <1>1, <1>2 DEF Live
<1>8. Live(t, e.chat) =>
         Visible(t)[e.chat] = [outcome |-> ChatAfter(s.chatsById[e.chat], e).outcome,
                               queued  |-> QueueAfter(s.queued[e.chat], s.chatsById[e.chat], e)]
  BY <1>1, <1>2, <1>3
<1> QED BY <1>2, <1>3, <1>5, <1>6, <1>7, <1>8 DEF t

\* A written event does to the chats shown what its operation promises.
LEMMA WrittenPromised ==
    ASSUME PromiseInv, Written
    PROVE  Promise!DurableNext
<1> DEFINE e == Head(writeChain)
           v == Visible(state)
           w == Visible(applyEvent(state, e))
<1>1. /\ writeChain # <<>> /\ phase = "up" /\ phase' = "up"
      /\ state' = applyEvent(state, e)
      /\ acknowledged' = [number |-> acknowledged.number + 1, event |-> e]
  BY DEF Written
<1>2. state \in State /\ writeChain \in Seq(StoreEvent)
  BY DEF PromiseInv, StoreTyped, StoreTypeOK
<1>3. 1 \in DOMAIN writeChain /\ e = writeChain[1] /\ Issued(e)
  BY <1>1, <1>2, ChainSeq DEF PromiseInv, StoreTyped
<1> HIDE DEF e
<1>4. e.type = "chat_created" => Unheard(state, e.chat)
  BY <1>3 DEF PromiseInv, CreatedOnce, Untouched
<1>5. /\ e.chat \in Chats /\ e = [type |-> e.type, chat |-> e.chat, arg |-> e.arg]
      /\ e.type \in {"chat_created", "chat_deleted", "chat_read_state_set", "turn_ended",
                     "chat_turn_queued", "chat_queued_turn_cleared"}
  BY <1>3 DEF Issued, StoreEvent
<1>6. Shown = v /\ Shown' = w
  BY <1>1 DEF Shown, Visible, Live
<1> DEFINE c == e.chat
           x == state.chatsById[c]
           q == state.queued[c]
<1>7. x \in ChatRecord /\ q \in Seq(Messages)
  BY <1>2, <1>5 DEF State
<1>8. /\ DOMAIN v = {d \in Chats : Live(state, d)}
      /\ \A d \in Chats : d # c => /\ d \in DOMAIN w <=> d \in DOMAIN v
                                   /\ d \in DOMAIN v => w[d] = v[d]
      /\ DOMAIN w \subseteq Chats /\ DOMAIN v \subseteq Chats
      /\ c \in DOMAIN v <=> x.life = "live"
      /\ c \in DOMAIN v => v[c] = [outcome |-> x.outcome, queued |-> q]
      /\ c \in DOMAIN w <=> ChatAfter(x, e).life = "live"
      /\ c \in DOMAIN w => w[c] = [outcome |-> ChatAfter(x, e).outcome, queued |-> QueueAfter(q, x, e)]
  <2> DEFINE t == applyEvent(state, e)
  <2>1. /\ DOMAIN v = {d \in Chats : Live(state, d)} /\ DOMAIN w = {d \in Chats : Live(t, d)}
        /\ \A d \in Chats : d # c => /\ Live(t, d) <=> Live(state, d)
                                     /\ Live(state, d) => w[d] = v[d]
        /\ Live(state, c) => v[c] = [outcome |-> x.outcome, queued |-> q]
        /\ Live(t, c) => w[c] = [outcome |-> ChatAfter(x, e).outcome, queued |-> QueueAfter(q, x, e)]
        /\ Live(t, c) <=> ChatAfter(x, e).life = "live"
    <3>1. \A r \in State : \A f : Issued(f) =>
             /\ DOMAIN Visible(r) = {d \in Chats : Live(r, d)}
             /\ DOMAIN Visible(applyEvent(r, f)) = {d \in Chats : Live(applyEvent(r, f), d)}
             /\ \A d \in Chats : d # f.chat =>
                   /\ Live(applyEvent(r, f), d) <=> Live(r, d)
                   /\ Live(r, d) => Visible(applyEvent(r, f))[d] = Visible(r)[d]
             /\ Live(r, f.chat) =>
                   Visible(r)[f.chat] = [outcome |-> r.chatsById[f.chat].outcome, queued |-> r.queued[f.chat]]
             /\ Live(applyEvent(r, f), f.chat) =>
                   Visible(applyEvent(r, f))[f.chat] =
                       [outcome |-> ChatAfter(r.chatsById[f.chat], f).outcome,
                        queued  |-> QueueAfter(r.queued[f.chat], r.chatsById[f.chat], f)]
             /\ Live(applyEvent(r, f), f.chat) <=> ChatAfter(r.chatsById[f.chat], f).life = "live"
      BY VisibleAfter, Zenon
    <3>2. DOMAIN v = {d \in Chats : Live(state, d)}
      BY <1>2, <1>3, <3>1
    <3>3. DOMAIN w = {d \in Chats : Live(t, d)}
      BY <1>2, <1>3, <3>1
    <3>4. \A d \in Chats : d # c => (Live(t, d) <=> Live(state, d))
      BY <1>2, <1>3, <3>1
    <3>5. \A d \in Chats : d # c => (Live(state, d) => w[d] = v[d])
      BY <1>2, <1>3, <3>1
    <3>6. Live(state, c) => v[c] = [outcome |-> x.outcome, queued |-> q]
      BY <1>5 DEF Visible
    <3>7. Live(t, c) => w[c] = [outcome |-> ChatAfter(x, e).outcome, queued |-> QueueAfter(q, x, e)]
      BY <1>2, <1>3, <3>1
    <3>8. Live(t, c) <=> ChatAfter(x, e).life = "live"
      BY <1>2, <1>3, <3>1
    <3> QED BY <3>2, <3>3, <3>4, <3>5, <3>6, <3>7, <3>8
  <2>2. c \in Chats /\ (Live(state, c) <=> x.life = "live")
    BY <1>5 DEF Live
  <2> HIDE DEF v, w, x, q, c, t
  <2> QED BY <2>1, <2>2
<1>9. v = [d \in DOMAIN v |-> v[d]] /\ w = [d \in DOMAIN w |-> w[d]]
  BY DEF Visible
<1>10. Promise!Acknowledge(e.type, c, e.arg)
  BY <1>1, <1>5 DEF Promise!Acknowledge
<1> HIDE DEF v, w, x, q, c
<1>11. CASE e.type = "chat_created"
  <2>1. x.life = "none" /\ q = <<>> /\ e.arg = "none"
    BY <1>3, <1>4, <1>11 DEF Unheard, Issued, x, q, c
  <2>2. /\ ChatAfter(x, e).life = "live" /\ ChatAfter(x, e).outcome = "none" /\ QueueAfter(q, x, e) = q
    BY <1>3, <1>7, <1>11, ChatAfterIs, QueueAfterIs
  <2>3. /\ c \notin DOMAIN v /\ DOMAIN w = DOMAIN v \cup {c}
        /\ w[c] = [outcome |-> "none", queued |-> <<>>]
        /\ \A d \in DOMAIN v : w[d] = v[d]
    BY <1>8, <2>1, <2>2
  <2>4. w = [d \in DOMAIN v \cup {c} |->
                IF d = c THEN [outcome |-> "none", queued |-> <<>>] ELSE v[d]]
    BY <1>9, <2>3
  <2>5. Promise!Create(c)
    BY <1>6, <1>10, <1>11, <2>1, <2>3, <2>4 DEF Promise!Create
  <2> QED BY <1>5, <2>5 DEF Promise!DurableNext, c
<1>12. CASE e.type = "chat_deleted"
  <2>1. ChatAfter(x, e).life # "live" /\ e.arg = "none"
    BY <1>3, <1>7, <1>12, ChatAfterIs DEF Issued
  <2>2. DOMAIN w = DOMAIN v \ {c} /\ \A d \in DOMAIN w : w[d] = v[d]
    BY <1>8, <2>1
  <2>3. w = [d \in DOMAIN v \ {c} |-> v[d]]
    BY <1>9, <2>2
  <2>4. Promise!Delete(c)
    BY <1>6, <1>10, <1>12, <2>1, <2>3 DEF Promise!Delete
  <2> QED BY <1>5, <2>4 DEF Promise!DurableNext, c
<1>13. CASE e.type = "chat_read_state_set"
  <2>1. /\ e.arg = "none" /\ ChatAfter(x, e).life = x.life /\ ChatAfter(x, e).outcome = x.outcome
        /\ QueueAfter(q, x, e) = q
    BY <1>3, <1>7, <1>13, ChatAfterIs, QueueAfterIs DEF Issued
  <2>2. DOMAIN w = DOMAIN v /\ \A d \in DOMAIN v : w[d] = v[d]
    BY <1>8, <2>1
  <2>3. w = v
    BY <1>9, <2>2
  <2>4. Promise!MarkRead(c)
    BY <1>6, <1>10, <1>13, <2>1, <2>3 DEF Promise!MarkRead
  <2> QED BY <1>5, <2>4 DEF Promise!DurableNext, c
<1>14. CASE e.type = "turn_ended"
  <2>1. /\ e.arg \in Promise!Outcomes /\ ChatAfter(x, e).life = x.life
        /\ x.life = "live" => ChatAfter(x, e).outcome = e.arg
        /\ QueueAfter(q, x, e) = q
    BY <1>3, <1>7, <1>14, ChatAfterIs, QueueAfterIs DEF Issued, Outcomes, Promise!Outcomes
  <2>2. /\ DOMAIN w = DOMAIN v
        /\ c \in DOMAIN v => w[c] = [v[c] EXCEPT !.outcome = e.arg]
        /\ \A d \in DOMAIN v : d # c => w[d] = v[d]
    BY <1>8, <2>1
  <2>3. w = [d \in DOMAIN v |-> IF d = c THEN [v[d] EXCEPT !.outcome = e.arg] ELSE v[d]]
    BY <1>9, <2>2
  <2>4. Promise!EndTurn(c, e.arg)
    BY <1>6, <1>10, <1>14, <2>3 DEF Promise!EndTurn
  <2> QED BY <1>5, <2>1, <2>4 DEF Promise!DurableNext, c
<1>15. CASE e.type = "chat_turn_queued"
  <2>1. /\ e.arg \in Messages /\ ChatAfter(x, e).life = x.life /\ ChatAfter(x, e).outcome = x.outcome
        /\ QueueAfter(q, x, e) = Append(q, e.arg)
    BY <1>3, <1>7, <1>15, ChatAfterIs, QueueAfterIs DEF Issued
  <2>2. /\ DOMAIN w = DOMAIN v
        /\ c \in DOMAIN v => w[c] = [v[c] EXCEPT !.queued = Append(@, e.arg)]
        /\ \A d \in DOMAIN v : d # c => w[d] = v[d]
    <3>1. DOMAIN w = DOMAIN v /\ \A d \in DOMAIN v : d # c => w[d] = v[d]
      BY <1>8, <2>1
    <3>2. c \in DOMAIN v => /\ v[c] = [outcome |-> x.outcome, queued |-> q]
                            /\ w[c] = [outcome |-> x.outcome, queued |-> Append(q, e.arg)]
      BY <1>8, <2>1, <3>1
    <3> QED BY <3>1, <3>2
  <2>3. w = [d \in DOMAIN v |-> IF d = c THEN [v[d] EXCEPT !.queued = Append(@, e.arg)] ELSE v[d]]
    BY <1>9, <2>2
  <2>4. Promise!Enqueue(c, e.arg)
    BY <1>6, <1>10, <1>15, <2>3 DEF Promise!Enqueue
  <2> QED BY <1>5, <2>1, <2>4 DEF Promise!DurableNext, c
<1>16. CASE e.type = "chat_queued_turn_cleared"
  <2>1. /\ e.arg = "none" /\ ChatAfter(x, e).life = x.life /\ ChatAfter(x, e).outcome = x.outcome
        /\ QueueAfter(q, x, e) = <<>>
    BY <1>3, <1>7, <1>16, ChatAfterIs, QueueAfterIs DEF Issued
  <2>2. /\ DOMAIN w = DOMAIN v
        /\ c \in DOMAIN v => w[c] = [v[c] EXCEPT !.queued = <<>>]
        /\ \A d \in DOMAIN v : d # c => w[d] = v[d]
    <3>1. DOMAIN w = DOMAIN v /\ \A d \in DOMAIN v : d # c => w[d] = v[d]
      BY <1>8, <2>1
    <3>2. c \in DOMAIN v => /\ v[c] = [outcome |-> x.outcome, queued |-> q]
                            /\ w[c] = [outcome |-> x.outcome, queued |-> <<>>]
      BY <1>8, <2>1, <3>1
    <3> QED BY <3>1, <3>2
  <2>3. w = [d \in DOMAIN v |-> IF d = c THEN [v[d] EXCEPT !.queued = <<>>] ELSE v[d]]
    BY <1>9, <2>2
  <2>4. Promise!ClearQueue(c)
    BY <1>6, <1>10, <1>16, <2>1, <2>3 DEF Promise!ClearQueue
  <2> QED BY <1>5, <2>4 DEF Promise!DurableNext, c
<1> QED BY <1>5, <1>11, <1>12, <1>13, <1>14, <1>15, <1>16

\* No other step shows.
LEMMA OthersShowNothing ==
    ASSUME "torn" \notin Faults, PromiseInv, [StoreNext]_storeVars, ~Written
    PROVE  UNCHANGED <<Shown, acknowledged>>
<1>t. StoreTyped
  BY DEF PromiseInv
<1>0. rewriting # {} => phase # "down"
  BY <1>t DEF StoreTyped, StoreTypeOK
<1>h. writeChain # <<>> => LogOf(Head(writeChain)) \in Logs
  BY DEF LogOf, Logs
<1>s. ASSUME UNCHANGED state, phase # "down", phase' # "down" PROVE Shown' = Shown
  BY <1>s DEF Shown, Visible, Live
<1>r. ASSUME UNCHANGED <<state, phase, logs, snapshot>> PROVE Shown' = Shown
  BY <1>r DEF Recovered, loadSnapshot, Shown, Visible, Live
<1>d. ASSUME phase' = "down", phase # "down", SeenAlike(Recovered', state) PROVE Shown' = Shown
  <2> DEFINE r == Recovered'
  <2>1. Shown' = Visible(r) /\ Shown = Visible(state)
    BY <1>d DEF Shown, Visible, Live
  <2>2. SeenAlike(r, state)
    BY <1>d
  <2> HIDE DEF r
  <2> QED BY <2>1, <2>2, AlikeVisible
<1>1. ASSUME NEW c \in Chats, NEW e, Operates(c, e) PROVE UNCHANGED <<Shown, acknowledged>>
  BY <1>1, <1>r DEF Operates, Appends
<1>3. CASE WriteFails
  BY <1>3, <1>h, <1>t, NothingTorn, <1>r DEF WriteFails
<1>4. CASE Boot
  BY <1>4, PromiseBoot DEF Shown, Visible, Live, Boot
<1>5. CASE Shutdown
  BY <1>5, <1>s DEF Shutdown, StartCompaction
<1>6. CASE RewriteSnapshot
  BY <1>0, <1>6, <1>s DEF RewriteSnapshot
<1>7. ASSUME NEW f \in Logs, EmptyLog(f) PROVE UNCHANGED <<Shown, acknowledged>>
  BY <1>0, <1>7, <1>s DEF EmptyLog
<1>8. CASE Rewritten
  BY <1>8, PromiseRewritten, <1>d, <1>s DEF Rewritten
<1>9. CASE Crash
  BY <1>9, <1>h, <1>t, NothingTorn, <1>d DEF Crash, Recovered, loadSnapshot, PromiseInv, FilesTellAll, SeenAlike
<1>10. CASE UNCHANGED storeVars
  BY <1>10, <1>r DEF storeVars
<1> QED
  BY <1>1, <1>3, <1>4, <1>5, <1>6, <1>7, <1>8, <1>9, <1>10, OperationKinds DEF StoreNext

\* Without torn writes, the store implements DurableStore: through crashes, restarts,
\* replays, compactions and failed writes, what a reader would find changes only by the
\* operation whose caller is resumed, and by what that operation promises.
THEOREM StoreImplementsPromise ==
    ASSUME "torn" \notin Faults
    PROVE  StoreSpec => StoreKeepsPromise
<1>1. StoreInit => Promise!DurableInit
  <2> SUFFICES ASSUME StoreInit PROVE Promise!DurableInit
    OBVIOUS
  <2>1. Recovered = EmptyState
    BY ReplayNothing DEF StoreInit, Recovered, loadSnapshot, Logs
  <2>2. {d \in Chats : Live(EmptyState, d)} = {}
    BY DEF Live, EmptyState, NoChat
  <2>3. Shown = [c \in {} |-> c]
    BY <2>1, <2>2 DEF StoreInit, Shown, Visible
  <2> QED BY <2>3 DEF StoreInit, Promise!DurableInit
<1>2. PromiseInv /\ [StoreNext]_storeVars => [Promise!DurableNext]_Promise!promise
  BY WrittenPromised, OthersShowNothing DEF Promise!promise
<1>3. StoreInit => PromiseInv
  BY PromiseInit
<1>4. PromiseInv /\ [StoreNext]_storeVars => PromiseInv'
  BY PromiseStep
<1> QED BY <1>1, <1>2, <1>3, <1>4, PTL DEF StoreSpec, StoreKeepsPromise, Promise!DurableSpec

-----------------------------------------------------------------------------
(* Sandboxes *)

SandboxOps == {"create", "start", "stop", "destroy"}
SandboxCall == [n: Nat, op: SandboxOps, at: 1..4, id: Nat, containerId: Nat, failed: BOOLEAN]
SandboxTyped ==
    /\ container \in [of: Nat, state: {"none", "created", "running", "stopped"}]
    /\ sandbox \in [id: Nat, containerId: Nat, status: {"none", "creating", "running", "stopped", "error"}]
    /\ sandboxCalls \subseteq SandboxCall
    /\ asked \in [calls: Nat, deaths: Nat]
    /\ cutShort \subseteq Nat /\ mixed \in BOOLEAN

\* A command's sandbox has the container of its number; a create's are its own.
CallFits(call) ==
    /\ call.at <= Len(Steps(call.op)) /\ call.n \in 1..asked.calls
    /\ call.id = call.containerId /\ call.id \in 1..asked.calls
    /\ call.op = "create" => call.id = call.n
    /\ call.failed => call.op = "create" /\ call.at > 2 /\ call.id \in cutShort

Creates(call) == call.op = "create"

\* Nobody but its create knows of a container before it is recorded.
CreateIsAlone(call) ==
    Creates(call) =>
        /\ \A other \in sandboxCalls : other # call => other.id # call.id /\ ~Creates(other)
        /\ call.at = 1 => container.of # call.id
        /\ call.at > 1 => container.of = call.id
        /\ call.at < 3 => sandbox.id # call.id
        /\ call.at > 2 => sandbox.id = call.id /\ sandbox.containerId = Nobody

SandboxInv ==
    /\ SandboxTyped
    /\ {container.of, sandbox.id} \cup cutShort \subseteq 0..asked.calls
    /\ sandbox.containerId \in {Nobody, sandbox.id}
    /\ \A call \in sandboxCalls : CallFits(call) /\ CreateIsAlone(call)
    /\ \A call, other \in sandboxCalls : call.n = other.n => call = other
    /\ \A call \in sandboxCalls : call.op = "destroy" /\ call.at = 2 => container.of # call.id
    /\ container.of = Nobody <=> container = NoContainer
    /\ container.of \in {Nobody, sandbox.containerId} \cup cutShort
          \/ \E call \in sandboxCalls : Creates(call) /\ call.at > 1 /\ call.id = container.of

\* What the record says is so.
RecordIsTrue ==
    /\ sandbox.status \in {"running", "stopped"} =>
           container = [of |-> sandbox.containerId, state |-> sandbox.status] /\ sandbox.containerId # Nobody
    /\ sandbox.status \notin {"running", "stopped"} => sandbox.containerId = Nobody
    /\ sandbox.status = "none" => container.of \in {Nobody} \cup cutShort
    /\ sandbox.status # "creating"

\* How far the one command under way has got with it.
CommandIsTrue(call) ==
    /\ call.op = "create" =>
          /\ call.at = 1 => RecordIsTrue
          /\ call.at = 2 => sandbox.status \in {"none", "error"} /\ sandbox.containerId = Nobody
          /\ call.at > 2 => sandbox.status = "creating"
          /\ call.at = 4 /\ ~call.failed => container.state = "running"
    /\ call.op # "create" =>
          /\ sandbox.id = call.id /\ sandbox.containerId = call.id
          /\ call.at = 1 => RecordIsTrue
          /\ sandbox.status \in {"running", "stopped"}
    /\ call.op = "start" /\ call.at = 2 => container = [of |-> call.id, state |-> "running"]
    /\ call.op = "stop" /\ call.at = 2 => container = [of |-> call.id, state |-> "stopped"]
    /\ call.op = "destroy" /\ call.at = 2 => container = NoContainer

PlainInv ==
    ~mixed =>
        /\ \A call, other \in sandboxCalls : call = other
        /\ sandboxCalls = {} => RecordIsTrue
        /\ \A call \in sandboxCalls : CommandIsTrue(call)

\* The steps of the four commands.
LEMMA StepsOf ==
    ASSUME NEW call \in SandboxCall, CallFits(call)
    PROVE  /\ call.op = "create" => Len(Steps(call.op)) = 4
           /\ call.op # "create" => Len(Steps(call.op)) = 2
           /\ call.failed => Step(call) = "sandbox_error"
           /\ ~call.failed =>
                 /\ call.op = "create" /\ call.at = 1 => Step(call) = "create"
                 /\ call.op = "create" /\ call.at = 2 => Step(call) = "sandbox_created"
                 /\ call.op = "create" /\ call.at = 3 => Step(call) = "start"
                 /\ call.op = "create" /\ call.at = 4 => Step(call) = "sandbox_started"
                 /\ call.op = "start" /\ call.at = 1 => Step(call) = "start"
                 /\ call.op = "start" /\ call.at = 2 => Step(call) = "sandbox_started"
                 /\ call.op = "stop" /\ call.at = 1 => Step(call) = "stop"
                 /\ call.op = "stop" /\ call.at = 2 => Step(call) = "sandbox_stopped"
                 /\ call.op = "destroy" /\ call.at = 1 => Step(call) = "rm"
                 /\ call.op = "destroy" /\ call.at = 2 => Step(call) = "sandbox_destroyed"
<1>1. call.op \in SandboxOps /\ call.at \in 1..4 /\ call.failed \in BOOLEAN
  BY DEF SandboxCall
<1>2. CASE call.op = "create"
  BY <1>1, <1>2 DEF Steps, Step
<1>3. CASE call.op = "start"
  BY <1>1, <1>3 DEF Steps, Step, CallFits
<1>4. CASE call.op = "stop"
  BY <1>1, <1>4 DEF Steps, Step, CallFits
<1>5. CASE call.op = "destroy"
  BY <1>1, <1>5 DEF Steps, Step, CallFits
<1> QED BY <1>1, <1>2, <1>3, <1>4, <1>5 DEF SandboxOps

\* What becomes of a command after a step: it goes on, records its failure or is over.
GoesTo(call, ok) ==
    IF ok /\ ~call.failed /\ call.at < Len(Steps(call.op)) THEN {[call EXCEPT !.at = @ + 1]}
    ELSE IF ~ok /\ InTry(call) /\ ~call.failed THEN {[call EXCEPT !.failed = TRUE]} ELSE {}

\* A sandbox command that goes on is the same command, one step further or failed.
LEMMA NextCall ==
    ASSUME NEW call \in SandboxCall, CallFits(call), NEW ok \in BOOLEAN, NEW next \in GoesTo(call, ok)
    PROVE  /\ next \in SandboxCall /\ next.n = call.n /\ next.op = call.op
           /\ next.id = call.id /\ next.containerId = call.containerId
           /\ ~call.failed
           /\ \/ ok /\ next.at = call.at + 1 /\ ~next.failed /\ next.at <= Len(Steps(next.op))
              \/ ~ok /\ call.op = "create" /\ call.at > 2 /\ next.at = call.at /\ next.failed
<1>1. call.op \in SandboxOps /\ call.at \in 1..4 /\ call.failed \in BOOLEAN
  BY DEF SandboxCall
<1>2. Len(Steps(call.op)) \in {2, 4}
  BY StepsOf
<1>3. CASE ok /\ ~call.failed /\ call.at < Len(Steps(call.op))
  <2>1. next = [call EXCEPT !.at = @ + 1]
    BY <1>3 DEF GoesTo
  <2>2. call.at + 1 \in 1..4
    <3>1. PICK len \in {2, 4} : len = Len(Steps(call.op))
      BY <1>2
    <3>2. call.at < len
      BY <1>3, <3>1
    <3> QED BY <1>1, <3>2
  <2>3. next \in SandboxCall /\ next.at = call.at + 1
    <3> DEFINE at == call.at + 1
    <3>2. next = [call EXCEPT !.at = at] /\ at \in 1..4
      BY <2>1, <2>2
    <3> HIDE DEF at
    <3>3. next \in SandboxCall /\ next.at = at
      BY <3>2 DEF SandboxCall
    <3> QED BY <3>3 DEF at
  <2>4. /\ next.n = call.n /\ next.op = call.op /\ next.id = call.id /\ next.containerId = call.containerId
        /\ next.failed = call.failed
    BY <2>1 DEF SandboxCall
  <2> QED BY <1>1, <1>2, <1>3, <2>3, <2>4
<1>4. CASE ~(ok /\ ~call.failed /\ call.at < Len(Steps(call.op)))
  BY <1>4 DEF GoesTo, SandboxCall, InTry
<1> QED BY <1>3, <1>4

\* A step of a command leaves the others, and what it leaves of itself fits.
LEMMA CallsGoOn ==
    ASSUME SandboxInv, NEW call \in sandboxCalls, NEW ok \in BOOLEAN, Goes(call, ok),
           asked' = asked, cutShort' = IF ok THEN cutShort ELSE cutShort \cup Loses(call)
    PROVE  /\ sandboxCalls' = (sandboxCalls \ {call}) \cup GoesTo(call, ok)
           /\ sandboxCalls' \subseteq SandboxCall
           /\ \A d \in sandboxCalls' : CallFits(d)'
           /\ \A d, e \in sandboxCalls' : d.n = e.n => d = e
           /\ \A d \in sandboxCalls' \ sandboxCalls : d \in GoesTo(call, ok)
           /\ \A d \in sandboxCalls' : d \in sandboxCalls => d # call
           /\ cutShort \subseteq cutShort' /\ cutShort' \subseteq 0..asked.calls
<1>t. /\ sandboxCalls \subseteq SandboxCall /\ \A d \in sandboxCalls : CallFits(d) /\ CreateIsAlone(d)
      /\ \A d, e \in sandboxCalls : d.n = e.n => d = e
      /\ cutShort \subseteq 0..asked.calls /\ asked.calls \in Nat
  BY DEF SandboxInv, SandboxTyped
<1>1. sandboxCalls' = (sandboxCalls \ {call}) \cup GoesTo(call, ok)
  BY DEF Goes, GoesTo
<1>n. ASSUME NEW next \in GoesTo(call, ok)
      PROVE  /\ next \in SandboxCall /\ next.n = call.n /\ next.op = call.op
             /\ next.id = call.id /\ next.containerId = call.containerId
             /\ ~call.failed
             /\ \/ ok /\ next.at = call.at + 1 /\ ~next.failed /\ next.at <= Len(Steps(next.op))
                \/ ~ok /\ call.op = "create" /\ call.at > 2 /\ next.at = call.at /\ next.failed
  BY <1>t, NextCall
<1>m. \A d, e \in GoesTo(call, ok) : d = e
  BY DEF GoesTo
<1>2. cutShort \subseteq cutShort' /\ cutShort' \subseteq 0..asked.calls
  <2>1. call.containerId \in 0..asked.calls
    BY <1>t DEF CallFits
  <2> QED BY <1>t, <2>1 DEF Loses
<1>3. \A d \in sandboxCalls' : CallFits(d)'
  <2> TAKE d \in sandboxCalls'
  <2>1. CASE d \in sandboxCalls
    BY <2>1, <1>t, <1>2 DEF CallFits
  <2>2. CASE d \in GoesTo(call, ok)
    <3>1. CallFits(call) /\ call.at <= Len(Steps(call.op))
      BY <1>t DEF CallFits
    <3>2. ~ok /\ call.op = "create" /\ call.at > 2 => call.id \in cutShort'
      <4>1. call.at \in 1..4 /\ call.id = call.containerId
        BY <1>t, <3>1 DEF CallFits, SandboxCall
      <4> QED BY <4>1 DEF Loses
    <3>3. d.failed => d.op = "create" /\ d.at > 2 /\ d.id \in cutShort'
      <4>1. /\ d.op = call.op /\ d.id = call.id
            /\ \/ ~d.failed
               \/ ~ok /\ call.op = "create" /\ call.at > 2 /\ d.at = call.at
        BY <2>2, <1>n
      <4> QED BY <4>1, <3>2
    <3>4. d.at <= Len(Steps(d.op))
      BY <2>2, <1>n, <3>1
    <3> QED BY <2>2, <1>n, <3>1, <3>3, <3>4 DEF CallFits
  <2> QED BY <1>1, <2>1, <2>2
<1>4. \A d, e \in sandboxCalls' : d.n = e.n => d = e
  <2> TAKE d, e \in sandboxCalls'
  <2> HAVE d.n = e.n
  <2>1. CASE d \in GoesTo(call, ok) /\ e \in GoesTo(call, ok)
    BY <2>1, <1>m
  <2>2. CASE d \in sandboxCalls \ {call} /\ e \in sandboxCalls \ {call}
    BY <2>2, <1>t
  <2>3. CASE d \in sandboxCalls \ {call} /\ e \in GoesTo(call, ok)
    BY <2>3, <1>t, <1>n
  <2>4. CASE d \in GoesTo(call, ok) /\ e \in sandboxCalls \ {call}
    BY <2>4, <1>t, <1>n
  <2> QED BY <1>1, <2>1, <2>2, <2>3, <2>4
<1>5. call \notin GoesTo(call, ok)
  BY <1>t, <1>n DEF SandboxCall
<1> QED BY <1>1, <1>2, <1>3, <1>4, <1>5, <1>n, <1>t

\* What docker runs for which command, and what it makes of the container.
LEMMA DockerDoes ==
    ASSUME SandboxInv, NEW call \in sandboxCalls, NEW ok \in BOOLEAN, DockerRuns(call, ok)
    PROVE  /\ ~call.failed
           /\ \/ call.op = "create" /\ call.at \in {1, 3}
              \/ call.op # "create" /\ call.at = 1
           /\ ok => /\ call.op = "create" /\ call.at = 1 => container = NoContainer
                    /\ call.op \in {"start", "stop"} \/ (call.op = "create" /\ call.at = 3) => container.of = call.id
           /\ ~ok => container' = container
           /\ ok /\ call.op = "create" /\ call.at = 1 => container' = [of |-> call.id, state |-> "created"]
           /\ ok /\ (call.op = "start" \/ (call.op = "create" /\ call.at = 3)) =>
                 container' = [container EXCEPT !.state = "running"]
           /\ ok /\ call.op = "stop" => container' = [container EXCEPT !.state = "stopped"]
           /\ ok /\ call.op = "destroy" => container' = IF container.of = call.id THEN NoContainer ELSE container
<1>t. /\ sandboxCalls \subseteq SandboxCall /\ \A d \in sandboxCalls : CallFits(d) /\ CreateIsAlone(d)
      /\ cutShort \subseteq 0..asked.calls /\ asked.calls \in Nat
      /\ container \in [of: Nat, state: {"none", "created", "running", "stopped"}]
      /\ container.of \in 0..asked.calls
      /\ \A d \in sandboxCalls : d.op = "destroy" /\ d.at = 2 => container.of # d.id
      /\ container.of = Nobody <=> container = NoContainer
  BY DEF SandboxInv, SandboxTyped
<1>c. call \in SandboxCall /\ CallFits(call) /\ call.id \in 1..asked.calls /\ call.id = call.containerId
      /\ call.at \in 1..4 /\ call.op \in SandboxOps
  BY <1>t DEF CallFits, SandboxCall
<1>s. /\ ~call.failed
      /\ \/ call.op = "create" /\ call.at \in {1, 3}
         \/ call.op # "create" /\ call.at = 1
  <2>1. Step(call) \in Docker
    BY DEF DockerRuns
  <2>2. /\ ~call.failed
        /\ call.op = "create" => call.at \notin {2, 4}
        /\ call.op # "create" => call.at # 2
    BY <1>c, <2>1, StepsOf DEF Docker, SandboxOps
  <2>3. call.op # "create" => call.at <= 2
    BY <1>c, StepsOf DEF CallFits
  <2> QED BY <1>c, <2>2, <2>3
<1>k. /\ ok => /\ call.op = "create" /\ call.at = 1 => container = NoContainer
               /\ call.op \in {"start", "stop"} \/ (call.op = "create" /\ call.at = 3) => container.of = call.id
      /\ ~ok => container' = container
      /\ ok /\ call.op = "create" /\ call.at = 1 => container' = [of |-> call.id, state |-> "created"]
      /\ ok /\ (call.op = "start" \/ (call.op = "create" /\ call.at = 3)) =>
            container' = [container EXCEPT !.state = "running"]
      /\ ok /\ call.op = "stop" => container' = [container EXCEPT !.state = "stopped"]
      /\ ok /\ call.op = "destroy" => container' = IF container.of = call.id THEN NoContainer ELSE container
  <2>1. CASE call.op = "create" /\ call.at = 1
    <3>1. Step(call) = "create"
      BY <2>1, <1>c, <1>s, StepsOf
    <3>2. /\ ok => container = NoContainer /\ container' = [of |-> call.id, state |-> "created"]
          /\ ~ok => container' = container
      BY <3>1, <1>c DEF DockerRuns
    <3> QED BY <2>1, <3>2
  <2>2. CASE call.op = "start" \/ (call.op = "create" /\ call.at = 3)
    <3>1. Step(call) = "start"
      BY <2>2, <1>c, <1>s, StepsOf
    <3>2. /\ ok => container.of = call.id /\ container' = [container EXCEPT !.state = "running"]
          /\ ~ok => container' = container
      BY <3>1, <1>c DEF DockerRuns
    <3> QED BY <2>2, <3>2
  <2>3. CASE call.op = "stop"
    <3>1. Step(call) = "stop"
      BY <2>3, <1>c, <1>s, StepsOf
    <3>2. /\ ok => container.of = call.id /\ container' = [container EXCEPT !.state = "stopped"]
          /\ ~ok => container' = container
      BY <3>1, <1>c DEF DockerRuns
    <3> QED BY <2>3, <3>2
  <2>4. CASE call.op = "destroy"
    <3>1. Step(call) = "rm"
      BY <2>4, <1>c, <1>s, StepsOf
    <3>2. /\ ok => container' = IF container.of = call.id THEN NoContainer ELSE container
          /\ ~ok => container' = container
      BY <3>1, <1>c DEF DockerRuns
    <3> QED BY <2>4, <3>2
  <2> QED BY <2>1, <2>2, <2>3, <2>4, <1>c, <1>s DEF SandboxOps
<1> QED BY <1>s, <1>k

\* Docker runs a step of a command.
LEMMA DockerKeeps ==
    ASSUME SandboxInv, NEW call \in sandboxCalls, NEW ok \in BOOLEAN, DockerRuns(call, ok)
    PROVE  SandboxInv'
<1>t. /\ sandboxCalls \subseteq SandboxCall /\ \A d \in sandboxCalls : CallFits(d) /\ CreateIsAlone(d)
      /\ cutShort \subseteq 0..asked.calls /\ asked.calls \in Nat
      /\ container \in [of: Nat, state: {"none", "created", "running", "stopped"}]
      /\ container.of \in 0..asked.calls
      /\ \A d \in sandboxCalls : d.op = "destroy" /\ d.at = 2 => container.of # d.id
      /\ container.of = Nobody <=> container = NoContainer
  BY DEF SandboxInv, SandboxTyped
<1>c. call \in SandboxCall /\ CallFits(call) /\ call.id \in 1..asked.calls /\ call.id = call.containerId
      /\ call.at \in 1..4 /\ call.op \in SandboxOps
  BY <1>t DEF CallFits, SandboxCall
<1>s. /\ ~call.failed
      /\ \/ call.op = "create" /\ call.at \in {1, 3}
         \/ call.op # "create" /\ call.at = 1
      /\ ok => /\ call.op = "create" /\ call.at = 1 => container = NoContainer
               /\ call.op \in {"start", "stop"} \/ (call.op = "create" /\ call.at = 3) => container.of = call.id
      /\ ~ok => container' = container
      /\ ok /\ call.op = "create" /\ call.at = 1 => container' = [of |-> call.id, state |-> "created"]
      /\ ok /\ (call.op = "start" \/ (call.op = "create" /\ call.at = 3)) =>
            container' = [container EXCEPT !.state = "running"]
      /\ ok /\ call.op = "stop" => container' = [container EXCEPT !.state = "stopped"]
      /\ ok /\ call.op = "destroy" => container' = IF container.of = call.id THEN NoContainer ELSE container
  BY DockerDoes
<1>u. /\ UNCHANGED <<sandbox, asked, mixed>> /\ Goes(call, ok)
      /\ cutShort' = IF ok THEN cutShort ELSE cutShort \cup Loses(call)
  BY DEF DockerRuns
<1>g. /\ sandboxCalls' = (sandboxCalls \ {call}) \cup GoesTo(call, ok)
      /\ sandboxCalls' \subseteq SandboxCall
      /\ \A d \in sandboxCalls' : CallFits(d)'
      /\ \A d, e \in sandboxCalls' : d.n = e.n => d = e
      /\ \A d \in sandboxCalls' \ sandboxCalls : d \in GoesTo(call, ok)
      /\ \A d \in sandboxCalls' : d \in sandboxCalls => d # call
      /\ cutShort \subseteq cutShort' /\ cutShort' \subseteq 0..asked.calls
  BY <1>u, CallsGoOn
<1>n. ASSUME NEW next \in GoesTo(call, ok)
      PROVE  /\ next \in SandboxCall /\ next.n = call.n /\ next.op = call.op
             /\ next.id = call.id /\ next.containerId = call.containerId
             /\ ~call.failed
             /\ \/ ok /\ next.at = call.at + 1 /\ ~next.failed /\ next.at <= Len(Steps(next.op))
                \/ ~ok /\ call.op = "create" /\ call.at > 2 /\ next.at = call.at /\ next.failed
  BY <1>c, NextCall
\* The container is another only where the command made it or removed it.
<1>o. /\ container' \in [of: Nat, state: {"none", "created", "running", "stopped"}]
      /\ container'.of = container.of
            \/ (ok /\ call.op = "create" /\ call.at = 1 /\ container'.of = call.id)
            \/ (ok /\ call.op = "destroy" /\ container'.of = Nobody /\ container.of = call.id)
      /\ container'.of = Nobody <=> container' = NoContainer
  <2>1. CASE ~ok
    BY <2>1, <1>s, <1>t
  <2>2. CASE ok /\ call.op = "create" /\ call.at = 1
    BY <2>2, <1>s, <1>c DEF Nobody, NoContainer
  <2>3. CASE ok /\ (call.op \in {"start", "stop"} \/ (call.op = "create" /\ call.at = 3))
    <3>1. PICK now \in {"running", "stopped"} : container' = [container EXCEPT !.state = now]
      BY <2>3, <1>s
    <3>2. container.of = call.id
      BY <2>3, <1>s
    <3> QED BY <3>1, <3>2, <1>c, <1>t DEF Nobody, NoContainer
  <2>4. CASE ok /\ call.op = "destroy"
    BY <2>4, <1>s, <1>t DEF Nobody, NoContainer
  <2> QED BY <2>1, <2>2, <2>3, <2>4, <1>c, <1>s DEF SandboxOps
<1>1. SandboxTyped'
  BY <1>u, <1>g, <1>o DEF SandboxInv, SandboxTyped
<1>2. {container'.of, sandbox'.id} \cup cutShort' \subseteq 0..asked'.calls
  BY <1>u, <1>g, <1>o, <1>t, <1>c DEF SandboxInv, Nobody
<1>3. \A d \in sandboxCalls' : CreateIsAlone(d)'
  <2> SUFFICES ASSUME NEW d \in sandboxCalls', Creates(d)
               PROVE  /\ \A other \in sandboxCalls' : other # d => other.id # d.id /\ ~Creates(other)
                      /\ d.at = 1 => container'.of # d.id
                      /\ d.at > 1 => container'.of = d.id
                      /\ d.at < 3 => sandbox.id # d.id
                      /\ d.at > 2 => sandbox.id = d.id /\ sandbox.containerId = Nobody
    BY <1>u DEF CreateIsAlone, Creates
  <2>1. CASE d \in sandboxCalls
    <3>1. /\ \A other \in sandboxCalls : other # d => other.id # d.id /\ ~Creates(other)
          /\ d.at = 1 => container.of # d.id
          /\ d.at > 1 => container.of = d.id
          /\ d.at < 3 => sandbox.id # d.id
          /\ d.at > 2 => sandbox.id = d.id /\ sandbox.containerId = Nobody
      BY <2>1, <1>t DEF CreateIsAlone
    <3>2. d # call /\ call.id # d.id /\ ~Creates(call)
      BY <2>1, <3>1, <1>g
    <3>3. \A other \in sandboxCalls' : other # d => other.id # d.id /\ ~Creates(other)
      BY <3>1, <3>2, <1>g, <1>n DEF Creates
    <3>4. d.id >= 1 /\ d.id \in Nat /\ d.at \in 1..4
      BY <2>1, <1>t DEF CallFits, SandboxCall
    <3>5. (container'.of = d.id) <=> (container.of = d.id)
      BY <3>2, <3>4, <1>o DEF Creates, Nobody
    <3> QED BY <3>1, <3>3, <3>5
  <2>2. CASE d \notin sandboxCalls
    <3>1. d \in GoesTo(call, ok)
      BY <2>2, <1>g
    <3>2. Creates(call) /\ d.id = call.id
      BY <3>1, <1>n DEF Creates
    <3>3. /\ \A other \in sandboxCalls : other # call => other.id # call.id /\ ~Creates(other)
          /\ call.at > 1 => container.of = call.id
          /\ call.at < 3 => sandbox.id # call.id
          /\ call.at > 2 => sandbox.id = call.id /\ sandbox.containerId = Nobody
      BY <3>2, <1>t DEF CreateIsAlone
    <3>4. \A other \in sandboxCalls' : other # d => other.id # d.id /\ ~Creates(other)
      <4> TAKE other \in sandboxCalls'
      <4> HAVE other # d
      <4>1. other \in sandboxCalls /\ other # call
        BY <3>1, <1>g DEF GoesTo
      <4> QED BY <4>1, <3>2, <3>3
    <3>5. CASE call.at = 1
      BY <3>5, <3>1, <1>n, <3>2, <1>s, <3>3, <3>4 DEF Creates
    <3>6. CASE call.at = 3
      BY <3>6, <3>1, <1>n, <3>2, <3>3, <1>o, <3>4 DEF Creates
    <3> QED BY <3>2, <3>5, <3>6, <1>s DEF Creates
  <2> QED BY <2>1, <2>2
<1>4. \A d \in sandboxCalls' : d.op = "destroy" /\ d.at = 2 => container'.of # d.id
  <2> TAKE d \in sandboxCalls'
  <2> HAVE d.op = "destroy" /\ d.at = 2
  <2>1. CASE d \in sandboxCalls
    BY <2>1, <1>t, <1>g, <1>o DEF CallFits, CreateIsAlone, Creates, Nobody
  <2>2. CASE d \notin sandboxCalls
    BY <2>2, <1>g, <1>n, <1>s, <1>c DEF NoContainer, Nobody
  <2> QED BY <2>1, <2>2
<1>5. \/ container'.of \in {Nobody, sandbox'.containerId} \cup cutShort'
      \/ \E d \in sandboxCalls' : Creates(d) /\ d.at > 1 /\ d.id = container'.of
  <2>1. CASE ok /\ call.op = "create" /\ call.at = 1
    <3> DEFINE next == [call EXCEPT !.at = @ + 1]
    <3>1. next \in GoesTo(call, ok)
      <4>1. Len(Steps(call.op)) = 4
        BY <2>1, <1>c, StepsOf
      <4>2. ~call.failed
        BY <1>s
      <4> QED BY <2>1, <4>1, <4>2 DEF GoesTo
    <3> HIDE DEF next
    <3>2. next.op = "create" /\ next.id = call.id /\ next.at = 2
      <4>1. next.op = call.op /\ next.id = call.id /\ (next.at = call.at + 1 \/ ~ok)
        BY <3>1, <1>n
      <4> QED BY <4>1, <2>1
    <3>3. container'.of = call.id
      BY <2>1, <1>s
    <3>4. Creates(next) /\ next.at > 1 /\ next.id = container'.of /\ next \in sandboxCalls'
      BY <3>1, <3>2, <3>3, <1>g DEF Creates
    <3> QED BY <3>4
  <2>2. CASE container'.of = Nobody
    BY <2>2
  <2>3. CASE container'.of = container.of
    <3>1. CASE container.of \in {Nobody, sandbox.containerId} \cup cutShort
      BY <2>3, <3>1, <1>u, <1>g
    <3>2. ASSUME NEW d \in sandboxCalls, Creates(d), d.at > 1, d.id = container.of
          PROVE  \/ container'.of \in {Nobody, sandbox'.containerId} \cup cutShort'
                 \/ \E e \in sandboxCalls' : Creates(e) /\ e.at > 1 /\ e.id = container'.of
      <4>1. CASE d # call
        BY <3>2, <4>1, <2>3, <1>g
      <4>2. CASE d = call /\ ~ok
        BY <3>2, <4>2, <2>3, <1>u, <1>c DEF Loses, Creates
      <4>3. CASE d = call /\ ok
        <5> DEFINE next == [call EXCEPT !.at = @ + 1]
        <5>1. call.at = 3 /\ Len(Steps(call.op)) = 4
          BY <3>2, <4>3, <1>s, <1>c, StepsOf DEF Creates
        <5>2. next \in GoesTo(call, ok)
          BY <4>3, <5>1, <1>s DEF GoesTo
        <5> HIDE DEF next
        <5>3. Creates(next) /\ next.at > 1 /\ next.id = container'.of /\ next \in sandboxCalls'
          <6>1. next.op = call.op /\ next.id = call.id /\ (next.at = call.at + 1 \/ ~ok)
            BY <5>2, <1>n
          <6>2. next.op = "create" /\ next.id = call.id /\ next.at = 4
            BY <6>1, <5>1, <3>2, <4>3 DEF Creates
          <6>3. next.id = container'.of
            BY <6>1, <3>2, <4>3, <2>3
          <6>4. next \in sandboxCalls'
            BY <5>2, <1>g
          <6>5. Creates(next) /\ next.at > 1
            BY <6>2 DEF Creates
          <6> QED BY <6>3, <6>4, <6>5
        <5> QED BY <5>3
      <4> QED BY <4>1, <4>2, <4>3
    <3> QED BY <3>1, <3>2 DEF SandboxInv
  <2> QED BY <2>1, <2>2, <2>3, <1>o
<1> QED BY <1>1, <1>2, <1>3, <1>4, <1>5, <1>g, <1>o, <1>u DEF SandboxInv

\* A command is taken on.
LEMMA AskKeeps ==
    ASSUME SandboxInv, NEW op \in SandboxOps, Ask(op)
    PROVE  SandboxInv'
<1>t. /\ sandboxCalls \subseteq SandboxCall /\ \A d \in sandboxCalls : CallFits(d) /\ CreateIsAlone(d)
      /\ \A d, e \in sandboxCalls : d.n = e.n => d = e
      /\ cutShort \subseteq 0..asked.calls /\ asked \in [calls: Nat, deaths: Nat]
      /\ container.of \in 0..asked.calls /\ sandbox.id \in 0..asked.calls
      /\ sandbox.containerId \in {Nobody, sandbox.id}
  BY DEF SandboxInv, SandboxTyped
<1> DEFINE number == asked.calls + 1
           id == IF op = "create" THEN number ELSE sandbox.id
           its == IF op = "create" THEN number ELSE sandbox.containerId
           new == [n |-> number, op |-> op, at |-> 1, id |-> id, containerId |-> its, failed |-> FALSE]
<1>1. /\ asked' = [asked EXCEPT !.calls = number] /\ number \in Nat /\ asked'.calls = number
      /\ asked.calls \in Nat /\ asked.calls < number /\ number \in 1..number
  BY <1>t DEF Ask
<1>2. /\ sandboxCalls' = sandboxCalls \cup {new} /\ \A d \in sandboxCalls : d.op # op
      /\ op # "create" => sandbox.containerId # Nobody
      /\ UNCHANGED <<container, sandbox, cutShort>> /\ mixed' = (mixed \/ sandboxCalls # {})
  BY <1>1 DEF Ask
<1>3. id = its /\ id \in 1..number /\ id \in Nat
  BY <1>1, <1>2, <1>t DEF Nobody
<1> HIDE DEF number, id, its
<1>4. new \in SandboxCall
  BY <1>1, <1>3 DEF SandboxCall
<1>5. /\ new.n = number /\ new.op = op /\ new.at = 1 /\ new.id = id /\ new.containerId = id /\ ~new.failed
  BY <1>3
<1>6. op = "create" => id = number
  BY DEF id
<1>7. op # "create" => id = sandbox.id /\ sandbox.containerId # Nobody
  BY <1>2 DEF id
<1> HIDE DEF new
<1>8. 1 <= Len(Steps(op))
  BY DEF Steps, SandboxOps
<1>9. SandboxTyped'
  BY <1>1, <1>t, <1>2, <1>4 DEF SandboxInv, SandboxTyped
<1>10. {container'.of, sandbox'.id} \cup cutShort' \subseteq 0..asked'.calls
  BY <1>1, <1>2, <1>t
<1>11. \A d \in sandboxCalls' : CallFits(d)'
  <2> TAKE d \in sandboxCalls'
  <2>1. CASE d \in sandboxCalls
    BY <2>1, <1>t, <1>1, <1>2 DEF CallFits
  <2>2. CASE d = new
    BY <2>2, <1>1, <1>3, <1>5, <1>6, <1>8 DEF CallFits
  <2> QED BY <2>1, <2>2, <1>2
<1>12. \A d \in sandboxCalls' : CreateIsAlone(d)'
  <2> SUFFICES ASSUME NEW d \in sandboxCalls', Creates(d)
               PROVE  /\ \A other \in sandboxCalls' : other # d => other.id # d.id /\ ~Creates(other)
                      /\ d.at = 1 => container.of # d.id
                      /\ d.at > 1 => container.of = d.id
                      /\ d.at < 3 => sandbox.id # d.id
                      /\ d.at > 2 => sandbox.id = d.id /\ sandbox.containerId = Nobody
    BY <1>2 DEF CreateIsAlone, Creates
  <2>1. CASE d \in sandboxCalls
    <3>1. /\ \A other \in sandboxCalls : other # d => other.id # d.id /\ ~Creates(other)
          /\ d.at = 1 => container.of # d.id
          /\ d.at > 1 => container.of = d.id
          /\ d.at < 3 => sandbox.id # d.id
          /\ d.at > 2 => sandbox.id = d.id /\ sandbox.containerId = Nobody
      BY <2>1, <1>t DEF CreateIsAlone
    <3>2. op # "create" /\ d.at \in 1..4
      BY <2>1, <1>2, <1>t DEF Creates, SandboxCall
    <3>3. new.id # d.id /\ ~Creates(new)
      BY <3>1, <3>2, <1>5, <1>7 DEF Creates
    <3> QED BY <3>1, <3>3, <1>2
  <2>2. CASE d = new
    BY <2>2, <1>5, <1>6, <1>t, <1>1, <1>2 DEF Creates, CallFits
  <2> QED BY <2>1, <2>2, <1>2
<1>13. \A d, e \in sandboxCalls' : d.n = e.n => d = e
  <2>1. \A d \in sandboxCalls : d.n # new.n
    <3> TAKE d \in sandboxCalls
    <3>1. d.n \in 1..asked.calls
      BY <1>t DEF CallFits
    <3> QED BY <3>1, <1>1, <1>5
  <2> QED BY <2>1, <1>2, <1>t
<1>14. \A d \in sandboxCalls' : d.op = "destroy" /\ d.at = 2 => container'.of # d.id
  BY <1>2, <1>5 DEF SandboxInv
<1>15. \/ container'.of \in {Nobody, sandbox'.containerId} \cup cutShort'
       \/ \E d \in sandboxCalls' : Creates(d) /\ d.at > 1 /\ d.id = container'.of
  BY <1>2 DEF SandboxInv
<1>16. sandbox'.containerId \in {Nobody, sandbox'.id} /\ (container'.of = Nobody <=> container' = NoContainer)
  BY <1>2 DEF SandboxInv
<1> QED BY <1>9, <1>10, <1>11, <1>12, <1>13, <1>14, <1>15, <1>16 DEF SandboxInv

\* The hub dies: what its commands had made without its being recorded is cut short.
LEMMA DeathKeeps ==
    ASSUME SandboxInv, HubDies
    PROVE  SandboxInv'
<1>t. /\ sandboxCalls \subseteq SandboxCall /\ \A d \in sandboxCalls : CallFits(d)
      /\ cutShort \subseteq 0..asked.calls /\ asked \in [calls: Nat, deaths: Nat]
      /\ {container.of, sandbox.id} \subseteq 0..asked.calls
  BY DEF SandboxInv, SandboxTyped
<1>1. /\ asked' = [asked EXCEPT !.deaths = @ + 1] /\ sandboxCalls' = {}
      /\ cutShort' = cutShort \cup UNION {Loses(call) : call \in sandboxCalls}
      /\ UNCHANGED <<container, sandbox>> /\ mixed' \in BOOLEAN
  BY DEF HubDies
<1>2. asked'.calls = asked.calls /\ asked' \in [calls: Nat, deaths: Nat]
  BY <1>1, <1>t
<1>3. \A call \in sandboxCalls : Loses(call) \subseteq 0..asked.calls
  BY <1>t DEF Loses, CallFits
<1>4. cutShort' \subseteq 0..asked.calls
  BY <1>1, <1>3, <1>t
<1>5. SandboxTyped'
  BY <1>1, <1>2, <1>4, <1>t DEF SandboxInv, SandboxTyped
<1>6. container'.of \in {Nobody, sandbox'.containerId} \cup cutShort'
  <2>1. CASE container.of \in {Nobody, sandbox.containerId} \cup cutShort
    BY <2>1, <1>1
  <2>2. ASSUME NEW call \in sandboxCalls, Creates(call), call.at > 1, call.id = container.of
        PROVE  container.of \in cutShort'
    <3>1. container.of \in Loses(call)
      BY <2>2, <1>t DEF Loses, Creates, CallFits
    <3> QED BY <3>1, <1>1
  <2> QED BY <2>1, <2>2, <1>1 DEF SandboxInv
<1> QED BY <1>1, <1>2, <1>4, <1>5, <1>6, <1>t DEF SandboxInv

\* An append is made or lost, and the store's map follows.
LEMMA RecordedKeeps ==
    ASSUME SandboxInv, NEW call \in sandboxCalls, NEW ok \in BOOLEAN, Recorded(call, ok)
    PROVE  SandboxInv'
<1>t. /\ sandboxCalls \subseteq SandboxCall /\ \A d \in sandboxCalls : CallFits(d) /\ CreateIsAlone(d)
      /\ cutShort \subseteq 0..asked.calls /\ asked.calls \in Nat
      /\ sandbox \in [id: Nat, containerId: Nat, status: {"none", "creating", "running", "stopped", "error"}]
      /\ {container.of, sandbox.id} \subseteq 0..asked.calls
      /\ sandbox.containerId \in {Nobody, sandbox.id}
      /\ \A d \in sandboxCalls : d.op = "destroy" /\ d.at = 2 => container.of # d.id
      /\ mixed \in BOOLEAN
  BY DEF SandboxInv, SandboxTyped
<1>c. /\ call \in SandboxCall /\ CallFits(call) /\ call.id \in 1..asked.calls /\ call.id = call.containerId
      /\ call.at \in 1..4 /\ call.op \in SandboxOps /\ call.failed \in BOOLEAN
      /\ call.failed => call.op = "create" /\ call.at > 2 /\ call.id \in cutShort
  BY <1>t DEF CallFits, SandboxCall
<1>u. /\ UNCHANGED <<container, asked>> /\ Goes(call, ok) /\ mixed' = (mixed \/ ~ok)
      /\ cutShort' = IF ok THEN cutShort ELSE cutShort \cup Loses(call)
  BY DEF Recorded
<1>s. /\ call.failed => Step(call) = "sandbox_error"
      /\ ~call.failed => (call.op = "create" /\ call.at \in {2, 4}) \/ (call.op # "create" /\ call.at = 2)
  <2>1. Step(call) \notin Docker
    BY DEF Recorded
  <2>2. ~call.failed => /\ call.op = "create" => call.at \notin {1, 3}
                        /\ call.op # "create" => call.at # 1
    BY <1>c, <2>1, StepsOf DEF Docker, SandboxOps
  <2>3. call.op # "create" => call.at <= 2
    BY <1>c, StepsOf DEF CallFits
  <2>4. call.failed => Step(call) = "sandbox_error"
    BY <1>c, StepsOf
  <2>5. ~call.failed /\ call.op = "create" => call.at \in {2, 4}
    BY <1>c, <2>2
  <2>6. ~call.failed /\ call.op # "create" => call.at = 2
    BY <1>c, <2>2, <2>3
  <2> QED BY <2>4, <2>5, <2>6
\* What the append does to the record, where it is made and is of this sandbox.
<1>k. \/ sandbox' = sandbox
      \/ /\ ok /\ ~call.failed /\ call.op = "create" /\ call.at = 2
         /\ sandbox' = [id |-> call.id, containerId |-> Nobody, status |-> "creating"]
      \/ /\ sandbox.id = call.id /\ ~call.failed /\ ((call.op = "create" /\ call.at = 4) \/ call.op = "start")
         /\ sandbox' = [sandbox EXCEPT !.containerId = call.id, !.status = "running"]
      \/ /\ sandbox.id = call.id /\ (call.failed \/ call.op = "stop")
         /\ \E s \in {"error", "stopped"} : sandbox' = [sandbox EXCEPT !.status = s]
      \/ sandbox.id = call.id /\ call.op = "destroy" /\ call.at = 2 /\ sandbox' = NoSandbox
  <2>1. CASE call.failed
    <3>1. sandbox' = sandbox \/ (sandbox.id = call.id /\ sandbox' = [sandbox EXCEPT !.status = "error"])
      BY <2>1, <1>s DEF Recorded, findSandboxById, SandboxAfter
    <3> QED BY <3>1, <2>1
  <2>2. CASE ~call.failed /\ call.op = "create" /\ call.at = 2
    <3>1. Step(call) = "sandbox_created"
      BY <2>2, <1>c, StepsOf
    <3>2. \/ sandbox' = sandbox
          \/ ok /\ sandbox' = [id |-> call.id, containerId |-> Nobody, status |-> "creating"]
      BY <3>1 DEF Recorded, findSandboxById, SandboxAfter
    <3> QED BY <3>2, <2>2
  <2>3. CASE ~call.failed /\ ((call.op = "create" /\ call.at = 4) \/ call.op = "start")
    <3>1. Step(call) = "sandbox_started"
      BY <2>3, <1>c, <1>s, StepsOf
    <3>2. \/ sandbox' = sandbox
          \/ sandbox.id = call.id /\ sandbox' = [sandbox EXCEPT !.containerId = call.id, !.status = "running"]
      BY <3>1, <1>c DEF Recorded, findSandboxById, SandboxAfter
    <3> QED BY <3>2, <2>3
  <2>4. CASE ~call.failed /\ call.op = "stop"
    <3>1. Step(call) = "sandbox_stopped"
      BY <2>4, <1>c, <1>s, StepsOf
    <3>2. sandbox' = sandbox \/ (sandbox.id = call.id /\ sandbox' = [sandbox EXCEPT !.status = "stopped"])
      BY <3>1 DEF Recorded, findSandboxById, SandboxAfter
    <3> QED BY <3>2, <2>4
  <2>5. CASE ~call.failed /\ call.op = "destroy"
    <3>1. Step(call) = "sandbox_destroyed" /\ call.at = 2
      BY <2>5, <1>c, <1>s, StepsOf
    <3>2. sandbox' = sandbox \/ (sandbox.id = call.id /\ sandbox' = NoSandbox)
      BY <3>1 DEF Recorded, findSandboxById, SandboxAfter
    <3> QED BY <3>1, <3>2, <2>5
  <2> QED BY <2>1, <2>2, <2>3, <2>4, <2>5, <1>c, <1>s DEF SandboxOps
<1>g. /\ sandboxCalls' = (sandboxCalls \ {call}) \cup GoesTo(call, ok)
      /\ sandboxCalls' \subseteq SandboxCall
      /\ \A d \in sandboxCalls' : CallFits(d)'
      /\ \A d, e \in sandboxCalls' : d.n = e.n => d = e
      /\ \A d \in sandboxCalls' \ sandboxCalls : d \in GoesTo(call, ok)
      /\ \A d \in sandboxCalls' : d \in sandboxCalls => d # call
      /\ cutShort \subseteq cutShort' /\ cutShort' \subseteq 0..asked.calls
  BY <1>u, CallsGoOn
<1>n. ASSUME NEW next \in GoesTo(call, ok)
      PROVE  /\ next \in SandboxCall /\ next.n = call.n /\ next.op = call.op
             /\ next.id = call.id /\ next.containerId = call.containerId
             /\ ~call.failed
             /\ \/ ok /\ next.at = call.at + 1 /\ ~next.failed /\ next.at <= Len(Steps(next.op))
                \/ ~ok /\ call.op = "create" /\ call.at > 2 /\ next.at = call.at /\ next.failed
  BY <1>c, NextCall
\* A create that is recorded goes on, one that started is over or records its error.
<1>e. ASSUME NEW next \in GoesTo(call, ok), call.op = "create"
      PROVE  (ok /\ call.at = 2 /\ next.at = 3) \/ (~ok /\ call.at = 4 /\ next.at = 4)
  <2>1. ~call.failed /\ next.op = call.op /\ Len(Steps(call.op)) = 4
    BY <1>e, <1>n, <1>c, StepsOf
  <2>2. \/ ok /\ next.at = call.at + 1 /\ next.at <= 4
        \/ ~ok /\ call.at > 2 /\ next.at = call.at
    BY <2>1, <1>n
  <2>3. call.at \in {2, 4}
    BY <2>1, <1>e, <1>s
  <2> QED BY <2>2, <2>3
<1>o. /\ sandbox' \in [id: Nat, containerId: Nat, status: {"none", "creating", "running", "stopped", "error"}]
      /\ sandbox'.id \in 0..asked.calls /\ sandbox'.containerId \in {Nobody, sandbox'.id}
      /\ sandbox'.id \in {call.id, sandbox.id, Nobody}
      /\ sandbox.id # call.id /\ ~(call.op = "create" /\ call.at = 2) => sandbox' = sandbox
  <2>0. call.id \in Nat /\ call.id \in 0..asked.calls
    BY <1>c
  <2>1. CASE sandbox' = sandbox
    BY <2>1, <1>t
  <2>2. CASE /\ ok /\ ~call.failed /\ call.op = "create" /\ call.at = 2
             /\ sandbox' = [id |-> call.id, containerId |-> Nobody, status |-> "creating"]
    BY <2>0, <2>2 DEF Nobody
  <2>3. CASE /\ sandbox.id = call.id
             /\ sandbox' = [sandbox EXCEPT !.containerId = call.id, !.status = "running"]
    BY <2>0, <2>3, <1>t
  <2>4. CASE /\ sandbox.id = call.id
             /\ \E s \in {"error", "stopped"} : sandbox' = [sandbox EXCEPT !.status = s]
    BY <2>4, <1>t
  <2>5. CASE sandbox.id = call.id /\ sandbox' = NoSandbox
    BY <2>5, <1>t DEF NoSandbox, Nobody
  <2> QED BY <1>k, <2>1, <2>2, <2>3, <2>4, <2>5
<1>1. SandboxTyped'
  BY <1>u, <1>g, <1>o, <1>t DEF SandboxInv, SandboxTyped
<1>2. {container'.of, sandbox'.id} \cup cutShort' \subseteq 0..asked'.calls
  BY <1>u, <1>g, <1>o, <1>t
<1>3. \A d \in sandboxCalls' : CreateIsAlone(d)'
  <2> SUFFICES ASSUME NEW d \in sandboxCalls', Creates(d)
               PROVE  /\ \A other \in sandboxCalls' : other # d => other.id # d.id /\ ~Creates(other)
                      /\ d.at = 1 => container.of # d.id
                      /\ d.at > 1 => container.of = d.id
                      /\ d.at < 3 => sandbox'.id # d.id
                      /\ d.at > 2 => sandbox'.id = d.id /\ sandbox'.containerId = Nobody
    BY <1>u DEF CreateIsAlone, Creates
  <2>1. CASE d \in sandboxCalls
    <3>1. /\ \A other \in sandboxCalls : other # d => other.id # d.id /\ ~Creates(other)
          /\ d.at = 1 => container.of # d.id
          /\ d.at > 1 => container.of = d.id
          /\ d.at < 3 => sandbox.id # d.id
          /\ d.at > 2 => sandbox.id = d.id /\ sandbox.containerId = Nobody
      BY <2>1, <1>t DEF CreateIsAlone
    <3>2. d # call /\ call.id # d.id /\ ~Creates(call)
      BY <2>1, <3>1, <1>g
    <3>3. \A other \in sandboxCalls' : other # d => other.id # d.id /\ ~Creates(other)
      BY <3>1, <3>2, <1>g, <1>n DEF Creates
    <3>4. d.id >= 1 /\ d.id \in Nat /\ d.at \in 1..4
      BY <2>1, <1>t DEF CallFits, SandboxCall
    <3>5. d.at < 3 => sandbox'.id # d.id
      BY <3>1, <3>2, <3>4, <1>o DEF Creates, Nobody
    <3>6. d.at > 2 => sandbox'.id = d.id /\ sandbox'.containerId = Nobody
      BY <3>1, <3>2, <1>o DEF Creates
    <3> QED BY <3>1, <3>3, <3>5, <3>6
  <2>2. CASE d \notin sandboxCalls
    <3>1. d \in GoesTo(call, ok)
      BY <2>2, <1>g
    <3>2. Creates(call) /\ d.id = call.id /\ ~call.failed
      BY <3>1, <1>n DEF Creates
    <3>3. /\ \A other \in sandboxCalls : other # call => other.id # call.id /\ ~Creates(other)
          /\ call.at > 1 => container.of = call.id
          /\ call.at > 2 => sandbox.id = call.id /\ sandbox.containerId = Nobody
      BY <3>2, <1>t DEF CreateIsAlone
    <3>4. \A other \in sandboxCalls' : other # d => other.id # d.id /\ ~Creates(other)
      <4> TAKE other \in sandboxCalls'
      <4> HAVE other # d
      <4>1. other \in sandboxCalls /\ other # call
        BY <3>1, <1>g DEF GoesTo
      <4> QED BY <4>1, <3>2, <3>3
    <3>5. CASE ok /\ call.at = 2 /\ d.at = 3
      BY <3>2, <3>5, <1>c, StepsOf, <3>3, <3>4 DEF Creates, Recorded, findSandboxById, SandboxAfter
    <3>6. CASE ~ok /\ call.at = 4 /\ d.at = 4
      BY <3>6, <3>2, <3>3, <3>4 DEF Recorded
    <3> QED BY <3>1, <3>2, <3>5, <3>6, <1>e DEF Creates
  <2> QED BY <2>1, <2>2
<1>4. \A d \in sandboxCalls' : d.op = "destroy" /\ d.at = 2 => container'.of # d.id
  <2> TAKE d \in sandboxCalls'
  <2> HAVE d.op = "destroy" /\ d.at = 2
  <2>1. d \in sandboxCalls
    BY <1>n, <1>s, <1>g
  <2> QED BY <2>1, <1>t, <1>u
<1>5. \/ container'.of \in {Nobody, sandbox'.containerId} \cup cutShort'
      \/ \E d \in sandboxCalls' : Creates(d) /\ d.at > 1 /\ d.id = container'.of
  <2>1. CASE container.of \in {Nobody} \cup cutShort
    BY <2>1, <1>u, <1>g
  <2>2. CASE container.of = sandbox.containerId /\ container.of # Nobody /\ sandbox' # sandbox
    <3>1. sandbox.containerId = sandbox.id
      BY <2>2, <1>t
    <3>2. CASE ok /\ ~call.failed /\ call.op = "create" /\ call.at = 2
      BY <1>t, <3>2, <2>2, <3>1 DEF CreateIsAlone, Creates
    <3>3. CASE sandbox.id = call.id /\ sandbox' # sandbox /\ ~(call.op = "create" /\ call.at = 2)
      <4>1. call.op = "destroy" /\ call.at = 2 => FALSE
        BY <3>1, <3>3, <2>2, <1>t
      <4>2. sandbox'.containerId = call.id
        <5>1. CASE sandbox' = [sandbox EXCEPT !.containerId = call.id, !.status = "running"]
          BY <5>1, <1>t
        <5>2. CASE \E s \in {"error", "stopped"} : sandbox' = [sandbox EXCEPT !.status = s]
          <6>1. PICK s \in {"error", "stopped"} : sandbox' = [sandbox EXCEPT !.status = s]
            BY <5>2
          <6> QED BY <6>1, <3>1, <3>3, <1>t
        <5> QED BY <3>3, <4>1, <5>1, <5>2, <1>k
      <4> QED BY <4>2, <3>1, <3>3, <2>2, <1>u
    <3>4. call.failed => call.at # 2
      BY <1>c
    <3> QED BY <2>2, <3>2, <3>3, <3>4, <1>k
  <2>3. CASE container.of = sandbox.containerId /\ sandbox' = sandbox
    BY <2>3, <1>u
  <2>4. ASSUME NEW d \in sandboxCalls, Creates(d), d.at > 1, d.id = container.of
        PROVE  \/ container'.of \in {Nobody, sandbox'.containerId} \cup cutShort'
               \/ \E e \in sandboxCalls' : Creates(e) /\ e.at > 1 /\ e.id = container'.of
    <3>1. CASE d # call
      BY <2>4, <3>1, <1>g, <1>u
    <3>2. CASE d = call /\ ~ok
      BY <2>4, <3>2, <1>u, <1>c DEF Loses, Creates
    <3>3. CASE d = call /\ call.failed
      BY <2>4, <3>3, <1>u, <1>c, <1>g
    <3>4. CASE d = call /\ ok /\ ~call.failed /\ call.at = 2
      <4> DEFINE next == [call EXCEPT !.at = @ + 1]
      <4>1. Len(Steps(call.op)) = 4
        BY <2>4, <3>4, <1>c, StepsOf DEF Creates
      <4>2. next \in GoesTo(call, ok)
        BY <3>4, <4>1 DEF GoesTo
      <4> HIDE DEF next
      <4>3. next.op = call.op /\ next.id = call.id /\ (next.at = call.at + 1 \/ ~ok) /\ next \in sandboxCalls'
        BY <4>2, <1>n, <1>g
      <4>4. next.at > 1 /\ next.id = container'.of /\ Creates(next)
        BY <4>3, <3>4, <2>4, <1>u DEF Creates
      <4> QED BY <4>3, <4>4
    <3>5. CASE d = call /\ ok /\ ~call.failed /\ call.at = 4
      BY <2>4, <3>5, <1>t, <1>c, StepsOf, <1>u DEF Creates, CreateIsAlone, Recorded, findSandboxById, SandboxAfter
    <3> QED BY <2>4, <3>1, <3>2, <3>3, <3>4, <3>5, <1>s DEF Creates
  <2> QED BY <2>1, <2>2, <2>3, <2>4 DEF SandboxInv
<1>6. container'.of = Nobody <=> container' = NoContainer
  BY <1>u DEF SandboxInv
<1> QED BY <1>1, <1>2, <1>3, <1>4, <1>5, <1>6, <1>g, <1>o DEF SandboxInv

\* A command goes on after each step but its last, a create that fails in its try too.
LEMMA GoesOn ==
    ASSUME NEW call, NEW ok \in BOOLEAN, ~call.failed,
           (ok /\ call.at < Len(Steps(call.op))) \/ (~ok /\ InTry(call))
    PROVE  GoesTo(call, ok) # {}
BY DEF GoesTo

\* Where commands never overlap and every append is made, the record stays true.
LEMMA PlainKeeps ==
    ASSUME SandboxInv, PlainInv, [SandboxStep]_sandboxVars, SandboxInv', mixed \in BOOLEAN
    PROVE  PlainInv'
<1>t. /\ sandboxCalls \subseteq SandboxCall /\ \A d \in sandboxCalls : CallFits(d) /\ CreateIsAlone(d)
      /\ container \in [of: Nat, state: {"none", "created", "running", "stopped"}]
      /\ sandbox \in [id: Nat, containerId: Nat, status: {"none", "creating", "running", "stopped", "error"}]
      /\ sandbox.containerId \in {Nobody, sandbox.id}
      /\ asked \in [calls: Nat, deaths: Nat]
  BY DEF SandboxInv, SandboxTyped
<1> SUFFICES ASSUME ~mixed'
             PROVE  /\ \A call, other \in sandboxCalls' : call = other
                    /\ sandboxCalls' = {} => RecordIsTrue'
                    /\ \A call \in sandboxCalls' : CommandIsTrue(call)'
  BY DEF PlainInv
<1>m. ~mixed => /\ \A call, other \in sandboxCalls : call = other
                /\ sandboxCalls = {} => RecordIsTrue
                /\ \A call \in sandboxCalls : CommandIsTrue(call)
  BY DEF PlainInv
<1>1. CASE UNCHANGED sandboxVars
  BY <1>1, <1>m DEF sandboxVars, RecordIsTrue, CommandIsTrue
<1>2. CASE HubDies
  BY <1>2, <1>m DEF HubDies, RecordIsTrue
<1>3. ASSUME NEW op \in SandboxOps, Ask(op)
      PROVE  /\ \A call, other \in sandboxCalls' : call = other
             /\ sandboxCalls' = {} => RecordIsTrue'
             /\ \A call \in sandboxCalls' : CommandIsTrue(call)'
  <2>1. /\ ~mixed /\ sandboxCalls = {} /\ UNCHANGED <<container, sandbox, cutShort>>
        /\ op # "create" => sandbox.containerId # Nobody
    BY <1>3 DEF Ask
  <2>2. RecordIsTrue /\ RecordIsTrue'
    BY <2>1, <1>m DEF RecordIsTrue
  <2>3. PICK new : /\ sandboxCalls' = {new} /\ new.op = op /\ new.at = 1
                   /\ op # "create" => new.id = sandbox.id
    <3> DEFINE its(m) == [n |-> m, op |-> op, at |-> 1, id |-> IF op = "create" THEN m ELSE sandbox.id,
                          containerId |-> IF op = "create" THEN m ELSE sandbox.containerId, failed |-> FALSE]
    <3>1. sandboxCalls' = sandboxCalls \cup {its(asked'.calls)}
      BY <1>3 DEF Ask
    <3>2. sandboxCalls' = {its(asked'.calls)}
      BY <3>1, <2>1
    <3>3. \A m : its(m).op = op /\ its(m).at = 1 /\ (op # "create" => its(m).id = sandbox.id)
      OBVIOUS
    <3> HIDE DEF its
    <3> QED BY <3>2, <3>3
  <2>4. CommandIsTrue(new)'
    BY <2>2, <2>3, <2>1, <1>t DEF CommandIsTrue, RecordIsTrue
  <2> QED BY <2>3, <2>4
<1>n. ASSUME NEW call \in sandboxCalls, NEW ok \in BOOLEAN, NEW next \in GoesTo(call, ok)
      PROVE  /\ next.op = call.op /\ next.id = call.id /\ ~call.failed
             /\ \/ ok /\ next.at = call.at + 1 /\ ~next.failed /\ next.at <= Len(Steps(next.op))
                \/ ~ok /\ call.op = "create" /\ call.at > 2 /\ next.at = call.at /\ next.failed
  BY <1>t, NextCall
<1>e. ASSUME NEW call \in sandboxCalls, NEW ok \in BOOLEAN, Goes(call, ok), ~mixed
      PROVE  /\ sandboxCalls' = GoesTo(call, ok) /\ \A d, e \in GoesTo(call, ok) : d = e
             /\ CommandIsTrue(call) /\ CreateIsAlone(call) /\ CallFits(call) /\ call \in SandboxCall
  BY <1>e, <1>m, <1>t DEF Goes, GoesTo
<1>4. ASSUME NEW call \in sandboxCalls, NEW ok \in BOOLEAN, DockerRuns(call, ok)
      PROVE  /\ \A d, e \in sandboxCalls' : d = e
             /\ sandboxCalls' = {} => RecordIsTrue'
             /\ \A d \in sandboxCalls' : CommandIsTrue(d)'
  <2>1. /\ ~mixed /\ Goes(call, ok) /\ sandbox' = sandbox
        /\ cutShort' = IF ok THEN cutShort ELSE cutShort \cup Loses(call)
    BY <1>4 DEF DockerRuns
  <2>2. /\ sandboxCalls' = GoesTo(call, ok) /\ \A d, e \in GoesTo(call, ok) : d = e
        /\ CommandIsTrue(call) /\ CreateIsAlone(call) /\ CallFits(call) /\ call \in SandboxCall
    BY <2>1, <1>e
  <2>4. cutShort \subseteq cutShort'
    BY <2>1
  <2>k. /\ ~call.failed
        /\ \/ call.op = "create" /\ call.at \in {1, 3}
           \/ call.op # "create" /\ call.at = 1
        /\ ok => /\ call.op = "create" /\ call.at = 1 => container = NoContainer
                 /\ call.op \in {"start", "stop"} \/ (call.op = "create" /\ call.at = 3) => container.of = call.id
        /\ ~ok => container' = container
        /\ ok /\ call.op = "create" /\ call.at = 1 => container' = [of |-> call.id, state |-> "created"]
        /\ ok /\ (call.op = "start" \/ (call.op = "create" /\ call.at = 3)) =>
              container' = [container EXCEPT !.state = "running"]
        /\ ok /\ call.op = "stop" => container' = [container EXCEPT !.state = "stopped"]
        /\ ok /\ call.op = "destroy" => container' = IF container.of = call.id THEN NoContainer ELSE container
    BY <1>4, DockerDoes
  <2>5. CASE call.op = "create" /\ call.at = 1
    <3>1. RecordIsTrue
      BY <2>2, <2>5 DEF CommandIsTrue
    <3>2. CASE ~ok
      BY <3>2, <2>5, <2>k, <3>1, <2>1, <2>4, <2>2 DEF GoesTo, InTry, RecordIsTrue
    <3>3. CASE ok
      <4>1. \A next \in GoesTo(call, ok) : next.op = "create" /\ next.at = 2
        <5> TAKE next \in GoesTo(call, ok)
        <5>1. next.op = call.op /\ next.at = call.at + 1
          BY <3>3, <1>n
        <5> QED BY <5>1, <2>5
      <4>2. GoesTo(call, ok) # {}
        <5>1. Len(Steps(call.op)) = 4
          BY <2>2, <2>5, StepsOf
        <5>2. ~call.failed
          BY <2>k
        <5>3. ok /\ call.at < Len(Steps(call.op))
          BY <5>1, <3>3, <2>5
        <5> QED BY <5>2, <5>3, GoesOn
      <4>3. sandbox.status \in {"none", "error"} /\ sandbox.containerId = Nobody
        BY <3>3, <2>5, <2>k, <3>1, <1>t DEF RecordIsTrue, NoContainer
      <4>4. \A next \in GoesTo(call, ok) : CommandIsTrue(next)'
        BY <4>1, <4>3, <2>1 DEF CommandIsTrue
      <4> QED BY <4>2, <4>4, <2>2
    <3> QED BY <3>2, <3>3
  <2>6. CASE call.op = "create" /\ call.at = 3
    <3>1. sandbox.status = "creating"
      BY <2>2, <2>6 DEF CommandIsTrue
    <3>2. GoesTo(call, ok) # {}
      BY <2>2, <2>6, StepsOf, <2>k, GoesOn DEF InTry
    <3>3. ASSUME NEW next \in GoesTo(call, ok)
          PROVE  CommandIsTrue(next)'
      BY <1>n, <2>6, <2>k, <1>t, <3>1, <2>1 DEF CommandIsTrue
    <3> QED BY <3>2, <3>3, <2>2
  <2>7. CASE call.op # "create"
    <3>1. /\ RecordIsTrue /\ call.at = 1 /\ sandbox.id = call.id /\ sandbox.containerId = call.id
          /\ sandbox.status \in {"running", "stopped"}
      BY <2>2, <2>7, <2>k DEF CommandIsTrue
    <3>2. container.of = call.id
      BY <3>1 DEF RecordIsTrue
    <3>3. CASE ~ok
      BY <3>3, <2>7, <2>k, <3>1, <2>1, <2>4, <2>2 DEF GoesTo, InTry, RecordIsTrue
    <3>4. CASE ok
      <4>1. \A next \in GoesTo(call, ok) : next.op = call.op /\ next.at = 2 /\ next.id = call.id
        <5> TAKE next \in GoesTo(call, ok)
        <5>1. next.op = call.op /\ next.at = call.at + 1 /\ next.id = call.id
          BY <3>4, <1>n
        <5> QED BY <5>1, <3>1
      <4>2. GoesTo(call, ok) # {}
        <5>1. Len(Steps(call.op)) = 2
          BY <2>2, <2>7, StepsOf
        <5>2. ~call.failed
          BY <2>k
        <5>3. ok /\ call.at < Len(Steps(call.op))
          BY <5>1, <3>4, <3>1
        <5> QED BY <5>2, <5>3, GoesOn
      <4>3. /\ call.op = "start" => container' = [of |-> call.id, state |-> "running"]
            /\ call.op = "stop" => container' = [of |-> call.id, state |-> "stopped"]
            /\ call.op = "destroy" => container' = NoContainer
        BY <3>4, <3>2, <2>k, <1>t
      <4>4. \A next \in GoesTo(call, ok) : CommandIsTrue(next)'
        BY <4>1, <4>3, <3>1, <2>1, <2>7 DEF CommandIsTrue
      <4> QED BY <4>2, <4>4, <2>2
    <3> QED BY <3>3, <3>4
  <2> QED BY <2>5, <2>6, <2>7, <2>k
<1>5. ASSUME NEW call \in sandboxCalls, NEW ok \in BOOLEAN, Recorded(call, ok)
      PROVE  /\ \A d, e \in sandboxCalls' : d = e
             /\ sandboxCalls' = {} => RecordIsTrue'
             /\ \A d \in sandboxCalls' : CommandIsTrue(d)'
  <2>1. /\ ~mixed /\ ok /\ Goes(call, ok) /\ container' = container /\ cutShort' = cutShort
        /\ Step(call) \notin Docker
    BY <1>5 DEF Recorded
  <2>2. /\ sandboxCalls' = GoesTo(call, ok) /\ \A d, e \in GoesTo(call, ok) : d = e
        /\ CommandIsTrue(call) /\ CreateIsAlone(call) /\ CallFits(call) /\ call \in SandboxCall
    BY <2>1, <1>e
  <2>3. call.op \in SandboxOps /\ call.at \in 1..4 /\ call.id >= 1 /\ call.id \in Nat /\ call.id = call.containerId
        /\ call.failed \in BOOLEAN
    BY <2>2 DEF SandboxCall, CallFits
  <2>4. CASE call.failed
    BY <2>2, <2>4, StepsOf, <1>5, <2>1, <1>t DEF CallFits, CreateIsAlone, Creates, Recorded, findSandboxById,
       SandboxAfter, RecordIsTrue, GoesTo
  <2>5. CASE ~call.failed /\ call.op = "create"
    <3>1. call.at \in {2, 4} /\ Len(Steps(call.op)) = 4
      BY <2>1, <2>2, <2>3, <2>5, StepsOf DEF Docker
    <3>2. CASE call.at = 2
      <4>1. Step(call) = "sandbox_created"
        BY <2>2, <2>5, <3>2, StepsOf
      <4>2. sandbox' = [id |-> call.id, containerId |-> Nobody, status |-> "creating"]
        BY <4>1, <1>5, <2>1 DEF Recorded, findSandboxById, SandboxAfter
      <4>3. \A next \in GoesTo(call, ok) : next.op = "create" /\ next.at = 3
        <5> TAKE next \in GoesTo(call, ok)
        <5>1. next.op = call.op /\ next.at = call.at + 1
          BY <2>1, <1>n
        <5> QED BY <5>1, <2>5, <3>2
      <4>4. GoesTo(call, ok) # {}
        <5>1. ok /\ call.at < Len(Steps(call.op))
          BY <2>1, <3>1, <3>2
        <5> QED BY <5>1, <2>5, GoesOn
      <4>5. \A next \in GoesTo(call, ok) : CommandIsTrue(next)'
        BY <4>2, <4>3 DEF CommandIsTrue
      <4> QED BY <4>4, <4>5, <2>2
    <3>3. CASE call.at = 4
      <4>1. Step(call) = "sandbox_started"
        BY <2>2, <2>5, <3>3, StepsOf
      <4>2. sandbox.id = call.id /\ container.of = call.id
        BY <2>2, <2>5, <3>3 DEF CreateIsAlone, Creates
      <4>3. sandbox' = [sandbox EXCEPT !.containerId = call.id, !.status = "running"]
        BY <4>1, <4>2, <1>5, <2>1, <2>3 DEF Recorded, findSandboxById, SandboxAfter
      <4>4. container = [of |-> call.id, state |-> "running"]
        BY <2>2, <2>5, <3>3, <4>2, <1>t DEF CommandIsTrue
      <4>5. RecordIsTrue'
        BY <4>3, <4>4, <2>1, <2>3, <1>t DEF RecordIsTrue, Nobody
      <4>6. GoesTo(call, ok) = {}
        BY <2>1, <3>1, <3>3 DEF GoesTo
      <4> QED BY <4>5, <4>6, <2>2
    <3> QED BY <3>1, <3>2, <3>3
  <2>6. CASE ~call.failed /\ call.op # "create"
    <3>1. call.at = 2 /\ Len(Steps(call.op)) = 2
      <4>1. call.at <= 2 /\ Len(Steps(call.op)) = 2
        BY <2>2, <2>6, StepsOf DEF CallFits
      <4>2. call.at # 1
        BY <2>1, <2>2, <2>3, <2>6, StepsOf DEF Docker, SandboxOps
      <4> QED BY <4>1, <4>2, <2>3
    <3>2. GoesTo(call, ok) = {}
      BY <2>1, <3>1 DEF GoesTo
    <3>3. sandbox.id = call.id /\ sandbox.containerId = call.id
      BY <2>2, <2>6 DEF CommandIsTrue
    <3>4. CASE call.op = "start"
      <4>1. Step(call) = "sandbox_started"
        BY <2>2, <2>6, <3>1, <3>4, StepsOf
      <4>2. sandbox' = [sandbox EXCEPT !.containerId = call.id, !.status = "running"]
        BY <4>1, <3>3, <1>5, <2>1, <2>3 DEF Recorded, findSandboxById, SandboxAfter
      <4>3. container = [of |-> call.id, state |-> "running"]
        BY <2>2, <3>1, <3>4 DEF CommandIsTrue
      <4>4. RecordIsTrue'
        BY <4>2, <4>3, <2>1, <2>3, <1>t DEF RecordIsTrue, Nobody
      <4> QED BY <4>4, <3>2, <2>2
    <3>5. CASE call.op = "stop"
      <4>1. Step(call) = "sandbox_stopped"
        BY <2>2, <2>6, <3>1, <3>5, StepsOf
      <4>2. sandbox' = [sandbox EXCEPT !.status = "stopped"]
        BY <4>1, <3>3, <1>5, <2>1 DEF Recorded, findSandboxById, SandboxAfter
      <4>3. container = [of |-> call.id, state |-> "stopped"]
        BY <2>2, <3>1, <3>5 DEF CommandIsTrue
      <4>4. RecordIsTrue'
        BY <4>2, <4>3, <3>3, <2>1, <2>3, <1>t DEF RecordIsTrue, Nobody
      <4> QED BY <4>4, <3>2, <2>2
    <3>6. CASE call.op = "destroy"
      <4>1. Step(call) = "sandbox_destroyed"
        BY <2>2, <2>6, <3>1, <3>6, StepsOf
      <4>2. sandbox' = NoSandbox
        BY <4>1, <3>3, <1>5, <2>1 DEF Recorded, findSandboxById, SandboxAfter
      <4>3. container = NoContainer
        BY <2>2, <3>1, <3>6 DEF CommandIsTrue
      <4>4. RecordIsTrue'
        BY <4>2, <4>3, <2>1 DEF RecordIsTrue, NoContainer, NoSandbox, Nobody
      <4> QED BY <4>4, <3>2, <2>2
    <3> QED BY <2>3, <2>6, <3>4, <3>5, <3>6 DEF SandboxOps
  <2> QED BY <2>3, <2>4, <2>5, <2>6
<1> QED BY <1>1, <1>2, <1>3, <1>4, <1>5 DEF SandboxStep, SandboxOps

\* The invariants hold of every reachable state.
LEMMA SandboxInvariant == SandboxSpec => [](SandboxInv /\ PlainInv)
<1>1. SandboxInit => SandboxInv /\ PlainInv
  <2> SUFFICES ASSUME SandboxInit PROVE SandboxInv /\ PlainInv
    OBVIOUS
  <2>1. /\ container = NoContainer /\ sandbox = NoSandbox /\ sandboxCalls = {}
        /\ asked = [calls |-> 0, deaths |-> 0] /\ cutShort = {} /\ mixed = FALSE
    BY DEF SandboxInit
  <2>2. SandboxTyped
    BY <2>1 DEF SandboxTyped, NoContainer, NoSandbox, Nobody
  <2>3. SandboxInv
    BY <2>1, <2>2 DEF SandboxInv, NoContainer, NoSandbox, Nobody
  <2>4. PlainInv
    BY <2>1 DEF PlainInv, RecordIsTrue, NoContainer, NoSandbox, Nobody
  <2> QED BY <2>3, <2>4
<1>2. SandboxInv /\ PlainInv /\ [SandboxStep]_sandboxVars => (SandboxInv /\ PlainInv)'
  <2> SUFFICES ASSUME SandboxInv, PlainInv, [SandboxStep]_sandboxVars
               PROVE  SandboxInv' /\ PlainInv'
    OBVIOUS
  <2>1. SandboxInv'
    <3>1. CASE UNCHANGED sandboxVars
      BY <3>1 DEF sandboxVars, SandboxInv, CallFits, CreateIsAlone, SandboxTyped
    <3>2. ASSUME NEW op \in SandboxOps, Ask(op) PROVE SandboxInv'
      BY <3>2, AskKeeps
    <3>3. ASSUME NEW call \in sandboxCalls, NEW ok \in BOOLEAN, DockerRuns(call, ok)
          PROVE  SandboxInv'
      BY <3>3, DockerKeeps
    <3>4. ASSUME NEW call \in sandboxCalls, NEW ok \in BOOLEAN, Recorded(call, ok)
          PROVE  SandboxInv'
      BY <3>4, RecordedKeeps
    <3>5. CASE HubDies
      BY <3>5, DeathKeeps
    <3> QED BY <3>1, <3>2, <3>3, <3>4, <3>5 DEF SandboxStep, SandboxOps
  <2>2. mixed \in BOOLEAN
    BY DEF SandboxInv, SandboxTyped
  <2> QED BY <2>1, <2>2, PlainKeeps
<1> QED BY <1>1, <1>2, PTL DEF SandboxSpec

\* What the store records of a workspace's sandbox stays true of docker's container
\* (applyEvent of event-store.ts, SandboxManager): when no command is under way a
\* container is named by the record or was cut short in its creation, and where the
\* commands did not overlap the recorded status is the container's.
THEOREM RecordFollowsContainer == SandboxSpec => []SandboxIsKept
<1>1. SandboxInv /\ PlainInv => SandboxIsKept
  BY DEF SandboxIsKept, ContainerIsNamed, SandboxInv, StatusIsTrue, PlainInv, RecordIsTrue
<1> QED BY <1>1, SandboxInvariant, PTL

-----------------------------------------------------------------------------
(* Cached transcripts *)

Entry == 1..MaxLines
LinkRecord == [log: Transcripts, entry: Entry]
CachedRecord == [log: Transcripts, entries: Seq(Entry)]
ReadRecord == [state: {"idle", "reading", "read"}, log: Transcripts \cup {""},
               behind: Nat, text: Seq(Entry), missed: SUBSET Entry]

\* What the variables are.
CacheTyped ==
    /\ said \in [Transcripts -> 0..MaxLines] /\ lines \in [Transcripts -> Seq(Entry)]
    /\ lineChain \in Seq(LinkRecord) /\ transcriptCache \in Seq(CachedRecord)
    /\ Len(transcriptCache) <= CacheMax /\ reads \in [Readers -> ReadRecord]
    /\ unread \in [Transcripts -> SUBSET Entry] /\ readsLeft \in 0..MaxReads

Ascends(s) == \A i, j \in 1..Len(s) : i < j => s[i] < s[j]
Below(s, n) == \A i \in 1..Len(s) : s[i] <= n
Has(s, e) == \E i \in 1..Len(s) : s[i] = e
InLinks(w, n, c, e) == \E k \in 1..n : w[k].log = c /\ w[k].entry = e

\* The entries of a chat are written or on their way to the file, in their order.
FileInv ==
    /\ \A c \in Transcripts :
          /\ Ascends(lines[c]) /\ Below(lines[c], said[c])
          /\ \A e \in 1..said[c] : Has(lines[c], e) \/ InLinks(lineChain, Len(lineChain), c, e)
    /\ \A k \in 1..Len(lineChain) :
          LET link == lineChain[k] IN
          /\ link.entry <= said[link.log] /\ Below(lines[link.log], link.entry - 1)
          /\ \A l \in 1..Len(lineChain) :
                l > k /\ lineChain[l].log = link.log => link.entry < lineChain[l].entry

\* What a read will not find was appended after it began: the rest is in the files, or
\* in the links it waits for.
Finds(read, w, files, counts) ==
    /\ read.state = "reading" =>
          /\ read.log \in Transcripts /\ read.behind <= Len(w)
          /\ \A e \in 1..counts[read.log] :
                e \in read.missed \/ Has(files[read.log], e) \/ InLinks(w, read.behind, read.log, e)
    /\ read.state = "read" =>
          /\ read.log \in Transcripts /\ Ascends(read.text) /\ Below(read.text, counts[read.log])
          /\ \A e \in 1..counts[read.log] : e \in read.missed \/ Has(read.text, e)
ReadsInv == \A r \in Readers : Finds(reads[r], lineChain, lines, said)

\* A chat is cached once, with its entries in their order and but for those unread.
Tells(cached, counts, missed) ==
    /\ Ascends(cached.entries) /\ Below(cached.entries, counts[cached.log])
    /\ \A e \in 1..counts[cached.log] : Has(cached.entries, e) \/ e \in missed[cached.log]
Apart(w) == \A k, l \in 1..Len(w) : l # k => w[l].log # w[k].log
CachedInv == Apart(transcriptCache) /\ \A k \in 1..Len(transcriptCache) : Tells(transcriptCache[k], said, unread)

\* The inductive invariant.
CacheInv == CacheTyped /\ FileInv /\ ReadsInv /\ CachedInv

\* One entry more.
LEMMA OneEntryMore ==
    ASSUME NEW s \in Seq(Entry), NEW e \in Entry, Ascends(s), Below(s, e - 1), NEW t, t = Append(s, e)
    PROVE  /\ t \in Seq(Entry) /\ Ascends(t) /\ Below(t, e) /\ Has(t, e)
           /\ \A d \in Entry : Has(s, d) => Has(t, d)
<1>1. /\ t \in Seq(Entry) /\ Len(t) = Len(s) + 1 /\ Len(s) \in Nat
      /\ t[Len(s) + 1] = e /\ \A i \in 1..Len(s) : t[i] = s[i] /\ s[i] \in Nat
  BY CacheConstants DEF Entry
<1>2. Entry \subseteq Nat
  BY CacheConstants DEF Entry
<1>3. \A i \in 1..Len(t) : i = Len(s) + 1 \/ i \in 1..Len(s)
  BY <1>1
<1>4. Ascends(t)
  <2> SUFFICES ASSUME NEW i \in 1..Len(t), NEW j \in 1..Len(t), i < j PROVE t[i] < t[j]
    BY DEF Ascends
  <2>1. i \in 1..Len(s)
    BY <1>1
  <2>2. CASE j \in 1..Len(s)
    BY <1>1, <2>1, <2>2 DEF Ascends
  <2>3. CASE j = Len(s) + 1
    <3>1. s[i] <= e - 1
      BY <2>1 DEF Below
    <3> QED BY <1>1, <1>2, <2>1, <2>3, <3>1
  <2> QED BY <1>3, <2>2, <2>3
<1>5. Below(t, e)
  <2> SUFFICES ASSUME NEW i \in 1..Len(t) PROVE t[i] <= e
    BY DEF Below
  <2>1. CASE i \in 1..Len(s)
    <3>1. s[i] <= e - 1
      BY <2>1 DEF Below
    <3> QED BY <1>1, <1>2, <2>1, <3>1
  <2> QED BY <1>1, <1>2, <1>3, <2>1
<1>6. Has(t, e)
  BY <1>1 DEF Has
<1>7. ASSUME NEW d \in Entry, Has(s, d) PROVE Has(t, d)
  <2>1. PICK i \in 1..Len(s) : s[i] = d
    BY <1>7 DEF Has
  <2>2. i \in 1..Len(t) /\ t[i] = d
    BY <1>1, <2>1
  <2> QED BY <2>2 DEF Has
<1> QED BY <1>1, <1>4, <1>5, <1>6, <1>7

\* What is below a number is below a larger one.
LEMMA BelowMore ==
    ASSUME NEW s \in Seq(Entry), NEW m \in Int, NEW n \in Int, m <= n, Below(s, m)
    PROVE  Below(s, n)
BY CacheConstants DEF Entry, Below

\* A sequence with an element more, and without its first.
LEMMA OneMore ==
    ASSUME NEW S, NEW w \in Seq(S), NEW x \in S, NEW v, v = Append(w, x)
    PROVE  /\ v \in Seq(S) /\ Len(v) = Len(w) + 1 /\ Len(w) \in Nat
           /\ v[Len(w) + 1] = x /\ \A k \in 1..Len(w) : v[k] = w[k]
OBVIOUS

\* Without its first member a sequence is shorter by one.
LEMMA OneLess ==
    ASSUME NEW S, NEW w \in Seq(S), w # <<>>, NEW v, v = Tail(w)
    PROVE  /\ v \in Seq(S) /\ Len(v) = Len(w) - 1 /\ Len(w) \in Nat \ {0}
           /\ Head(w) = w[1] /\ w[1] \in S /\ \A k \in 1..Len(v) : v[k] = w[k + 1]
OBVIOUS

\* The types, one by one.
LEMMA CacheParts ==
    ASSUME CacheInv
    PROVE  /\ \A c \in Transcripts : /\ said[c] \in Nat /\ said[c] <= MaxLines /\ lines[c] \in Seq(Entry)
                                     /\ 1..said[c] \subseteq Entry /\ unread[c] \subseteq Entry
           /\ \A k \in 1..Len(lineChain) : /\ lineChain[k].log \in Transcripts /\ lineChain[k].entry \in Entry
                                           /\ lineChain[k].entry \in Nat
           /\ \A k \in 1..Len(transcriptCache) : /\ transcriptCache[k] \in CachedRecord
                                                 /\ transcriptCache[k].log \in Transcripts
                                                 /\ transcriptCache[k].entries \in Seq(Entry)
           /\ \A r \in Readers : /\ reads[r] \in ReadRecord /\ reads[r].behind \in Nat
                                 /\ reads[r].text \in Seq(Entry) /\ reads[r].missed \subseteq Entry
           /\ Len(lineChain) \in Nat /\ Len(transcriptCache) \in Nat /\ Entry \subseteq Nat
<1> USE DEF CacheInv, CacheTyped
<1>1. Entry \subseteq Nat /\ \A n \in 0..MaxLines : n \in Nat /\ n <= MaxLines /\ 1..n \subseteq Entry
  BY CacheConstants DEF Entry
<1> HIDE DEF Entry
<1>2. ASSUME NEW c \in Transcripts
      PROVE  /\ said[c] \in Nat /\ said[c] <= MaxLines /\ lines[c] \in Seq(Entry)
             /\ 1..said[c] \subseteq Entry /\ unread[c] \subseteq Entry
  BY <1>1
<1>3. ASSUME NEW k \in 1..Len(lineChain)
      PROVE  lineChain[k].log \in Transcripts /\ lineChain[k].entry \in Entry
  <2>1. lineChain[k] \in LinkRecord
    OBVIOUS
  <2> QED BY <2>1 DEF LinkRecord
<1>4. ASSUME NEW k \in 1..Len(transcriptCache)
      PROVE  /\ transcriptCache[k] \in CachedRecord
             /\ transcriptCache[k].log \in Transcripts /\ transcriptCache[k].entries \in Seq(Entry)
  <2>1. transcriptCache[k] \in CachedRecord
    OBVIOUS
  <2> QED BY <2>1 DEF CachedRecord
<1>5. ASSUME NEW r \in Readers
      PROVE  /\ reads[r] \in ReadRecord /\ reads[r].behind \in Nat
             /\ reads[r].text \in Seq(Entry) /\ reads[r].missed \subseteq Entry
  BY DEF ReadRecord
<1>6. Len(lineChain) \in Nat /\ Len(transcriptCache) \in Nat
  OBVIOUS
<1>7. \A k \in 1..Len(lineChain) : lineChain[k].entry \in Nat
  BY <1>1, <1>3
<1> QED BY <1>1, <1>2, <1>3, <1>4, <1>5, <1>6, <1>7

\* An entry is appended: the files and the chain.
LEMMA AppendFiles ==
    ASSUME CacheInv, NEW c \in Transcripts, AppendMessage(c)
    PROVE  FileInv'
<1> DEFINE n == said[c] + 1
           link == [log |-> c, entry |-> n]
<1>0. link.log = c /\ link.entry = n
  OBVIOUS
<1>1. /\ said \in [Transcripts -> 0..MaxLines] /\ n \in Entry /\ n - 1 = said[c] /\ said[c] \in Nat
      /\ said' = [said EXCEPT ![c] = n] /\ lineChain' = Append(lineChain, link) /\ UNCHANGED lines
  <2>1. said \in [Transcripts -> 0..MaxLines] /\ said[c] < MaxLines
    BY DEF AppendMessage, CacheInv, CacheTyped
  <2>2. n \in Entry /\ n - 1 = said[c] /\ said[c] \in Nat
    BY <2>1, CacheConstants DEF Entry
  <2>3. said' = [said EXCEPT ![c] = n] /\ said'[c] = n
    BY <2>1 DEF AppendMessage
  <2>4. lineChain' = Append(lineChain, link) /\ UNCHANGED lines
    BY <2>3 DEF AppendMessage
  <2> QED BY <2>1, <2>2, <2>3, <2>4
<1>2. /\ said'[c] = n /\ \A d \in Transcripts : said[d] \in Int /\ said'[d] \in Int /\ said[d] <= said'[d]
      /\ \A d \in Transcripts \ {c} : said'[d] = said[d]
  BY <1>1
<1>3. link \in LinkRecord
  BY <1>1 DEF LinkRecord
<1> HIDE DEF link, n
<1>4. /\ lineChain' \in Seq(LinkRecord) /\ Len(lineChain') = Len(lineChain) + 1 /\ Len(lineChain) \in Nat
      /\ lineChain'[Len(lineChain) + 1] = link /\ \A k \in 1..Len(lineChain) : lineChain'[k] = lineChain[k]
  BY <1>1, <1>3, OneMore DEF CacheInv, CacheTyped
<1>5. \A k \in 1..Len(lineChain') : k \in 1..Len(lineChain) \/ k = Len(lineChain) + 1
  BY <1>4
<1>6. ASSUME NEW d \in Transcripts
      PROVE  /\ Ascends(lines[d]) /\ Below(lines[d], said'[d])
             /\ \A e \in 1..said'[d] : Has(lines[d], e) \/ InLinks(lineChain', Len(lineChain'), d, e)
  <2>1. Ascends(lines[d]) /\ Below(lines[d], said[d]) /\ lines[d] \in Seq(Entry)
        /\ \A e \in 1..said[d] : Has(lines[d], e) \/ InLinks(lineChain, Len(lineChain), d, e)
    BY CacheParts DEF CacheInv, FileInv
  <2>2. Below(lines[d], said'[d])
    BY <1>2, <2>1, BelowMore
  <2>3. ASSUME NEW e \in 1..said'[d] PROVE Has(lines[d], e) \/ InLinks(lineChain', Len(lineChain'), d, e)
    <3>1. CASE e \in 1..said[d]
      <4>1. CASE InLinks(lineChain, Len(lineChain), d, e)
        <5>1. PICK k \in 1..Len(lineChain) : lineChain[k].log = d /\ lineChain[k].entry = e
          BY <4>1 DEF InLinks
        <5>2. k \in 1..Len(lineChain') /\ lineChain'[k].log = d /\ lineChain'[k].entry = e
          BY <1>4, <5>1
        <5> QED BY <5>2 DEF InLinks
      <4> QED BY <2>1, <3>1, <4>1
    <3>2. CASE e \notin 1..said[d]
      <4>1. d = c /\ e = n
        BY <1>1, <1>2, <3>2 DEF n
      <4>2. Len(lineChain) + 1 \in 1..Len(lineChain') /\ lineChain'[Len(lineChain) + 1].log = d
            /\ lineChain'[Len(lineChain) + 1].entry = e
        BY <1>4, <1>0, <4>1
      <4> QED BY <4>2 DEF InLinks
    <3> QED BY <3>1, <3>2
  <2> QED BY <2>1, <2>2, <2>3
<1>7. ASSUME NEW k \in 1..Len(lineChain')
      PROVE  /\ lineChain'[k].entry <= said'[lineChain'[k].log]
             /\ Below(lines[lineChain'[k].log], lineChain'[k].entry - 1)
             /\ \A l \in 1..Len(lineChain') :
                   l > k /\ lineChain'[l].log = lineChain'[k].log => lineChain'[k].entry < lineChain'[l].entry
  <2>1. CASE k \in 1..Len(lineChain)
    <3>1. /\ lineChain[k].entry <= said[lineChain[k].log] /\ lineChain[k].entry \in Nat
          /\ lineChain[k].log \in Transcripts
          /\ Below(lines[lineChain[k].log], lineChain[k].entry - 1)
          /\ \A l \in 1..Len(lineChain) :
                l > k /\ lineChain[l].log = lineChain[k].log => lineChain[k].entry < lineChain[l].entry
      BY <2>1, CacheParts DEF CacheInv, FileInv
    <3>2. lineChain[k].entry <= said'[lineChain[k].log]
      BY <1>2, <3>1
    <3>3. ASSUME NEW l \in 1..Len(lineChain'), l > k, lineChain'[l].log = lineChain'[k].log
          PROVE  lineChain'[k].entry < lineChain'[l].entry
      <4>1. CASE l \in 1..Len(lineChain)
        BY <1>4, <2>1, <3>1, <3>3, <4>1
      <4>2. CASE l = Len(lineChain) + 1
        BY <1>4, <1>0, <2>1, <3>3, <4>2, <1>1, <3>1 DEF n
      <4> QED BY <1>5, <4>1, <4>2
    <3> QED BY <1>4, <2>1, <3>1, <3>2, <3>3
  <2>2. CASE k = Len(lineChain) + 1
    BY <1>4, <1>0, <2>2, <1>1, <1>2 DEF CacheInv, FileInv, n
  <2> QED BY <1>5, <2>1, <2>2
<1>8. lines' = lines
  BY <1>1
<1> QED BY <1>6, <1>7, <1>8 DEF FileInv

\* A read of a chat is noted to miss an entry, if the chat gets one.
LEMMA NotedRead ==
    ASSUME NEW read \in ReadRecord, NEW new, NEW c \in Transcripts, NEW n \in Entry,
           new = IF read.log = c THEN [read EXCEPT !.missed = @ \cup {n}] ELSE read
    PROVE  /\ new \in ReadRecord /\ new.state = read.state /\ new.log = read.log /\ new.behind = read.behind
           /\ new.text = read.text /\ read.missed \subseteq new.missed /\ (read.log = c => n \in new.missed)
BY DEF ReadRecord

\* What a read finds, it finds with more links and one entry more, which it notes.
LEMMA StillFinds ==
    ASSUME NEW read \in ReadRecord, NEW new \in ReadRecord,
           new.state = read.state, new.log = read.log, new.behind = read.behind, new.text = read.text,
           read.missed \subseteq new.missed,
           NEW w, NEW v, NEW files, NEW counts \in [Transcripts -> Nat], NEW more \in [Transcripts -> Nat],
           Len(w) \in Nat, Len(v) \in Nat, Len(w) <= Len(v), \A k \in 1..Len(w) : v[k] = w[k],
           read.log \in Transcripts => /\ counts[read.log] <= more[read.log]
                                       /\ \A e \in 1..more[read.log] : e \in 1..counts[read.log] \/ e \in new.missed,
           Finds(read, w, files, counts)
    PROVE  Finds(new, v, files, more)
<1>1. ASSUME new.state = "reading"
      PROVE  /\ new.log \in Transcripts /\ new.behind <= Len(v)
             /\ \A e \in 1..more[new.log] :
                   e \in new.missed \/ Has(files[new.log], e) \/ InLinks(v, new.behind, new.log, e)
  <2>1. /\ read.log \in Transcripts /\ read.behind <= Len(w) /\ read.behind \in Nat
        /\ \A e \in 1..counts[read.log] :
              e \in read.missed \/ Has(files[read.log], e) \/ InLinks(w, read.behind, read.log, e)
    BY <1>1 DEF Finds, ReadRecord
  <2>2. \A k \in 1..read.behind : v[k] = w[k]
    BY <2>1
  <2>3. \A e : InLinks(w, read.behind, read.log, e) => InLinks(v, read.behind, read.log, e)
    BY <2>2 DEF InLinks
  <2>4. read.behind <= Len(v)
    BY <2>1
  <2> QED BY <2>1, <2>3, <2>4
<1>2. ASSUME new.state = "read"
      PROVE  /\ new.log \in Transcripts /\ Ascends(new.text) /\ Below(new.text, more[new.log])
             /\ \A e \in 1..more[new.log] : e \in new.missed \/ Has(new.text, e)
  <2>1. /\ read.log \in Transcripts /\ Ascends(read.text) /\ Below(read.text, counts[read.log])
        /\ read.text \in Seq(Entry)
        /\ \A e \in 1..counts[read.log] : e \in read.missed \/ Has(read.text, e)
    BY <1>2 DEF Finds, ReadRecord
  <2>2. counts[read.log] \in Int /\ more[read.log] \in Int /\ counts[read.log] <= more[read.log]
    BY <2>1
  <2>3. Below(read.text, more[read.log])
    BY <2>1, <2>2, BelowMore
  <2> QED BY <2>1, <2>3
<1> QED BY <1>1, <1>2 DEF Finds

\* An entry is appended: every read of its chat notes that it may miss it.
LEMMA AppendReads ==
    ASSUME CacheInv, NEW c \in Transcripts, AppendMessage(c)
    PROVE  ReadsInv' /\ reads' \in [Readers -> ReadRecord]
<1> DEFINE n == said[c] + 1
<1>1. /\ said \in [Transcripts -> 0..MaxLines] /\ n \in Entry
      /\ said' = [said EXCEPT ![c] = n] /\ UNCHANGED lines
      /\ lineChain' = Append(lineChain, [log |-> c, entry |-> n])
      /\ reads' = [r \in Readers |-> IF reads[r].log = c THEN [reads[r] EXCEPT !.missed = @ \cup {n}] ELSE reads[r]]
  BY CacheConstants DEF AppendMessage, CacheInv, CacheTyped, Entry
<1>2. /\ said'[c] = n /\ \A d \in Transcripts : said[d] \in Nat /\ said'[d] \in Nat /\ said[d] <= said'[d]
      /\ \A d \in Transcripts \ {c} : said'[d] = said[d]
  BY <1>1
<1>3. \A e \in 1..n : e = n \/ e \in 1..said[c]
  BY <1>1
<1> HIDE DEF n
<1>4. \A k \in 1..Len(lineChain) : lineChain'[k] = lineChain[k]
  BY <1>1 DEF CacheInv, CacheTyped
<1>5. Len(lineChain) \in Nat /\ Len(lineChain') \in Nat /\ Len(lineChain) <= Len(lineChain')
  BY <1>1 DEF CacheInv, CacheTyped
<1>6. ASSUME NEW r \in Readers
      PROVE  reads'[r] \in ReadRecord /\ Finds(reads'[r], lineChain', lines', said')
  <2> DEFINE read == reads[r]
             new == reads'[r]
  <2>1. /\ read \in ReadRecord /\ Finds(read, lineChain, lines, said)
        /\ new = IF read.log = c THEN [read EXCEPT !.missed = @ \cup {n}] ELSE read
    BY <1>1 DEF CacheInv, CacheTyped, ReadsInv
  <2> HIDE DEF read, new
  <2>2. /\ new \in ReadRecord /\ new.state = read.state /\ new.log = read.log /\ new.behind = read.behind
        /\ new.text = read.text /\ read.missed \subseteq new.missed /\ (read.log = c => n \in new.missed)
    BY <1>1, <2>1, NotedRead
  <2>3. read.log \in Transcripts => /\ said[read.log] <= said'[read.log]
                                    /\ \A e \in 1..said'[read.log] : e \in 1..said[read.log] \/ e \in new.missed
    BY <1>2, <1>3, <2>2
  <2>4. said \in [Transcripts -> Nat] /\ said' \in [Transcripts -> Nat] /\ Len(lineChain') \in Nat
    BY <1>1, <1>2, <1>5 DEF CacheInv, CacheTyped
  <2>5. Finds(new, lineChain', lines, said')
    BY <1>4, <1>5, <2>1, <2>2, <2>3, <2>4, StillFinds
  <2> QED BY <1>1, <2>2, <2>5 DEF new
<1>7. reads' \in [Readers -> ReadRecord]
  BY <1>1, <1>6
<1> QED BY <1>6, <1>7 DEF ReadsInv

\* A function on 1..n is a sequence of length n.
LEMMA FunIsSeq ==
    ASSUME NEW S, NEW n \in Nat, NEW f \in [1..n -> S]
    PROVE  f \in Seq(S) /\ Len(f) = n
BY SeqDef, LenProperties

\* An entry is appended: the cached transcript of its chat gets it.
LEMMA AppendCached ==
    ASSUME CacheInv, NEW c \in Transcripts, AppendMessage(c)
    PROVE  CachedInv' /\ CacheTyped'
<1> DEFINE n == said[c] + 1
           link == [log |-> c, entry |-> n]
           Grown(old) == IF old.log = c THEN [old EXCEPT !.entries = Append(@, n)] ELSE old
<1>1. /\ said \in [Transcripts -> 0..MaxLines] /\ n \in Entry /\ n \in 0..MaxLines
      /\ said' = [said EXCEPT ![c] = n] /\ UNCHANGED <<lines, unread, readsLeft>>
      /\ lineChain' = Append(lineChain, link)
      /\ transcriptCache' = [k \in DOMAIN transcriptCache |-> Grown(transcriptCache[k])]
  <2>1. said \in [Transcripts -> 0..MaxLines] /\ said[c] < MaxLines
    BY DEF AppendMessage, CacheInv, CacheTyped
  <2>2. n \in Entry /\ n \in 0..MaxLines
    BY <2>1, CacheConstants DEF Entry
  <2>3. said' = [said EXCEPT ![c] = n] /\ said'[c] = n
    BY <2>1 DEF AppendMessage
  <2>4. /\ lineChain' = Append(lineChain, link) /\ UNCHANGED <<lines, unread, readsLeft>>
    BY <2>3 DEF AppendMessage
  <2>5. transcriptCache' = [k \in DOMAIN transcriptCache |-> Grown(transcriptCache[k])]
    BY <2>3 DEF AppendMessage
  <2> QED BY <2>1, <2>2, <2>3, <2>4, <2>5
<1>2. link \in LinkRecord
  BY <1>1 DEF LinkRecord
<1>3. said \in [Transcripts -> Nat] /\ said' \in [Transcripts -> 0..MaxLines] /\ said' \in [Transcripts -> Nat]
  BY <1>1
<1>4. transcriptCache \in Seq(CachedRecord) /\ Len(transcriptCache) \in Nat
      /\ DOMAIN transcriptCache = 1..Len(transcriptCache)
  BY DEF CacheInv, CacheTyped
<1>5. DOMAIN transcriptCache' = 1..Len(transcriptCache)
      /\ \A k \in 1..Len(transcriptCache) : transcriptCache'[k] = Grown(transcriptCache[k])
  BY <1>1, <1>4
<1>6. ASSUME NEW k \in 1..Len(transcriptCache)
      PROVE  /\ transcriptCache'[k] \in CachedRecord /\ transcriptCache'[k].log = transcriptCache[k].log
             /\ Tells(transcriptCache'[k], said', unread)
  <2>1. Tells(transcriptCache[k], said, unread) /\ transcriptCache[k] \in CachedRecord
    BY <1>4 DEF CacheInv, CachedInv
  <2>2. /\ transcriptCache'[k] = IF transcriptCache[k].log = c
                                 THEN [transcriptCache[k] EXCEPT !.entries = Append(@, n)]
                                 ELSE transcriptCache[k]
    BY <1>5
  <2>3. n = said[c] + 1
    OBVIOUS
  <2> HIDE DEF n, Grown
  <2> DEFINE old == transcriptCache[k]
             new == transcriptCache'[k]
  <2>4. /\ old \in CachedRecord /\ old.log \in Transcripts /\ old.entries \in Seq(Entry)
        /\ Ascends(old.entries) /\ Below(old.entries, said[old.log])
        /\ \A e \in 1..said[old.log] : Has(old.entries, e) \/ e \in unread[old.log]
        /\ new = IF old.log = c THEN [old EXCEPT !.entries = Append(@, n)] ELSE old
    BY <2>1, <2>2 DEF Tells, CachedRecord
  <2> HIDE DEF old, new
  <2>5. CASE old.log = c
    <3> DEFINE s == old.entries
               t == Append(s, n)
    <3>1. t \in Seq(Entry)
      BY <1>1, <2>4, AppendProperties
    <3>2. new = [old EXCEPT !.entries = t]
      BY <2>4, <2>5
    <3> HIDE DEF t
    <3>3. new \in CachedRecord /\ new.log = c /\ new.entries = t
      BY <2>4, <2>5, <3>1, <3>2 DEF CachedRecord
    <3>4. s \in Seq(Entry) /\ Ascends(s) /\ Below(s, n - 1) /\ \A e \in 1..said[c] : Has(s, e) \/ e \in unread[c]
      BY <1>3, <2>3, <2>4, <2>5
    <3> HIDE DEF s
    <3>5. Ascends(t) /\ Below(t, n) /\ Has(t, n) /\ \A d \in Entry : Has(s, d) => Has(t, d)
      BY <1>1, <3>4, OneEntryMore DEF t
    <3>6. said'[c] = n /\ 1..n \subseteq Entry /\ \A e \in 1..n : e = n \/ e \in 1..said[c]
      BY <1>1, <1>3, CacheConstants, <2>3 DEF Entry
    <3>7. \A e \in 1..n : Has(t, e) \/ e \in unread[c]
      BY <3>4, <3>5, <3>6
    <3>8. new.log = old.log /\ Tells(new, said', unread)
      BY <2>5, <3>3, <3>5, <3>6, <3>7 DEF Tells
    <3> QED BY <3>3, <3>8 DEF new, old
  <2>6. CASE old.log # c
    BY <1>1, <2>4, <2>6 DEF Tells, new, old
  <2> QED BY <2>5, <2>6 DEF new, old
<1> HIDE DEF Grown, link, n
<1>7. transcriptCache' \in Seq(CachedRecord) /\ Len(transcriptCache') = Len(transcriptCache)
  BY <1>1, <1>4, <1>5, <1>6, FunIsSeq
<1>8. CachedInv'
  <2>1. Apart(transcriptCache) /\ unread' = unread
    BY <1>1 DEF CacheInv, CachedInv
  <2>2. Apart(transcriptCache')
    BY <1>6, <1>7, <2>1 DEF Apart
  <2> QED BY <1>6, <1>7, <2>1, <2>2 DEF CachedInv
<1>9. CacheTyped'
  BY <1>1, <1>7, <1>2, AppendReads, <1>3 DEF CacheInv, CacheTyped
<1> QED BY <1>8, <1>9

\* A read that waits for one link less.
LEMMA NearerRead ==
    ASSUME NEW read \in ReadRecord, NEW new,
           new = IF read.behind > 0 THEN [read EXCEPT !.behind = @ - 1] ELSE read
    PROVE  /\ new \in ReadRecord /\ new.state = read.state /\ new.log = read.log /\ new.text = read.text
           /\ new.missed = read.missed /\ read.behind \in Nat /\ new.behind \in Nat
           /\ (read.behind > 0 => new.behind = read.behind - 1) /\ (read.behind = 0 => new.behind = 0)
<1> DEFINE b == read.behind - 1
<1>0. read.behind \in Nat
  BY DEF ReadRecord
<1>1. CASE read.behind > 0
  <2>1. b \in Nat /\ new = [read EXCEPT !.behind = b]
    BY <1>0, <1>1
  <2> HIDE DEF b
  <2>2. /\ new \in ReadRecord /\ new.state = read.state /\ new.log = read.log /\ new.text = read.text
        /\ new.missed = read.missed /\ new.behind = b
    BY <2>1 DEF ReadRecord
  <2> QED BY <1>0, <1>1, <2>1, <2>2 DEF b
<1>2. CASE ~(read.behind > 0)
  BY <1>0, <1>2
<1> QED BY <1>1, <1>2

\* The first link is written: its entry goes from the chain to its file.
LEMMA WrittenParts ==
    ASSUME CacheInv, LineWritten
    PROVE  /\ lineChain' \in Seq(LinkRecord) /\ Len(lineChain') = Len(lineChain) - 1 /\ Len(lineChain) \in Nat \ {0}
           /\ \A k \in 1..Len(lineChain') : lineChain'[k] = lineChain[k + 1]
           /\ lines' \in [Transcripts -> Seq(Entry)]
           /\ LET c == lineChain[1].log e == lineChain[1].entry IN
              /\ c \in Transcripts /\ e \in Entry
              /\ \A d \in Transcripts \ {c} : lines'[d] = lines[d]
              /\ Ascends(lines'[c]) /\ Below(lines'[c], e) /\ Has(lines'[c], e)
              /\ \A d \in Entry : Has(lines[c], d) => Has(lines'[c], d)
<1> DEFINE c == lineChain[1].log
           e == lineChain[1].entry
           t == Append(lines[c], e)
<1>1. /\ lineChain' \in Seq(LinkRecord) /\ Len(lineChain') = Len(lineChain) - 1 /\ Len(lineChain) \in Nat \ {0}
      /\ \A k \in 1..Len(lineChain') : lineChain'[k] = lineChain[k + 1]
      /\ Head(lineChain) = lineChain[1]
  BY OneLess DEF CacheInv, CacheTyped, LineWritten
<1>2. 1 \in 1..Len(lineChain)
  BY <1>1
<1>3. c \in Transcripts /\ e \in Entry /\ lines[c] \in Seq(Entry)
  BY <1>2, CacheParts
<1>4. Ascends(lines[c]) /\ Below(lines[c], e - 1)
  BY <1>2, <1>3 DEF CacheInv, FileInv
<1>5. lines \in [Transcripts -> Seq(Entry)] /\ lines' = [lines EXCEPT ![c] = t]
  BY <1>1 DEF CacheInv, CacheTyped, LineWritten
<1> HIDE DEF c, e
<1>6. t \in Seq(Entry) /\ Ascends(t) /\ Below(t, e) /\ Has(t, e) /\ \A d \in Entry : Has(lines[c], d) => Has(t, d)
  <2> DEFINE s == lines[c]
  <2>1. s \in Seq(Entry) /\ Ascends(s) /\ Below(s, e - 1) /\ t = Append(s, e)
    BY <1>3, <1>4
  <2> HIDE DEF s, t
  <2>2. t \in Seq(Entry) /\ Ascends(t) /\ Below(t, e) /\ Has(t, e) /\ \A d \in Entry : Has(s, d) => Has(t, d)
    BY <1>3, <2>1, OneEntryMore
  <2> QED BY <2>2 DEF s
<1> HIDE DEF t
<1>7. lines'[c] = t /\ lines' \in [Transcripts -> Seq(Entry)] /\ \A d \in Transcripts \ {c} : lines'[d] = lines[d]
  BY <1>3, <1>5, <1>6
<1> QED BY <1>1, <1>3, <1>6, <1>7 DEF c, e

\* The files, and what is still to be written.
LEMMA WrittenFiles ==
    ASSUME CacheInv, LineWritten
    PROVE  FileInv'
<1> DEFINE c == lineChain[1].log
           x == lineChain[1].entry
           Log(k) == lineChain[k].log
           Ent(k) == lineChain[k].entry
<1>1. /\ Len(lineChain') = Len(lineChain) - 1 /\ Len(lineChain) \in Nat \ {0}
      /\ \A k \in 1..Len(lineChain') : lineChain'[k] = lineChain[k + 1]
      /\ lines' \in [Transcripts -> Seq(Entry)]
      /\ c \in Transcripts /\ x \in Entry
      /\ \A d \in Transcripts \ {c} : lines'[d] = lines[d]
      /\ Ascends(lines'[c]) /\ Below(lines'[c], x) /\ Has(lines'[c], x)
      /\ \A d \in Entry : Has(lines[c], d) => Has(lines'[c], d)
      /\ said' = said
  BY WrittenParts DEF LineWritten
<1>2. 1 \in 1..Len(lineChain) /\ x \in Nat /\ Entry \subseteq Nat /\ said[c] \in Nat
  BY <1>1, CacheParts
<1>3. \A k \in 1..Len(lineChain') : k + 1 \in 1..Len(lineChain)
  BY <1>1
<1>4. ASSUME NEW d \in Transcripts
      PROVE  /\ Ascends(lines'[d]) /\ Below(lines'[d], said[d])
             /\ \A e \in 1..said[d] : Has(lines'[d], e) \/ InLinks(lineChain', Len(lineChain'), d, e)
  <2>1. /\ Ascends(lines[d]) /\ Below(lines[d], said[d]) /\ 1..said[d] \subseteq Entry
        /\ \A e \in 1..said[d] : Has(lines[d], e) \/ InLinks(lineChain, Len(lineChain), d, e)
    BY CacheParts DEF CacheInv, FileInv
  <2>2. Ascends(lines'[d])
    BY <1>1, <2>1
  <2>3. Below(lines'[d], said[d])
    BY <1>2, <1>1, BelowMore, <2>1 DEF CacheInv, FileInv
  <2>4. ASSUME NEW e \in 1..said[d] PROVE Has(lines'[d], e) \/ InLinks(lineChain', Len(lineChain'), d, e)
    <3>1. CASE Has(lines[d], e)
      BY <1>1, <2>1, <3>1
    <3>2. CASE InLinks(lineChain, Len(lineChain), d, e)
      <4>1. PICK k \in 1..Len(lineChain) : lineChain[k].log = d /\ lineChain[k].entry = e
        BY <3>2 DEF InLinks
      <4>2. CASE k = 1
        BY <1>1, <4>1, <4>2
      <4>3. CASE k # 1
        <5>1. k - 1 \in 1..Len(lineChain') /\ (k - 1) + 1 = k
          BY <1>1, <4>3
        <5>2. lineChain'[k - 1].log = d /\ lineChain'[k - 1].entry = e
          BY <1>1, <4>1, <5>1
        <5> QED BY <5>1, <5>2 DEF InLinks
      <4> QED BY <4>2, <4>3
    <3> QED BY <2>1, <3>1, <3>2
  <2> QED BY <2>2, <2>3, <2>4
<1>5. ASSUME NEW k \in 1..Len(lineChain')
      PROVE  /\ Ent(k + 1) <= said[Log(k + 1)] /\ Below(lines'[Log(k + 1)], Ent(k + 1) - 1)
             /\ \A l \in 1..Len(lineChain') : l > k /\ Log(l + 1) = Log(k + 1) => Ent(k + 1) < Ent(l + 1)
  <2> DEFINE m == k + 1
  <2>1. m \in 1..Len(lineChain) /\ m > 1
    BY <1>3
  <2>2. /\ Ent(m) <= said[Log(m)] /\ Below(lines[Log(m)], Ent(m) - 1)
        /\ \A l \in 1..Len(lineChain) : l > m /\ Log(l) = Log(m) => Ent(m) < Ent(l)
    BY <2>1 DEF CacheInv, FileInv
  <2>3. Log(1) = Log(m) => Ent(1) < Ent(m)
    BY <1>2, <2>1 DEF CacheInv, FileInv
  <2>4. Log(m) \in Transcripts /\ Ent(m) \in Nat
    BY <2>1, CacheParts
  <2>5. \A l \in 1..Len(lineChain') : l > k => l + 1 > m
    BY <1>1
  <2> HIDE DEF m
  <2>6. Below(lines'[Log(m)], Ent(m) - 1)
    BY <1>2, <2>3, <2>4, <1>1, BelowMore, <2>2
  <2>7. \A l \in 1..Len(lineChain') : l > k /\ Log(l + 1) = Log(m) => Ent(m) < Ent(l + 1)
    BY <1>3, <2>2, <2>5
  <2> QED BY <2>2, <2>6, <2>7 DEF m
<1>6. \A k \in 1..Len(lineChain') : lineChain'[k].log = Log(k + 1) /\ lineChain'[k].entry = Ent(k + 1)
  BY <1>1
<1> HIDE DEF Log, Ent, c, x
<1>7. ASSUME NEW k \in 1..Len(lineChain')
      PROVE  /\ lineChain'[k].entry <= said[lineChain'[k].log]
             /\ Below(lines'[lineChain'[k].log], lineChain'[k].entry - 1)
             /\ \A l \in 1..Len(lineChain') :
                   l > k /\ lineChain'[l].log = lineChain'[k].log => lineChain'[k].entry < lineChain'[l].entry
  BY <1>5, <1>6
<1>8. said' = said
  BY <1>1
<1> QED BY <1>4, <1>7, <1>8 DEF FileInv

\* A read finds in the files what it waited for.
LEMMA WrittenReads ==
    ASSUME CacheInv, LineWritten
    PROVE  ReadsInv' /\ reads' \in [Readers -> ReadRecord]
<1> DEFINE c == lineChain[1].log
           x == lineChain[1].entry
<1>1. /\ Len(lineChain') = Len(lineChain) - 1 /\ Len(lineChain) \in Nat \ {0}
      /\ \A k \in 1..Len(lineChain') : lineChain'[k] = lineChain[k + 1]
      /\ \A d \in Transcripts \ {c} : lines'[d] = lines[d]
      /\ Has(lines'[c], x)
      /\ \A d \in Entry : Has(lines[c], d) => Has(lines'[c], d)
      /\ said' = said
      /\ reads' = [r \in Readers |-> IF reads[r].behind > 0 THEN [reads[r] EXCEPT !.behind = @ - 1] ELSE reads[r]]
  BY WrittenParts DEF LineWritten
<1>2. ASSUME NEW r \in Readers
      PROVE  reads'[r] \in ReadRecord /\ Finds(reads'[r], lineChain', lines', said)
  <2> DEFINE read == reads[r]
             new == reads'[r]
  <2>1. /\ read \in ReadRecord /\ Finds(read, lineChain, lines, said)
        /\ new = IF read.behind > 0 THEN [read EXCEPT !.behind = @ - 1] ELSE read
    BY <1>1 DEF CacheInv, CacheTyped, ReadsInv
  <2> HIDE DEF read, new
  <2>2. /\ new \in ReadRecord /\ new.state = read.state /\ new.log = read.log /\ new.text = read.text
        /\ new.missed = read.missed /\ read.behind \in Nat /\ new.behind \in Nat
        /\ (read.behind > 0 => new.behind = read.behind - 1) /\ (read.behind = 0 => new.behind = 0)
    BY <2>1, NearerRead
  <2>3. ASSUME read.state = "reading"
        PROVE  /\ read.log \in Transcripts /\ new.behind <= Len(lineChain')
               /\ \A e \in 1..said[read.log] :
                     e \in read.missed \/ Has(lines'[read.log], e) \/ InLinks(lineChain', new.behind, read.log, e)
    <3>1. /\ read.log \in Transcripts /\ read.behind <= Len(lineChain)
          /\ \A e \in 1..said[read.log] :
                e \in read.missed \/ Has(lines[read.log], e) \/ InLinks(lineChain, read.behind, read.log, e)
      BY <2>1, <2>3 DEF Finds
    <3>2. new.behind <= Len(lineChain')
      BY <1>1, <2>2, <3>1
    <3>3. 1..said[read.log] \subseteq Entry
      BY <3>1, CacheParts
    <3>4. ASSUME NEW e \in 1..said[read.log]
          PROVE  e \in read.missed \/ Has(lines'[read.log], e) \/ InLinks(lineChain', new.behind, read.log, e)
      <4>1. CASE Has(lines[read.log], e)
        BY <1>1, <3>1, <3>3, <4>1
      <4>2. CASE InLinks(lineChain, read.behind, read.log, e)
        <5>1. PICK k \in 1..read.behind : lineChain[k].log = read.log /\ lineChain[k].entry = e
          BY <4>2 DEF InLinks
        <5>2. CASE k = 1
          BY <1>1, <5>1, <5>2
        <5>3. CASE k # 1
          <6>1. k - 1 \in 1..new.behind /\ k - 1 \in 1..Len(lineChain') /\ (k - 1) + 1 = k
            BY <1>1, <2>2, <3>1, <3>2, <5>1, <5>3
          <6>2. lineChain'[k - 1].log = read.log /\ lineChain'[k - 1].entry = e
            BY <1>1, <5>1, <6>1
          <6> QED BY <6>1, <6>2 DEF InLinks
        <5> QED BY <5>2, <5>3
      <4> QED BY <3>1, <4>1, <4>2
    <3> QED BY <3>1, <3>2, <3>4
  <2>4. Finds(new, lineChain', lines', said)
    BY <2>1, <2>2, <2>3 DEF Finds
  <2> QED BY <2>2, <2>4 DEF new
<1>3. reads' \in [Readers -> ReadRecord]
  BY <1>1, <1>2
<1> QED BY <1>1, <1>2, <1>3 DEF ReadsInv

\* A sequence without its i-th element.
LEMMA OneOut ==
    ASSUME NEW S, NEW w \in Seq(S), NEW i \in 1..Len(w), NEW v, v = RemoveAt(w, i)
    PROVE  /\ v \in Seq(S) /\ Len(v) = Len(w) - 1
           /\ \A k \in 1..Len(v) : v[k] = IF k < i THEN w[k] ELSE w[k + 1]
<1> DEFINE a == SubSeq(w, 1, i - 1)
           b == SubSeq(w, i + 1, Len(w))
<1>1. Len(w) \in Nat /\ i \in Nat /\ i >= 1 /\ i <= Len(w)
  OBVIOUS
<1>2. a \in Seq(S) /\ Len(a) = i - 1 /\ \A k \in 1..(i - 1) : a[k] = w[k]
  BY <1>1
<1>3. b \in Seq(S) /\ Len(b) = Len(w) - i /\ \A k \in 1..(Len(w) - i) : b[k] = w[i + k]
  BY <1>1
<1>4. v = a \o b
  BY DEF RemoveAt
<1> HIDE DEF a, b
<1>5. v \in Seq(S) /\ Len(v) = Len(w) - 1
  BY <1>1, <1>2, <1>3, <1>4
<1>6. ASSUME NEW k \in 1..Len(v) PROVE v[k] = IF k < i THEN w[k] ELSE w[k + 1]
  <2>1. v[k] = IF k <= Len(a) THEN a[k] ELSE b[k - Len(a)]
    BY <1>1, <1>2, <1>3, <1>4, <1>5
  <2>2. CASE k < i
    BY <1>1, <1>2, <2>2, <2>1
  <2>3. CASE ~(k < i)
    BY <1>1, <1>2, <1>5, <2>3, <1>3, <2>1
  <2> QED BY <2>2, <2>3
<1> QED BY <1>5, <1>6

\* The cache without a chat: the transcripts of the others.
LEMMA WithoutOne ==
    ASSUME CacheInv, NEW c, NEW w, w = Without(c)
    PROVE  /\ w \in Seq(CachedRecord) /\ Len(w) \in Nat /\ Len(w) <= CacheMax /\ Apart(w)
           /\ \A k \in 1..Len(w) : w[k].log # c /\ w[k] \in CachedRecord /\ Tells(w[k], said, unread)
<1> DEFINE s == transcriptCache
           i == CHOOSE k \in DOMAIN transcriptCache : transcriptCache[k].log = c
<1>1. /\ s \in Seq(CachedRecord) /\ Len(s) \in Nat /\ Len(s) <= CacheMax /\ Apart(s)
      /\ DOMAIN s = 1..Len(s) /\ \A k \in 1..Len(s) : s[k] \in CachedRecord /\ Tells(s[k], said, unread)
  BY DEF CacheInv, CacheTyped, CachedInv
<1>2. CASE c \notin CachedLogs
  <2>1. w = s
    BY <1>2 DEF Without
  <2>2. \A k \in 1..Len(s) : s[k].log # c
    BY <1>1, <1>2 DEF CachedLogs
  <2> HIDE DEF s
  <2> QED BY <1>1, <2>1, <2>2
<1>3. CASE c \in CachedLogs
  <2>1. \E k \in DOMAIN transcriptCache : transcriptCache[k].log = c
    BY <1>3 DEF CachedLogs
  <2>2. i \in 1..Len(s) /\ s[i].log = c /\ w = RemoveAt(s, i)
    <3>1. w = RemoveAt(s, i)
      BY <1>3 DEF Without
    <3>2. i \in DOMAIN transcriptCache /\ transcriptCache[i].log = c
      BY <2>1, Zenon
    <3> HIDE DEF i
    <3>3. i \in 1..Len(s)
      BY <1>1, <3>2
    <3> QED BY <3>1, <3>2, <3>3
  <2> HIDE DEF s, i
  <2>3. /\ w \in Seq(CachedRecord) /\ Len(w) = Len(s) - 1
        /\ \A k \in 1..Len(w) : w[k] = IF k < i THEN s[k] ELSE s[k + 1]
    <3>1. w \in Seq(CachedRecord)
      BY <1>1, <2>2, OneOut
    <3>2. Len(w) = Len(s) - 1
      BY <1>1, <2>2, OneOut
    <3>3. \A k \in 1..Len(w) : w[k] = IF k < i THEN s[k] ELSE s[k + 1]
      BY <1>1, <2>2, OneOut
    <3> QED BY <3>1, <3>2, <3>3
  <2> DEFINE F(k) == IF k < i THEN k ELSE k + 1
  <2>4. \A k \in 1..Len(w) : F(k) \in 1..Len(s) /\ F(k) # i /\ w[k] = s[F(k)]
    BY <1>1, <2>2, <2>3
  <2>5. \A k, l \in 1..Len(w) : l # k => F(l) # F(k)
    BY <1>1, <2>2, <2>3
  <2> HIDE DEF F
  <2>6. Apart(w)
    BY <1>1, <2>4, <2>5 DEF Apart
  <2>7. ASSUME NEW k \in 1..Len(w)
        PROVE  w[k].log # c /\ w[k] \in CachedRecord /\ Tells(w[k], said, unread)
    BY <1>1, <2>2, <2>4 DEF Apart
  <2>8. Len(w) \in Nat /\ Len(w) <= CacheMax
    BY <1>1, <2>2, <2>3, CacheConstants
  <2> QED BY <2>3, <2>6, <2>7, <2>8
<1> QED BY <1>2, <1>3

\* One read changes; the others find what they found.
LEMMA OneRead ==
    ASSUME CacheInv, NEW r \in Readers, NEW new \in ReadRecord, reads' = [reads EXCEPT ![r] = new],
           UNCHANGED <<said, lines, lineChain>>, Finds(new, lineChain, lines, said)
    PROVE  FileInv' /\ ReadsInv' /\ reads' \in [Readers -> ReadRecord]
<1>1. FileInv /\ ReadsInv /\ reads \in [Readers -> ReadRecord]
  BY DEF CacheInv, CacheTyped
<1>2. FileInv'
  BY <1>1 DEF FileInv, InLinks
<1>3. reads' \in [Readers -> ReadRecord] /\ reads'[r] = new /\ \A q \in Readers \ {r} : reads'[q] = reads[q]
  BY <1>1
<1>4. \A q \in Readers : Finds(reads'[q], lineChain, lines, said)
  BY <1>1, <1>3 DEF ReadsInv
<1> QED BY <1>2, <1>3, <1>4 DEF ReadsInv

\* A read begins: all there is, is in the file or in the links it waits for.
LEMMA GetFinds ==
    ASSUME CacheInv, NEW r \in Readers, NEW c \in Transcripts, GetMessages(r, c)
    PROVE  CacheInv'
<1> DEFINE new == [NoRead EXCEPT !.state = "reading", !.log = c, !.behind = Len(lineChain)]
<1>1. /\ reads' = [reads EXCEPT ![r] = new] /\ readsLeft \in 0..MaxReads /\ readsLeft > 0
      /\ readsLeft' = readsLeft - 1
      /\ UNCHANGED <<said, lines, lineChain, transcriptCache, unread>>
  BY DEF GetMessages, CacheInv, CacheTyped
<1>2. Len(lineChain) \in Nat
  BY CacheParts
<1>3. /\ new.state = "reading" /\ new.log = c /\ new.behind = Len(lineChain) /\ new.missed = {}
      /\ new \in ReadRecord
  BY EmptySeq, <1>2 DEF NoRead, ReadRecord
<1> HIDE DEF new
<1>4. Finds(new, lineChain, lines, said)
  BY <1>2, <1>3 DEF CacheInv, FileInv, Finds
<1>5. FileInv' /\ ReadsInv' /\ reads' \in [Readers -> ReadRecord]
  BY <1>1, <1>3, <1>4, OneRead
<1>6. readsLeft' \in 0..MaxReads
  BY <1>1, CacheConstants
<1>7. CacheTyped'
  BY <1>1, <1>5, <1>6 DEF CacheInv, CacheTyped
<1>8. CachedInv'
  BY <1>1 DEF CacheInv, CachedInv
<1> QED BY <1>5, <1>7, <1>8 DEF CacheInv

\* The text is read: no link that counts is missing any more.
LEMMA LoadFinds ==
    ASSUME CacheInv, NEW r \in Readers, LoadTranscript(r)
    PROVE  CacheInv'
<1> DEFINE old == reads[r]
           text == lines[old.log]
           new == [old EXCEPT !.state = "read", !.text = text]
<1>1. /\ old.state = "reading" /\ old.behind = 0 /\ reads' = [reads EXCEPT ![r] = new]
      /\ UNCHANGED <<said, lines, lineChain, transcriptCache, unread, readsLeft>>
      /\ old \in ReadRecord /\ Finds(old, lineChain, lines, said)
  BY DEF CacheInv, CacheTyped, LoadTranscript, ReadsInv
<1> HIDE DEF old
<1>2. /\ old.log \in Transcripts
      /\ \A e \in 1..said[old.log] :
            e \in old.missed \/ Has(lines[old.log], e) \/ InLinks(lineChain, 0, old.log, e)
  BY <1>1 DEF Finds
<1>3. text \in Seq(Entry) /\ Ascends(text) /\ Below(text, said[old.log])
  BY <1>2, CacheParts DEF CacheInv, FileInv
<1>4. \A e : ~InLinks(lineChain, 0, old.log, e)
  BY DEF InLinks
<1>5. \A e \in 1..said[old.log] : e \in old.missed \/ Has(text, e)
  BY <1>2, <1>4
<1> HIDE DEF text
<1>6. new.state = "read" /\ new.log = old.log /\ new.text = text /\ new.missed = old.missed /\ new \in ReadRecord
  BY <1>1, <1>3 DEF ReadRecord
<1> HIDE DEF new
<1>7. Finds(new, lineChain, lines, said)
  BY <1>2, <1>3, <1>5, <1>6 DEF Finds
<1>8. FileInv' /\ ReadsInv' /\ reads' \in [Readers -> ReadRecord]
  BY <1>1, <1>6, <1>7, OneRead
<1>9. CacheTyped'
  BY <1>1, <1>8 DEF CacheInv, CacheTyped
<1>10. CachedInv'
  BY <1>1 DEF CacheInv, CachedInv
<1> QED BY <1>8, <1>9, <1>10 DEF CacheInv

\* The text becomes the cached transcript of its chat, and the oldest may go.
LEMMA SetTells ==
    ASSUME CacheInv, NEW r \in Readers, SetTranscriptCache(r)
    PROVE  CacheInv'
<1> DEFINE read == reads[r]
           c == read.log
           filled == Append(Without(c), [log |-> c, entries |-> read.text])
           put == [log |-> c, entries |-> read.text]
           w == Without(c)
<1>1. /\ read.state = "read" /\ transcriptCache' = IF Len(filled) > CacheMax THEN Tail(filled) ELSE filled
      /\ unread' = [unread EXCEPT ![c] = read.missed] /\ reads' = [reads EXCEPT ![r] = NoRead]
      /\ UNCHANGED <<said, lines, lineChain, readsLeft>>
  BY DEF SetTranscriptCache
<1>2. read \in ReadRecord /\ Finds(read, lineChain, lines, said)
  BY DEF CacheInv, CacheTyped, ReadsInv
<1>3. filled = Append(w, put) /\ put.log = c /\ put.entries = read.text
  OBVIOUS
<1>4. /\ w \in Seq(CachedRecord) /\ Len(w) \in Nat /\ Len(w) <= CacheMax /\ Apart(w)
      /\ \A k \in 1..Len(w) : w[k].log # c /\ w[k] \in CachedRecord /\ Tells(w[k], said, unread)
  BY WithoutOne
<1> HIDE DEF read, filled, w
<1>5. /\ c \in Transcripts /\ Ascends(read.text) /\ Below(read.text, said[c]) /\ read.missed \subseteq Entry
      /\ read.text \in Seq(Entry) /\ \A e \in 1..said[c] : e \in read.missed \/ Has(read.text, e)
  BY <1>1, <1>2 DEF Finds, ReadRecord
<1>6. put \in CachedRecord
  BY <1>5 DEF CachedRecord
<1> HIDE DEF c, put
<1>7. unread \in [Transcripts -> SUBSET Entry]
  BY DEF CacheInv, CacheTyped
<1>8. /\ unread' \in [Transcripts -> SUBSET Entry] /\ unread'[c] = read.missed
      /\ \A d \in Transcripts \ {c} : unread'[d] = unread[d]
  BY <1>1, <1>5, <1>7
<1>9. Tells(put, said, unread')
  BY <1>3, <1>5, <1>8 DEF Tells
<1>10. \A k \in 1..Len(w) : Tells(w[k], said, unread')
  BY <1>4, <1>8 DEF CachedRecord, Tells
<1>11. /\ filled \in Seq(CachedRecord) /\ Len(filled) = Len(w) + 1 /\ filled[Len(w) + 1] = put
       /\ \A k \in 1..Len(w) : filled[k] = w[k]
  BY <1>3, <1>4, <1>6, OneMore
<1>12. \A k \in 1..Len(filled) : Tells(filled[k], said, unread')
  BY <1>4, <1>11, <1>9, <1>10
<1>13. Apart(filled)
  <2> SUFFICES ASSUME NEW k \in 1..Len(filled), NEW l \in 1..Len(filled), l # k PROVE filled[l].log # filled[k].log
    BY DEF Apart
  <2>1. (k \in 1..Len(w) \/ k = Len(w) + 1) /\ (l \in 1..Len(w) \/ l = Len(w) + 1)
    BY <1>4, <1>11
  <2>2. CASE k \in 1..Len(w) /\ l \in 1..Len(w)
    BY <1>4, <1>11, <2>2 DEF Apart
  <2>3. CASE k = Len(w) + 1 /\ l \in 1..Len(w)
    BY <1>3, <1>4, <1>11, <2>3
  <2>4. CASE k \in 1..Len(w) /\ l = Len(w) + 1
    BY <1>3, <1>4, <1>11, <2>4
  <2> QED BY <2>1, <2>2, <2>3, <2>4
<1>14. /\ transcriptCache' \in Seq(CachedRecord) /\ Len(transcriptCache') <= CacheMax /\ Apart(transcriptCache')
       /\ \A k \in 1..Len(transcriptCache') : Tells(transcriptCache'[k], said, unread')
  <2> DEFINE new == transcriptCache'
  <2>1. CASE ~(Len(filled) > CacheMax)
    <3>1. new = filled /\ Len(filled) <= CacheMax
      BY <1>1, <1>4, <1>11, <2>1, CacheConstants
    <3> QED BY <1>11, <1>12, <1>13, <3>1
  <2>2. CASE Len(filled) > CacheMax
    <3>1. new = Tail(filled) /\ Len(filled) \in Nat \ {0}
      BY <1>1, <1>4, <1>11, <2>2
    <3>2. filled # <<>>
      BY <3>1
    <3> HIDE DEF new
    <3>3. /\ new \in Seq(CachedRecord) /\ Len(new) = Len(filled) - 1 /\ \A k \in 1..Len(new) : new[k] = filled[k + 1]
      BY <1>11, <3>1, <3>2, OneLess
    <3>4. \A k \in 1..Len(new) : k + 1 \in 1..Len(filled)
      BY <3>1, <3>3
    <3>5. Len(new) <= CacheMax
      BY <1>4, <1>11, <3>3, CacheConstants
    <3>6. \A k \in 1..Len(new) : Tells(new[k], said, unread')
      BY <1>12, <3>3, <3>4
    <3>7. Apart(new)
      <4> SUFFICES ASSUME NEW k \in 1..Len(new), NEW l \in 1..Len(new), l # k PROVE new[l].log # new[k].log
        BY DEF Apart
      <4>1. k + 1 \in 1..Len(filled) /\ l + 1 \in 1..Len(filled) /\ l + 1 # k + 1
        BY <3>4
      <4>2. filled[l + 1].log # filled[k + 1].log
        BY <1>13, <4>1 DEF Apart
      <4> QED BY <3>3, <4>2
    <3> QED BY <3>3, <3>5, <3>6, <3>7 DEF new
  <2> QED BY <2>1, <2>2
<1>15. CachedInv'
  BY <1>1, <1>14 DEF CachedInv
<1>16. NoRead \in ReadRecord /\ Finds(NoRead, lineChain, lines, said)
  BY EmptySeq DEF NoRead, ReadRecord, Finds
<1>17. FileInv' /\ ReadsInv' /\ reads' \in [Readers -> ReadRecord]
  BY <1>1, <1>16, OneRead
<1>18. CacheTyped'
  BY <1>1, <1>8, <1>14, <1>17 DEF CacheInv, CacheTyped
<1> QED BY <1>15, <1>17, <1>18 DEF CacheInv

\* Every step keeps the invariant.
LEMMA CacheStepKeeps ==
    ASSUME CacheInv, [CacheStep]_cacheVars
    PROVE  CacheInv'
<1>1. ASSUME NEW c \in Transcripts, AppendMessage(c) PROVE CacheInv'
  BY <1>1, AppendFiles, AppendReads, AppendCached DEF CacheInv
<1>2. ASSUME NEW c \in Transcripts, NEW r \in Readers, GetMessages(r, c) PROVE CacheInv'
  BY <1>2, GetFinds
<1>3. CASE LineWritten
  BY <1>3, WrittenParts, WrittenFiles, WrittenReads DEF LineWritten, CacheInv, CacheTyped, CachedInv
<1>4. ASSUME NEW r \in Readers, LoadTranscript(r) PROVE CacheInv'
  BY <1>4, LoadFinds
<1>5. ASSUME NEW r \in Readers, SetTranscriptCache(r) PROVE CacheInv'
  BY <1>5, SetTells
<1>6. CASE UNCHANGED cacheVars
  BY <1>6 DEF cacheVars, CacheInv, CacheTyped, FileInv, ReadsInv, CachedInv, InLinks
<1> QED BY <1>1, <1>2, <1>3, <1>4, <1>5, <1>6 DEF CacheStep

\* The store starts with nothing said, read or cached.
LEMMA CacheBegins == CacheInit => CacheInv
<1> SUFFICES ASSUME CacheInit PROVE CacheInv
  OBVIOUS
<1>1. <<>> \in Seq(Entry) /\ <<>> \in Seq(LinkRecord) /\ <<>> \in Seq(CachedRecord) /\ Len(<<>>) = 0
  BY EmptySeq
<1>2. NoRead \in ReadRecord /\ NoRead.state = "idle"
  BY <1>1 DEF NoRead, ReadRecord
<1>3. CacheTyped
  BY <1>1, <1>2, CacheConstants DEF CacheInit, CacheTyped
<1>4. FileInv
  BY <1>1 DEF CacheInit, FileInv, Ascends, Below
<1>5. ReadsInv
  BY <1>2 DEF CacheInit, ReadsInv, Finds
<1>6. CachedInv
  BY <1>1 DEF CacheInit, CachedInv, Apart
<1> QED BY <1>3, <1>4, <1>5, <1>6 DEF CacheInv

\* What the invariant says of the cached transcripts.
LEMMA CacheInvTells == CacheInv => CacheTypeOK /\ CacheTellsAll
<1> SUFFICES ASSUME CacheInv PROVE CacheTypeOK /\ CacheTellsAll
  OBVIOUS
<1>1. CacheTypeOK
  BY DEF CacheInv, CacheTyped, CacheTypeOK, Entry, LinkRecord, CachedRecord, ReadRecord
<1>2. ASSUME NEW k \in DOMAIN transcriptCache
      PROVE  LET c == transcriptCache[k].log entries == transcriptCache[k].entries IN
             /\ \A i, j \in DOMAIN entries : i < j => entries[i] < entries[j]
             /\ 1..said[c] \subseteq ToSet(entries) \cup unread[c]
  <2> DEFINE c == transcriptCache[k].log
             entries == transcriptCache[k].entries
  <2>1. k \in 1..Len(transcriptCache)
    BY DEF CacheInv, CacheTyped
  <2>2. entries \in Seq(Entry) /\ Tells(transcriptCache[k], said, unread)
    BY <2>1, CacheParts DEF CacheInv, CachedInv
  <2>3. Ascends(entries) /\ \A e \in 1..said[c] : Has(entries, e) \/ e \in unread[c]
    BY <2>2 DEF Tells
  <2> HIDE DEF c, entries
  <2>4. DOMAIN entries = 1..Len(entries)
    BY <2>2
  <2>5. \A i, j \in DOMAIN entries : i < j => entries[i] < entries[j]
    BY <2>3, <2>4 DEF Ascends
  <2>6. \A e : Has(entries, e) => e \in ToSet(entries)
    BY <2>4 DEF Has, ToSet
  <2> QED BY <2>3, <2>5, <2>6 DEF c, entries
<1> QED BY <1>1, <1>2 DEF CacheTellsAll

\* EventStore (event-store.ts, appendMessage, getMessages, loadTranscriptFromDisk,
\* setTranscriptCache): whatever reads overlap, and in whatever order they end, a cached
\* transcript holds its chat's entries in their order, each once, and all of them but
\* those that were appended while the read that filled it was under way.
THEOREM TranscriptsAreCached == CacheSpec => [](CacheTypeOK /\ CacheTellsAll)
<1>1. CacheInit => CacheInv
  BY CacheBegins
<1>2. CacheInv /\ [CacheStep]_cacheVars => CacheInv'
  BY CacheStepKeeps
<1>3. CacheInv => CacheTypeOK /\ CacheTellsAll
  BY CacheInvTells
<1> QED BY <1>1, <1>2, <1>3, PTL DEF CacheSpec

-----------------------------------------------------------------------------
(* WorkspaceRecords: what a start rebuilds from its logs *)

\* What the state in memory is made of.
WorkspaceKept  == [state: {"none", "open", "removed"}, path: Folders \cup {""}]
WorkspaceTable == [RecordIds -> WorkspaceKept]
PathTable      == [Folders -> 0..MaxOps]
RepoKept       == [status: {"none", "pending", "cloned", "error"}, label: 0..MaxOps]
RepoTable      == [RecordIds -> RepoKept]
PlaceTable     == [RecordIds -> -1..MaxOps]
WholeTable     == [Kinds -> 0..MaxOps]
MemoryRecord ==
    [workspaces: WorkspaceTable, byPath: PathTable, repos: RepoTable, chatRepo: PlaceTable,
     profiles: 0..MaxOps, overrides: 0..MaxOps, whole: WholeTable]

\* The events, by what they are about.
OpenedEvent  == [log: {"projects"}, type: {"workspace_opened"}, id: RecordIds, about: Folders]
RemovedEvent == [log: {"projects"}, type: {"workspace_removed"}, id: RecordIds, about: {0}]
ChatEvent    == [log: {"chats"}, type: {"chat_created"}, id: RecordIds, about: 0..MaxOps]
RepoTypes    == {"repo_added", "repo_clone_started", "repo_cloned", "repo_clone_failed", "repo_label_updated",
                 "repo_removed"}
RepoEvent    == [log: {"repos"}, type: RepoTypes, id: RecordIds, about: 0..MaxOps]
ProfileTypes == {"provider_profile_saved", "provider_profile_removed", "workspace_profile_override_set",
                 "workspace_profile_override_removed"}
ProfileEvent == [log: {"profiles"}, type: ProfileTypes, id: {0}, about: 0..MaxOps]
WholeEvent   == {e \in [log: LogNames, type: {"put", "change", "remove"}, id: Kinds, about: 0..MaxOps] :
                    e.log = WholeLog[e.id]}
MadeEvent == OpenedEvent \cup RemovedEvent \cup ChatEvent \cup RepoEvent \cup ProfileEvent \cup WholeEvent

\* Two states with the same parts are the same.
LEMMA SameMemory ==
    ASSUME NEW x \in MemoryRecord, NEW y \in MemoryRecord,
           x.workspaces = y.workspaces, x.byPath = y.byPath, x.repos = y.repos, x.chatRepo = y.chatRepo,
           x.profiles = y.profiles, x.overrides = y.overrides, x.whole = y.whole
    PROVE  x = y
  BY DEF MemoryRecord

\* The bounds are of natural numbers.
LEMMA RecordNumbers ==
    /\ MaxOps \in Nat /\ 0 \in 0..MaxOps /\ 0 \in -1..MaxOps
    /\ \A n \in 0..MaxOps : n \in -1..MaxOps
    /\ \A n \in RecordIds : n \in 0..MaxOps
  BY RecordConstants DEF RecordIds

\* A workspace is opened.
LEMMA OpenedApplied ==
    ASSUME NEW m \in MemoryRecord, NEW e \in OpenedEvent
    PROVE  LET w == [m.workspaces EXCEPT ![e.id] = [state |-> "open", path |-> e.about]]
               b == [m.byPath EXCEPT ![e.about] = e.id]
           IN  /\ w \in WorkspaceTable /\ b \in PathTable
               /\ RecordApplied(m, e) = [m EXCEPT !.workspaces = w, !.byPath = b]
<1> DEFINE w == [m.workspaces EXCEPT ![e.id] = [state |-> "open", path |-> e.about]]
           b == [m.byPath EXCEPT ![e.about] = e.id]
<1>1. RecordApplied(m, e) = [m EXCEPT !.workspaces[e.id] = [state |-> "open", path |-> e.about], !.byPath[e.about] = e.id]
  BY DEF RecordApplied, WorkspaceAfter, OpenedEvent
<1>2. m.workspaces \in WorkspaceTable /\ m.byPath \in PathTable
  BY DEF MemoryRecord
<1>3. w \in WorkspaceTable /\ b \in PathTable
  BY <1>2, RecordNumbers DEF WorkspaceTable, WorkspaceKept, PathTable, OpenedEvent
<1>4. [m EXCEPT !.workspaces[e.id] = [state |-> "open", path |-> e.about], !.byPath[e.about] = e.id]
        = [m EXCEPT !.workspaces = w, !.byPath = b]
  BY DEF MemoryRecord
<1> QED BY <1>1, <1>3, <1>4

\* A workspace is removed.
LEMMA RemovedApplied ==
    ASSUME NEW m \in MemoryRecord, NEW e \in RemovedEvent
    PROVE  LET w == [m.workspaces EXCEPT ![e.id] = [state |-> "removed", path |-> m.workspaces[e.id].path]]
               b == [m.byPath EXCEPT ![m.workspaces[e.id].path] = 0]
           IN  /\ w \in WorkspaceTable /\ b \in PathTable
               /\ RecordApplied(m, e) = IF m.workspaces[e.id].state = "none" THEN m
                                        ELSE [m EXCEPT !.workspaces = w, !.byPath = b]
<1> DEFINE w == [m.workspaces EXCEPT ![e.id] = [state |-> "removed", path |-> m.workspaces[e.id].path]]
           b == [m.byPath EXCEPT ![m.workspaces[e.id].path] = 0]
<1>1. RecordApplied(m, e) = IF m.workspaces[e.id].state = "none" THEN m
          ELSE [m EXCEPT !.workspaces[e.id].state = "removed", !.byPath[m.workspaces[e.id].path] = 0]
  BY DEF RecordApplied, WorkspaceAfter, RemovedEvent
<1>2. m.workspaces \in WorkspaceTable /\ m.byPath \in PathTable /\ e.id \in RecordIds
  BY DEF MemoryRecord, RemovedEvent
<1>3. m.workspaces[e.id] \in WorkspaceKept
  BY <1>2 DEF WorkspaceTable
<1>4. [state |-> "removed", path |-> m.workspaces[e.id].path] \in WorkspaceKept
  BY <1>3 DEF WorkspaceKept
<1>5. w \in WorkspaceTable /\ b \in PathTable
  BY <1>2, <1>4, RecordNumbers DEF WorkspaceTable, PathTable
<1>6. [m.workspaces[e.id] EXCEPT !.state = "removed"] = [state |-> "removed", path |-> m.workspaces[e.id].path]
  <2> DEFINE S == {"none", "open", "removed"}
             P == Folders \cup {""}
  <2>1. m.workspaces[e.id] \in [state: S, path: P] /\ "removed" \in S
    BY <1>3 DEF WorkspaceKept
  <2> HIDE DEF S, P
  <2> QED BY <2>1
<1>7. [m EXCEPT !.workspaces[e.id].state = "removed", !.byPath[m.workspaces[e.id].path] = 0]
        = [m EXCEPT !.workspaces = [m.workspaces EXCEPT ![e.id] = [m.workspaces[e.id] EXCEPT !.state = "removed"]], !.byPath = b]
  BY DEF MemoryRecord
<1> QED BY <1>1, <1>5, <1>6, <1>7

\* A chat is created.
LEMMA ChatApplied ==
    ASSUME NEW m \in MemoryRecord, NEW e \in ChatEvent
    PROVE  LET c == [m.chatRepo EXCEPT ![e.id] = e.about]
           IN  c \in PlaceTable /\ RecordApplied(m, e) = [m EXCEPT !.chatRepo = c]
BY RecordNumbers DEF RecordApplied, ChatEvent, MemoryRecord, PlaceTable

\* A profile, or what a workspace overrides of it, is changed.
LEMMA ProfileApplied ==
    ASSUME NEW m \in MemoryRecord, NEW e \in ProfileEvent
    PROVE  LET p == IF e.type = "provider_profile_saved" THEN e.about
                    ELSE IF e.type = "provider_profile_removed" THEN 0 ELSE m.profiles
               o == IF e.type = "workspace_profile_override_set" THEN e.about
                    ELSE IF e.type = "provider_profile_saved" THEN m.overrides ELSE 0
           IN  /\ p \in 0..MaxOps /\ o \in 0..MaxOps
               /\ RecordApplied(m, e) = [m EXCEPT !.profiles = p, !.overrides = o]
<1>1. RecordApplied(m, e) = ProfileAfter(m, e) /\ e.type \in ProfileTypes
  BY DEF RecordApplied, ProfileEvent, ProfileTypes
<1>2. e.about \in 0..MaxOps /\ 0 \in 0..MaxOps
  BY RecordNumbers DEF ProfileEvent
<1>3. CASE e.type = "provider_profile_saved"
  BY <1>1, <1>2, <1>3 DEF ProfileAfter, MemoryRecord
<1>4. CASE e.type = "provider_profile_removed"
  BY <1>1, <1>2, <1>4 DEF ProfileAfter, MemoryRecord
<1>5. CASE e.type = "workspace_profile_override_set"
  BY <1>1, <1>2, <1>5 DEF ProfileAfter, MemoryRecord
<1>6. CASE e.type = "workspace_profile_override_removed"
  BY <1>1, <1>2, <1>6 DEF ProfileAfter, MemoryRecord
<1> QED BY <1>1, <1>3, <1>4, <1>5, <1>6 DEF ProfileTypes

Adds(e) == e.type \in {"repo_added", "repo_clone_started"}

\* What an event makes of a repository, and of where the chats are.
RepoMade(repo, e) ==
    CASE e.type = "repo_added" -> [status |-> "cloned", label |-> 0]
      [] e.type = "repo_clone_started" -> [status |-> "pending", label |-> 0]
      [] e.type = "repo_removed" -> [status |-> "none", label |-> 0]
      [] e.type = "repo_cloned" -> [repo EXCEPT !.status = "cloned"]
      [] e.type = "repo_clone_failed" -> [repo EXCEPT !.status = "error"]
      [] e.type = "repo_label_updated" -> [repo EXCEPT !.label = e.about]
PlacesMade(places, e) ==
    IF e.type = "repo_removed" THEN [c \in RecordIds |-> IF places[c] = e.id THEN 0 ELSE places[c]] ELSE places

\* Something happens to a repository.
LEMMA RepoApplied ==
    ASSUME NEW m \in MemoryRecord, NEW e \in RepoEvent
    PROVE  LET r == [m.repos EXCEPT ![e.id] = RepoMade(m.repos[e.id], e)]
               c == PlacesMade(m.chatRepo, e)
           IN  /\ RepoMade(m.repos[e.id], e) \in RepoKept /\ r \in RepoTable /\ c \in PlaceTable
               /\ RecordApplied(m, e) = IF Adds(e) \/ m.repos[e.id].status # "none"
                                        THEN [m EXCEPT !.repos = r, !.chatRepo = c] ELSE m
<1> DEFINE r == [m.repos EXCEPT ![e.id] = RepoMade(m.repos[e.id], e)]
           c == PlacesMade(m.chatRepo, e)
<1>1. RecordApplied(m, e) = RepoAfter(m, e)
  BY DEF RecordApplied, RepoEvent, RepoTypes
<1>2. e.about \in 0..MaxOps /\ e.id \in RecordIds /\ e.type \in RepoTypes
  BY DEF RepoEvent
<1>3. m.repos \in RepoTable /\ m.chatRepo \in PlaceTable /\ m.repos[e.id] \in RepoKept
  BY <1>2 DEF MemoryRecord, RepoTable
<1>4. RepoMade(m.repos[e.id], e) \in RepoKept
  BY <1>2, <1>3, RecordNumbers DEF RepoKept, RepoMade, RepoTypes
<1>5. r \in RepoTable
  BY <1>2, <1>3, <1>4 DEF RepoTable
<1>6. c \in PlaceTable
  BY <1>3, RecordNumbers DEF PlaceTable, PlacesMade
<1>7. CASE e.type = "repo_added"
  BY <1>1, <1>7, <1>4, <1>5, <1>6 DEF RepoAfter, RepoMade, PlacesMade, Adds, MemoryRecord
<1>8. CASE e.type = "repo_clone_started"
  BY <1>1, <1>8, <1>4, <1>5, <1>6 DEF RepoAfter, RepoMade, PlacesMade, Adds, MemoryRecord
<1>9. CASE ~Adds(e) /\ m.repos[e.id].status = "none"
  BY <1>1, <1>4, <1>5, <1>6, <1>9 DEF RepoAfter, Adds
<1>10. CASE ~Adds(e) /\ m.repos[e.id].status # "none"
  <2>1. CASE e.type = "repo_cloned"
    <3>1. RecordApplied(m, e) = [m EXCEPT !.repos[e.id].status = "cloned"]
      BY <1>1, <1>10, <2>1 DEF RepoAfter
    <3> QED BY <1>3, <1>4, <1>5, <1>6, <1>10, <2>1, <3>1 DEF MemoryRecord, RepoMade, PlacesMade
  <2>2. CASE e.type = "repo_clone_failed"
    <3>1. RecordApplied(m, e) = [m EXCEPT !.repos[e.id].status = "error"]
      BY <1>1, <1>10, <2>2 DEF RepoAfter
    <3> QED BY <1>3, <1>4, <1>5, <1>6, <1>10, <2>2, <3>1 DEF MemoryRecord, RepoMade, PlacesMade
  <2>3. CASE e.type = "repo_label_updated"
    <3>1. RecordApplied(m, e) = [m EXCEPT !.repos[e.id].label = e.about]
      BY <1>1, <1>10, <2>3 DEF RepoAfter
    <3> QED BY <1>3, <1>4, <1>5, <1>6, <1>10, <2>3, <3>1 DEF MemoryRecord, RepoMade, PlacesMade
  <2>4. CASE e.type = "repo_removed"
    <3>1. RecordApplied(m, e) = [m EXCEPT !.repos[e.id] = [status |-> "none", label |-> 0],
                        !.chatRepo = [d \in RecordIds |-> IF m.chatRepo[d] = e.id THEN 0 ELSE m.chatRepo[d]]]
      BY <1>1, <1>10, <2>4 DEF RepoAfter
    <3> QED BY <1>3, <1>4, <1>5, <1>6, <1>10, <2>4, <3>1 DEF MemoryRecord, RepoMade, PlacesMade
  <2> QED BY <1>2, <1>10, <2>1, <2>2, <2>3, <2>4 DEF RepoTypes, Adds
<1> QED BY <1>4, <1>5, <1>6, <1>7, <1>8, <1>9, <1>10 DEF Adds

\* What an event makes of the records that are written as a whole.
WholeMade(whole, e) ==
    IF e.type = "put" \/ (e.type = "change" /\ whole[e.id] # 0) THEN [whole EXCEPT ![e.id] = e.about]
    ELSE IF e.type = "change" THEN whole ELSE [whole EXCEPT ![e.id] = 0]

\* A record that is written as a whole is put, changed or removed.
LEMMA WholeApplied ==
    ASSUME NEW m \in MemoryRecord, NEW e \in WholeEvent
    PROVE  /\ WholeMade(m.whole, e) \in WholeTable
           /\ RecordApplied(m, e) = [m EXCEPT !.whole = WholeMade(m.whole, e)]
<1>1. e.id \in Kinds /\ e.log = WholeLog[e.id] /\ e.type \in {"put", "change", "remove"} /\ e.about \in 0..MaxOps
  BY DEF WholeEvent
<1>2. e.log \in {"coordination", "configs", "preferences", "projects"}
  <2>1. e.id \in {"rule", "config", "preference", "group"}
    BY <1>1, RecordConstants
  <2> QED BY <1>1, <2>1 DEF WholeLog
<1>3. RecordApplied(m, e) = WholeAfter(m, e)
  BY <1>1, <1>2 DEF RecordApplied
<1>4. m.whole \in WholeTable
  BY DEF MemoryRecord
<1>5. WholeMade(m.whole, e) \in WholeTable
  BY <1>1, <1>4, RecordNumbers DEF WholeTable, WholeMade
<1>6. CASE e.type = "put"
  BY <1>3, <1>6, <1>5 DEF WholeAfter, WholeMade, MemoryRecord
<1>7. CASE e.type = "change" /\ m.whole[e.id] # 0
  BY <1>3, <1>7, <1>5 DEF WholeAfter, WholeMade, MemoryRecord
<1>8. CASE e.type = "change" /\ m.whole[e.id] = 0
  BY <1>3, <1>8, <1>5 DEF WholeAfter, WholeMade, MemoryRecord
<1>9. CASE e.type = "remove"
  BY <1>3, <1>9, <1>5 DEF WholeAfter, WholeMade, MemoryRecord
<1> QED BY <1>1, <1>6, <1>7, <1>8, <1>9

-----------------------------------------------------------------------------
(* Replaying a log, and log after log *)

\* f is what LinesReplayed is defined as.
SolvesLines(f, s, logged) ==
    f = [n \in 0 .. Len(logged) |-> IF n = 0 THEN s ELSE RecordApplied(f[n - 1], logged[n])]

\* The equation that defines a replay of one log has a solution.
LEMMA LinesExist ==
    ASSUME NEW s, NEW logged, Len(logged) \in Nat
    PROVE  \E f : SolvesLines(f, s, logged)
<1> DEFINE Upto(f, m) == f = [n \in 0 .. m |-> IF n = 0 THEN s ELSE RecordApplied(f[n - 1], logged[n])]
           S == {m \in Nat : \E f : Upto(f, m)}
<1>1. 0 \in S
  <2>1. Upto([n \in 0 .. 0 |-> s], 0)
    OBVIOUS
  <2> QED BY <2>1
<1>2. ASSUME NEW m \in Nat, m \in S PROVE m + 1 \in S
  <2>1. PICK f : Upto(f, m)
    BY <1>2
  <2> DEFINE g == [n \in 0 .. m + 1 |-> IF n = m + 1 THEN RecordApplied(f[m], logged[n]) ELSE f[n]]
  <2>2. \A n \in 0 .. m : f[n] = IF n = 0 THEN s ELSE RecordApplied(f[n - 1], logged[n])
    BY <2>1
  <2>3. \A n \in 0 .. m + 1 : g[n] = IF n = 0 THEN s ELSE RecordApplied(g[n - 1], logged[n])
    <3> SUFFICES ASSUME NEW n \in 0 .. m + 1
                 PROVE  g[n] = IF n = 0 THEN s ELSE RecordApplied(g[n - 1], logged[n])
      OBVIOUS
    <3>1. CASE n = m + 1
      BY <3>1
    <3>2. CASE n # m + 1
      BY <3>2, <2>2
    <3> QED BY <3>1, <3>2
  <2>4. Upto(g, m + 1)
    <3>1. g = [n \in 0 .. m + 1 |-> g[n]]
      OBVIOUS
    <3> HIDE DEF g
    <3> QED BY <2>3, <3>1
  <2>5. \E h : Upto(h, m + 1)
    <3> HIDE DEF g, Upto
    <3> QED BY <2>4
  <2> QED BY <2>5
<1>3. Len(logged) \in S
  <2> HIDE DEF S
  <2> QED BY <1>1, <1>2, NumberByNumber
<1>4. \E f : Upto(f, Len(logged))
  <2> HIDE DEF Upto
  <2> QED BY <1>3
<1> QED BY <1>4, Zenon DEF SolvesLines

\* The replay of one log begins with the state it is given and takes the lines one by one.
LEMMA LinesGo ==
    ASSUME NEW s, NEW logged, Len(logged) \in Nat
    PROVE  /\ LinesReplayed(s, logged)[0] = s
           /\ \A n \in 1 .. Len(logged) :
                 LinesReplayed(s, logged)[n] = RecordApplied(LinesReplayed(s, logged)[n - 1], logged[n])
<1> DEFINE r == LinesReplayed(s, logged)
<1>1. r = CHOOSE f : SolvesLines(f, s, logged)
  BY Zenon DEF LinesReplayed, SolvesLines
<1>2. \E f : SolvesLines(f, s, logged)
  BY LinesExist
<1>3. SolvesLines(r, s, logged)
  <2> HIDE DEF r
  <2> QED BY <1>1, <1>2
<1>4. \A n \in 0 .. Len(logged) : r[n] = IF n = 0 THEN s ELSE RecordApplied(r[n - 1], logged[n])
  <2> HIDE DEF r
  <2> QED BY <1>3 DEF SolvesLines
<1> HIDE DEF r
<1> QED BY <1>4 DEF r

\* What the k-th log in the order of the replay makes of a state.
LogDone(s, files, k) == LinesReplayed(s, files[ReplayOrder[k]])[Len(files[ReplayOrder[k]])]

\* f is what LogsReplayed is defined as.
SolvesLogs(f, kept, files) ==
    f = [k \in 0 .. Len(ReplayOrder) |-> IF k = 0 THEN Loaded(kept) ELSE LogDone(f[k - 1], files, k)]

\* The order of the replay names seven logs.
LEMMA OrderIs ==
    /\ Len(ReplayOrder) = 7
    /\ ReplayOrder[1] = "projects" /\ ReplayOrder[2] = "chats" /\ ReplayOrder[3] = "coordination"
    /\ ReplayOrder[4] = "configs" /\ ReplayOrder[5] = "repos" /\ ReplayOrder[6] = "profiles"
    /\ ReplayOrder[7] = "preferences"
  BY DEF ReplayOrder

\* The equation that defines the replay of all logs has a solution.
LEMMA LogsExist ==
    ASSUME NEW kept, NEW files, Len(ReplayOrder) \in Nat
    PROVE  \E f : SolvesLogs(f, kept, files)
<1> DEFINE Upto(f, m) == f = [n \in 0 .. m |-> IF n = 0 THEN Loaded(kept) ELSE LogDone(f[n - 1], files, n)]
           S == {m \in Nat : \E f : Upto(f, m)}
<1>1. 0 \in S
  <2>1. Upto([n \in 0 .. 0 |-> Loaded(kept)], 0)
    OBVIOUS
  <2> QED BY <2>1
<1>2. ASSUME NEW m \in Nat, m \in S PROVE m + 1 \in S
  <2>1. PICK f : Upto(f, m)
    BY <1>2
  <2> DEFINE g == [n \in 0 .. m + 1 |-> IF n = m + 1 THEN LogDone(f[m], files, n) ELSE f[n]]
  <2>2. \A n \in 0 .. m : f[n] = IF n = 0 THEN Loaded(kept) ELSE LogDone(f[n - 1], files, n)
    BY <2>1
  <2>3. \A n \in 0 .. m + 1 : g[n] = IF n = 0 THEN Loaded(kept) ELSE LogDone(g[n - 1], files, n)
    BY <2>2
  <2>4. Upto(g, m + 1)
    <3>1. g = [n \in 0 .. m + 1 |-> g[n]]
      OBVIOUS
    <3> HIDE DEF g
    <3> QED BY <2>3, <3>1
  <2>5. \E h : Upto(h, m + 1)
    <3> HIDE DEF g, Upto
    <3> QED BY <2>4
  <2> QED BY <2>5
<1>3. Len(ReplayOrder) \in S
  <2> HIDE DEF S
  <2> QED BY <1>1, <1>2, NumberByNumber
<1>4. \E f : Upto(f, Len(ReplayOrder))
  <2> HIDE DEF Upto
  <2> QED BY <1>3
<1> QED BY <1>4, Zenon DEF SolvesLogs

\* A start begins with the snapshot and takes the logs one by one.
LEMMA LogsGo ==
    ASSUME NEW kept, NEW files
    PROVE  /\ LogsReplayed(kept, files)[0] = Loaded(kept)
           /\ \A k \in 1 .. 7 : LogsReplayed(kept, files)[k] = LogDone(LogsReplayed(kept, files)[k - 1], files, k)
           /\ RestartedFrom(kept, files) = LogsReplayed(kept, files)[7]
<1> DEFINE r == LogsReplayed(kept, files)
<1>0. Len(ReplayOrder) = 7
  BY OrderIs
<1>1. r = CHOOSE f : SolvesLogs(f, kept, files)
  BY Zenon DEF LogsReplayed, SolvesLogs, LogDone
<1>2. \E f : SolvesLogs(f, kept, files)
  BY <1>0, LogsExist
<1>3. SolvesLogs(r, kept, files)
  <2> HIDE DEF r
  <2> QED BY <1>1, <1>2
<1>4. \A k \in 0 .. 7 : r[k] = IF k = 0 THEN Loaded(kept) ELSE LogDone(r[k - 1], files, k)
  <2> HIDE DEF r
  <2> QED BY <1>0, <1>3 DEF SolvesLogs
<1>5. RestartedFrom(kept, files) = r[7]
  BY <1>0 DEF RestartedFrom
<1> HIDE DEF r
<1> QED BY <1>4, <1>5 DEF r

-----------------------------------------------------------------------------
(* One event, part by part *)

WorkspaceEvent == OpenedEvent \cup RemovedEvent

\* What an event makes of each part of the state; of most parts it makes nothing.
WorkspacesMade(workspaces, e) ==
    IF e \in OpenedEvent THEN [workspaces EXCEPT ![e.id] = [state |-> "open", path |-> e.about]]
    ELSE IF e \in RemovedEvent /\ workspaces[e.id].state # "none"
         THEN [workspaces EXCEPT ![e.id] = [state |-> "removed", path |-> workspaces[e.id].path]]
    ELSE workspaces
PathsMade(workspaces, paths, e) ==
    IF e \in OpenedEvent THEN [paths EXCEPT ![e.about] = e.id]
    ELSE IF e \in RemovedEvent /\ workspaces[e.id].state # "none"
         THEN [paths EXCEPT ![workspaces[e.id].path] = 0]
    ELSE paths
Changes(repos, e) == e \in RepoEvent /\ (Adds(e) \/ repos[e.id].status # "none")
ReposMade(repos, e) ==
    IF Changes(repos, e) THEN [repos EXCEPT ![e.id] = RepoMade(repos[e.id], e)] ELSE repos
ChatsMade(repos, places, e) ==
    IF e \in ChatEvent THEN [places EXCEPT ![e.id] = e.about]
    ELSE IF Changes(repos, e) THEN PlacesMade(places, e) ELSE places
ProfileMade(profile, e) ==
    IF e \in ProfileEvent
    THEN IF e.type = "provider_profile_saved" THEN e.about
         ELSE IF e.type = "provider_profile_removed" THEN 0 ELSE profile
    ELSE profile
OverrideMade(override, e) ==
    IF e \in ProfileEvent
    THEN IF e.type = "workspace_profile_override_set" THEN e.about
         ELSE IF e.type = "provider_profile_saved" THEN override ELSE 0
    ELSE override
WholesMade(whole, e) == IF e \in WholeEvent THEN WholeMade(whole, e) ELSE whole

\* Parts(y, m, e): y is what e makes of m.
Parts(y, m, e) ==
    /\ y \in MemoryRecord
    /\ y.workspaces = WorkspacesMade(m.workspaces, e)
    /\ y.byPath = PathsMade(m.workspaces, m.byPath, e)
    /\ y.repos = ReposMade(m.repos, e)
    /\ y.chatRepo = ChatsMade(m.repos, m.chatRepo, e)
    /\ y.profiles = ProfileMade(m.profiles, e)
    /\ y.overrides = OverrideMade(m.overrides, e)
    /\ y.whole = WholesMade(m.whole, e)

\* An event is of one kind.
LEMMA OneKind ==
    /\ \A e \in OpenedEvent  : e.type = "workspace_opened" /\ e.log = "projects"
    /\ \A e \in RemovedEvent : e.type = "workspace_removed" /\ e.log = "projects"
    /\ \A e \in ChatEvent    : e.type = "chat_created" /\ e.log = "chats"
    /\ \A e \in RepoEvent    : e.type \in RepoTypes /\ e.log = "repos"
    /\ \A e \in ProfileEvent : e.type \in ProfileTypes /\ e.log = "profiles"
    /\ \A e \in WholeEvent   : e.type \in {"put", "change", "remove"} /\ e.log \in {"projects", "coordination", "configs", "preferences"}
<1>1. \A k \in {"rule", "config", "preference", "group"} : WholeLog[k] \in {"projects", "coordination", "configs", "preferences"}
  BY DEF WholeLog
<1>2. \A e \in WholeEvent : e.log = WholeLog[e.id] /\ e.id \in {"rule", "config", "preference", "group"} /\ e.type \in {"put", "change", "remove"}
  BY RecordConstants DEF WholeEvent
<1>3. \A e \in WholeEvent : e.log \in {"projects", "coordination", "configs", "preferences"}
  BY <1>1, <1>2
<1> QED BY <1>2, <1>3 DEF OpenedEvent, RemovedEvent, ChatEvent, RepoEvent, ProfileEvent

\* Of an event of one kind the others know nothing.
LEMMA NoOther ==
    /\ \A e \in OpenedEvent  : e \notin RemovedEvent /\ e \notin ChatEvent /\ e \notin RepoEvent /\ e \notin ProfileEvent /\ e \notin WholeEvent
    /\ \A e \in RemovedEvent : e \notin OpenedEvent /\ e \notin ChatEvent /\ e \notin RepoEvent /\ e \notin ProfileEvent /\ e \notin WholeEvent
    /\ \A e \in ChatEvent    : e \notin OpenedEvent /\ e \notin RemovedEvent /\ e \notin RepoEvent /\ e \notin ProfileEvent /\ e \notin WholeEvent
    /\ \A e \in RepoEvent    : e \notin OpenedEvent /\ e \notin RemovedEvent /\ e \notin ChatEvent /\ e \notin ProfileEvent /\ e \notin WholeEvent
    /\ \A e \in ProfileEvent : e \notin OpenedEvent /\ e \notin RemovedEvent /\ e \notin ChatEvent /\ e \notin RepoEvent /\ e \notin WholeEvent
    /\ \A e \in WholeEvent   : e \notin OpenedEvent /\ e \notin RemovedEvent /\ e \notin ChatEvent /\ e \notin RepoEvent /\ e \notin ProfileEvent
  BY OneKind DEF RepoTypes, ProfileTypes

\* What an event makes of a state, part by part.
LEMMA AppliedParts ==
    ASSUME NEW m \in MemoryRecord, NEW e \in MadeEvent
    PROVE  Parts(RecordApplied(m, e), m, e)
<1> DEFINE y == RecordApplied(m, e)
<1>0. m \in MemoryRecord /\ m.profiles \in 0..MaxOps /\ m.overrides \in 0..MaxOps
  BY DEF MemoryRecord
<1>1. CASE e \in OpenedEvent
  <2> DEFINE W == [m.workspaces EXCEPT ![e.id] = [state |-> "open", path |-> e.about]]
             B == [m.byPath EXCEPT ![e.about] = e.id]
  <2>10. W \in WorkspaceTable /\ B \in PathTable
    BY <1>1, <1>0, OpenedApplied
  <2>11. y = [m EXCEPT !.workspaces = W, !.byPath = B]
    BY <1>1, <1>0, OpenedApplied
  <2>1. /\ y \in MemoryRecord
        /\ y.workspaces = W
        /\ y.byPath = B
        /\ y.repos = m.repos
        /\ y.chatRepo = m.chatRepo
        /\ y.profiles = m.profiles
        /\ y.overrides = m.overrides
        /\ y.whole = m.whole
    <3> HIDE DEF y, W, B
    <3> QED BY <2>10, <2>11 DEF MemoryRecord
  <2>2. WorkspacesMade(m.workspaces, e) = [m.workspaces EXCEPT ![e.id] = [state |-> "open", path |-> e.about]]
    BY <1>1, NoOther DEF WorkspacesMade
  <2>3. PathsMade(m.workspaces, m.byPath, e) = [m.byPath EXCEPT ![e.about] = e.id]
    BY <1>1, NoOther DEF PathsMade
  <2>4. ReposMade(m.repos, e) = m.repos
    BY <1>1, NoOther DEF ReposMade, Changes
  <2>5. ChatsMade(m.repos, m.chatRepo, e) = m.chatRepo
    BY <1>1, NoOther DEF ChatsMade, Changes
  <2>6. ProfileMade(m.profiles, e) = m.profiles
    BY <1>1, NoOther DEF ProfileMade
  <2>7. OverrideMade(m.overrides, e) = m.overrides
    BY <1>1, NoOther DEF OverrideMade
  <2>8. WholesMade(m.whole, e) = m.whole
    BY <1>1, NoOther DEF WholesMade
  <2> QED BY <2>1, <2>2, <2>3, <2>4, <2>5, <2>6, <2>7, <2>8 DEF Parts
<1>2. CASE e \in RemovedEvent /\ m.workspaces[e.id].state # "none"
  <2> DEFINE W == [m.workspaces EXCEPT ![e.id] = [state |-> "removed", path |-> m.workspaces[e.id].path]]
             B == [m.byPath EXCEPT ![m.workspaces[e.id].path] = 0]
  <2>10. W \in WorkspaceTable /\ B \in PathTable
    BY <1>2, <1>0, RemovedApplied
  <2>11. y = [m EXCEPT !.workspaces = W, !.byPath = B]
    BY <1>2, <1>0, RemovedApplied
  <2>1. /\ y \in MemoryRecord
        /\ y.workspaces = W
        /\ y.byPath = B
        /\ y.repos = m.repos
        /\ y.chatRepo = m.chatRepo
        /\ y.profiles = m.profiles
        /\ y.overrides = m.overrides
        /\ y.whole = m.whole
    <3> HIDE DEF y, W, B
    <3> QED BY <2>10, <2>11 DEF MemoryRecord
  <2>2. WorkspacesMade(m.workspaces, e) = [m.workspaces EXCEPT ![e.id] = [state |-> "removed", path |-> m.workspaces[e.id].path]]
    BY <1>2, NoOther DEF WorkspacesMade
  <2>3. PathsMade(m.workspaces, m.byPath, e) = [m.byPath EXCEPT ![m.workspaces[e.id].path] = 0]
    BY <1>2, NoOther DEF PathsMade
  <2>4. ReposMade(m.repos, e) = m.repos
    BY <1>2, NoOther DEF ReposMade, Changes
  <2>5. ChatsMade(m.repos, m.chatRepo, e) = m.chatRepo
    BY <1>2, NoOther DEF ChatsMade, Changes
  <2>6. ProfileMade(m.profiles, e) = m.profiles
    BY <1>2, NoOther DEF ProfileMade
  <2>7. OverrideMade(m.overrides, e) = m.overrides
    BY <1>2, NoOther DEF OverrideMade
  <2>8. WholesMade(m.whole, e) = m.whole
    BY <1>2, NoOther DEF WholesMade
  <2> QED BY <2>1, <2>2, <2>3, <2>4, <2>5, <2>6, <2>7, <2>8 DEF Parts
<1>3. CASE e \in RemovedEvent /\ m.workspaces[e.id].state = "none"
  <2>1. /\ y \in MemoryRecord
        /\ y.workspaces = m.workspaces
        /\ y.byPath = m.byPath
        /\ y.repos = m.repos
        /\ y.chatRepo = m.chatRepo
        /\ y.profiles = m.profiles
        /\ y.overrides = m.overrides
        /\ y.whole = m.whole
    BY <1>3, RemovedApplied
  <2>2. WorkspacesMade(m.workspaces, e) = m.workspaces
    BY <1>3, NoOther DEF WorkspacesMade
  <2>3. PathsMade(m.workspaces, m.byPath, e) = m.byPath
    BY <1>3, NoOther DEF PathsMade
  <2>4. ReposMade(m.repos, e) = m.repos
    BY <1>3, NoOther DEF ReposMade, Changes
  <2>5. ChatsMade(m.repos, m.chatRepo, e) = m.chatRepo
    BY <1>3, NoOther DEF ChatsMade, Changes
  <2>6. ProfileMade(m.profiles, e) = m.profiles
    BY <1>3, NoOther DEF ProfileMade
  <2>7. OverrideMade(m.overrides, e) = m.overrides
    BY <1>3, NoOther DEF OverrideMade
  <2>8. WholesMade(m.whole, e) = m.whole
    BY <1>3, NoOther DEF WholesMade
  <2> QED BY <2>1, <2>2, <2>3, <2>4, <2>5, <2>6, <2>7, <2>8 DEF Parts
<1>4. CASE e \in ChatEvent
  <2> DEFINE C == [m.chatRepo EXCEPT ![e.id] = e.about]
  <2>10. C \in PlaceTable
    BY <1>4, <1>0, ChatApplied
  <2>11. y = [m EXCEPT !.chatRepo = C]
    BY <1>4, <1>0, ChatApplied
  <2>1. /\ y \in MemoryRecord
        /\ y.workspaces = m.workspaces
        /\ y.byPath = m.byPath
        /\ y.repos = m.repos
        /\ y.chatRepo = C
        /\ y.profiles = m.profiles
        /\ y.overrides = m.overrides
        /\ y.whole = m.whole
    <3> HIDE DEF y, C
    <3> QED BY <2>10, <2>11 DEF MemoryRecord
  <2>2. WorkspacesMade(m.workspaces, e) = m.workspaces
    BY <1>4, NoOther DEF WorkspacesMade
  <2>3. PathsMade(m.workspaces, m.byPath, e) = m.byPath
    BY <1>4, NoOther DEF PathsMade
  <2>4. ReposMade(m.repos, e) = m.repos
    BY <1>4, NoOther DEF ReposMade, Changes
  <2>5. ChatsMade(m.repos, m.chatRepo, e) = [m.chatRepo EXCEPT ![e.id] = e.about]
    BY <1>4, NoOther DEF ChatsMade, Changes
  <2>6. ProfileMade(m.profiles, e) = m.profiles
    BY <1>4, NoOther DEF ProfileMade
  <2>7. OverrideMade(m.overrides, e) = m.overrides
    BY <1>4, NoOther DEF OverrideMade
  <2>8. WholesMade(m.whole, e) = m.whole
    BY <1>4, NoOther DEF WholesMade
  <2> QED BY <2>1, <2>2, <2>3, <2>4, <2>5, <2>6, <2>7, <2>8 DEF Parts
<1>5. CASE Changes(m.repos, e)
  <2>0. e \in RepoEvent
    BY <1>5 DEF Changes
  <2> DEFINE R == [m.repos EXCEPT ![e.id] = RepoMade(m.repos[e.id], e)]
             C == PlacesMade(m.chatRepo, e)
  <2>10. R \in RepoTable /\ C \in PlaceTable
    BY <1>5, <1>0, RepoApplied DEF Changes
  <2>11. y = [m EXCEPT !.repos = R, !.chatRepo = C]
    BY <1>5, <1>0, RepoApplied DEF Changes
  <2>1. /\ y \in MemoryRecord
        /\ y.workspaces = m.workspaces
        /\ y.byPath = m.byPath
        /\ y.repos = R
        /\ y.chatRepo = C
        /\ y.profiles = m.profiles
        /\ y.overrides = m.overrides
        /\ y.whole = m.whole
    <3> HIDE DEF y, R, C
    <3> QED BY <2>10, <2>11 DEF MemoryRecord
  <2>2. WorkspacesMade(m.workspaces, e) = m.workspaces
    BY <1>5, <2>0, NoOther DEF WorkspacesMade
  <2>3. PathsMade(m.workspaces, m.byPath, e) = m.byPath
    BY <1>5, <2>0, NoOther DEF PathsMade
  <2>4. ReposMade(m.repos, e) = [m.repos EXCEPT ![e.id] = RepoMade(m.repos[e.id], e)]
    BY <1>5, <2>0, NoOther DEF ReposMade, Changes
  <2>5. ChatsMade(m.repos, m.chatRepo, e) = PlacesMade(m.chatRepo, e)
    BY <1>5, <2>0, NoOther DEF ChatsMade, Changes
  <2>6. ProfileMade(m.profiles, e) = m.profiles
    BY <1>5, <2>0, NoOther DEF ProfileMade
  <2>7. OverrideMade(m.overrides, e) = m.overrides
    BY <1>5, <2>0, NoOther DEF OverrideMade
  <2>8. WholesMade(m.whole, e) = m.whole
    BY <1>5, <2>0, NoOther DEF WholesMade
  <2> QED BY <2>1, <2>2, <2>3, <2>4, <2>5, <2>6, <2>7, <2>8 DEF Parts
<1>6. CASE e \in RepoEvent /\ ~Changes(m.repos, e)
  <2>1. /\ y \in MemoryRecord
        /\ y.workspaces = m.workspaces
        /\ y.byPath = m.byPath
        /\ y.repos = m.repos
        /\ y.chatRepo = m.chatRepo
        /\ y.profiles = m.profiles
        /\ y.overrides = m.overrides
        /\ y.whole = m.whole
    BY <1>6, RepoApplied DEF Changes
  <2>2. WorkspacesMade(m.workspaces, e) = m.workspaces
    BY <1>6, NoOther DEF WorkspacesMade
  <2>3. PathsMade(m.workspaces, m.byPath, e) = m.byPath
    BY <1>6, NoOther DEF PathsMade
  <2>4. ReposMade(m.repos, e) = m.repos
    BY <1>6, NoOther DEF ReposMade, Changes
  <2>5. ChatsMade(m.repos, m.chatRepo, e) = m.chatRepo
    BY <1>6, NoOther DEF ChatsMade, Changes
  <2>6. ProfileMade(m.profiles, e) = m.profiles
    BY <1>6, NoOther DEF ProfileMade
  <2>7. OverrideMade(m.overrides, e) = m.overrides
    BY <1>6, NoOther DEF OverrideMade
  <2>8. WholesMade(m.whole, e) = m.whole
    BY <1>6, NoOther DEF WholesMade
  <2> QED BY <2>1, <2>2, <2>3, <2>4, <2>5, <2>6, <2>7, <2>8 DEF Parts
<1>7. CASE e \in ProfileEvent
  <2> DEFINE P == IF e.type = "provider_profile_saved" THEN e.about
                         ELSE IF e.type = "provider_profile_removed" THEN 0 ELSE m.profiles
             O == IF e.type = "workspace_profile_override_set" THEN e.about
                          ELSE IF e.type = "provider_profile_saved" THEN m.overrides ELSE 0
  <2>10. P \in 0..MaxOps /\ O \in 0..MaxOps
    BY <1>7, <1>0, ProfileApplied
  <2>11. y = [m EXCEPT !.profiles = P, !.overrides = O]
    BY <1>7, <1>0, ProfileApplied
  <2>1. /\ y \in MemoryRecord
        /\ y.workspaces = m.workspaces
        /\ y.byPath = m.byPath
        /\ y.repos = m.repos
        /\ y.chatRepo = m.chatRepo
        /\ y.profiles = P
        /\ y.overrides = O
        /\ y.whole = m.whole
    <3> HIDE DEF y, P, O
    <3> QED BY <2>10, <2>11 DEF MemoryRecord
  <2>2. WorkspacesMade(m.workspaces, e) = m.workspaces
    BY <1>7, NoOther DEF WorkspacesMade
  <2>3. PathsMade(m.workspaces, m.byPath, e) = m.byPath
    BY <1>7, NoOther DEF PathsMade
  <2>4. ReposMade(m.repos, e) = m.repos
    BY <1>7, NoOther DEF ReposMade, Changes
  <2>5. ChatsMade(m.repos, m.chatRepo, e) = m.chatRepo
    BY <1>7, NoOther DEF ChatsMade, Changes
  <2>6. ProfileMade(m.profiles, e) = IF e.type = "provider_profile_saved" THEN e.about
                         ELSE IF e.type = "provider_profile_removed" THEN 0 ELSE m.profiles
    BY <1>7, NoOther DEF ProfileMade
  <2>7. OverrideMade(m.overrides, e) = IF e.type = "workspace_profile_override_set" THEN e.about
                          ELSE IF e.type = "provider_profile_saved" THEN m.overrides ELSE 0
    BY <1>7, NoOther DEF OverrideMade
  <2>8. WholesMade(m.whole, e) = m.whole
    BY <1>7, NoOther DEF WholesMade
  <2> QED BY <2>1, <2>2, <2>3, <2>4, <2>5, <2>6, <2>7, <2>8 DEF Parts
<1>8. CASE e \in WholeEvent
  <2> DEFINE W == WholeMade(m.whole, e)
  <2>10. W \in WholeTable
    BY <1>8, <1>0, WholeApplied
  <2>11. y = [m EXCEPT !.whole = W]
    BY <1>8, <1>0, WholeApplied
  <2>1. /\ y \in MemoryRecord
        /\ y.workspaces = m.workspaces
        /\ y.byPath = m.byPath
        /\ y.repos = m.repos
        /\ y.chatRepo = m.chatRepo
        /\ y.profiles = m.profiles
        /\ y.overrides = m.overrides
        /\ y.whole = W
    <3> HIDE DEF y, W
    <3> QED BY <2>10, <2>11 DEF MemoryRecord
  <2>2. WorkspacesMade(m.workspaces, e) = m.workspaces
    BY <1>8, NoOther DEF WorkspacesMade
  <2>3. PathsMade(m.workspaces, m.byPath, e) = m.byPath
    BY <1>8, NoOther DEF PathsMade
  <2>4. ReposMade(m.repos, e) = m.repos
    BY <1>8, NoOther DEF ReposMade, Changes
  <2>5. ChatsMade(m.repos, m.chatRepo, e) = m.chatRepo
    BY <1>8, NoOther DEF ChatsMade, Changes
  <2>6. ProfileMade(m.profiles, e) = m.profiles
    BY <1>8, NoOther DEF ProfileMade
  <2>7. OverrideMade(m.overrides, e) = m.overrides
    BY <1>8, NoOther DEF OverrideMade
  <2>8. WholesMade(m.whole, e) = WholeMade(m.whole, e)
    BY <1>8, NoOther DEF WholesMade
  <2> QED BY <2>1, <2>2, <2>3, <2>4, <2>5, <2>6, <2>7, <2>8 DEF Parts
<1> QED BY <1>1, <1>2, <1>3, <1>4, <1>5, <1>6, <1>7, <1>8 DEF MadeEvent

-----------------------------------------------------------------------------
(* Events of different logs *)

\* Only events of a part's own kind change it.
LEMMA NothingMade ==
    ASSUME NEW e, NEW w, NEW b, NEW r, NEW c, NEW p, NEW o, NEW k
    PROVE  /\ e \notin OpenedEvent /\ e \notin RemovedEvent => WorkspacesMade(w, e) = w /\ PathsMade(w, b, e) = b
           /\ e \notin RepoEvent => ReposMade(r, e) = r
           /\ e \notin RepoEvent /\ e \notin ChatEvent => ChatsMade(r, c, e) = c
           /\ e \notin ProfileEvent => ProfileMade(p, e) = p /\ OverrideMade(o, e) = o
           /\ e \notin WholeEvent => WholesMade(k, e) = k
  BY DEF WorkspacesMade, PathsMade, ReposMade, ChatsMade, Changes, ProfileMade, OverrideMade, WholesMade

\* Records of different kinds are changed in either order.
LEMMA WholesCommute ==
    ASSUME NEW w \in WholeTable, NEW e \in WholeEvent, NEW f \in WholeEvent, e.log # f.log
    PROVE  WholesMade(WholesMade(w, e), f) = WholesMade(WholesMade(w, f), e)
<1>1. e.id \in Kinds /\ f.id \in Kinds /\ e.id # f.id
  BY DEF WholeEvent
<1> DEFINE set(v, g) == IF g.type = "put" \/ (g.type = "change" /\ v[g.id] # 0) THEN g.about
                        ELSE IF g.type = "change" THEN v[g.id] ELSE 0
<1>2. \A v \in [Kinds -> Int], g \in WholeEvent :
          /\ WholeMade(v, g) \in [Kinds -> Int]
          /\ \A k \in Kinds : WholeMade(v, g)[k] = IF k = g.id THEN set(v, g) ELSE v[k]
  BY RecordConstants DEF WholeEvent, WholeMade
<1>3. w \in [Kinds -> Int]
  BY RecordConstants DEF WholeTable
<1> DEFINE x == WholeMade(WholeMade(w, e), f)
           y == WholeMade(WholeMade(w, f), e)
<1>4. x \in [Kinds -> Int] /\ y \in [Kinds -> Int]
  BY <1>2, <1>3
<1>5. \A k \in Kinds : x[k] = y[k]
  BY <1>1, <1>2, <1>3
<1>6. x = y
  <2> HIDE DEF x, y
  <2> QED BY <1>4, <1>5
<1> QED BY <1>6 DEF WholesMade

\* Events of different logs can be applied in either order, except where a chat is put
\* in a repository and something happens to a repository.
LEMMA EventsCommute ==
    ASSUME NEW m \in MemoryRecord, NEW e \in MadeEvent, NEW f \in MadeEvent, e.log # f.log,
           ~(e.log = "chats" /\ f.log = "repos"), ~(e.log = "repos" /\ f.log = "chats")
    PROVE  RecordApplied(RecordApplied(m, e), f) = RecordApplied(RecordApplied(m, f), e)
<1> DEFINE a == RecordApplied(m, e)
           b == RecordApplied(m, f)
           x == RecordApplied(a, f)
           y == RecordApplied(b, e)
<1>1. Parts(a, m, e) /\ Parts(b, m, f)
  BY AppliedParts
<1>2. Parts(x, a, f) /\ Parts(y, b, e)
  <2> a \in MemoryRecord /\ b \in MemoryRecord
    BY <1>1 DEF Parts
  <2> HIDE DEF a, b
  <2> QED BY AppliedParts
<1> HIDE DEF a, b, x, y
<1>3. x \in MemoryRecord /\ y \in MemoryRecord
  BY <1>2 DEF Parts
<1>4. \/ e \notin OpenedEvent /\ e \notin RemovedEvent
      \/ f \notin OpenedEvent /\ f \notin RemovedEvent
  BY OneKind
<1>5. x.workspaces = y.workspaces
  BY <1>1, <1>2, <1>4, NothingMade DEF Parts
<1>6. x.byPath = y.byPath
  BY <1>2, <1>1, <1>4, NothingMade DEF Parts
<1>7. \/ e \notin RepoEvent /\ e \notin ChatEvent
      \/ f \notin RepoEvent /\ f \notin ChatEvent
  BY OneKind
<1>8. x.repos = y.repos
  BY <1>1, <1>2, <1>7, NothingMade DEF Parts
<1>9. x.chatRepo = y.chatRepo
  BY <1>2, <1>1, <1>7, NothingMade DEF Parts
<1>10. e \notin ProfileEvent \/ f \notin ProfileEvent
  BY OneKind
<1>11. x.profiles = y.profiles /\ x.overrides = y.overrides
  BY <1>1, <1>2, <1>10, NothingMade DEF Parts
<1>12. x.whole = y.whole
  BY <1>1, <1>2, WholesCommute, NothingMade DEF Parts, MemoryRecord
<1>13. x = y
  BY <1>3, <1>5, <1>6, <1>8, <1>9, <1>11, <1>12, SameMemory
<1> QED BY <1>13 DEF x, y, a, b

-----------------------------------------------------------------------------
(* The replay of one log *)

\* The events of one log, and logs that hold their own events.
MadeLog(l) == {e \in MadeEvent : e.log = l}
Filed == {files \in [LogNames -> Seq(MadeEvent)] : \A l \in LogNames : files[l] \in Seq(MadeLog(l))}

\* A replay leaves a state of memory.
LEMMA LinesKeep ==
    ASSUME NEW m \in MemoryRecord, NEW logged \in Seq(MadeEvent)
    PROVE  \A n \in 0 .. Len(logged) : LinesReplayed(m, logged)[n] \in MemoryRecord
<1> DEFINE r == LinesReplayed(m, logged)
           S == {n \in Nat : n <= Len(logged) => r[n] \in MemoryRecord}
<1>0. Len(logged) \in Nat /\ \A n \in 1 .. Len(logged) : logged[n] \in MadeEvent
  OBVIOUS
<1>1. r[0] = m /\ \A n \in 1 .. Len(logged) : r[n] = RecordApplied(r[n - 1], logged[n])
  BY <1>0, LinesGo
<1> HIDE DEF r
<1>2. 0 \in S
  BY <1>1
<1>3. ASSUME NEW n \in Nat, n \in S PROVE n + 1 \in S
  BY <1>0, <1>3, <1>1, AppliedParts DEF Parts
<1>4. \A n \in Nat : n \in S
  <2> HIDE DEF S
  <2> QED BY <1>2, <1>3, NumberByNumber
<1> QED BY <1>0, <1>4 DEF r

\* A line more is replayed after all others.
LEMMA LinesAppended ==
    ASSUME NEW m, NEW logged \in Seq(MadeEvent), NEW e \in MadeEvent
    PROVE  LinesReplayed(m, Append(logged, e))[Len(Append(logged, e))]
             = RecordApplied(LinesReplayed(m, logged)[Len(logged)], e)
<1> DEFINE more == Append(logged, e)
           r    == LinesReplayed(m, logged)
           q    == LinesReplayed(m, more)
           S    == {n \in Nat : n <= Len(logged) => q[n] = r[n]}
<1>1. /\ Len(logged) \in Nat /\ Len(more) = Len(logged) + 1
      /\ more[Len(logged) + 1] = e
      /\ \A n \in 1 .. Len(logged) : more[n] = logged[n]
  OBVIOUS
<1>2. /\ r[0] = m /\ \A n \in 1 .. Len(logged) : r[n] = RecordApplied(r[n - 1], logged[n])
  BY <1>1, LinesGo
<1>3. /\ q[0] = m /\ \A n \in 1 .. Len(more) : q[n] = RecordApplied(q[n - 1], more[n])
  <2>1. Len(more) \in Nat
    BY <1>1
  <2> HIDE DEF more
  <2> QED BY <2>1, LinesGo
<1> HIDE DEF more, r, q
<1>4. 0 \in S
  BY <1>2, <1>3
<1>5. ASSUME NEW n \in Nat, n \in S PROVE n + 1 \in S
  BY <1>1, <1>2, <1>3, <1>5
<1>6. q[Len(logged)] = r[Len(logged)]
  <2>1. Len(logged) \in S
    <3> HIDE DEF S
    <3> QED BY <1>1, <1>4, <1>5, NumberByNumber
  <2> QED BY <1>1, <2>1
<1>7. q[Len(logged) + 1] = RecordApplied(q[Len(logged)], e)
  BY <1>1, <1>3
<1> QED BY <1>1, <1>6, <1>7 DEF more, r, q

\* Replaying another log after an event is replaying it before.
LEMMA LinesAfter ==
    ASSUME NEW m \in MemoryRecord, NEW e \in MadeEvent, NEW l, NEW logged \in Seq(MadeLog(l)), e.log # l,
           ~(e.log = "chats" /\ l = "repos"), ~(e.log = "repos" /\ l = "chats")
    PROVE  LinesReplayed(RecordApplied(m, e), logged)[Len(logged)]
             = RecordApplied(LinesReplayed(m, logged)[Len(logged)], e)
<1> DEFINE r == LinesReplayed(m, logged)
           q == LinesReplayed(RecordApplied(m, e), logged)
           S == {n \in Nat : n <= Len(logged) => q[n] = RecordApplied(r[n], e)}
<1>1. Len(logged) \in Nat /\ logged \in Seq(MadeEvent) /\ \A n \in 1 .. Len(logged) : logged[n] \in MadeEvent /\ logged[n].log = l
  BY DEF MadeLog
<1>2. r[0] = m /\ \A n \in 1 .. Len(logged) : r[n] = RecordApplied(r[n - 1], logged[n])
  BY <1>1, LinesGo
<1>3. q[0] = RecordApplied(m, e) /\ \A n \in 1 .. Len(logged) : q[n] = RecordApplied(q[n - 1], logged[n])
  BY <1>1, LinesGo
<1>4. \A n \in 0 .. Len(logged) : r[n] \in MemoryRecord
  BY <1>1, LinesKeep
<1> HIDE DEF r, q
<1>5. 0 \in S
  BY <1>2, <1>3
<1>6. ASSUME NEW n \in Nat, n \in S PROVE n + 1 \in S
  <2> SUFFICES ASSUME n + 1 <= Len(logged) PROVE q[n + 1] = RecordApplied(r[n + 1], e)
    OBVIOUS
  <2>1. n + 1 \in 1 .. Len(logged) /\ n <= Len(logged) /\ (n + 1) - 1 = n /\ n \in 0 .. Len(logged)
    BY <1>1
  <2>2. q[n + 1] = RecordApplied(q[n], logged[n + 1]) /\ r[n + 1] = RecordApplied(r[n], logged[n + 1])
    BY <1>2, <1>3, <2>1
  <2>3. q[n] = RecordApplied(r[n], e)
    BY <1>6, <2>1
  <2>4. r[n] \in MemoryRecord /\ logged[n + 1] \in MadeEvent /\ logged[n + 1].log = l
    BY <1>1, <1>4, <2>1
  <2>5. RecordApplied(RecordApplied(r[n], e), logged[n + 1]) = RecordApplied(RecordApplied(r[n], logged[n + 1]), e)
    BY <2>4, EventsCommute
  <2> QED BY <2>2, <2>3, <2>5
<1>7. Len(logged) \in S
  <2> HIDE DEF S
  <2> QED BY <1>1, <1>5, <1>6, NumberByNumber
<1> QED BY <1>1, <1>7 DEF r, q

-----------------------------------------------------------------------------
(* Log after log *)

\* Of some numbers of records the largest, 0 of none.
LEMMA LargestRecord ==
    ASSUME NEW T \in SUBSET RecordIds
    PROVE  LET x == Max({0} \cup T) IN
           /\ x \in 0..MaxOps /\ \A y \in T : y <= x
           /\ x # 0 => x \in T
<1>0. MaxOps \in Nat
  BY RecordConstants
<1> DEFINE U == {0} \cup T
           S == {n \in Nat : \A V \in SUBSET (0..n) : V # {} => \E x \in V : \A y \in V : x >= y}
<1>1. 0 \in S
  <2> SUFFICES ASSUME NEW V \in SUBSET (0..0), V # {} PROVE \E x \in V : \A y \in V : x >= y
    OBVIOUS
  <2>1. \A y \in V : y = 0
    OBVIOUS
  <2>2. PICK x \in V : TRUE
    OBVIOUS
  <2>3. \A y \in V : x >= y
    BY <2>1
  <2> QED BY <2>3
<1>2. ASSUME NEW n \in Nat, n \in S PROVE n + 1 \in S
  BY <1>2
<1>3. MaxOps \in S
  <2> HIDE DEF S
  <2> QED BY <1>0, <1>1, <1>2, NumberByNumber
<1>4. U \in SUBSET (0..MaxOps) /\ U # {} /\ 0 \in U
  BY <1>0 DEF RecordIds
<1>5. \E x \in U : \A y \in U : x >= y
  <2> HIDE DEF U
  <2> QED BY <1>3, <1>4
<1>6. Max(U) \in U /\ \A y \in U : Max(U) >= y
  <2> HIDE DEF U
  <2> QED BY <1>5 DEF Max
<1> QED BY <1>0, <1>4, <1>6 DEF RecordIds

\* What a snapshot is loaded as.
LEMMA LoadedParts ==
    ASSUME NEW m \in MemoryRecord
    PROVE  /\ Loaded(m) \in MemoryRecord
           /\ \A w \in RecordIds : Loaded(m).workspaces[w] = IF m.workspaces[w].state = "open" THEN m.workspaces[w]
                                                             ELSE [state |-> "none", path |-> ""]
           /\ \A p \in Folders : Loaded(m).byPath[p] = Max({0} \cup {w \in RecordIds : OpenAt(m, w, p)})
           /\ Loaded(m).repos = m.repos /\ Loaded(m).chatRepo = m.chatRepo /\ Loaded(m).profiles = m.profiles
           /\ Loaded(m).overrides = m.overrides /\ Loaded(m).whole = m.whole
<1> DEFINE W == [w \in RecordIds |-> IF m.workspaces[w].state = "open" THEN m.workspaces[w]
                                     ELSE [state |-> "none", path |-> ""]]
           B == [p \in Folders |-> Max({0} \cup {w \in RecordIds : OpenAt(m, w, p)})]
           y == [m EXCEPT !.workspaces = W, !.byPath = B]
<1>1. Loaded(m) = y
  BY DEF Loaded
<1>2. W \in WorkspaceTable
  BY DEF MemoryRecord, WorkspaceTable, WorkspaceKept
<1>3. B \in PathTable
  BY LargestRecord DEF PathTable
<1>4. /\ y \in MemoryRecord /\ y.workspaces = W /\ y.byPath = B /\ y.repos = m.repos /\ y.chatRepo = m.chatRepo
      /\ y.profiles = m.profiles /\ y.overrides = m.overrides /\ y.whole = m.whole
  <2> HIDE DEF W, B
  <2> QED BY <1>2, <1>3 DEF MemoryRecord
<1> QED BY <1>1, <1>4

\* A log of its own events, and one that gets another.
LEMMA FiledLogs ==
    ASSUME NEW files \in Filed
    PROVE  /\ \A l \in LogNames : files[l] \in Seq(MadeLog(l)) /\ files[l] \in Seq(MadeEvent)
           /\ \A k \in 1..7 : ReplayOrder[k] \in LogNames
           /\ \A e \in MadeEvent :
                 /\ e.log \in LogNames
                 /\ [files EXCEPT ![e.log] = Append(@, e)] \in Filed
                 /\ [files EXCEPT ![e.log] = Append(@, e)][e.log] = Append(files[e.log], e)
                 /\ \A l \in LogNames : l # e.log => [files EXCEPT ![e.log] = Append(@, e)][l] = files[l]
<1>1. \A l \in LogNames : files[l] \in Seq(MadeLog(l)) /\ files[l] \in Seq(MadeEvent)
  BY DEF Filed
<1>2. \A k \in 1..7 : ReplayOrder[k] \in LogNames
  BY OrderIs DEF LogNames
<1>3. ASSUME NEW e \in MadeEvent
      PROVE  /\ e.log \in LogNames
             /\ [files EXCEPT ![e.log] = Append(@, e)] \in Filed
             /\ [files EXCEPT ![e.log] = Append(@, e)][e.log] = Append(files[e.log], e)
             /\ \A l \in LogNames : l # e.log => [files EXCEPT ![e.log] = Append(@, e)][l] = files[l]
  <2>1. e.log \in LogNames
    BY OneKind DEF MadeEvent, LogNames
  <2>2. files \in [LogNames -> Seq(MadeEvent)]
    BY DEF Filed
  <2>3. Append(files[e.log], e) \in Seq(MadeEvent) /\ Append(files[e.log], e) \in Seq(MadeLog(e.log))
    BY <1>1, <2>1 DEF MadeLog
  <2> DEFINE g == [files EXCEPT ![e.log] = Append(files[e.log], e)]
  <2>4. g \in [LogNames -> Seq(MadeEvent)] /\ \A l \in LogNames : g[l] = IF l = e.log THEN Append(files[e.log], e) ELSE files[l]
    BY <2>1, <2>2, <2>3
  <2>5. \A l \in LogNames : g[l] \in Seq(MadeLog(l))
    BY <1>1, <2>3, <2>4
  <2>6. g \in Filed
    <3> HIDE DEF g
    <3> QED BY <2>4, <2>5 DEF Filed
  <2> QED BY <2>1, <2>4, <2>6
<1> QED BY <1>1, <1>2, <1>3

\* What holds before the first log and goes on from each to the next holds after all.
LEMMA SevenLogs ==
    ASSUME NEW S, 0 \in S, \A k \in 0..6 : k \in S => k + 1 \in S
    PROVE  \A k \in 0..7 : k \in S
<1>1. 0 + 1 \in S
  OBVIOUS
<1>2. 1 + 1 \in S
  BY <1>1
<1>3. 2 + 1 \in S
  BY <1>2
<1>4. 3 + 1 \in S
  BY <1>3
<1>5. 4 + 1 \in S
  BY <1>4
<1>6. 5 + 1 \in S
  BY <1>5
<1>7. 6 + 1 \in S
  BY <1>6
<1>8. \A k \in 0..7 : k \in {0, 1, 2, 3, 4, 5, 6, 7}
  OBVIOUS
<1> QED BY <1>1, <1>2, <1>3, <1>4, <1>5, <1>6, <1>7, <1>8

\* The states of a start are states of memory.
LEMMA LogsKeep ==
    ASSUME NEW kept \in MemoryRecord, NEW files \in Filed
    PROVE  /\ \A k \in 0..7 : LogsReplayed(kept, files)[k] \in MemoryRecord
           /\ RestartedFrom(kept, files) \in MemoryRecord
<1> DEFINE r == LogsReplayed(kept, files)
<1>1. /\ r[0] = Loaded(kept) /\ \A k \in 1 .. 7 : r[k] = LogDone(r[k - 1], files, k)
      /\ RestartedFrom(kept, files) = r[7]
  BY LogsGo
<1> HIDE DEF r
<1>2. r[0] \in MemoryRecord
  BY <1>1, LoadedParts
<1>3. ASSUME NEW k \in 0..6, r[k] \in MemoryRecord PROVE r[k + 1] \in MemoryRecord
  <2>1. k + 1 \in 1..7 /\ (k + 1) - 1 = k
    OBVIOUS
  <2>2. files[ReplayOrder[k + 1]] \in Seq(MadeEvent)
    BY <2>1, FiledLogs
  <2>3. r[k + 1] = LogDone(r[k], files, k + 1)
    BY <1>1, <2>1
  <2>4. Len(files[ReplayOrder[k + 1]]) \in 0 .. Len(files[ReplayOrder[k + 1]])
    BY <2>2
  <2> QED BY <1>3, <2>2, <2>3, <2>4, LinesKeep DEF LogDone
<1> DEFINE S == {k \in 0..7 : r[k] \in MemoryRecord}
<1>4. \A k \in 0..7 : k \in S
  <2>1. 0 \in S /\ \A k \in 0..6 : k \in S => k + 1 \in S
    BY <1>2, <1>3
  <2> HIDE DEF S
  <2> QED BY <2>1, SevenLogs
<1> QED BY <1>1, <1>4 DEF r

-----------------------------------------------------------------------------
(* A line more in a log *)

\* What a line more does to the replay of its own log, of another, and after it.
LEMMA OneLogMore ==
    ASSUME NEW s \in MemoryRecord, NEW files \in Filed, NEW e \in MadeEvent, NEW k \in 1..7
    PROVE  LET more == [files EXCEPT ![e.log] = Append(@, e)] IN
           /\ ReplayOrder[k] # e.log => LogDone(s, more, k) = LogDone(s, files, k)
           /\ ReplayOrder[k] = e.log => LogDone(s, more, k) = RecordApplied(LogDone(s, files, k), e)
           /\ /\ ReplayOrder[k] # e.log
              /\ ~(e.log = "chats" /\ ReplayOrder[k] = "repos") /\ ~(e.log = "repos" /\ ReplayOrder[k] = "chats")
              => LogDone(RecordApplied(s, e), more, k) = RecordApplied(LogDone(s, files, k), e)
<1> DEFINE more == [files EXCEPT ![e.log] = Append(@, e)]
           l == ReplayOrder[k]
<1>1. l \in LogNames /\ files[l] \in Seq(MadeLog(l)) /\ files[l] \in Seq(MadeEvent)
  BY FiledLogs
<1>2. e.log \in LogNames /\ more[e.log] = Append(files[e.log], e) /\ (l # e.log => more[l] = files[l])
  BY ZenonT(30), <1>1, FiledLogs
<1> HIDE DEF more, l
<1>3. l # e.log => LogDone(s, more, k) = LogDone(s, files, k)
  BY <1>2 DEF LogDone, l
<1>4. l = e.log => LogDone(s, more, k) = RecordApplied(LogDone(s, files, k), e)
  BY <1>2, <1>1, LinesAppended DEF LogDone, l
<1>5. /\ l # e.log /\ ~(e.log = "chats" /\ l = "repos") /\ ~(e.log = "repos" /\ l = "chats")
      => LogDone(RecordApplied(s, e), more, k) = RecordApplied(LogDone(s, files, k), e)
  BY <1>2, <1>1, LinesAfter DEF LogDone, l
<1> QED BY <1>3, <1>4, <1>5 DEF more, l

\* Where a log stands in the order.
LEMMA LogStands ==
    ASSUME NEW l \in LogNames
    PROVE  \E i \in 1..7 : /\ ReplayOrder[i] = l /\ \A k \in 1..7 : ReplayOrder[k] = l <=> k = i
                           /\ l = "chats" => i = 2
                           /\ l = "repos" => i = 5
<1>1. \A k \in 1..7 : k \in {1, 2, 3, 4, 5, 6, 7}
  OBVIOUS
<1>2. CASE l = "projects"
  <2>1. \A k \in 1..7 : ReplayOrder[k] = l <=> k = 1
    BY <1>1, <1>2, OrderIs
  <2> QED BY <1>2, <2>1
<1>3. CASE l = "chats"
  <2>1. \A k \in 1..7 : ReplayOrder[k] = l <=> k = 2
    BY <1>1, <1>3, OrderIs
  <2> QED BY <1>3, <2>1
<1>4. CASE l = "coordination"
  <2>1. \A k \in 1..7 : ReplayOrder[k] = l <=> k = 3
    BY <1>1, <1>4, OrderIs
  <2> QED BY <1>4, <2>1
<1>5. CASE l = "configs"
  <2>1. \A k \in 1..7 : ReplayOrder[k] = l <=> k = 4
    BY <1>1, <1>5, OrderIs
  <2> QED BY <1>5, <2>1
<1>6. CASE l = "repos"
  <2>1. \A k \in 1..7 : ReplayOrder[k] = l <=> k = 5
    BY <1>1, <1>6, OrderIs
  <2> QED BY <1>6, <2>1
<1>7. CASE l = "profiles"
  <2>1. \A k \in 1..7 : ReplayOrder[k] = l <=> k = 6
    BY <1>1, <1>7, OrderIs
  <2> QED BY <1>7, <2>1
<1>8. CASE l = "preferences"
  <2>1. \A k \in 1..7 : ReplayOrder[k] = l <=> k = 7
    BY <1>1, <1>8, OrderIs
  <2> QED BY <1>8, <2>1
<1> QED BY <1>2, <1>3, <1>4, <1>5, <1>6, <1>7, <1>8 DEF LogNames

\* Until a start gets to the repositories, a line more in any log is as if it had been
\* written last; of any but the log of the chats it is so to the end.
LEMMA LogsMore ==
    ASSUME NEW kept \in MemoryRecord, NEW files \in Filed, NEW e \in MadeEvent
    PROVE  LET more == [files EXCEPT ![e.log] = Append(@, e)] IN
           \E i \in 1..7 :
              /\ e.log = "chats" => i = 2
              /\ \A k \in 0..7 : e.log # "chats" \/ k < 5 =>
                    LogsReplayed(kept, more)[k] = IF k < i THEN LogsReplayed(kept, files)[k]
                                                  ELSE RecordApplied(LogsReplayed(kept, files)[k], e)
<1> DEFINE more == [files EXCEPT ![e.log] = Append(@, e)]
           r == LogsReplayed(kept, files)
           q == LogsReplayed(kept, more)
<1>0. e.log \in LogNames
  BY FiledLogs
<1>1. PICK i \in 1..7 : /\ ReplayOrder[i] = e.log /\ \A k \in 1..7 : ReplayOrder[k] = e.log <=> k = i
                        /\ e.log = "chats" => i = 2
                        /\ e.log = "repos" => i = 5
  BY <1>0, LogStands
<1>2. r[0] = Loaded(kept) /\ \A k \in 1 .. 7 : r[k] = LogDone(r[k - 1], files, k)
  BY LogsGo
<1>3. q[0] = Loaded(kept) /\ \A k \in 1 .. 7 : q[k] = LogDone(q[k - 1], more, k)
  BY LogsGo
<1>4. \A k \in 0..7 : r[k] \in MemoryRecord
  BY LogsKeep
<1>5. \A s \in MemoryRecord, k \in 1..7 :
           /\ ReplayOrder[k] # e.log => LogDone(s, more, k) = LogDone(s, files, k)
           /\ ReplayOrder[k] = e.log => LogDone(s, more, k) = RecordApplied(LogDone(s, files, k), e)
           /\ /\ ReplayOrder[k] # e.log
              /\ ~(e.log = "chats" /\ ReplayOrder[k] = "repos") /\ ~(e.log = "repos" /\ ReplayOrder[k] = "chats")
              => LogDone(RecordApplied(s, e), more, k) = RecordApplied(LogDone(s, files, k), e)
  BY OneLogMore
<1> DEFINE S == {k \in 0..7 : e.log # "chats" \/ k < 5 => q[k] = IF k < i THEN r[k] ELSE RecordApplied(r[k], e)}
<1> HIDE DEF more, r, q
<1>6. 0 \in S
  BY <1>2, <1>3
<1>7. ASSUME NEW k \in 0..6, k \in S PROVE k + 1 \in S
  <2> SUFFICES ASSUME e.log # "chats" \/ k + 1 < 5
               PROVE  q[k + 1] = IF k + 1 < i THEN r[k + 1] ELSE RecordApplied(r[k + 1], e)
    OBVIOUS
  <2>1. k + 1 \in 1..7 /\ (k + 1) - 1 = k /\ k \in 0..7 /\ r[k] \in MemoryRecord
    BY <1>4
  <2>2. q[k] = IF k < i THEN r[k] ELSE RecordApplied(r[k], e)
    BY <1>7, <2>1
  <2>3. q[k + 1] = LogDone(q[k], more, k + 1) /\ r[k + 1] = LogDone(r[k], files, k + 1)
    BY <1>2, <1>3, <2>1
  <2>4. CASE k + 1 < i
    <3>1. ReplayOrder[k + 1] # e.log /\ k < i
      BY <1>1, <2>1, <2>4
    <3> QED BY <1>5, <2>1, <2>2, <2>3, <2>4, <3>1
  <2>5. CASE k + 1 = i
    <3>1. ReplayOrder[k + 1] = e.log /\ k < i /\ ~(k + 1 < i)
      BY <1>1, <2>1, <2>5
    <3> QED BY <1>5, <2>1, <2>2, <2>3, <3>1
  <2>6. CASE k + 1 > i
    <3>1. ReplayOrder[k + 1] # e.log /\ ~(k < i) /\ ~(k + 1 < i)
      BY <1>1, <2>1, <2>6
    <3>2. ~(e.log = "chats" /\ ReplayOrder[k + 1] = "repos")
      <4>1. e.log = "chats" => k + 1 \in {1, 2, 3, 4}
        OBVIOUS
      <4> QED BY <4>1, OrderIs
    <3>3. ~(e.log = "repos" /\ ReplayOrder[k + 1] = "chats")
      <4>1. e.log = "repos" => k + 1 \in {6, 7}
        BY <1>1, <2>6
      <4> QED BY <4>1, OrderIs
    <3> QED BY <1>5, <2>1, <2>2, <2>3, <3>1, <3>2, <3>3
  <2> QED BY <2>4, <2>5, <2>6
<1>8. \A k \in 0..7 : k \in S
  <2> HIDE DEF S
  <2> QED BY <1>6, <1>7, SevenLogs
<1> QED BY <1>1, <1>8 DEF more, r, q

\* A start that finds a line more finds what the event makes of the rest, unless a chat
\* is created by it.
LEMMA RestartAppended ==
    ASSUME NEW kept \in MemoryRecord, NEW files \in Filed, NEW e \in MadeEvent, e.log # "chats"
    PROVE  RestartedFrom(kept, [files EXCEPT ![e.log] = Append(@, e)]) = RecordApplied(RestartedFrom(kept, files), e)
<1> DEFINE more == [files EXCEPT ![e.log] = Append(@, e)]
<1>1. PICK i \in 1..7 : \A k \in 0..7 : e.log # "chats" \/ k < 5 =>
                    LogsReplayed(kept, more)[k] = IF k < i THEN LogsReplayed(kept, files)[k]
                                                  ELSE RecordApplied(LogsReplayed(kept, files)[k], e)
  BY LogsMore
<1>2. LogsReplayed(kept, more)[7] = RecordApplied(LogsReplayed(kept, files)[7], e)
  BY <1>1
<1> QED BY <1>2, LogsGo

-----------------------------------------------------------------------------
(* A chat more *)

\* Placed(y, x, c, v): y is x with chat c in repository v.
Placed(y, x, c, v) ==
    /\ y \in MemoryRecord /\ x \in MemoryRecord
    /\ y.workspaces = x.workspaces /\ y.byPath = x.byPath /\ y.repos = x.repos /\ y.profiles = x.profiles
    /\ y.overrides = x.overrides /\ y.whole = x.whole
    /\ y.chatRepo = [x.chatRepo EXCEPT ![c] = v]

\* Where a chat is put that is created in a repository: there, or, when that is gone, nowhere.
PutIn(v, r, repos) == v = r \/ (v = 0 /\ r > 0 /\ repos[r].status = "none")

\* Where chat c is, is all that an event makes different of two such states.
LEMMA PlacedKept ==
    ASSUME NEW c \in RecordIds, NEW v \in 0..MaxOps, NEW x, NEW y, Placed(y, x, c, v),
           NEW f \in MadeEvent, f \notin ChatEvent
    PROVE  Placed(RecordApplied(y, f), RecordApplied(x, f), c,
                  IF Changes(x.repos, f) /\ f.type = "repo_removed" /\ f.id = v THEN 0 ELSE v)
<1> DEFINE a == RecordApplied(x, f)
           b == RecordApplied(y, f)
           u == IF Changes(x.repos, f) /\ f.type = "repo_removed" /\ f.id = v THEN 0 ELSE v
<1>1. Parts(a, x, f) /\ Parts(b, y, f)
  BY AppliedParts DEF Placed
<1> HIDE DEF a, b
<1>2. /\ a \in MemoryRecord /\ b \in MemoryRecord /\ b.workspaces = a.workspaces /\ b.byPath = a.byPath
      /\ b.repos = a.repos /\ b.profiles = a.profiles /\ b.overrides = a.overrides /\ b.whole = a.whole
  BY <1>1 DEF Parts, Placed
<1>3. a.chatRepo = ChatsMade(x.repos, x.chatRepo, f) /\ b.chatRepo = ChatsMade(x.repos, y.chatRepo, f)
  BY <1>1 DEF Parts, Placed
<1>4. x.chatRepo \in PlaceTable /\ y.chatRepo = [x.chatRepo EXCEPT ![c] = v]
  BY DEF Placed, MemoryRecord
<1>5. b.chatRepo = [a.chatRepo EXCEPT ![c] = u]
  <2>1. CASE Changes(x.repos, f) /\ f.type = "repo_removed"
    <3>1. /\ a.chatRepo = [d \in RecordIds |-> IF x.chatRepo[d] = f.id THEN 0 ELSE x.chatRepo[d]]
          /\ b.chatRepo = [d \in RecordIds |-> IF y.chatRepo[d] = f.id THEN 0 ELSE y.chatRepo[d]]
      BY <1>3, <2>1 DEF ChatsMade, PlacesMade
    <3>2. \A d \in RecordIds : y.chatRepo[d] = IF d = c THEN v ELSE x.chatRepo[d]
      BY <1>4 DEF PlaceTable
    <3>3. u = IF v = f.id THEN 0 ELSE v
      BY <2>1
    <3> HIDE DEF u
    <3>4. [a.chatRepo EXCEPT ![c] = u] = [d \in RecordIds |-> IF d = c THEN u ELSE a.chatRepo[d]]
      BY <3>1
    <3>5. \A d \in RecordIds : (IF y.chatRepo[d] = f.id THEN 0 ELSE y.chatRepo[d]) = IF d = c THEN u ELSE a.chatRepo[d]
      BY <3>1, <3>2, <3>3
    <3> QED BY <3>1, <3>4, <3>5
  <2>2. CASE ~(Changes(x.repos, f) /\ f.type = "repo_removed")
    BY <1>3, <2>2, <1>4 DEF ChatsMade, PlacesMade
  <2> QED BY <2>1, <2>2
<1> QED BY <1>2, <1>5 DEF Placed, a, b

\* A repository that is not there comes with its first event and with no other.
LEMMA StatusMade ==
    ASSUME NEW x \in MemoryRecord, NEW f \in MadeEvent, NEW r \in RecordIds
    PROVE  LET repos == RecordApplied(x, f).repos IN
           /\ ~(Adds(f) /\ f \in RepoEvent /\ f.id = r) /\ x.repos[r].status = "none" => repos[r].status = "none"
           /\ Changes(x.repos, f) /\ f.type = "repo_removed" /\ f.id = r => repos[r].status = "none"
           /\ f \notin RepoEvent => repos = x.repos
           /\ f \in RepoEvent /\ f.id # r => repos[r] = x.repos[r]
<1> DEFINE repos == RecordApplied(x, f).repos
<1>1. repos = ReposMade(x.repos, f)
  BY AppliedParts DEF Parts
<1>2. x.repos \in RepoTable
  BY DEF MemoryRecord
<1>3. f \in RepoEvent => f.id \in RecordIds
  BY DEF RepoEvent
<1>4. repos[r] = IF Changes(x.repos, f) /\ f.id = r THEN RepoMade(x.repos[r], f) ELSE x.repos[r]
  BY <1>1, <1>2, <1>3 DEF ReposMade, Changes, RepoTable
<1>5. f.type = "repo_removed" => RepoMade(x.repos[r], f).status = "none"
  BY DEF RepoMade
<1>6. Changes(x.repos, f) /\ f.id = r /\ x.repos[r].status = "none" => Adds(f) /\ f \in RepoEvent
  BY DEF Changes
<1>7. f \notin RepoEvent => repos = x.repos
  BY <1>1 DEF ReposMade, Changes
<1> HIDE DEF repos
<1>8. ~(Adds(f) /\ f \in RepoEvent /\ f.id = r) /\ x.repos[r].status = "none" => repos[r].status = "none"
  BY <1>4, <1>6
<1>9. Changes(x.repos, f) /\ f.type = "repo_removed" /\ f.id = r => repos[r].status = "none"
  BY <1>4, <1>5
<1>10. f \in RepoEvent /\ f.id # r => repos[r] = x.repos[r]
  BY <1>4
<1> QED BY <1>7, <1>8, <1>9, <1>10 DEF repos

\* In a log an event that makes a repository is the first about it.
AddsFirst(logged) == \A i, j \in 1 .. Len(logged) : i < j /\ Adds(logged[j]) => logged[i].id < logged[j].id

\* The replay of the repositories leaves the chat where it was put, or, when the repository
\* is removed there, nowhere.
LEMMA PlacedThroughRepos ==
    ASSUME NEW c \in RecordIds, NEW r \in 0..MaxOps, NEW x, NEW y, Placed(y, x, c, r),
           NEW logged \in Seq(MadeLog("repos")), AddsFirst(logged)
    PROVE  \E v \in 0..MaxOps :
              /\ Placed(LinesReplayed(y, logged)[Len(logged)], LinesReplayed(x, logged)[Len(logged)], c, v)
              /\ PutIn(v, r, LinesReplayed(x, logged)[Len(logged)].repos)
<1> DEFINE a == LinesReplayed(x, logged)
           b == LinesReplayed(y, logged)
           Gone(n) == a[n].repos[r].status = "none" /\ r > 0 /\ \E i \in 1..n : logged[i].id = r
           S == {n \in Nat : n <= Len(logged) =>
                    \/ Placed(b[n], a[n], c, r)
                    \/ Placed(b[n], a[n], c, 0) /\ Gone(n)}
<1>1. /\ Len(logged) \in Nat /\ logged \in Seq(MadeEvent)
      /\ \A n \in 1 .. Len(logged) : logged[n] \in MadeEvent /\ logged[n].log = "repos"
  BY DEF MadeLog
<1>2. a[0] = x /\ \A n \in 1 .. Len(logged) : a[n] = RecordApplied(a[n - 1], logged[n])
  BY <1>1, LinesGo
<1>3. b[0] = y /\ \A n \in 1 .. Len(logged) : b[n] = RecordApplied(b[n - 1], logged[n])
  BY <1>1, LinesGo
<1>4. MaxOps \in Nat /\ 0 \in 0..MaxOps
  BY RecordNumbers
<1> HIDE DEF a, b
<1>5. 0 \in S
  BY <1>2, <1>3
<1>6. ASSUME NEW n \in Nat, n \in S PROVE n + 1 \in S
  <2> SUFFICES ASSUME n + 1 <= Len(logged)
               PROVE  \/ Placed(b[n + 1], a[n + 1], c, r)
                      \/ Placed(b[n + 1], a[n + 1], c, 0) /\ Gone(n + 1)
    OBVIOUS
  <2> DEFINE f == logged[n + 1]
  <2>1. n + 1 \in 1 .. Len(logged) /\ n <= Len(logged) /\ (n + 1) - 1 = n
    BY <1>1
  <2>2. a[n + 1] = RecordApplied(a[n], f) /\ b[n + 1] = RecordApplied(b[n], f)
    BY <1>2, <1>3, <2>1
  <2>3. f \in MadeEvent /\ f.log = "repos"
    BY <1>1, <2>1
  <2>4. f \in RepoEvent /\ f \notin ChatEvent
    BY <2>3, OneKind DEF MadeEvent
  <2>5. f.id \in RecordIds /\ f.id > 0
    BY <1>4, <2>4 DEF RepoEvent, RecordIds
  <2> HIDE DEF f
  <2>6. CASE Placed(b[n], a[n], c, r)
    <3>1. Placed(b[n + 1], a[n + 1], c, IF Changes(a[n].repos, f) /\ f.type = "repo_removed" /\ f.id = r THEN 0 ELSE r)
      BY <2>2, <2>3, <2>4, <2>6, PlacedKept
    <3>2. CASE Changes(a[n].repos, f) /\ f.type = "repo_removed" /\ f.id = r
      BY <2>5, <2>6, <3>2, <2>2, <2>3, StatusMade, <3>1 DEF Placed, f
    <3> QED BY <3>1, <3>2
  <2>7. CASE Placed(b[n], a[n], c, 0) /\ Gone(n)
    <3>1. Placed(b[n + 1], a[n + 1], c, 0)
      BY <2>5, <1>4, <2>2, <2>3, <2>4, <2>7, PlacedKept DEF RecordIds
    <3>2. PICK i \in 1..n : logged[i].id = r
      BY <2>7
    <3>3. i \in 1 .. Len(logged) /\ i < n + 1 /\ i \in 1..(n + 1)
      BY <1>1, <2>1
    <3>4. logged[i].id \in RecordIds
      BY <1>1, <3>3, OneKind DEF MadeEvent, RepoEvent
    <3>5. ~(Adds(f) /\ f.id = r)
      BY <2>1, <3>3, <3>2, <3>4, <1>4 DEF AddsFirst, f, RecordIds
    <3>6. a[n].repos[r].status = "none" /\ r \in RecordIds /\ a[n] \in MemoryRecord
      BY <2>7, <3>2, <3>4 DEF Placed
    <3>7. a[n + 1].repos[r].status = "none"
      BY <2>2, <2>3, <3>5, <3>6, StatusMade
    <3>8. Gone(n + 1)
      BY <2>7, <3>2, <3>3, <3>7
    <3> QED BY <3>1, <3>8
  <2> QED BY <1>6, <2>1, <2>6, <2>7
<1>7. Len(logged) \in S
  <2> HIDE DEF S
  <2> QED BY <1>1, <1>5, <1>6, NumberByNumber
<1>8. \/ Placed(b[Len(logged)], a[Len(logged)], c, r)
      \/ Placed(b[Len(logged)], a[Len(logged)], c, 0) /\ r > 0 /\ a[Len(logged)].repos[r].status = "none"
  BY <1>1, <1>7
<1>9. \E v \in 0..MaxOps : Placed(b[Len(logged)], a[Len(logged)], c, v) /\ PutIn(v, r, a[Len(logged)].repos)
  BY <1>4, <1>8 DEF PutIn
<1> QED BY <1>9 DEF a, b

\* The replay of what is neither about chats nor about repositories leaves the chat and
\* the repositories.
LEMMA PlacedThroughOthers ==
    ASSUME NEW c \in RecordIds, NEW v \in 0..MaxOps, NEW x, NEW y, Placed(y, x, c, v),
           NEW l, l \notin {"chats", "repos"}, NEW logged \in Seq(MadeLog(l))
    PROVE  /\ Placed(LinesReplayed(y, logged)[Len(logged)], LinesReplayed(x, logged)[Len(logged)], c, v)
           /\ LinesReplayed(x, logged)[Len(logged)].repos = x.repos
<1> DEFINE a == LinesReplayed(x, logged)
           b == LinesReplayed(y, logged)
           S == {n \in Nat : n <= Len(logged) => Placed(b[n], a[n], c, v) /\ a[n].repos = x.repos}
<1>1. /\ Len(logged) \in Nat /\ logged \in Seq(MadeEvent)
      /\ \A n \in 1 .. Len(logged) : logged[n] \in MadeEvent /\ logged[n].log = l
  BY DEF MadeLog
<1>2. a[0] = x /\ \A n \in 1 .. Len(logged) : a[n] = RecordApplied(a[n - 1], logged[n])
  BY <1>1, LinesGo
<1>3. b[0] = y /\ \A n \in 1 .. Len(logged) : b[n] = RecordApplied(b[n - 1], logged[n])
  BY <1>1, LinesGo
<1> HIDE DEF a, b
<1>4. 0 \in S
  BY <1>2, <1>3
<1>5. ASSUME NEW n \in Nat, n \in S PROVE n + 1 \in S
  <2> SUFFICES ASSUME n + 1 <= Len(logged) PROVE Placed(b[n + 1], a[n + 1], c, v) /\ a[n + 1].repos = x.repos
    OBVIOUS
  <2> DEFINE f == logged[n + 1]
  <2>1. n + 1 \in 1 .. Len(logged) /\ n <= Len(logged) /\ (n + 1) - 1 = n
    BY <1>1
  <2>2. a[n + 1] = RecordApplied(a[n], f) /\ b[n + 1] = RecordApplied(b[n], f)
    BY <1>2, <1>3, <2>1
  <2>3. f \in MadeEvent /\ f \notin RepoEvent /\ f \notin ChatEvent
    BY <1>1, <2>1, OneKind
  <2>4. Placed(b[n], a[n], c, v) /\ a[n].repos = x.repos
    BY <1>5, <2>1
  <2> HIDE DEF f
  <2>5. Placed(b[n + 1], a[n + 1], c, v)
    BY <2>3, <2>2, <2>4, PlacedKept DEF Changes
  <2>6. a[n + 1].repos = x.repos
    BY <2>4, <2>2, <2>3, StatusMade DEF Placed
  <2> QED BY <2>5, <2>6
<1>6. Len(logged) \in S
  <2> HIDE DEF S
  <2> QED BY <1>1, <1>4, <1>5, NumberByNumber
<1> QED BY <1>1, <1>6 DEF a, b

\* A start that finds a chat more has it where it was put, or, when that repository is gone, nowhere.
LEMMA RestartCreated ==
    ASSUME NEW kept \in MemoryRecord, NEW files \in Filed, NEW e \in ChatEvent, AddsFirst(files["repos"])
    PROVE  LET again == RestartedFrom(kept, files)
               next  == RestartedFrom(kept, [files EXCEPT ![e.log] = Append(@, e)])
           IN  \E v \in 0..MaxOps : Placed(next, again, e.id, v) /\ PutIn(v, e.about, again.repos)
<1> DEFINE more == [files EXCEPT ![e.log] = Append(@, e)]
           r == LogsReplayed(kept, files)
           q == LogsReplayed(kept, more)
<1>0. e \in MadeEvent /\ e.log = "chats" /\ e.id \in RecordIds /\ e.about \in 0..MaxOps
  BY DEF ChatEvent, MadeEvent
<1>1. \A k \in 1..7 : r[k] = LogDone(r[k - 1], files, k)
  BY LogsGo
<1>2. \A k \in 1..7 : q[k] = LogDone(q[k - 1], more, k)
  BY LogsGo
<1>3. \A k \in 0..7 : r[k] \in MemoryRecord
  BY LogsKeep
<1>4. q[4] = RecordApplied(r[4], e)
  <2>1. PICK i \in 1..7 :
              /\ e.log = "chats" => i = 2
              /\ \A k \in 0..7 : e.log # "chats" \/ k < 5 => q[k] = IF k < i THEN r[k] ELSE RecordApplied(r[k], e)
    BY <1>0, LogsMore
  <2> HIDE DEF r, q
  <2> QED BY <1>0, <2>1
<1>5. \A l \in LogNames : l # "chats" => more[l] = files[l] /\ files[l] \in Seq(MadeLog(l))
  BY <1>0, FiledLogs
<1>6. RestartedFrom(kept, files) = r[7] /\ RestartedFrom(kept, more) = q[7]
  BY LogsGo
<1> HIDE DEF more, r, q
<1>7. \A k \in {5, 6, 7} : ReplayOrder[k] \in LogNames /\ ReplayOrder[k] # "chats"
  BY OrderIs DEF LogNames
<1>8. Placed(q[4], r[4], e.id, e.about)
  <2>1. r[4] \in MemoryRecord
    BY <1>3
  <2>2. Parts(q[4], r[4], e)
    BY <1>0, <1>4, <2>1, AppliedParts
  <2>3. e \notin OpenedEvent /\ e \notin RemovedEvent /\ e \notin RepoEvent /\ e \notin ProfileEvent /\ e \notin WholeEvent
    BY NoOther
  <2>4. ChatsMade(r[4].repos, r[4].chatRepo, e) = [r[4].chatRepo EXCEPT ![e.id] = e.about]
    BY DEF ChatsMade
  <2> QED BY <2>1, <2>2, <2>3, <2>4, NothingMade DEF Parts, Placed
<1>9. PICK v \in 0..MaxOps : Placed(q[5], r[5], e.id, v) /\ PutIn(v, e.about, r[5].repos)
  <2>1. ReplayOrder[5] = "repos" /\ more["repos"] = files["repos"] /\ files["repos"] \in Seq(MadeLog("repos"))
    BY <1>5, <1>7, OrderIs
  <2>2. r[5] = LogDone(r[4], files, 5) /\ q[5] = LogDone(q[4], more, 5)
    BY <1>1, <1>2
  <2>3. /\ r[5] = LinesReplayed(r[4], files["repos"])[Len(files["repos"])]
        /\ q[5] = LinesReplayed(q[4], files["repos"])[Len(files["repos"])]
    BY <2>1, <2>2 DEF LogDone
  <2> QED BY <1>0, <1>8, <2>1, <2>3, PlacedThroughRepos
<1>10. Placed(q[6], r[6], e.id, v) /\ r[6].repos = r[5].repos
  <2>1. ReplayOrder[6] = "profiles" /\ more["profiles"] = files["profiles"] /\ files["profiles"] \in Seq(MadeLog("profiles"))
    BY <1>5, <1>7, OrderIs
  <2>2. r[6] = LogDone(r[5], files, 6) /\ q[6] = LogDone(q[5], more, 6)
    BY <1>1, <1>2
  <2>3. /\ r[6] = LinesReplayed(r[5], files["profiles"])[Len(files["profiles"])]
        /\ q[6] = LinesReplayed(q[5], files["profiles"])[Len(files["profiles"])]
    BY <2>1, <2>2 DEF LogDone
  <2> QED BY <1>0, <1>9, <2>1, <2>3, PlacedThroughOthers
<1>11. Placed(q[7], r[7], e.id, v) /\ r[7].repos = r[6].repos
  <2>1. /\ ReplayOrder[7] = "preferences" /\ more["preferences"] = files["preferences"]
        /\ files["preferences"] \in Seq(MadeLog("preferences"))
    BY <1>5, <1>7, OrderIs
  <2>2. r[7] = LogDone(r[6], files, 7) /\ q[7] = LogDone(q[6], more, 7)
    BY <1>1, <1>2
  <2>3. /\ r[7] = LinesReplayed(r[6], files["preferences"])[Len(files["preferences"])]
        /\ q[7] = LinesReplayed(q[6], files["preferences"])[Len(files["preferences"])]
    BY <2>1, <2>2 DEF LogDone
  <2> QED BY <1>0, <1>10, <2>1, <2>3, PlacedThroughOthers
<1>12. PutIn(v, e.about, r[7].repos)
  BY <1>9, <1>10, <1>11
<1> QED BY <1>6, <1>11, <1>12 DEF more

-----------------------------------------------------------------------------
(* What a start finds, beside what is in memory *)

Opens(e)    == e.type = "workspace_opened"
Removes(e)  == e.type = "workspace_removed"
Numbered(e) == e.type \notin {"put", "change", "remove"} /\ e.log # "profiles"

\* A path leads to the last workspace that is open there.
PathLeads(m) == \A p \in Folders : m.byPath[p] # 0 =>
    /\ m.byPath[p] \in RecordIds /\ OpenAt(m, m.byPath[p], p)
    /\ \A w \in RecordIds : OpenAt(m, w, p) => w <= m.byPath[p]

\* Of workspaces a start may forget the removed ones that nobody removes again.
SameWorkspaces(a, m, chain) == \A w \in RecordIds :
    \/ a.workspaces[w] = m.workspaces[w]
    \/ m.workspaces[w].state = "none" /\ a.workspaces[w].state = "none"
    \/ /\ m.workspaces[w].state = "removed" /\ a.workspaces[w].state = "none"
       /\ \A i \in 1..Len(chain) : Removes(chain[i]) => chain[i].id # w

SamePlaces(a, m) == \A c \in RecordIds :
    \/ a.chatRepo[c] = m.chatRepo[c]
    \/ m.chatRepo[c] > 0 /\ a.chatRepo[c] = 0 /\ m.repos[m.chatRepo[c]].status = "none"

SamePaths(a, m) == \A p \in Folders :
    \/ a.byPath[p] = m.byPath[p]
    \/ m.byPath[p] = 0 /\ a.byPath[p] \in RecordIds /\ OpenAt(m, a.byPath[p], p)

Alike(a, m, chain) ==
    /\ a.repos = m.repos /\ a.whole = m.whole /\ a.profiles = m.profiles /\ a.overrides = m.overrides
    /\ SameWorkspaces(a, m, chain) /\ SamePlaces(a, m) /\ SamePaths(a, m)

\* A workspace that is to be opened has a number above all before it.
OpensNext(m, chain) == \A j \in 1..Len(chain) : Opens(chain[j]) =>
    /\ \A w \in RecordIds : m.workspaces[w].state # "none" => w < chain[j].id
    /\ \A i \in 1..Len(chain) : i < j /\ Opens(chain[i]) => chain[i].id < chain[j].id

\* So has a repository, and no chat is in it or on the way into it.
AddsNext(m, logged, chain) == \A j \in 1..Len(chain) : Adds(chain[j]) =>
    /\ m.repos[chain[j].id].status = "none"
    /\ \A c \in RecordIds : m.chatRepo[c] # chain[j].id
    /\ \A i \in 1..Len(chain) : chain[i].log = "chats" => chain[i].about # chain[j].id
    /\ \A i \in 1..Len(chain) : i < j /\ chain[i].log = "repos" => chain[i].id < chain[j].id
    /\ \A n \in 1..Len(logged) : logged[n].id < chain[j].id

\* No number is above that of the last operation.
BelowOps(m, logged, chain, ops) ==
    /\ \A w \in RecordIds : m.workspaces[w].state # "none" \/ m.repos[w].status # "none" => w <= ops
    /\ \A c \in RecordIds : m.chatRepo[c] <= ops
    /\ \A i \in 1..Len(chain) : /\ Numbered(chain[i]) => chain[i].id <= ops
                                /\ chain[i].log = "chats" => chain[i].about <= ops
    /\ \A n \in 1..Len(logged) : logged[n].id <= ops

\* The state m in memory, the snapshot and the logs, and what is in the chain.
Fits(m, kept, files, chain, ops) ==
    LET again == RestartedFrom(kept, files) IN
    /\ Alike(again, m, chain) /\ PathLeads(again) /\ PathLeads(m)
    /\ OpensNext(m, chain) /\ AddsNext(m, files["repos"], chain) /\ AddsFirst(files["repos"])
    /\ BelowOps(m, files["repos"], chain, ops)

\* An event of a kind is about a record of memory.
LEMMA EventIds ==
    /\ \A e \in MadeEvent : Opens(e) => e \in OpenedEvent
    /\ \A e \in MadeEvent : Removes(e) => e \in RemovedEvent
    /\ \A e \in MadeEvent : Adds(e) => e \in RepoEvent
    /\ \A e \in MadeEvent : e.log = "chats" => e \in ChatEvent
    /\ \A e \in MadeEvent : e.log = "repos" => e \in RepoEvent
    /\ \A e \in MadeEvent : Numbered(e) => e.id \in RecordIds
    /\ \A e \in OpenedEvent : e.id \in RecordIds /\ e.about \in Folders /\ Opens(e) /\ ~Removes(e) /\ ~Adds(e) /\ Numbered(e)
    /\ \A e \in RemovedEvent : e.id \in RecordIds /\ Removes(e) /\ ~Opens(e) /\ ~Adds(e) /\ Numbered(e)
    /\ \A e \in RepoEvent : e.id \in RecordIds /\ ~Opens(e) /\ ~Removes(e) /\ Numbered(e)
    /\ \A e \in ChatEvent : e.id \in RecordIds /\ e.about \in 0..MaxOps /\ ~Opens(e) /\ ~Removes(e) /\ ~Adds(e) /\ Numbered(e)
<1> USE DEF Opens, Removes, Adds, Numbered
<1>1. \A e \in OpenedEvent : e.id \in RecordIds /\ e.about \in Folders /\ e.type = "workspace_opened" /\ e.log = "projects"
  BY DEF OpenedEvent
<1>2. \A e \in RemovedEvent : e.id \in RecordIds /\ e.type = "workspace_removed" /\ e.log = "projects"
  BY DEF RemovedEvent
<1>3. \A e \in RepoEvent : e.id \in RecordIds /\ e.type \in RepoTypes /\ e.log = "repos"
  BY DEF RepoEvent
<1>4. \A e \in ChatEvent : e.id \in RecordIds /\ e.about \in 0..MaxOps /\ e.type = "chat_created" /\ e.log = "chats"
  BY DEF ChatEvent
<1>5. \A e \in MadeEvent : \/ e \in OpenedEvent \/ e \in RemovedEvent \/ e \in ChatEvent \/ e \in RepoEvent
                           \/ e \in ProfileEvent \/ e \in WholeEvent
  BY DEF MadeEvent
<1>6. \A e \in ProfileEvent : e.type \in ProfileTypes /\ e.log = "profiles"
  BY OneKind
<1>7. \A e \in WholeEvent : e.type \in {"put", "change", "remove"} /\ e.log \in {"projects", "coordination", "configs", "preferences"}
  BY OneKind
<1> QED BY <1>1, <1>2, <1>3, <1>4, <1>5, <1>6, <1>7 DEF RepoTypes, ProfileTypes

\* What an event does to one workspace and one path.
LEMMA OpenedAt ==
    ASSUME NEW m \in MemoryRecord, NEW e \in OpenedEvent, NEW y, Parts(y, m, e)
    PROVE  /\ \A w \in RecordIds :
                 y.workspaces[w] = IF w = e.id THEN [state |-> "open", path |-> e.about] ELSE m.workspaces[w]
           /\ \A p \in Folders : y.byPath[p] = IF p = e.about THEN e.id ELSE m.byPath[p]
<1>1. m.workspaces \in WorkspaceTable /\ m.byPath \in PathTable
  BY DEF MemoryRecord
<1>2. /\ y.workspaces = [m.workspaces EXCEPT ![e.id] = [state |-> "open", path |-> e.about]]
      /\ y.byPath = [m.byPath EXCEPT ![e.about] = e.id]
  BY DEF Parts, WorkspacesMade, PathsMade
<1>3. e.id \in RecordIds /\ e.about \in Folders
  BY EventIds
<1>4. \A w \in RecordIds :
          y.workspaces[w] = IF w = e.id THEN [state |-> "open", path |-> e.about] ELSE m.workspaces[w]
  BY <1>1, <1>2, <1>3 DEF WorkspaceTable
<1>5. \A p \in Folders : y.byPath[p] = IF p = e.about THEN e.id ELSE m.byPath[p]
  BY <1>1, <1>2, <1>3 DEF PathTable
<1> QED BY <1>4, <1>5

\* What the removal of a workspace does to one workspace and one path.
LEMMA RemovedAt ==
    ASSUME NEW m \in MemoryRecord, NEW e \in RemovedEvent, NEW y, Parts(y, m, e)
    PROVE  /\ \A w \in RecordIds :
                 y.workspaces[w] = IF w = e.id /\ m.workspaces[w].state # "none"
                                   THEN [state |-> "removed", path |-> m.workspaces[w].path] ELSE m.workspaces[w]
           /\ \A p \in Folders :
                 y.byPath[p] = IF m.workspaces[e.id].state # "none" /\ m.workspaces[e.id].path = p THEN 0 ELSE m.byPath[p]
<1>1. m.workspaces \in WorkspaceTable /\ m.byPath \in PathTable
  BY DEF MemoryRecord
<1>2. e \notin OpenedEvent /\ e.id \in RecordIds
  BY NoOther, EventIds
<1>3. CASE m.workspaces[e.id].state # "none"
  <2>1. /\ y.workspaces = [m.workspaces EXCEPT ![e.id] = [state |-> "removed", path |-> m.workspaces[e.id].path]]
        /\ y.byPath = [m.byPath EXCEPT ![m.workspaces[e.id].path] = 0]
    BY <1>2, <1>3 DEF Parts, WorkspacesMade, PathsMade
  <2>2. \A w \in RecordIds :
            y.workspaces[w] = IF w = e.id THEN [state |-> "removed", path |-> m.workspaces[w].path] ELSE m.workspaces[w]
    BY <1>1, <1>2, <2>1 DEF WorkspaceTable
  <2>3. \A p \in Folders : y.byPath[p] = IF m.workspaces[e.id].path = p THEN 0 ELSE m.byPath[p]
    BY <1>1, <1>2, <2>1 DEF PathTable
  <2> QED BY <1>3, <2>2, <2>3
<1>4. CASE m.workspaces[e.id].state = "none"
  <2>1. y.workspaces = m.workspaces /\ y.byPath = m.byPath
    BY <1>2, <1>4 DEF Parts, WorkspacesMade, PathsMade
  <2> QED BY <1>4, <2>1
<1> QED BY <1>3, <1>4

\* Other events leave workspaces and paths.
LEMMA NeitherAt ==
    ASSUME NEW m, NEW e, e \notin OpenedEvent, e \notin RemovedEvent, NEW y, Parts(y, m, e)
    PROVE  y.workspaces = m.workspaces /\ y.byPath = m.byPath
  BY NothingMade DEF Parts

\* A path goes on leading to the last workspace open there.
LEMMA PathsLead ==
    ASSUME NEW m \in MemoryRecord, NEW e \in MadeEvent, NEW y, Parts(y, m, e), PathLeads(m),
           Opens(e) => \A w \in RecordIds : m.workspaces[w].state # "none" => w < e.id
    PROVE  PathLeads(y)
<1> SUFFICES ASSUME NEW p \in Folders, y.byPath[p] # 0
             PROVE  /\ y.byPath[p] \in RecordIds /\ OpenAt(y, y.byPath[p], p)
                    /\ \A w \in RecordIds : OpenAt(y, w, p) => w <= y.byPath[p]
  BY DEF PathLeads
<1>0. \A w \in RecordIds : w \in Int
  BY DEF RecordIds
<1>1. m.byPath[p] # 0 => /\ m.byPath[p] \in RecordIds /\ OpenAt(m, m.byPath[p], p)
                         /\ \A w \in RecordIds : OpenAt(m, w, p) => w <= m.byPath[p]
  BY DEF PathLeads
<1>2. CASE e \in OpenedEvent
  <2>1. e \notin RemovedEvent /\ e.id \in RecordIds /\ Opens(e)
    BY <1>2, NoOther, EventIds
  <2>2. \A w \in RecordIds : y.workspaces[w] = IF w = e.id THEN [state |-> "open", path |-> e.about] ELSE m.workspaces[w]
    BY <1>2, OpenedAt
  <2>3. y.byPath[p] = IF p = e.about THEN e.id ELSE m.byPath[p]
    <3>1. /\ \A w \in RecordIds :
                 y.workspaces[w] = IF w = e.id THEN [state |-> "open", path |-> e.about] ELSE m.workspaces[w]
          /\ \A q \in Folders : y.byPath[q] = IF q = e.about THEN e.id ELSE m.byPath[q]
      BY ONLY <1>2, OpenedAt, m \in MemoryRecord, Parts(y, m, e)
    <3> QED BY <3>1
  <2>4. \A w \in RecordIds : m.workspaces[w].state # "none" => w < e.id
    BY <2>1
  <2>5. CASE p = e.about
    <3>1. y.byPath[p] = e.id /\ OpenAt(y, e.id, p)
      BY <2>1, <2>2, <2>3, <2>5 DEF OpenAt
    <3>2. ASSUME NEW w \in RecordIds, OpenAt(y, w, p) PROVE w <= e.id
      <4>1. CASE w = e.id
        BY <1>0, <4>1
      <4>2. CASE w # e.id
        <5>1. m.workspaces[w].state = "open"
          BY <2>2, <3>2, <4>2 DEF OpenAt
        <5>2. w < e.id
          BY <2>4, <5>1
        <5> QED BY <1>0, <2>1, <5>2
      <4> QED BY <4>1, <4>2
    <3> QED BY <2>1, <3>1, <3>2
  <2>6. CASE p # e.about
    BY <1>0, <1>1, <2>1, <2>2, <2>3, <2>4, <2>6 DEF OpenAt
  <2> QED BY <2>5, <2>6
<1>3. CASE e \in RemovedEvent
  <2>2. \A w \in RecordIds : y.workspaces[w] = IF w = e.id /\ m.workspaces[w].state # "none"
                                              THEN [state |-> "removed", path |-> m.workspaces[w].path] ELSE m.workspaces[w]
    BY <1>3, RemovedAt
  <2>3. y.byPath[p] = IF m.workspaces[e.id].state # "none" /\ m.workspaces[e.id].path = p THEN 0 ELSE m.byPath[p]
    BY <1>3, RemovedAt
  <2>4. y.byPath[p] = m.byPath[p] /\ m.byPath[p] # 0
    BY <2>3
  <2>5. m.byPath[p] \in RecordIds /\ OpenAt(m, m.byPath[p], p) /\ \A w \in RecordIds : OpenAt(m, w, p) => w <= m.byPath[p]
    BY <1>1, <2>4
  <2>6. m.byPath[p] # e.id
    BY <2>3, <2>4, <2>5 DEF OpenAt
  <2>7. OpenAt(y, m.byPath[p], p)
    BY <2>2, <2>5, <2>6 DEF OpenAt
  <2>8. ASSUME NEW w \in RecordIds, OpenAt(y, w, p) PROVE OpenAt(m, w, p)
    <3>1. CASE w = e.id /\ m.workspaces[w].state # "none"
      <4>1. y.workspaces[w] = [state |-> "removed", path |-> m.workspaces[w].path]
        BY <2>2, <3>1
      <4>2. y.workspaces[w].state = "removed"
        BY <4>1
      <4> QED BY <2>8, <4>2 DEF OpenAt
    <3>2. CASE ~(w = e.id /\ m.workspaces[w].state # "none")
      BY <2>2, <2>8, <3>2 DEF OpenAt
    <3> QED BY <3>1, <3>2
  <2> QED BY <2>4, <2>5, <2>7, <2>8
<1>4. CASE e \notin OpenedEvent /\ e \notin RemovedEvent
  BY <1>4, NeitherAt, <1>1 DEF OpenAt
<1> QED BY <1>2, <1>3, <1>4

-----------------------------------------------------------------------------
(* An event leaves the chain *)

\* What a start finds of workspaces and paths stays alike when both get an event.
LEMMA SameAfterOpened ==
    ASSUME NEW m \in MemoryRecord, NEW a \in MemoryRecord, NEW e \in OpenedEvent, NEW y, Parts(y, m, e), NEW b, Parts(b, a, e),
           NEW chain, NEW rest, \A i \in 1..Len(rest) : \E j \in 1..Len(chain) : rest[i] = chain[j],
           SameWorkspaces(a, m, chain), SamePaths(a, m),
           \A w \in RecordIds : m.workspaces[w].state # "none" => w < e.id
    PROVE  SameWorkspaces(b, y, rest) /\ SamePaths(b, y)
<1>1. /\ \A w \in RecordIds :
                 y.workspaces[w] = IF w = e.id THEN [state |-> "open", path |-> e.about] ELSE m.workspaces[w]
      /\ \A p \in Folders : y.byPath[p] = IF p = e.about THEN e.id ELSE m.byPath[p]
  BY ONLY OpenedAt, m \in MemoryRecord, e \in OpenedEvent, Parts(y, m, e)
<1>2. \A p \in Folders : y.byPath[p] = IF p = e.about THEN e.id ELSE m.byPath[p]
  BY <1>1
<1>3. /\ \A w \in RecordIds :
                 b.workspaces[w] = IF w = e.id THEN [state |-> "open", path |-> e.about] ELSE a.workspaces[w]
      /\ \A p \in Folders : b.byPath[p] = IF p = e.about THEN e.id ELSE a.byPath[p]
  BY ONLY OpenedAt, a \in MemoryRecord, e \in OpenedEvent, Parts(b, a, e)
<1>4. \A p \in Folders : b.byPath[p] = IF p = e.about THEN e.id ELSE a.byPath[p]
  BY <1>3
<1>5. ASSUME NEW w \in RecordIds
      PROVE  \/ b.workspaces[w] = y.workspaces[w]
             \/ y.workspaces[w].state = "none" /\ b.workspaces[w].state = "none"
             \/ /\ y.workspaces[w].state = "removed" /\ b.workspaces[w].state = "none"
                /\ \A i \in 1..Len(rest) : Removes(rest[i]) => rest[i].id # w
  <2>1. CASE w = e.id
    BY <1>1, <1>3, <2>1
  <2>2. CASE w # e.id
    BY <1>1, <1>3, <2>2 DEF SameWorkspaces
  <2> QED BY <2>1, <2>2
<1>6. ASSUME NEW p \in Folders
      PROVE  \/ b.byPath[p] = y.byPath[p]
             \/ y.byPath[p] = 0 /\ b.byPath[p] \in RecordIds /\ OpenAt(y, b.byPath[p], p)
  <2>1. CASE p = e.about
    BY <1>2, <1>4, <2>1
  <2>2. CASE p # e.about
    <3>1. y.byPath[p] = m.byPath[p] /\ b.byPath[p] = a.byPath[p]
      BY <1>2, <1>4, <2>2
    <3>2. \/ a.byPath[p] = m.byPath[p]
          \/ m.byPath[p] = 0 /\ a.byPath[p] \in RecordIds /\ OpenAt(m, a.byPath[p], p)
      BY DEF SamePaths
    <3>3. ASSUME NEW x \in RecordIds, OpenAt(m, x, p) PROVE OpenAt(y, x, p)
      <4>1. m.workspaces[x].state # "none" /\ e.id \in RecordIds
        BY <3>3, EventIds DEF OpenAt
      <4>2. x # e.id
        <5>1. x < e.id
          BY <4>1
        <5> QED BY <4>1, <5>1 DEF RecordIds
      <4> QED BY <1>1, <3>3, <4>2 DEF OpenAt
    <3> QED BY <3>1, <3>2, <3>3
  <2> QED BY <2>1, <2>2
<1>7. SameWorkspaces(b, y, rest)
  BY <1>5 DEF SameWorkspaces
<1>8. SamePaths(b, y)
  BY <1>6 DEF SamePaths
<1> QED BY <1>7, <1>8

\* So it does when a workspace is removed.
LEMMA SameAfterRemoved ==
    ASSUME NEW m \in MemoryRecord, NEW a \in MemoryRecord, NEW e \in RemovedEvent, NEW y, Parts(y, m, e), NEW b, Parts(b, a, e),
           NEW chain, NEW rest, \A i \in 1..Len(rest) : \E j \in 1..Len(chain) : rest[i] = chain[j],
           \E j \in 1..Len(chain) : chain[j] = e,
           SameWorkspaces(a, m, chain), SamePaths(a, m)
    PROVE  SameWorkspaces(b, y, rest) /\ SamePaths(b, y)
<1>0. e.id \in RecordIds /\ Removes(e)
  BY EventIds
<1>1. \A w \in RecordIds : y.workspaces[w] = IF w = e.id /\ m.workspaces[w].state # "none"
                                   THEN [state |-> "removed", path |-> m.workspaces[w].path] ELSE m.workspaces[w]
  BY ONLY RemovedAt, m \in MemoryRecord, e \in RemovedEvent, Parts(y, m, e)
<1>2. \A p \in Folders : y.byPath[p] = IF m.workspaces[e.id].state # "none" /\ m.workspaces[e.id].path = p THEN 0 ELSE m.byPath[p]
  BY ONLY RemovedAt, m \in MemoryRecord, e \in RemovedEvent, Parts(y, m, e)
<1>3. \A w \in RecordIds : b.workspaces[w] = IF w = e.id /\ a.workspaces[w].state # "none"
                                   THEN [state |-> "removed", path |-> a.workspaces[w].path] ELSE a.workspaces[w]
  BY ONLY RemovedAt, a \in MemoryRecord, e \in RemovedEvent, Parts(b, a, e)
<1>4. \A p \in Folders : b.byPath[p] = IF a.workspaces[e.id].state # "none" /\ a.workspaces[e.id].path = p THEN 0 ELSE a.byPath[p]
  BY ONLY RemovedAt, a \in MemoryRecord, e \in RemovedEvent, Parts(b, a, e)
<1>5. \/ a.workspaces[e.id] = m.workspaces[e.id]
      \/ m.workspaces[e.id].state = "none" /\ a.workspaces[e.id].state = "none"
  BY <1>0 DEF SameWorkspaces
<1>6. ASSUME NEW w \in RecordIds
      PROVE  \/ b.workspaces[w] = y.workspaces[w]
             \/ y.workspaces[w].state = "none" /\ b.workspaces[w].state = "none"
             \/ /\ y.workspaces[w].state = "removed" /\ b.workspaces[w].state = "none"
                /\ \A i \in 1..Len(rest) : Removes(rest[i]) => rest[i].id # w
  <2>1. CASE w = e.id /\ a.workspaces[w] = m.workspaces[w]
    BY <1>1, <1>3, <2>1
  <2>2. CASE w = e.id /\ m.workspaces[e.id].state = "none" /\ a.workspaces[e.id].state = "none"
    BY <1>1, <1>3, <2>2
  <2>3. CASE w # e.id
    <3>1. y.workspaces[w] = m.workspaces[w] /\ b.workspaces[w] = a.workspaces[w]
      BY <1>1, <1>3, <2>3
    <3>2. \/ a.workspaces[w] = m.workspaces[w]
          \/ m.workspaces[w].state = "none" /\ a.workspaces[w].state = "none"
          \/ /\ m.workspaces[w].state = "removed" /\ a.workspaces[w].state = "none"
             /\ \A i \in 1..Len(chain) : Removes(chain[i]) => chain[i].id # w
      BY DEF SameWorkspaces
    <3> QED BY <3>1, <3>2
  <2> QED BY <1>5, <2>1, <2>2, <2>3
<1>7. ASSUME NEW p \in Folders
      PROVE  \/ b.byPath[p] = y.byPath[p]
             \/ y.byPath[p] = 0 /\ b.byPath[p] \in RecordIds /\ OpenAt(y, b.byPath[p], p)
  <2>1. CASE m.workspaces[e.id].state # "none" /\ m.workspaces[e.id].path = p
    BY <1>5, <2>1, <1>2, <1>4
  <2>2. CASE ~(m.workspaces[e.id].state # "none" /\ m.workspaces[e.id].path = p)
    <3>1. ~(a.workspaces[e.id].state # "none" /\ a.workspaces[e.id].path = p)
      BY <1>5, <2>2
    <3>2. y.byPath[p] = m.byPath[p]
      BY <1>2, <2>2
    <3>3. b.byPath[p] = a.byPath[p]
      BY <1>4, <3>1
    <3>4. \/ a.byPath[p] = m.byPath[p]
          \/ m.byPath[p] = 0 /\ a.byPath[p] \in RecordIds /\ OpenAt(m, a.byPath[p], p)
      BY DEF SamePaths
    <3>5. ASSUME NEW x \in RecordIds, OpenAt(m, x, p) PROVE OpenAt(y, x, p)
      BY <2>2, <3>5, <1>1 DEF OpenAt
    <3> QED BY <3>2, <3>3, <3>4, <3>5
  <2> QED BY <2>1, <2>2
<1>8. SameWorkspaces(b, y, rest)
  BY <1>6 DEF SameWorkspaces
<1>9. SamePaths(b, y)
  BY <1>7 DEF SamePaths
<1> QED BY <1>8, <1>9

\* Other events leave workspaces and paths alike.
LEMMA SameAfterOther ==
    ASSUME NEW m, NEW a, NEW e, e \notin OpenedEvent, e \notin RemovedEvent, NEW y, Parts(y, m, e), NEW b, Parts(b, a, e),
           NEW chain, NEW rest, \A i \in 1..Len(rest) : \E j \in 1..Len(chain) : rest[i] = chain[j],
           SameWorkspaces(a, m, chain), SamePaths(a, m)
    PROVE  SameWorkspaces(b, y, rest) /\ SamePaths(b, y)
<1>1. y.workspaces = m.workspaces /\ y.byPath = m.byPath /\ b.workspaces = a.workspaces /\ b.byPath = a.byPath
  BY NeitherAt
<1>2. SameWorkspaces(b, y, rest)
  <2> SUFFICES ASSUME NEW w \in RecordIds
               PROVE  \/ a.workspaces[w] = m.workspaces[w]
                      \/ m.workspaces[w].state = "none" /\ a.workspaces[w].state = "none"
                      \/ /\ m.workspaces[w].state = "removed" /\ a.workspaces[w].state = "none"
                         /\ \A i \in 1..Len(rest) : Removes(rest[i]) => rest[i].id # w
    BY <1>1 DEF SameWorkspaces
  <2> QED BY DEF SameWorkspaces
<1>3. SamePaths(b, y)
  BY <1>1 DEF SamePaths, OpenAt
<1> QED BY <1>2, <1>3

\* Where chats are, and whether their repositories are there, stays alike.
LEMMA PlacesAfter ==
    ASSUME NEW m \in MemoryRecord, NEW a \in MemoryRecord, NEW e \in MadeEvent, e \notin ChatEvent,
           NEW y, Parts(y, m, e), NEW b, Parts(b, a, e), a.repos = m.repos, SamePlaces(a, m),
           Adds(e) => \A c \in RecordIds : m.chatRepo[c] # e.id
    PROVE  SamePlaces(b, y)
<1>1. /\ y.chatRepo = ChatsMade(m.repos, m.chatRepo, e) /\ y.repos = ReposMade(m.repos, e)
      /\ b.chatRepo = ChatsMade(m.repos, a.chatRepo, e)
  BY DEF Parts
<1>2. m.chatRepo \in PlaceTable /\ a.chatRepo \in PlaceTable /\ m.repos \in RepoTable
  BY DEF MemoryRecord
<1>3. CASE ~Changes(m.repos, e)
  BY <1>1, <1>3 DEF ChatsMade, ReposMade, SamePlaces
<1>4. CASE Changes(m.repos, e)
  <2>0. e \in RepoEvent /\ e.id \in RecordIds
    BY <1>4, EventIds DEF Changes
  <2>1. y.chatRepo = PlacesMade(m.chatRepo, e) /\ b.chatRepo = PlacesMade(a.chatRepo, e)
    BY <1>1, <1>4 DEF ChatsMade
  <2>2. \A r \in RecordIds : y.repos[r] = IF r = e.id THEN RepoMade(m.repos[r], e) ELSE m.repos[r]
    BY <1>1, <1>2, <1>4, <2>0 DEF ReposMade, RepoTable
  <2> SUFFICES ASSUME NEW c \in RecordIds
               PROVE  \/ b.chatRepo[c] = y.chatRepo[c]
                      \/ y.chatRepo[c] > 0 /\ b.chatRepo[c] = 0 /\ y.repos[y.chatRepo[c]].status = "none"
    BY DEF SamePlaces
  <2>3. \/ a.chatRepo[c] = m.chatRepo[c]
        \/ m.chatRepo[c] > 0 /\ a.chatRepo[c] = 0 /\ m.repos[m.chatRepo[c]].status = "none"
    BY DEF SamePlaces
  <2>4. /\ y.chatRepo[c] = IF e.type = "repo_removed" /\ m.chatRepo[c] = e.id THEN 0 ELSE m.chatRepo[c]
        /\ b.chatRepo[c] = IF e.type = "repo_removed" /\ a.chatRepo[c] = e.id THEN 0 ELSE a.chatRepo[c]
    BY <2>1 DEF PlacesMade
  <2>5. CASE a.chatRepo[c] = m.chatRepo[c]
    BY <2>4, <2>5
  <2>6. CASE m.chatRepo[c] > 0 /\ a.chatRepo[c] = 0 /\ m.repos[m.chatRepo[c]].status = "none"
    <3>1. m.chatRepo[c] \in RecordIds
      BY <1>2, <2>6, RecordNumbers DEF PlaceTable, RecordIds
    <3>2. m.chatRepo[c] # e.id
      BY <2>6, <1>4 DEF Changes
    <3>3. y.chatRepo[c] = m.chatRepo[c] /\ b.chatRepo[c] = 0
      BY <2>0, RecordNumbers, <2>4, <2>6, <3>2 DEF RecordIds
    <3>4. y.repos[m.chatRepo[c]] = m.repos[m.chatRepo[c]]
      BY <2>2, <3>1, <3>2
    <3> QED BY <2>6, <3>3, <3>4
  <2> QED BY <2>3, <2>5, <2>6
<1> QED BY <1>3, <1>4

\* A chain without its head.
LEMMA TailOf ==
    ASSUME NEW chain \in Seq(MadeEvent), chain # <<>>
    PROVE  /\ Tail(chain) \in Seq(MadeEvent) /\ Head(chain) \in MadeEvent /\ Head(chain) = chain[1] /\ 1 \in 1..Len(chain)
           /\ \A i \in 1..Len(Tail(chain)) : Tail(chain)[i] = chain[i + 1] /\ i + 1 \in 1..Len(chain) /\ Tail(chain)[i] \in MadeEvent
  OBVIOUS

\* What is to be opened still has a number above all before it.
LEMMA OpensAfter ==
    ASSUME NEW m \in MemoryRecord, NEW chain \in Seq(MadeEvent), chain # <<>>, OpensNext(m, chain),
           NEW y, Parts(y, m, Head(chain))
    PROVE  OpensNext(y, Tail(chain))
<1> DEFINE e == Head(chain)
           rest == Tail(chain)
<1>1. /\ e \in MadeEvent /\ e = chain[1] /\ 1 \in 1..Len(chain)
      /\ \A i \in 1..Len(rest) : rest[i] = chain[i + 1] /\ i + 1 \in 1..Len(chain) /\ rest[i] \in MadeEvent
  BY TailOf
<1>2. Parts(y, m, e)
  OBVIOUS
<1> HIDE DEF e, rest
<1>3. SUFFICES ASSUME NEW j \in 1..Len(rest), Opens(rest[j])
               PROVE  /\ \A w \in RecordIds : y.workspaces[w].state # "none" => w < rest[j].id
                      /\ \A i \in 1..Len(rest) : i < j /\ Opens(rest[i]) => rest[i].id < rest[j].id
  BY DEF OpensNext, rest
<1>4. Opens(chain[j + 1]) /\ j + 1 \in 1..Len(chain) /\ rest[j] = chain[j + 1]
  BY <1>1, <1>3
<1>5. /\ \A w \in RecordIds : m.workspaces[w].state # "none" => w < rest[j].id
      /\ \A i \in 1..Len(chain) : i < j + 1 /\ Opens(chain[i]) => chain[i].id < rest[j].id
  BY <1>4 DEF OpensNext
<1>6. ASSUME NEW i \in 1..Len(rest), i < j, Opens(rest[i]) PROVE rest[i].id < rest[j].id
  BY <1>1, <1>6, <1>5
<1>7. ASSUME NEW w \in RecordIds, y.workspaces[w].state # "none" PROVE w < rest[j].id
  <2>1. CASE e \in OpenedEvent
    <3>1. \A v \in RecordIds : y.workspaces[v] = IF v = e.id THEN [state |-> "open", path |-> e.about] ELSE m.workspaces[v]
      BY ONLY OpenedAt, m \in MemoryRecord, <2>1, <1>2
    <3>2. e.id < rest[j].id
      BY <2>1, EventIds, <1>1, <1>5
    <3>3. w # e.id => y.workspaces[w] = m.workspaces[w]
      BY <3>1
    <3> QED BY <1>5, <1>7, <3>2, <3>3
  <2>2. CASE e \in RemovedEvent
    <3>1. \A v \in RecordIds : y.workspaces[v] = IF v = e.id /\ m.workspaces[v].state # "none"
                                   THEN [state |-> "removed", path |-> m.workspaces[v].path] ELSE m.workspaces[v]
      BY ONLY RemovedAt, m \in MemoryRecord, <2>2, <1>2
    <3>2. m.workspaces[w].state # "none"
      BY <1>7, <3>1
    <3> QED BY <1>5, <3>2
  <2>3. CASE e \notin OpenedEvent /\ e \notin RemovedEvent
    BY <1>2, <2>3, NeitherAt, <1>5, <1>7
  <2> QED BY <2>1, <2>2, <2>3
<1> QED BY <1>6, <1>7

\* What one event makes of the places of chats.
LEMMA PlaceAt ==
    ASSUME NEW m \in MemoryRecord, NEW e \in MadeEvent, NEW y, Parts(y, m, e), NEW c \in RecordIds
    PROVE  \/ y.chatRepo[c] = m.chatRepo[c] \/ y.chatRepo[c] = 0
           \/ e \in ChatEvent /\ c = e.id /\ y.chatRepo[c] = e.about
<1>1. y.chatRepo = ChatsMade(m.repos, m.chatRepo, e) /\ m.chatRepo \in PlaceTable
  BY DEF Parts, MemoryRecord
<1>2. CASE e \in ChatEvent
  <2>1. y.chatRepo = [m.chatRepo EXCEPT ![e.id] = e.about]
    BY <1>1, <1>2 DEF ChatsMade
  <2> QED BY <1>1, <1>2, <2>1 DEF PlaceTable
<1>3. CASE e \notin ChatEvent
  <2>1. y.chatRepo = m.chatRepo \/ y.chatRepo = PlacesMade(m.chatRepo, e)
    BY <1>1, <1>3 DEF ChatsMade
  <2> QED BY <2>1 DEF PlacesMade
<1> QED BY <1>2, <1>3

\* The log of the repositories gets the events about repositories, after the others.
LEMMA RepoLines ==
    ASSUME NEW files \in Filed, NEW e \in MadeEvent
    PROVE  LET old == files["repos"]
               new == [files EXCEPT ![e.log] = Append(@, e)]["repos"]
           IN  /\ Len(old) \in Nat
               /\ e.log # "repos" => new = old
               /\ e.log = "repos" => Len(new) = Len(old) + 1 /\ new[Len(old) + 1] = e
               /\ \A n \in 1..Len(old) : new[n] = old[n] /\ n \in 1..Len(new)
<1> DEFINE old == files["repos"]
           new == [files EXCEPT ![e.log] = Append(@, e)]["repos"]
<1>1. "repos" \in LogNames
  BY DEF LogNames
<1>2. old \in Seq(MadeEvent)
  BY <1>1, FiledLogs
<1>3. CASE e.log # "repos"
  <2>1. new = old
    BY <1>1, <1>3, FiledLogs
  <2> HIDE DEF new, old
  <2> QED BY <1>2, <1>3, <2>1 DEF new, old
<1>4. CASE e.log = "repos"
  <2>1. new = Append(old, e)
    BY <1>4, FiledLogs
  <2> HIDE DEF new, old
  <2>2. /\ Len(old) \in Nat /\ Len(new) = Len(old) + 1 /\ new[Len(old) + 1] = e
        /\ \A n \in 1..Len(old) : new[n] = old[n] /\ n \in 1..Len(new)
    BY <1>2, <2>1
  <2> QED BY <1>4, <2>2 DEF new, old
<1> QED BY <1>3, <1>4

\* A repository that is to be added is still the first of its number.
LEMMA AddsAfter ==
    ASSUME NEW m \in MemoryRecord, NEW files \in Filed, NEW chain \in Seq(MadeEvent), chain # <<>>,
           AddsNext(m, files["repos"], chain), AddsFirst(files["repos"]), NEW y, Parts(y, m, Head(chain))
    PROVE  LET new == [files EXCEPT ![Head(chain).log] = Append(@, Head(chain))]["repos"]
           IN  AddsNext(y, new, Tail(chain)) /\ AddsFirst(new)
<1> DEFINE e == Head(chain)
           rest == Tail(chain)
           old == files["repos"]
           new == [files EXCEPT ![e.log] = Append(@, e)]["repos"]
<1>1. /\ e \in MadeEvent /\ e = chain[1] /\ 1 \in 1..Len(chain)
      /\ \A i \in 1..Len(rest) : rest[i] = chain[i + 1] /\ i + 1 \in 1..Len(chain) /\ rest[i] \in MadeEvent
  BY TailOf
<1>2. Parts(y, m, e) /\ AddsNext(m, old, chain) /\ AddsFirst(old)
  OBVIOUS
<1>3. /\ Len(old) \in Nat
      /\ e.log # "repos" => new = old
      /\ e.log = "repos" => Len(new) = Len(old) + 1 /\ new[Len(old) + 1] = e
      /\ \A n \in 1..Len(old) : new[n] = old[n] /\ n \in 1..Len(new)
  <2> e \in MadeEvent
    BY <1>1
  <2> HIDE DEF e
  <2> QED BY RepoLines
<1> HIDE DEF e, rest, old, new
<1>4. \A n \in 1..Len(new) : n \in 1..Len(old) \/ (e.log = "repos" /\ n = Len(old) + 1)
  BY <1>3
<1>5. AddsFirst(new)
  <2> SUFFICES ASSUME NEW i \in 1..Len(new), NEW j \in 1..Len(new), i < j, Adds(new[j]) PROVE new[i].id < new[j].id
    BY DEF AddsFirst
  <2>1. i \in 1..Len(old)
    BY <1>3, <1>4
  <2>2. CASE j \in 1..Len(old)
    BY <1>2, <1>3, <2>1, <2>2 DEF AddsFirst
  <2>3. CASE e.log = "repos" /\ j = Len(old) + 1
    <3>1. new[j] = chain[1] /\ Adds(chain[1])
      BY <1>1, <1>3, <2>3
    <3>2. old[i].id < chain[1].id
      BY <1>1, <1>2, <2>1, <3>1 DEF AddsNext
    <3> QED BY <1>3, <2>1, <3>1, <3>2
  <2> QED BY <1>4, <2>2, <2>3
<1>6. AddsNext(y, new, rest)
  <2> SUFFICES ASSUME NEW j \in 1..Len(rest), Adds(rest[j])
               PROVE  /\ y.repos[rest[j].id].status = "none"
                      /\ \A c \in RecordIds : y.chatRepo[c] # rest[j].id
                      /\ \A i \in 1..Len(rest) : rest[i].log = "chats" => rest[i].about # rest[j].id
                      /\ \A i \in 1..Len(rest) : i < j /\ rest[i].log = "repos" => rest[i].id < rest[j].id
                      /\ \A n \in 1..Len(new) : new[n].id < rest[j].id
    BY DEF AddsNext
  <2> DEFINE a == rest[j].id
  <2>1. Adds(chain[j + 1]) /\ j + 1 \in 1..Len(chain) /\ rest[j] = chain[j + 1]
    BY <1>1
  <2>2. /\ m.repos[a].status = "none"
        /\ \A c \in RecordIds : m.chatRepo[c] # a
        /\ \A i \in 1..Len(chain) : chain[i].log = "chats" => chain[i].about # a
        /\ \A i \in 1..Len(chain) : i < j + 1 /\ chain[i].log = "repos" => chain[i].id < a
        /\ \A n \in 1..Len(old) : old[n].id < a
    BY <1>2, <2>1 DEF AddsNext
  <2>3. a \in RecordIds /\ a > 0
    BY <1>1, EventIds DEF RecordIds
  <2> HIDE DEF a
  <2>4. e.log = "repos" => e.id < a
    BY <1>1, <2>2
  <2>5. y.repos[a].status = "none"
    <3>1. ~(Adds(e) /\ e \in RepoEvent /\ e.id = a)
      <4>1. e \in RepoEvent => e.log = "repos"
        BY OneKind
      <4> QED BY <2>3, <2>4, <4>1 DEF RecordIds
    <3>2. y.repos = ReposMade(m.repos, e) /\ m.repos \in RepoTable
      BY <1>2 DEF Parts, MemoryRecord
    <3>3. CASE Changes(m.repos, e)
      <4>1. e \in RepoEvent /\ e.id \in RecordIds
        BY <3>3, EventIds DEF Changes
      <4>2. e.id # a
        BY <2>2, <3>1, <3>3, <4>1 DEF Changes
      <4>3. y.repos = [m.repos EXCEPT ![e.id] = RepoMade(m.repos[e.id], e)]
        BY <3>2, <3>3 DEF ReposMade
      <4> QED BY <2>2, <2>3, <3>2, <4>1, <4>2, <4>3 DEF RepoTable
    <3>4. CASE ~Changes(m.repos, e)
      BY <2>2, <3>2, <3>4 DEF ReposMade
    <3> QED BY <3>3, <3>4
  <2>6. ASSUME NEW c \in RecordIds PROVE y.chatRepo[c] # a
    <3>1. \/ y.chatRepo[c] = m.chatRepo[c] \/ y.chatRepo[c] = 0
          \/ e \in ChatEvent /\ c = e.id /\ y.chatRepo[c] = e.about
      BY <1>1, <1>2, PlaceAt
    <3>2. e \in ChatEvent => e.log = "chats"
      BY OneKind
    <3> QED BY <1>1, <2>2, <2>3, <3>1, <3>2
  <2>7. \A i \in 1..Len(rest) : rest[i].log = "chats" => rest[i].about # a
    BY <1>1, <2>2
  <2>8. \A i \in 1..Len(rest) : i < j /\ rest[i].log = "repos" => rest[i].id < a
    BY SMTT(30), <1>1, <2>2
  <2>9. \A n \in 1..Len(new) : new[n].id < a
    BY <1>3, <1>4, <2>2, <2>4
  <2> QED BY <2>5, <2>6, <2>7, <2>8, <2>9 DEF a
<1> QED BY <1>5, <1>6 DEF e, rest, old, new

\* No number gets above that of the last operation.
LEMMA BelowAfter ==
    ASSUME NEW m \in MemoryRecord, NEW files \in Filed, NEW chain \in Seq(MadeEvent), chain # <<>>, NEW ops \in 0..MaxOps,
           BelowOps(m, files["repos"], chain, ops), NEW y, Parts(y, m, Head(chain))
    PROVE  BelowOps(y, [files EXCEPT ![Head(chain).log] = Append(@, Head(chain))]["repos"], Tail(chain), ops)
<1> DEFINE e == Head(chain)
           rest == Tail(chain)
           old == files["repos"]
           new == [files EXCEPT ![e.log] = Append(@, e)]["repos"]
<1>1. /\ e \in MadeEvent /\ e = chain[1] /\ 1 \in 1..Len(chain)
      /\ \A i \in 1..Len(rest) : rest[i] = chain[i + 1] /\ i + 1 \in 1..Len(chain) /\ rest[i] \in MadeEvent
  BY TailOf
<1>2. Parts(y, m, e) /\ BelowOps(m, old, chain, ops)
  OBVIOUS
<1>3. /\ Len(old) \in Nat
      /\ e.log # "repos" => new = old
      /\ e.log = "repos" => Len(new) = Len(old) + 1 /\ new[Len(old) + 1] = e
      /\ \A n \in 1..Len(old) : new[n] = old[n] /\ n \in 1..Len(new)
  <2> e \in MadeEvent
    BY <1>1
  <2> HIDE DEF e
  <2> QED BY RepoLines
<1> HIDE DEF e, rest, old, new
<1>4. \A n \in 1..Len(new) : n \in 1..Len(old) \/ (e.log = "repos" /\ n = Len(old) + 1)
  BY <1>3
<1>5. /\ \A w \in RecordIds : m.workspaces[w].state # "none" \/ m.repos[w].status # "none" => w <= ops
      /\ \A c \in RecordIds : m.chatRepo[c] <= ops
      /\ \A i \in 1..Len(chain) : /\ Numbered(chain[i]) => chain[i].id <= ops
                                  /\ chain[i].log = "chats" => chain[i].about <= ops
      /\ \A n \in 1..Len(old) : old[n].id <= ops
  BY <1>2 DEF BelowOps
<1>6. (Numbered(e) => e.id <= ops) /\ (e.log = "chats" => e.about <= ops) /\ 0 <= ops
  BY <1>1, <1>5
<1>7. ASSUME NEW w \in RecordIds, y.workspaces[w].state # "none" PROVE w <= ops
  <2>1. CASE e \in OpenedEvent
    <3>1. \A v \in RecordIds : y.workspaces[v] = IF v = e.id THEN [state |-> "open", path |-> e.about] ELSE m.workspaces[v]
      BY ONLY OpenedAt, m \in MemoryRecord, <2>1, <1>2
    <3>2. e.id <= ops
      BY <1>6, <2>1, EventIds
    <3>3. w # e.id => y.workspaces[w] = m.workspaces[w]
      BY <3>1
    <3> QED BY <1>5, <1>7, <3>2, <3>3
  <2>2. CASE e \in RemovedEvent
    <3>1. \A v \in RecordIds : y.workspaces[v] = IF v = e.id /\ m.workspaces[v].state # "none"
                                   THEN [state |-> "removed", path |-> m.workspaces[v].path] ELSE m.workspaces[v]
      BY ONLY RemovedAt, m \in MemoryRecord, <2>2, <1>2
    <3>2. m.workspaces[w].state # "none"
      BY <1>7, <3>1
    <3> QED BY <1>5, <3>2
  <2>3. CASE e \notin OpenedEvent /\ e \notin RemovedEvent
    BY <1>2, <2>3, NeitherAt, <1>5, <1>7
  <2> QED BY <2>1, <2>2, <2>3
<1>8. ASSUME NEW w \in RecordIds, y.repos[w].status # "none" PROVE w <= ops
  <2>1. y.repos = ReposMade(m.repos, e) /\ m.repos \in RepoTable
    BY <1>2 DEF Parts, MemoryRecord
  <2>2. CASE Changes(m.repos, e)
    <3>1. e \in RepoEvent /\ e.id \in RecordIds
      BY <2>2, EventIds DEF Changes
    <3>2. e.id <= ops
      BY <1>6, <3>1, EventIds
    <3>3. y.repos = [m.repos EXCEPT ![e.id] = RepoMade(m.repos[e.id], e)]
      BY <2>1, <2>2 DEF ReposMade
    <3>4. w # e.id => y.repos[w] = m.repos[w]
      BY <2>1, <3>1, <3>3 DEF RepoTable
    <3> QED BY <1>5, <1>8, <3>2, <3>4
  <2>3. CASE ~Changes(m.repos, e)
    BY <1>5, <1>8, <2>1, <2>3 DEF ReposMade
  <2> QED BY <2>2, <2>3
<1>9. ASSUME NEW c \in RecordIds PROVE y.chatRepo[c] <= ops
  BY <1>1, <1>2, PlaceAt, OneKind, <1>5, <1>6
<1>10. \A i \in 1..Len(rest) : /\ Numbered(rest[i]) => rest[i].id <= ops
                               /\ rest[i].log = "chats" => rest[i].about <= ops
  BY <1>1, <1>5
<1>11. \A n \in 1..Len(new) : new[n].id <= ops
  BY <1>1, <1>6, EventIds, <1>3, <1>4, <1>5
<1>12. BelowOps(y, new, rest, ops)
  BY <1>7, <1>8, <1>9, <1>10, <1>11 DEF BelowOps
<1> QED BY <1>12 DEF e, rest, old, new

\* Writing the head of the chain leaves what a start finds alike.
LEMMA FitsWritten ==
    ASSUME NEW m \in MemoryRecord, NEW kept \in MemoryRecord, NEW files \in Filed, NEW chain \in Seq(MadeEvent),
           chain # <<>>, NEW ops \in 0..MaxOps, Fits(m, kept, files, chain, ops)
    PROVE  LET e == Head(chain) IN
           /\ RecordApplied(m, e) \in MemoryRecord
           /\ Fits(RecordApplied(m, e), kept, [files EXCEPT ![e.log] = Append(@, e)], Tail(chain), ops)
<1> DEFINE e == Head(chain)
           rest == Tail(chain)
           more == [files EXCEPT ![e.log] = Append(@, e)]
           y == RecordApplied(m, e)
           a == RestartedFrom(kept, files)
           b == RestartedFrom(kept, more)
<1>1. /\ e \in MadeEvent /\ e = chain[1] /\ 1 \in 1..Len(chain) /\ rest \in Seq(MadeEvent)
      /\ \A i \in 1..Len(rest) : rest[i] = chain[i + 1] /\ i + 1 \in 1..Len(chain)
  BY TailOf
<1>2. /\ Alike(a, m, chain) /\ PathLeads(a) /\ PathLeads(m)
      /\ OpensNext(m, chain) /\ AddsNext(m, files["repos"], chain) /\ AddsFirst(files["repos"])
      /\ BelowOps(m, files["repos"], chain, ops)
  BY DEF Fits
<1>3. Parts(y, m, e)
  <2> e \in MadeEvent
    BY <1>1
  <2> HIDE DEF e
  <2> QED BY AppliedParts
<1>4. a \in MemoryRecord
  BY LogsKeep
<1>5. OpensNext(y, rest)
  <2> HIDE DEF y
  <2> QED BY <1>2, <1>3, OpensAfter
<1>6. AddsNext(y, more["repos"], rest) /\ AddsFirst(more["repos"])
  <2> HIDE DEF y
  <2> QED BY <1>2, <1>3, AddsAfter
<1>7. BelowOps(y, more["repos"], rest, ops)
  <2> HIDE DEF y
  <2> QED BY <1>2, <1>3, BelowAfter
<1>8. e.log # "chats" => b = RecordApplied(a, e)
  <2> e \in MadeEvent
    BY <1>1
  <2> HIDE DEF e
  <2> QED BY RestartAppended
<1>9. e \in ChatEvent => \E v \in 0..MaxOps : Placed(b, a, e.id, v) /\ PutIn(v, e.about, a.repos)
  <2> HIDE DEF e
  <2> QED BY <1>2, RestartCreated
<1>10. y \in MemoryRecord
  BY <1>3 DEF Parts
<1> HIDE DEF e, rest, more, y, a, b
<1>11. Opens(e) => \A w \in RecordIds : m.workspaces[w].state # "none" => w < e.id
  BY <1>1, <1>2 DEF OpensNext
<1>12. Opens(e) => \A w \in RecordIds : a.workspaces[w].state # "none" => w < e.id
  BY <1>2, <1>11 DEF Alike, SameWorkspaces
<1>13. PathLeads(y)
  BY <1>1, <1>2, <1>3, <1>11, PathsLead
<1>14. /\ a.repos = m.repos /\ a.whole = m.whole /\ a.profiles = m.profiles /\ a.overrides = m.overrides
       /\ SameWorkspaces(a, m, chain) /\ SamePlaces(a, m) /\ SamePaths(a, m)
  BY <1>2 DEF Alike
<1>15. \A i \in 1..Len(rest) : \E j \in 1..Len(chain) : rest[i] = chain[j]
  BY <1>1
<1>16. CASE e \notin ChatEvent
  <2>1. b = RecordApplied(a, e)
    BY <1>1, <1>8, <1>16, EventIds
  <2>2. Parts(b, a, e)
    BY <1>1, <1>4, <2>1, AppliedParts
  <2>3. PathLeads(b)
    BY <1>1, <1>2, <1>4, <1>12, <2>2, PathsLead
  <2>4. b.repos = y.repos /\ b.whole = y.whole /\ b.profiles = y.profiles /\ b.overrides = y.overrides
    BY <1>3, <1>14, <2>2 DEF Parts
  <2>5. SameWorkspaces(b, y, rest) /\ SamePaths(b, y)
    <3>1. CASE e \in OpenedEvent
      BY <1>11, <3>1, EventIds, <1>3, <1>4, <1>14, <1>15, <2>2, SameAfterOpened
    <3>2. CASE e \in RemovedEvent
      BY <1>1, <1>3, <1>4, <1>14, <1>15, <2>2, <3>2, SameAfterRemoved
    <3>3. CASE e \notin OpenedEvent /\ e \notin RemovedEvent
      BY <1>3, <1>4, <1>14, <1>15, <2>2, <3>3, SameAfterOther
    <3> QED BY <3>1, <3>2, <3>3
  <2>6. SamePlaces(b, y)
    BY <1>1, <1>2, <1>3, <1>4, <1>14, <1>16, <2>2, PlacesAfter DEF AddsNext
  <2>7. Alike(b, y, rest)
    BY <2>4, <2>5, <2>6 DEF Alike
  <2> QED BY <1>5, <1>6, <1>7, <1>10, <1>13, <2>3, <2>7 DEF Fits, e, rest, more, y, b
<1>17. CASE e \in ChatEvent
  <2>1. PICK v \in 0..MaxOps : Placed(b, a, e.id, v) /\ PutIn(v, e.about, a.repos)
    BY <1>9, <1>17
  <2>2. /\ b.workspaces = a.workspaces /\ b.byPath = a.byPath /\ b.repos = a.repos /\ b.profiles = a.profiles
        /\ b.overrides = a.overrides /\ b.whole = a.whole
        /\ b.chatRepo = [a.chatRepo EXCEPT ![e.id] = v]
    BY <2>1 DEF Placed
  <2>3. e \notin OpenedEvent /\ e \notin RemovedEvent /\ e \notin RepoEvent /\ e \notin ProfileEvent /\ e \notin WholeEvent
    BY <1>17, NoOther
  <2>4. /\ y.workspaces = m.workspaces /\ y.byPath = m.byPath /\ y.repos = m.repos /\ y.profiles = m.profiles
        /\ y.overrides = m.overrides /\ y.whole = m.whole
    BY <1>3, <2>3, NothingMade DEF Parts
  <2>5. y.chatRepo = [m.chatRepo EXCEPT ![e.id] = e.about]
    BY <1>3, <1>17 DEF Parts, ChatsMade
  <2>6. PathLeads(b)
    BY <1>2, <2>2 DEF PathLeads, OpenAt
  <2>7. SameWorkspaces(b, y, rest)
    BY <2>2, <2>4, <1>14, <1>15 DEF SameWorkspaces
  <2>8. SamePaths(b, y)
    BY <1>14, <2>2, <2>4 DEF SamePaths, OpenAt
  <2>9. SamePlaces(b, y)
    <3>0. a.chatRepo \in PlaceTable /\ m.chatRepo \in PlaceTable
      BY <1>4 DEF MemoryRecord
    <3> SUFFICES ASSUME NEW c \in RecordIds
                 PROVE  \/ b.chatRepo[c] = y.chatRepo[c]
                        \/ y.chatRepo[c] > 0 /\ b.chatRepo[c] = 0 /\ y.repos[y.chatRepo[c]].status = "none"
      BY DEF SamePlaces
    <3>1. CASE c = e.id
      <4>1. b.chatRepo[c] = v /\ y.chatRepo[c] = e.about
        BY <2>2, <2>5, <3>0, <3>1 DEF PlaceTable
      <4> QED BY <1>14, <2>1, <2>4, <4>1 DEF PutIn
    <3>2. CASE c # e.id
      <4>1. b.chatRepo[c] = a.chatRepo[c] /\ y.chatRepo[c] = m.chatRepo[c]
        BY <2>2, <2>5, <3>0, <3>2 DEF PlaceTable
      <4> QED BY <1>14, <2>4, <4>1 DEF SamePlaces
    <3> QED BY <3>1, <3>2
  <2>10. Alike(b, y, rest)
    BY <1>14, <2>2, <2>4, <2>7, <2>8, <2>9 DEF Alike
  <2> QED BY <1>5, <1>6, <1>7, <1>10, <1>13, <2>6, <2>10 DEF Fits, e, rest, more, y, b
<1> QED BY <1>16, <1>17

\* What an operation may put in the chain.
News(m, ops, e) ==
    /\ Opens(e) \/ Adds(e) => e.id = ops + 1
    /\ Removes(e) => m.workspaces[e.id].state = "open"
    /\ e.log = "chats" => e.about = 0 \/ (e.about \in RecordIds /\ m.repos[e.about].status # "none")
    /\ Numbered(e) => e.id <= ops + 1

\* An event more in the chain changes nothing of what a start finds.
LEMMA FitsAppended ==
    ASSUME NEW m \in MemoryRecord, NEW kept \in MemoryRecord, NEW files \in Filed, NEW chain \in Seq(MadeEvent),
           NEW ops \in 0..MaxOps, ops < MaxOps, Fits(m, kept, files, chain, ops), NEW e \in MadeEvent, News(m, ops, e)
    PROVE  Fits(m, kept, files, Append(chain, e), ops + 1)
<1> DEFINE next == Append(chain, e)
           a == RestartedFrom(kept, files)
           logged == files["repos"]
<1>1. /\ Len(chain) \in Nat /\ Len(next) = Len(chain) + 1 /\ next[Len(chain) + 1] = e
      /\ \A i \in 1..Len(chain) : next[i] = chain[i] /\ chain[i] \in MadeEvent
      /\ \A i \in 1..Len(next) : i \in 1..Len(chain) \/ i = Len(chain) + 1
  OBVIOUS
<1>2. /\ Alike(a, m, chain) /\ PathLeads(a) /\ PathLeads(m)
      /\ OpensNext(m, chain) /\ AddsNext(m, logged, chain) /\ AddsFirst(logged)
      /\ BelowOps(m, logged, chain, ops)
  BY DEF Fits
<1> HIDE DEF next, a, logged
<1>3. ops \in Int /\ \A w \in RecordIds : w \in Int
  BY RecordNumbers DEF RecordIds
<1>4. /\ \A w \in RecordIds : m.workspaces[w].state # "none" \/ m.repos[w].status # "none" => w <= ops
      /\ \A c \in RecordIds : m.chatRepo[c] <= ops
      /\ \A i \in 1..Len(chain) : /\ Numbered(chain[i]) => chain[i].id <= ops
                                  /\ chain[i].log = "chats" => chain[i].about <= ops
      /\ \A n \in 1..Len(logged) : logged[n].id <= ops
  BY <1>2 DEF BelowOps
<1>5. Alike(a, m, next)
  <2>1. SameWorkspaces(a, m, next)
    <3> SUFFICES ASSUME NEW w \in RecordIds
                 PROVE  \/ a.workspaces[w] = m.workspaces[w]
                        \/ m.workspaces[w].state = "none" /\ a.workspaces[w].state = "none"
                        \/ /\ m.workspaces[w].state = "removed" /\ a.workspaces[w].state = "none"
                           /\ \A i \in 1..Len(next) : Removes(next[i]) => next[i].id # w
      BY DEF SameWorkspaces
    <3>1. \/ a.workspaces[w] = m.workspaces[w]
          \/ m.workspaces[w].state = "none" /\ a.workspaces[w].state = "none"
          \/ /\ m.workspaces[w].state = "removed" /\ a.workspaces[w].state = "none"
             /\ \A i \in 1..Len(chain) : Removes(chain[i]) => chain[i].id # w
      BY <1>2 DEF Alike, SameWorkspaces
    <3>2. m.workspaces[w].state = "removed" /\ Removes(e) => e.id # w
      BY DEF News
    <3> QED BY <1>1, <3>1, <3>2
  <2> QED BY <1>2, <2>1 DEF Alike
<1>6. OpensNext(m, next)
  <2> SUFFICES ASSUME NEW j \in 1..Len(next), Opens(next[j])
               PROVE  /\ \A w \in RecordIds : m.workspaces[w].state # "none" => w < next[j].id
                      /\ \A i \in 1..Len(next) : i < j /\ Opens(next[i]) => next[i].id < next[j].id
    BY DEF OpensNext
  <2>1. CASE j \in 1..Len(chain)
    <3>1. \A i \in 1..Len(next) : i < j => i \in 1..Len(chain) /\ next[i] = chain[i]
      BY <1>1, <2>1
    <3>2. next[j] = chain[j]
      BY <1>1, <2>1
    <3> QED BY <1>2, <2>1, <3>1, <3>2 DEF OpensNext
  <2>2. CASE j = Len(chain) + 1
    <3>1. next[j] = e /\ e.id = ops + 1
      BY <1>1, <2>2 DEF News
    <3>2. \A w \in RecordIds : m.workspaces[w].state # "none" => w < ops + 1
      BY <1>3, <1>4
    <3>3. ASSUME NEW i \in 1..Len(next), i < j, Opens(next[i]) PROVE next[i].id < ops + 1
      <4>1. i \in 1..Len(chain) /\ next[i] = chain[i] /\ chain[i] \in MadeEvent
        BY <1>1, <2>2, <3>3
      <4>2. Numbered(chain[i]) /\ chain[i].id \in RecordIds
        BY <3>3, <4>1, EventIds
      <4> QED BY <1>3, <1>4, <4>1, <4>2
    <3> QED BY <3>1, <3>2, <3>3
  <2> QED BY <1>1, <2>1, <2>2
<1>7. AddsNext(m, logged, next)
  <2> SUFFICES ASSUME NEW j \in 1..Len(next), Adds(next[j])
               PROVE  /\ m.repos[next[j].id].status = "none"
                      /\ \A c \in RecordIds : m.chatRepo[c] # next[j].id
                      /\ \A i \in 1..Len(next) : next[i].log = "chats" => next[i].about # next[j].id
                      /\ \A i \in 1..Len(next) : i < j /\ next[i].log = "repos" => next[i].id < next[j].id
                      /\ \A n \in 1..Len(logged) : logged[n].id < next[j].id
    BY DEF AddsNext
  <2>1. CASE j \in 1..Len(chain)
    <3>1. \A i \in 1..Len(next) : i < j => i \in 1..Len(chain) /\ next[i] = chain[i]
      BY <1>1, <2>1
    <3>2. next[j] = chain[j] /\ chain[j] \in MadeEvent
      BY <1>1, <2>1
    <3>3. /\ m.repos[chain[j].id].status = "none"
          /\ \A c \in RecordIds : m.chatRepo[c] # chain[j].id
          /\ \A i \in 1..Len(chain) : chain[i].log = "chats" => chain[i].about # chain[j].id
          /\ \A i \in 1..Len(chain) : i < j /\ chain[i].log = "repos" => chain[i].id < chain[j].id
          /\ \A n \in 1..Len(logged) : logged[n].id < chain[j].id
      BY <1>2, <2>1, <3>2 DEF AddsNext
    <3>4. chain[j].id \in RecordIds /\ chain[j].id # 0
      BY <3>2, EventIds DEF RecordIds
    <3>5. e.log = "chats" => e.about # chain[j].id
      BY <3>3, <3>4 DEF News
    <3>6. \A i \in 1..Len(next) : next[i].log = "chats" => next[i].about # next[j].id
      BY <1>1, <3>2, <3>3, <3>5
    <3> QED BY <3>1, <3>2, <3>3, <3>6
  <2>2. CASE j = Len(chain) + 1
    <3>1. next[j] = e /\ e.id = ops + 1 /\ Adds(e)
      BY <1>1, <2>2 DEF News
    <3>2. e.id \in RecordIds /\ e.log = "repos"
      BY <3>1, EventIds, OneKind
    <3>3. m.repos[e.id].status = "none"
      BY <1>3, <1>4, <3>1, <3>2
    <3>4. ASSUME NEW c \in RecordIds PROVE m.chatRepo[c] # e.id
      BY <1>4, <1>3, <3>1
    <3>5. ASSUME NEW i \in 1..Len(next), next[i].log = "chats" PROVE next[i].about # e.id
      BY <1>1, <3>2, <3>5, <1>4, <1>3, <3>1
    <3>6. ASSUME NEW i \in 1..Len(next), i < j, next[i].log = "repos" PROVE next[i].id < e.id
      BY <1>1, <2>2, <3>6, EventIds, <1>3, <1>4, <3>1
    <3>7. ASSUME NEW n \in 1..Len(logged) PROVE logged[n].id < e.id
      <4>1. logged \in Seq(MadeLog("repos"))
        BY FiledLogs DEF logged, LogNames
      <4>2. logged[n] \in MadeEvent /\ logged[n].log = "repos"
        BY <4>1 DEF MadeLog
      <4>3. logged[n].id \in RecordIds
        BY <4>2, EventIds
      <4> QED BY <1>3, <1>4, <3>1, <4>3
    <3> QED BY <3>1, <3>3, <3>4, <3>5, <3>6, <3>7
  <2> QED BY <1>1, <2>1, <2>2
<1>8. BelowOps(m, logged, next, ops + 1)
  <2>1. \A w \in RecordIds : m.workspaces[w].state # "none" \/ m.repos[w].status # "none" => w <= ops + 1
    BY <1>3, <1>4
  <2>2. ASSUME NEW c \in RecordIds PROVE m.chatRepo[c] <= ops + 1
    BY <1>3, <1>4, RecordNumbers DEF MemoryRecord, PlaceTable
  <2>3. ASSUME NEW i \in 1..Len(next), Numbered(next[i]) PROVE next[i].id <= ops + 1
    BY <1>1, <1>4, <2>3, EventIds, <1>3 DEF News
  <2>4. ASSUME NEW i \in 1..Len(next), next[i].log = "chats" PROVE next[i].about <= ops + 1
    <3>1. CASE i \in 1..Len(chain)
      <4>1. next[i] = chain[i] /\ chain[i] \in MadeEvent
        BY <1>1, <3>1
      <4>2. chain[i] \in ChatEvent
        BY <2>4, <4>1, EventIds
      <4>3. chain[i].about <= ops /\ chain[i].about \in 0..MaxOps
        BY <1>4, <2>4, <3>1, <4>1, <4>2, EventIds
      <4> QED BY <1>3, <4>1, <4>3, RecordNumbers
    <3>2. CASE i = Len(chain) + 1
      <4>1. next[i] = e
        BY <1>1, <3>2
      <4>2. CASE e.about = 0
        BY <1>3, <4>1, <4>2
      <4>3. CASE e.about \in RecordIds /\ m.repos[e.about].status # "none"
        <5>1. e.about <= ops
          BY <1>4, <4>3
        <5> QED BY <1>3, <4>1, <4>3, <5>1
      <4> QED BY <2>4, <4>1, <4>2, <4>3 DEF News
    <3> QED BY <1>1, <3>1, <3>2
  <2>5. ASSUME NEW n \in 1..Len(logged) PROVE logged[n].id <= ops + 1
    <3>1. logged \in Seq(MadeLog("repos"))
      BY FiledLogs DEF logged, LogNames
    <3>2. logged[n] \in MadeEvent /\ logged[n].log = "repos"
      BY <3>1 DEF MadeLog
    <3>3. logged[n].id \in RecordIds
      BY <3>2, EventIds
    <3> QED BY <1>3, <1>4, <3>3
  <2> QED BY <2>1, <2>2, <2>3, <2>4, <2>5 DEF BelowOps
<1> QED BY <1>2, <1>5, <1>6, <1>7, <1>8 DEF Fits, next, a, logged

-----------------------------------------------------------------------------
(* A start *)

NoLines == [l \in LogNames |-> <<>>]

\* Without lines a start finds what is in the snapshot.
LEMMA RestartedFromNothing ==
    ASSUME NEW kept
    PROVE  NoLines \in Filed /\ RestartedFrom(kept, NoLines) = Loaded(kept) /\ NoLines["repos"] = <<>>
<1> DEFINE r == LogsReplayed(kept, NoLines)
<1>1. r[0] = Loaded(kept) /\ (\A k \in 1 .. 7 : r[k] = LogDone(r[k - 1], NoLines, k)) /\ RestartedFrom(kept, NoLines) = r[7]
  BY LogsGo
<1>2. \A k \in 1..7 : ReplayOrder[k] \in LogNames
  BY OrderIs DEF LogNames
<1>3. ASSUME NEW s, NEW k \in 1..7 PROVE LogDone(s, NoLines, k) = s
  BY <1>2, LinesGo DEF NoLines, LogDone
<1> HIDE DEF r
<1> DEFINE S == {k \in 0..7 : r[k] = Loaded(kept)}
<1>4. \A k \in 0..7 : k \in S
  <2>1. 0 \in S
    BY <1>1
  <2>2. ASSUME NEW k \in 0..6, k \in S PROVE k + 1 \in S
    BY <1>1, <1>3, <2>2
  <2> HIDE DEF S
  <2> QED BY <2>1, <2>2, SevenLogs
<1>5. NoLines \in Filed
  <2>1. \A l \in LogNames : NoLines[l] = <<>>
    BY DEF NoLines
  <2>2. NoLines \in [LogNames -> Seq(MadeEvent)]
    BY DEF NoLines
  <2> QED BY <2>1, <2>2 DEF Filed
<1>6. NoLines["repos"] = <<>>
  BY DEF NoLines, LogNames
<1> QED BY <1>1, <1>4, <1>5, <1>6

\* A workspace as it is made.
LEMMA StateOf ==
    ASSUME NEW x, NEW y, NEW r, r = [state |-> x, path |-> y] PROVE r.state = x
  OBVIOUS

\* Loading what a snapshot keeps of a state gives what is alike, and paths that lead.
LEMMA LoadedAlike ==
    ASSUME NEW m \in MemoryRecord, PathLeads(m)
    PROVE  Alike(Loaded(m), m, <<>>) /\ PathLeads(Loaded(m))
<1> DEFINE a == Loaded(m)
<1>1. /\ a \in MemoryRecord
      /\ \A w \in RecordIds : a.workspaces[w] = IF m.workspaces[w].state = "open" THEN m.workspaces[w]
                                                ELSE [state |-> "none", path |-> ""]
      /\ \A p \in Folders : a.byPath[p] = Max({0} \cup {w \in RecordIds : OpenAt(m, w, p)})
      /\ a.repos = m.repos /\ a.chatRepo = m.chatRepo /\ a.profiles = m.profiles
      /\ a.overrides = m.overrides /\ a.whole = m.whole
  BY LoadedParts
<1>10. ASSUME NEW w \in RecordIds, m.workspaces[w].state # "open"
       PROVE  a.workspaces[w] = [state |-> "none", path |-> ""] /\ a.workspaces[w].state = "none"
  <2>1. a.workspaces[w] = [state |-> "none", path |-> ""]
    BY <1>10, LoadedParts
  <2> HIDE DEF a
  <2>2. a.workspaces[w].state = "none"
    BY <2>1, StateOf
  <2> QED BY <2>1, <2>2
<1> HIDE DEF a
<1>2. ASSUME NEW p \in Folders
      PROVE  /\ a.byPath[p] \in 0..MaxOps
             /\ \A w \in RecordIds : OpenAt(m, w, p) => w <= a.byPath[p]
             /\ a.byPath[p] # 0 => a.byPath[p] \in RecordIds /\ OpenAt(m, a.byPath[p], p)
  <2> DEFINE T == {w \in RecordIds : OpenAt(m, w, p)}
             x == Max({0} \cup T)
  <2>1. x \in 0..MaxOps /\ (\A y \in T : y <= x) /\ (x # 0 => x \in T)
    <3> T \in SUBSET RecordIds
      OBVIOUS
    <3> HIDE DEF T
    <3> QED BY LargestRecord
  <2>2. a.byPath[p] = x
    BY <1>1
  <2> HIDE DEF x
  <2> QED BY <2>1, <2>2
<1>3. \A w \in RecordIds, p \in Folders : OpenAt(a, w, p) <=> OpenAt(m, w, p)
  BY <1>1, <1>10 DEF OpenAt
<1>4. PathLeads(a)
  BY <1>2, <1>3 DEF PathLeads
<1>5. ASSUME NEW w \in RecordIds
      PROVE  \/ a.workspaces[w] = m.workspaces[w]
             \/ m.workspaces[w].state = "none" /\ a.workspaces[w].state = "none"
             \/ m.workspaces[w].state = "removed" /\ a.workspaces[w].state = "none"
  BY <1>1, <1>10 DEF MemoryRecord, WorkspaceTable, WorkspaceKept
<1>6. SameWorkspaces(a, m, <<>>)
  BY <1>5 DEF SameWorkspaces
<1>7. SamePlaces(a, m)
  BY <1>1 DEF SamePlaces
<1>8. ASSUME NEW p \in Folders
      PROVE  \/ a.byPath[p] = m.byPath[p]
             \/ m.byPath[p] = 0 /\ a.byPath[p] \in RecordIds /\ OpenAt(m, a.byPath[p], p)
  <2>1. CASE m.byPath[p] = 0
    BY <1>2, <2>1
  <2>2. CASE m.byPath[p] # 0
    <3>1. /\ m.byPath[p] \in RecordIds /\ OpenAt(m, m.byPath[p], p)
          /\ \A w \in RecordIds : OpenAt(m, w, p) => w <= m.byPath[p]
      BY <2>2 DEF PathLeads
    <3>2. m.byPath[p] <= a.byPath[p] /\ m.byPath[p] >= 1
      BY <1>2, <3>1 DEF RecordIds
    <3>3. a.byPath[p] # 0
      <4>1. a.byPath[p] \in Int /\ m.byPath[p] \in Int
        BY <1>2, <3>1, RecordNumbers DEF RecordIds
      <4> QED BY <3>2, <4>1
    <3>4. a.byPath[p] <= m.byPath[p]
      BY <1>2, <3>1, <3>3
    <3> QED BY <1>2, <3>1, <3>2, <3>4 DEF RecordIds
  <2> QED BY <2>1, <2>2
<1>9. SamePaths(a, m)
  BY <1>8 DEF SamePaths
<1> QED BY <1>1, <1>4, <1>6, <1>7, <1>9 DEF Alike, a

\* With nothing in the chain a state is like itself.
LEMMA AlikeItself ==
    ASSUME NEW m PROVE Alike(m, m, <<>>)
  BY DEF Alike, SameWorkspaces, SamePlaces, SamePaths

\* With nothing in the chain nothing is next.
LEMMA NothingNext ==
    ASSUME NEW m, NEW logged
    PROVE  OpensNext(m, <<>>) /\ AddsNext(m, logged, <<>>) /\ AddsFirst(<<>>)
BY DEF OpensNext, AddsNext, AddsFirst

\* What is alike has no greater numbers.
LEMMA BelowAlike ==
    ASSUME NEW m \in MemoryRecord, NEW a, NEW logged, NEW chain, NEW ops \in 0..MaxOps, Alike(a, m, chain),
           BelowOps(m, logged, chain, ops)
    PROVE  BelowOps(a, logged, <<>>, ops) /\ BelowOps(a, <<>>, <<>>, ops)
<1>1. Len(<<>>) = 0
  OBVIOUS
<1>2. /\ \A w \in RecordIds : m.workspaces[w].state # "none" \/ m.repos[w].status # "none" => w <= ops
      /\ \A c \in RecordIds : m.chatRepo[c] <= ops
      /\ \A n \in 1..Len(logged) : logged[n].id <= ops
  BY DEF BelowOps
<1>3. \A w \in RecordIds : a.workspaces[w].state # "none" => m.workspaces[w].state # "none"
  BY DEF Alike, SameWorkspaces
<1>4. a.repos = m.repos
  BY DEF Alike
<1>5. \A c \in RecordIds : a.chatRepo[c] <= ops
  <2>1. 0 <= ops
    BY RecordNumbers
  <2> QED BY <1>2, <2>1 DEF Alike, SamePlaces
<1> QED BY <1>1, <1>2, <1>3, <1>4, <1>5 DEF BelowOps

\* A start on the logs fits what it found in them.
LEMMA FitsRestarted ==
    ASSUME NEW m \in MemoryRecord, NEW kept \in MemoryRecord, NEW files \in Filed, NEW chain, NEW ops \in 0..MaxOps,
           Fits(m, kept, files, chain, ops)
    PROVE  LET again == RestartedFrom(kept, files) IN
           /\ again \in MemoryRecord
           /\ Fits(again, kept, files, <<>>, ops)
           /\ Fits(again, again, NoLines, <<>>, ops)
<1> DEFINE a == RestartedFrom(kept, files)
<1>1. a \in MemoryRecord
  BY LogsKeep
<1>2. Alike(a, m, chain) /\ PathLeads(a) /\ AddsFirst(files["repos"]) /\ BelowOps(m, files["repos"], chain, ops)
  BY DEF Fits
<1> HIDE DEF a
<1>3. BelowOps(a, files["repos"], <<>>, ops) /\ BelowOps(a, <<>>, <<>>, ops)
  BY <1>2, BelowAlike
<1>4. Fits(a, kept, files, <<>>, ops)
  BY <1>2, <1>3, AlikeItself, NothingNext DEF Fits, a
<1>5. Fits(a, a, NoLines, <<>>, ops)
  BY <1>1, <1>2, <1>3, LoadedAlike, RestartedFromNothing, NothingNext DEF Fits
<1> QED BY <1>1, <1>4, <1>5 DEF a

\* A start after a shutdown fits what had been in memory.
LEMMA FitsShutDown ==
    ASSUME NEW m \in MemoryRecord, NEW kept, NEW files, NEW ops \in 0..MaxOps, NEW chain, Fits(m, kept, files, chain, ops)
    PROVE  Fits(RestartedFrom(m, NoLines), m, NoLines, <<>>, ops)
<1> DEFINE a == Loaded(m)
<1>1. PathLeads(m) /\ BelowOps(m, files["repos"], chain, ops)
  BY DEF Fits
<1>2. Alike(a, m, <<>>) /\ PathLeads(a) /\ a \in MemoryRecord
  BY <1>1, LoadedAlike, LoadedParts
<1>3. RestartedFrom(m, NoLines) = a /\ NoLines["repos"] = <<>>
  BY RestartedFromNothing
<1> HIDE DEF a
<1>4. BelowOps(m, <<>>, <<>>, ops)
  BY <1>1 DEF BelowOps
<1>5. BelowOps(a, <<>>, <<>>, ops)
  BY <1>2, <1>4, BelowAlike
<1> QED BY <1>2, <1>3, <1>5, AlikeItself, NothingNext DEF Fits

-----------------------------------------------------------------------------
(* The invariant *)

\* Logs, snapshot, memory and chain are what the operations make, and fit.
RecordInv ==
    /\ records \in MemoryRecord /\ saved \in MemoryRecord /\ recordLogs \in Filed
    /\ recordChain \in Seq(MadeEvent) /\ recordOps \in 0..MaxOps /\ restarts \in 0..MaxRestarts
    /\ cloning \subseteq 1..recordOps
    /\ Fits(records, saved, recordLogs, recordChain, recordOps)

\* It holds at first.
LEMMA RecordInvInit == RecordsInit => RecordInv
<1> SUFFICES ASSUME RecordsInit PROVE RecordInv
  OBVIOUS
<1>1. Blank \in MemoryRecord
  <2>1. [w \in RecordIds |-> [state |-> "none", path |-> ""]] \in WorkspaceTable
    BY DEF WorkspaceTable, WorkspaceKept
  <2>2. [p \in Folders |-> 0] \in PathTable
    BY RecordNumbers DEF PathTable
  <2>3. [r \in RecordIds |-> [status |-> "none", label |-> 0]] \in RepoTable
    BY RecordNumbers DEF RepoTable, RepoKept
  <2>4. [c \in RecordIds |-> -1] \in PlaceTable
    BY RecordNumbers DEF PlaceTable
  <2>5. [k \in Kinds |-> 0] \in WholeTable
    BY RecordNumbers DEF WholeTable
  <2> QED BY <2>1, <2>2, <2>3, <2>4, <2>5, RecordNumbers DEF Blank, MemoryRecord
<1>2. PathLeads(Blank)
  BY DEF PathLeads, Blank
<1>3. BelowOps(Blank, <<>>, <<>>, 0)
  <2>1. Len(<<>>) = 0
    OBVIOUS
  <2>2. \A w \in RecordIds : Blank.workspaces[w] = [state |-> "none", path |-> ""] /\ Blank.repos[w] = [status |-> "none", label |-> 0]
    BY DEF Blank
  <2>3. ASSUME NEW w \in RecordIds PROVE Blank.workspaces[w].state = "none" /\ Blank.repos[w].status = "none"
    <3>1. Blank.workspaces[w] = [state |-> "none", path |-> ""]
      BY <2>2
    <3>2. Blank.workspaces[w].state = "none"
      BY <3>1, StateOf
    <3> DEFINE r == Blank.repos[w]
    <3>3. r = [status |-> "none", label |-> 0]
      BY <2>2
    <3> HIDE DEF r
    <3>4. r.status = "none"
      BY <3>3
    <3> QED BY <3>2, <3>4 DEF r
  <2>4. \A c \in RecordIds : Blank.chatRepo[c] <= 0
    BY DEF Blank
  <2> QED BY <2>1, <2>3, <2>4 DEF BelowOps
<1>4. NoLines \in Filed /\ NoLines["repos"] = <<>> /\ RestartedFrom(Blank, NoLines) = Loaded(Blank)
  BY RestartedFromNothing
<1>5. Alike(Loaded(Blank), Blank, <<>>) /\ PathLeads(Loaded(Blank))
  BY <1>1, <1>2, LoadedAlike
<1>6. Fits(Blank, Blank, NoLines, <<>>, 0)
  BY <1>2, <1>3, <1>4, <1>5, NothingNext DEF Fits
<1>7. /\ records = Blank /\ saved = Blank /\ recordLogs = NoLines
      /\ recordChain = <<>> /\ cloning = {} /\ recordOps = 0 /\ restarts = 0
  BY DEF RecordsInit, NoLines
<1>8. 0 \in 0..MaxOps /\ 0 \in 0..MaxRestarts /\ <<>> \in Seq(MadeEvent)
  BY RecordConstants
<1> QED BY <1>1, <1>4, <1>6, <1>7, <1>8 DEF RecordInv

\* An operation that puts an event in the chain keeps it.
LEMMA InvAppended ==
    ASSUME RecordInv, NEW e, recordOps < MaxOps => e \in MadeEvent, recordOps < MaxOps => News(records, recordOps, e),
           Appended(e), cloning' \subseteq cloning \cup {recordOps + 1}
    PROVE  RecordInv'
<1>1. /\ recordOps < MaxOps /\ recordOps' = recordOps + 1 /\ recordChain' = Append(recordChain, e)
      /\ UNCHANGED <<records, recordLogs, saved, restarts>>
  BY DEF Appended, NextOp
<1>2. /\ records \in MemoryRecord /\ saved \in MemoryRecord /\ recordLogs \in Filed
      /\ recordChain \in Seq(MadeEvent) /\ recordOps \in 0..MaxOps /\ restarts \in 0..MaxRestarts
      /\ cloning \subseteq 1..recordOps
      /\ Fits(records, saved, recordLogs, recordChain, recordOps)
  BY DEF RecordInv
<1>3. Fits(records, saved, recordLogs, Append(recordChain, e), recordOps + 1)
  BY <1>1, <1>2, FitsAppended
<1>4. recordOps + 1 \in 0..MaxOps /\ Append(recordChain, e) \in Seq(MadeEvent) /\ cloning' \subseteq 1..(recordOps + 1)
  BY <1>1, <1>2, RecordNumbers
<1>5. Fits(records', saved', recordLogs', recordChain', recordOps')
  BY <1>1, <1>3
<1> QED BY <1>1, <1>2, <1>4, <1>5 DEF RecordInv

\* A start keeps it, on any files that fit some state of memory.
LEMMA InvRestarted ==
    ASSUME RecordInv, NEW m \in MemoryRecord, NEW kept \in MemoryRecord, NEW files \in Filed, NEW chain,
           Fits(m, kept, files, chain, recordOps), NEW compacts, Restarts(files, kept, compacts)
    PROVE  RecordInv'
<1> DEFINE a == RestartedFrom(kept, files)
<1>1. /\ records' = a /\ saved' = (IF compacts THEN a ELSE kept)
      /\ recordLogs' = IF compacts THEN NoLines ELSE files
      /\ recordChain' = <<>> /\ cloning' = {} /\ recordOps' = recordOps
      /\ restarts < MaxRestarts /\ restarts' = restarts + 1
  BY DEF Restarts, NoLines
<1>2. recordOps \in 0..MaxOps /\ restarts \in 0..MaxRestarts
  BY DEF RecordInv
<1>3. a \in MemoryRecord /\ Fits(a, kept, files, <<>>, recordOps) /\ Fits(a, a, NoLines, <<>>, recordOps)
  BY <1>2, FitsRestarted
<1>4. NoLines \in Filed
  BY RestartedFromNothing
<1> HIDE DEF a
<1>5. Fits(records', saved', recordLogs', recordChain', recordOps')
  BY <1>1, <1>3
<1>6. /\ records' \in MemoryRecord /\ saved' \in MemoryRecord /\ recordLogs' \in Filed
      /\ recordChain' \in Seq(MadeEvent) /\ cloning' \subseteq 1..recordOps'
  BY <1>1, <1>3, <1>4
<1>7. recordOps' \in 0..MaxOps /\ restarts' \in 0..MaxRestarts
  BY <1>1, <1>2, RecordConstants
<1> QED BY <1>5, <1>6, <1>7 DEF RecordInv

\* The events the operations make.
LEMMA EventMade ==
    /\ \A id \in RecordIds, p \in Folders : RecordEvent("projects", "workspace_opened", id, p) \in OpenedEvent
    /\ \A id \in RecordIds : RecordEvent("projects", "workspace_removed", id, 0) \in RemovedEvent
    /\ \A id \in RecordIds, r \in 0..MaxOps : RecordEvent("chats", "chat_created", id, r) \in ChatEvent
    /\ \A id \in RecordIds, t \in RepoTypes, n \in 0..MaxOps : RecordEvent("repos", t, id, n) \in RepoEvent
    /\ \A t \in ProfileTypes, n \in 0..MaxOps : RecordEvent("profiles", t, 0, n) \in ProfileEvent
    /\ \A t \in {"put", "change", "remove"}, k \in Kinds, n \in 0..MaxOps : RecordEvent(WholeLog[k], t, k, n) \in WholeEvent
<1>1. \A k \in {"rule", "config", "preference", "group"} : WholeLog[k] \in LogNames
  BY DEF WholeLog, LogNames
<1>2. \A k \in Kinds : WholeLog[k] \in LogNames
  BY <1>1, RecordConstants
<1>3. \A t \in {"put", "change", "remove"}, k \in Kinds, n \in 0..MaxOps : RecordEvent(WholeLog[k], t, k, n) \in WholeEvent
  BY <1>2 DEF RecordEvent, WholeEvent
<1> QED BY <1>3 DEF RecordEvent, OpenedEvent, RemovedEvent, ChatEvent, RepoEvent, ProfileEvent

\* What those events say.
LEMMA EventSays ==
    ASSUME NEW l, NEW t, NEW id, NEW n
    PROVE  LET e == RecordEvent(l, t, id, n) IN e.log = l /\ e.type = t /\ e.id = id /\ e.about = n
  BY DEF RecordEvent

\* Each step keeps the invariant.
LEMMA RecordInvStep == RecordInv /\ [RecordStep]_recordVars => RecordInv'
<1> SUFFICES ASSUME RecordInv, [RecordStep]_recordVars PROVE RecordInv'
  OBVIOUS
<1>0. /\ records \in MemoryRecord /\ saved \in MemoryRecord /\ recordLogs \in Filed
      /\ recordChain \in Seq(MadeEvent) /\ recordOps \in 0..MaxOps /\ restarts \in 0..MaxRestarts
      /\ cloning \subseteq 1..recordOps
      /\ Fits(records, saved, recordLogs, recordChain, recordOps)
  BY DEF RecordInv
<1>1. recordOps < MaxOps => recordOps + 1 \in RecordIds /\ recordOps + 1 \in 0..MaxOps
  BY <1>0, RecordNumbers DEF RecordIds
<1>2. \A w \in RecordIds : records.workspaces[w].state # "none" \/ records.repos[w].status # "none" => w <= recordOps + 1
  BY <1>0 DEF Fits, BelowOps, RecordIds
<1>3. /\ \A e \in OpenedEvent : e \in MadeEvent
      /\ \A e \in RemovedEvent : e \in MadeEvent
      /\ \A e \in ChatEvent : e \in MadeEvent
      /\ \A e \in RepoEvent : e \in MadeEvent
      /\ \A e \in ProfileEvent : e \in MadeEvent
      /\ \A e \in WholeEvent : e \in MadeEvent
  BY DEF MadeEvent
<1>4. ASSUME NEW path \in Folders, OpenProject(path) PROVE RecordInv'
  <2> DEFINE e == RecordEvent("projects", "workspace_opened", recordOps + 1, path)
  <2>1. Appended(e) /\ cloning' = cloning
    BY <1>4 DEF OpenProject, NextOp
  <2>2. recordOps < MaxOps => e \in OpenedEvent
    BY <1>1, EventMade
  <2>3. e.id = recordOps + 1 /\ e.log = "projects" /\ e.type = "workspace_opened"
    BY EventSays
  <2> HIDE DEF e
  <2>4. recordOps < MaxOps => News(records, recordOps, e)
    BY <1>0, <2>2, <2>3 DEF News, Removes
  <2> QED BY <1>3, <2>1, <2>2, <2>4, InvAppended
<1>5. ASSUME NEW w \in RecordIds, RemoveProject(w) PROVE RecordInv'
  <2> DEFINE e == RecordEvent("projects", "workspace_removed", w, 0)
  <2>1. Appended(e) /\ cloning' = cloning /\ records.workspaces[w].state = "open"
    BY <1>5 DEF RemoveProject
  <2>2. e \in RemovedEvent
    BY EventMade
  <2>3. e.id = w /\ e.log = "projects" /\ e.type = "workspace_removed"
    BY EventSays
  <2> HIDE DEF e
  <2>4. News(records, recordOps, e)
    BY <1>2, <2>1, <2>3 DEF News, Opens, Adds
  <2> QED BY <1>3, <2>1, <2>2, <2>4, InvAppended
<1>6. ASSUME NEW repo \in 0..MaxOps, CreateChat(repo) PROVE RecordInv'
  <2> DEFINE e == RecordEvent("chats", "chat_created", recordOps + 1, repo)
  <2>1. Appended(e) /\ cloning' = cloning /\ (repo = 0 \/ (repo \in RecordIds /\ records.repos[repo].status # "none"))
    BY <1>6 DEF CreateChat, NextOp
  <2>2. recordOps < MaxOps => e \in ChatEvent
    BY <1>1, EventMade
  <2>3. e.id = recordOps + 1 /\ e.log = "chats" /\ e.type = "chat_created" /\ e.about = repo
    BY EventSays
  <2> HIDE DEF e
  <2>4. News(records, recordOps, e)
    BY <1>0, <2>1, <2>3 DEF News, Opens, Adds, Removes
  <2> QED BY <1>3, <2>1, <2>2, <2>4, InvAppended
<1>7. CASE AddRepo
  <2> DEFINE e == RecordEvent("repos", "repo_added", recordOps + 1, 0)
  <2>1. Appended(e) /\ cloning' = cloning
    BY <1>7 DEF AddRepo, NextOp
  <2>2. recordOps < MaxOps => e \in RepoEvent
    BY <1>1, EventMade, RecordNumbers DEF RepoTypes
  <2>3. e.id = recordOps + 1 /\ e.log = "repos" /\ e.type = "repo_added"
    BY EventSays
  <2> HIDE DEF e
  <2>4. News(records, recordOps, e)
    BY <1>0, <2>3 DEF News, Removes
  <2> QED BY <1>3, <2>1, <2>2, <2>4, InvAppended
<1>8. CASE StartRepoClone
  <2> DEFINE e == RecordEvent("repos", "repo_clone_started", recordOps + 1, 0)
  <2>1. Appended(e) /\ cloning' = cloning \cup {recordOps + 1}
    BY <1>8 DEF StartRepoClone, NextOp
  <2>2. recordOps < MaxOps => e \in RepoEvent
    BY <1>1, EventMade, RecordNumbers DEF RepoTypes
  <2>3. e.id = recordOps + 1 /\ e.log = "repos" /\ e.type = "repo_clone_started"
    BY EventSays
  <2> HIDE DEF e
  <2>4. News(records, recordOps, e)
    BY <1>0, <2>3 DEF News, Removes
  <2> QED BY <1>3, <2>1, <2>2, <2>4, InvAppended
<1>9. ASSUME NEW r \in RecordIds, NEW type \in {"repo_cloned", "repo_clone_failed"}, CloneEnds(r, type) PROVE RecordInv'
  <2> DEFINE e == RecordEvent("repos", type, r, 0)
  <2>1. Appended(e) /\ cloning' = cloning \ {r} /\ r \in cloning
    BY <1>9 DEF CloneEnds
  <2>2. e \in RepoEvent
    BY EventMade, RecordNumbers DEF RepoTypes
  <2>3. e.id = r /\ e.log = "repos" /\ e.type = type
    BY EventSays
  <2> HIDE DEF e
  <2>4. News(records, recordOps, e)
    BY <1>0, <2>1, <2>3 DEF News, Opens, Adds, Removes
  <2> QED BY <1>3, <2>1, <2>2, <2>4, InvAppended
<1>10. ASSUME NEW r \in RecordIds, RemoveRepo(r) PROVE RecordInv'
  <2> DEFINE e == RecordEvent("repos", "repo_removed", r, 0)
  <2>1. Appended(e) /\ cloning' = cloning /\ records.repos[r].status # "none"
    BY <1>10 DEF RemoveRepo
  <2>2. e \in RepoEvent
    BY EventMade, RecordNumbers DEF RepoTypes
  <2>3. e.id = r /\ e.log = "repos" /\ e.type = "repo_removed"
    BY EventSays
  <2> HIDE DEF e
  <2>4. News(records, recordOps, e)
    BY <1>2, <2>1, <2>3 DEF News, Opens, Adds, Removes
  <2> QED BY <1>3, <2>1, <2>2, <2>4, InvAppended
<1>11. ASSUME NEW r \in RecordIds, UpdateRepoLabel(r) PROVE RecordInv'
  <2> DEFINE e == RecordEvent("repos", "repo_label_updated", r, recordOps + 1)
  <2>1. Appended(e) /\ cloning' = cloning /\ records.repos[r].status # "none"
    BY <1>11 DEF UpdateRepoLabel, NextOp
  <2>2. recordOps < MaxOps => e \in RepoEvent
    BY <1>1, EventMade DEF RepoTypes
  <2>3. e.id = r /\ e.log = "repos" /\ e.type = "repo_label_updated"
    BY EventSays
  <2> HIDE DEF e
  <2>4. News(records, recordOps, e)
    BY <1>2, <2>1, <2>3 DEF News, Opens, Adds, Removes
  <2> QED BY <1>3, <2>1, <2>2, <2>4, InvAppended
<1>12. CASE ChangeProfile
  <2>1. PICK type \in ProfileTypes : Appended(RecordEvent("profiles", type, 0, recordOps + 1))
    BY <1>12 DEF ChangeProfile, NextOp, ProfileTypes
  <2> DEFINE e == RecordEvent("profiles", type, 0, recordOps + 1)
  <2>2. recordOps < MaxOps => e \in ProfileEvent
    BY <1>1, EventMade
  <2>3. e.log = "profiles" /\ e.type = type /\ Appended(e) /\ cloning' = cloning
    BY <1>12, <2>1, EventSays DEF ChangeProfile
  <2> HIDE DEF e
  <2>4. News(records, recordOps, e)
    BY <2>3 DEF News, Opens, Adds, Removes, Numbered, ProfileTypes
  <2> QED BY <1>3, <2>2, <2>3, <2>4, InvAppended
<1>13. ASSUME NEW kind \in Kinds, ChangeWhole(kind) PROVE RecordInv'
  <2>1. PICK type \in {"put", "change", "remove"} : Appended(RecordEvent(WholeLog[kind], type, kind, recordOps + 1))
    BY <1>13 DEF ChangeWhole, NextOp
  <2> DEFINE e == RecordEvent(WholeLog[kind], type, kind, recordOps + 1)
  <2>2. recordOps < MaxOps => e \in WholeEvent
    BY <1>1, EventMade
  <2>3. e.type = type /\ Appended(e) /\ cloning' = cloning
    BY <1>13, <2>1, EventSays DEF ChangeWhole
  <2> HIDE DEF e
  <2>4. recordOps < MaxOps => News(records, recordOps, e)
    BY <2>2, OneKind, <2>3 DEF News, Opens, Adds, Removes, Numbered
  <2> QED BY <1>3, <2>2, <2>3, <2>4, InvAppended
<1>14. CASE RecordWritten
  <2> DEFINE e == Head(recordChain)
  <2>1. /\ recordChain # <<>> /\ recordChain' = Tail(recordChain)
        /\ recordLogs' = [recordLogs EXCEPT ![e.log] = Append(@, e)]
        /\ records' = RecordApplied(records, e)
        /\ UNCHANGED <<saved, cloning, recordOps, restarts>>
    BY <1>14 DEF RecordWritten
  <2>2. e \in MadeEvent /\ Tail(recordChain) \in Seq(MadeEvent)
    BY <1>0, <2>1, TailOf
  <2>3. [recordLogs EXCEPT ![e.log] = Append(@, e)] \in Filed
    <3> HIDE DEF e
    <3> QED BY <1>0, <2>2, FiledLogs
  <2>4. RecordApplied(records, e) \in MemoryRecord
    BY <1>0, <2>1, FitsWritten
  <2>5. Fits(RecordApplied(records, e), saved, [recordLogs EXCEPT ![e.log] = Append(@, e)], Tail(recordChain), recordOps)
    BY <1>0, <2>1, FitsWritten
  <2> HIDE DEF e
  <2>6. Fits(records', saved', recordLogs', recordChain', recordOps')
    BY <2>1, <2>5
  <2> QED BY <1>0, <2>1, <2>2, <2>3, <2>4, <2>6 DEF RecordInv
<1>15. CASE RecordsCrash
  <2>1. PICK compacts \in BOOLEAN :
           \/ Restarts(recordLogs, saved, compacts)
           \/ /\ recordChain # <<>>
              /\ Restarts([recordLogs EXCEPT ![Head(recordChain).log] = Append(@, Head(recordChain))], saved, compacts)
    BY <1>15 DEF RecordsCrash
  <2>2. CASE Restarts(recordLogs, saved, compacts)
    BY <1>0, <2>2, InvRestarted
  <2>3. CASE /\ recordChain # <<>>
             /\ Restarts([recordLogs EXCEPT ![Head(recordChain).log] = Append(@, Head(recordChain))], saved, compacts)
    <3> DEFINE e == Head(recordChain)
               more == [recordLogs EXCEPT ![e.log] = Append(@, e)]
               y == RecordApplied(records, e)
               rest == Tail(recordChain)
    <3>1. e \in MadeEvent
      BY <1>0, <2>3, TailOf
    <3>2. more \in Filed
      <4> HIDE DEF e
      <4> QED BY <1>0, <3>1, FiledLogs
    <3>3. y \in MemoryRecord /\ Fits(y, saved, more, rest, recordOps)
      BY <1>0, <2>3, FitsWritten
    <3>4. Restarts(more, saved, compacts)
      BY <2>3
    <3> HIDE DEF e, more, y, rest
    <3> QED BY <1>0, <3>2, <3>3, <3>4, InvRestarted
  <2> QED BY <2>1, <2>2, <2>3
<1>16. CASE RecordsShutdown
  BY <1>16, RestartedFromNothing, <1>0, FitsShutDown, LogsKeep, InvRestarted DEF RecordsShutdown, NoLines
<1>17. CASE UNCHANGED recordVars
  BY <1>17, <1>0 DEF recordVars, RecordInv
<1>18. RecordStep => RecordInv'
  BY <1>4, <1>5, <1>6, <1>7, <1>8, <1>9, <1>10, <1>11, <1>12, <1>13, <1>14, <1>15, <1>16 DEF RecordStep
<1> QED BY <1>17, <1>18

\* The invariant gives the shape of the state.
LEMMA RecordInvTypes == RecordInv => RecordTypeOK
<1> SUFFICES ASSUME RecordInv PROVE RecordTypeOK
  OBVIOUS
<1>1. /\ records \in MemoryRecord /\ saved \in MemoryRecord /\ recordLogs \in Filed
      /\ recordOps \in 0..MaxOps /\ restarts \in 0..MaxRestarts /\ cloning \subseteq 1..recordOps
  BY DEF RecordInv
<1>2. ASSUME NEW m \in MemoryRecord
      PROVE  /\ m.workspaces \in [RecordIds -> [state: {"none", "open", "removed"}, path: Folders \cup {""}]]
             /\ m.byPath \in [Folders -> 0..MaxOps]
             /\ m.repos \in [RecordIds -> [status: {"none", "pending", "cloned", "error"}, label: 0..MaxOps]]
             /\ m.chatRepo \in [RecordIds -> -1..MaxOps]
             /\ {m.profiles, m.overrides} \subseteq 0..MaxOps
             /\ m.whole \in [Kinds -> 0..MaxOps]
  BY DEF MemoryRecord, WorkspaceTable, WorkspaceKept, RepoTable, RepoKept, PathTable, PlaceTable, WholeTable
<1>3. DOMAIN recordLogs = LogNames
  BY <1>1 DEF Filed
<1>4. ASSUME NEW l \in LogNames, NEW k \in DOMAIN recordLogs[l] PROVE recordLogs[l][k].log = l
  <2>1. recordLogs[l] \in Seq(MadeLog(l))
    BY <1>1, FiledLogs
  <2>2. recordLogs[l][k] \in MadeLog(l)
    BY <2>1
  <2> QED BY <2>2 DEF MadeLog
<1>5. cloning \subseteq RecordIds
  BY <1>1, RecordNumbers DEF RecordIds
<1>6. \A m \in {records, saved} :
          /\ m.workspaces \in [RecordIds -> [state: {"none", "open", "removed"}, path: Folders \cup {""}]]
          /\ m.byPath \in [Folders -> 0..MaxOps]
          /\ m.repos \in [RecordIds -> [status: {"none", "pending", "cloned", "error"}, label: 0..MaxOps]]
          /\ m.chatRepo \in [RecordIds -> -1..MaxOps]
          /\ {m.profiles, m.overrides} \subseteq 0..MaxOps
          /\ m.whole \in [Kinds -> 0..MaxOps]
  BY ZenonT(30), <1>1, <1>2
<1>7. \A l \in LogNames : \A k \in DOMAIN recordLogs[l] : recordLogs[l][k].log = l
  BY <1>4
<1> QED BY <1>1, <1>3, <1>5, <1>6, <1>7 DEF RecordTypeOK

\* The invariant gives what a restart finds.
LEMMA RecordInvRebuilds == RecordInv => RestartRebuilds
<1> SUFFICES ASSUME RecordInv PROVE RestartRebuilds
  OBVIOUS
<1> DEFINE a == RestartedFrom(saved, recordLogs)
<1>1. Alike(a, records, recordChain)
  BY DEF RecordInv, Fits
<1> HIDE DEF a
<1>2. \A w \in RecordIds, p \in Folders : OpenAt(a, w, p) <=> OpenAt(records, w, p)
  BY <1>1 DEF Alike, SameWorkspaces, OpenAt
<1>3. /\ a.repos = records.repos /\ a.whole = records.whole
      /\ a.profiles = records.profiles /\ a.overrides = records.overrides
  BY <1>1 DEF Alike
<1>4. \A c \in RecordIds :
          \/ a.chatRepo[c] = records.chatRepo[c]
          \/ /\ records.chatRepo[c] > 0 /\ a.chatRepo[c] = 0
             /\ records.repos[records.chatRepo[c]].status = "none"
  BY <1>1 DEF Alike, SamePlaces
<1>5. \A p \in Folders :
          \/ a.byPath[p] = records.byPath[p]
          \/ records.byPath[p] = 0 /\ OpenAt(records, a.byPath[p], p)
  BY <1>1 DEF Alike, SamePaths
<1> QED BY <1>2, <1>3, <1>4, <1>5 DEF RestartRebuilds, a

\* Records, logs and the chain keep the shape the code gives them (event-store.ts).
THEOREM RecordTypesHold == RecordSpec => []RecordTypeOK
<1>1. RecordSpec => []RecordInv
  BY RecordInvInit, RecordInvStep, PTL DEF RecordSpec
<1> QED BY <1>1, RecordInvTypes, PTL

\* A process that dies finds again what was in memory, whatever it was doing: replayed in
\* the fixed order of initialize() the logs give what the order of the writes gave.
THEOREM RestartsRebuild == RecordSpec => []RestartRebuilds
<1>1. RecordSpec => []RecordInv
  BY RecordInvInit, RecordInvStep, PTL DEF RecordSpec
<1> QED BY <1>1, RecordInvRebuilds, PTL
=============================================================================
