-------------------------- MODULE RequestPoolProofs --------------------------
(***************************************************************************)
(* What the request pool contract guarantees for any number of workers,    *)
(* any threshold and any requests.                                         *)
(***************************************************************************)
EXTENDS RequestPool, FiniteSetTheorems, TLAPS

USE DEF Slots

\* A request's id is a byte vector.
LEMMA HashType ==
  ASSUME NEW r \in Requests
  PROVE  hash_request(r) \in Ids
<1>1. r \in DecryptionRequest
  BY RequestsAssumption
<1>2. /\ r.filename \in Seq(Byte)
      /\ r.witness_hex \in Seq(Byte)
      /\ r.location \in Seq(Byte)
  BY <1>1 DEF DecryptionRequest
<1>3. QED
  BY <1>2 DEF hash_request, Ids

------------------------------------------------------------------------------
\* Every reachable storage state of the contract is well typed.
LEMMA InitTypeOK == PoolInit => PoolTypeOK
BY CountMaxAssumption DEF PoolInit, PoolTypeOK, EmptyMapping, Ids

\* add keeps the types.
LEMMA AddTypeOK ==
  ASSUME PoolTypeOK, NEW r \in Requests, add(r)
  PROVE  PoolTypeOK'
<1> DEFINE id == hash_request(r)
<1>1. id \in Ids
  BY HashType
<1> HIDE DEF id
<1>2. /\ requests' = Insert(requests, id, r)
      /\ request_ids' = Append(request_ids, id)
      /\ count' = NextCount
      /\ UNCHANGED <<partial_attestations, attestation_counts,
                     fulfilled_attestations, authorized_workers>>
  BY DEF add, id
<1>3. /\ DOMAIN requests' \subseteq Ids
      /\ \A i \in DOMAIN requests' : requests'[i] \in Requests
  BY <1>1, <1>2 DEF PoolTypeOK, Insert
<1>4. request_ids' \in Seq(Ids)
  BY <1>1, <1>2 DEF PoolTypeOK
<1>5. count' \in 0..COUNT_MAX
  BY <1>2, CountMaxAssumption DEF PoolTypeOK, NextCount
<1>6. QED
  BY <1>2, <1>3, <1>4, <1>5 DEF PoolTypeOK

\* submit_partial_attestation keeps the types, and its counter in range.
LEMMA SubmitTypeOK ==
  ASSUME PoolTypeOK,
         NEW caller \in Accounts, NEW id \in DOMAIN requests,
         NEW a \in Attestations,
         submit_partial_attestation(caller, id, a)
  PROVE  PoolTypeOK'
<1> DEFINE partials  == Insert(partial_attestations, <<id, caller>>, a)
           new_count == get_attestation_count(id) + 1
<1>1. /\ partial_attestations' = partials
      /\ attestation_counts' = Insert(attestation_counts, id, new_count)
      /\ \/ fulfilled_attestations' =
               Insert(fulfilled_attestations, id, Combined(id, partials))
         \/ UNCHANGED fulfilled_attestations
      /\ UNCHANGED <<requests, request_ids, authorized_workers, count>>
  BY DEF submit_partial_attestation, finalize_request
<1>2. id \in Ids /\ new_count \in Nat
  BY DEF PoolTypeOK, get_attestation_count
<1> HIDE DEF partials, new_count
<1>3. /\ DOMAIN partial_attestations' \subseteq Ids \X Accounts
      /\ \A k \in DOMAIN partial_attestations' :
            partial_attestations'[k] \in Attestations
  BY <1>1, <1>2 DEF PoolTypeOK, Insert, partials
<1>4. /\ DOMAIN attestation_counts' \subseteq Ids
      /\ \A i \in DOMAIN attestation_counts' : attestation_counts'[i] \in Nat
  BY <1>1, <1>2 DEF PoolTypeOK, Insert
<1>5. DOMAIN fulfilled_attestations' \subseteq Ids
  BY <1>1, <1>2 DEF PoolTypeOK, Insert
<1>6. QED
  BY <1>1, <1>3, <1>4, <1>5 DEF PoolTypeOK

\* The contract's storage is well typed after any messages.
THEOREM PoolTypeCorrect == PoolSpec => []PoolTypeOK
<1>1. PoolTypeOK /\ [PoolNext]_pool_vars => PoolTypeOK'
  <2> SUFFICES ASSUME PoolTypeOK, [PoolNext]_pool_vars
               PROVE  PoolTypeOK'
    OBVIOUS
  <2>1. CASE UNCHANGED pool_vars
    BY <2>1 DEF pool_vars, PoolTypeOK
  <2>2. CASE PoolNext
    BY <2>2, AddTypeOK, SubmitTypeOK DEF PoolNext
  <2>3. QED
    BY <2>1, <2>2
<1>2. QED
  BY InitTypeOK, <1>1, PTL DEF PoolSpec

------------------------------------------------------------------------------
(***************************************************************************)
(* The inductive invariant.  Exactness of the tally needs that nothing is  *)
(* stored for a request that does not exist yet, the threshold needs the   *)
(* tally, and the combined attestation needs that attesting has stopped.   *)
(***************************************************************************)
PoolInv ==
  /\ PoolTypeOK
  /\ IndexConsistent
  /\ TallyExact
  /\ FulfilledAtThreshold
  /\ CombinedFromAttesters

\* The constructor establishes the invariant.
LEMMA InitInv == PoolInit => PoolInv
<1> SUFFICES ASSUME PoolInit PROVE PoolInv
  OBVIOUS
<1>1. PoolTypeOK
  BY InitTypeOK
<1>2. IndexConsistent
  BY CountMaxAssumption DEF PoolInit, IndexConsistent, EmptyMapping
<1>3. TallyExact
  BY DEF PoolInit, TallyExact, EmptyMapping
<1>4. FulfilledAtThreshold
  BY DEF PoolInit, FulfilledAtThreshold, EmptyMapping
<1>5. CombinedFromAttesters
  BY DEF PoolInit, CombinedFromAttesters, EmptyMapping
<1>6. QED
  BY <1>1, <1>2, <1>3, <1>4, <1>5 DEF PoolInv

\* add keeps the list of ids, the mapping and the counter in step.
LEMMA AddIndex ==
  ASSUME PoolInv, NEW r \in Requests, add(r)
  PROVE  IndexConsistent'
<1> DEFINE id == hash_request(r)
<1>1. id \in Ids
  BY HashType
<1>2. /\ id \notin DOMAIN requests
      /\ requests' = Insert(requests, id, r)
      /\ request_ids' = Append(request_ids, id)
      /\ count' = NextCount
  BY DEF add, IsNewRequest
<1> HIDE DEF id
<1>3. request_ids \in Seq(Ids) /\ count \in 0..COUNT_MAX
  BY DEF PoolInv, PoolTypeOK
<1>4. /\ Len(request_ids') = Len(request_ids) + 1
      /\ \A i \in 1..Len(request_ids) : request_ids'[i] = request_ids[i]
      /\ request_ids'[Len(request_ids) + 1] = id
      /\ Len(request_ids) \in Nat
  BY <1>1, <1>2, <1>3
<1>5. DOMAIN requests' = DOMAIN requests \cup {id}
  BY <1>2 DEF Insert
<1>6. {request_ids'[i] : i \in 1..Len(request_ids')} = DOMAIN requests'
  BY <1>4, <1>5 DEF PoolInv, IndexConsistent
<1>7. \A i \in 1..Len(request_ids) : request_ids[i] # id
  BY <1>2 DEF PoolInv, IndexConsistent
<1>8. \A i, j \in 1..Len(request_ids') :
        request_ids'[i] = request_ids'[j] => i = j
  BY <1>4, <1>7 DEF PoolInv, IndexConsistent
<1>9. \A i \in DOMAIN requests' : hash_request(requests'[i]) = i
  BY <1>2 DEF PoolInv, IndexConsistent, Insert, id
<1>10. count' = IF Len(request_ids') < COUNT_MAX
                THEN Len(request_ids') ELSE COUNT_MAX
  BY <1>2, <1>3, <1>4, CountMaxAssumption
  DEF PoolInv, IndexConsistent, NextCount
<1>11. QED
  BY <1>6, <1>8, <1>9, <1>10 DEF IndexConsistent

\* A request that is added has no attestation yet; the others keep theirs.
LEMMA AddTally ==
  ASSUME PoolInv, NEW r \in Requests, add(r)
  PROVE  TallyExact' /\ FulfilledAtThreshold' /\ CombinedFromAttesters'
<1> DEFINE id == hash_request(r)
<1>1. /\ id \notin DOMAIN requests
      /\ DOMAIN requests' = DOMAIN requests \cup {id}
      /\ UNCHANGED <<partial_attestations, attestation_counts,
                     fulfilled_attestations, authorized_workers>>
  BY DEF add, IsNewRequest, Insert
<1> HIDE DEF id
<1>2. \A i : Attesters(i)' = Attesters(i)
  BY <1>1 DEF Attesters
<1>3. Attesters(id) = {}
  BY <1>1 DEF Attesters, PoolInv, TallyExact
<1>4. /\ IsFiniteSet(Attesters(id)')
      /\ Cardinality(Attesters(id)') = 0
  BY <1>2, <1>3, FS_EmptySet
<1>5. \A i : get_attestation_count(i)' = get_attestation_count(i)
  BY <1>1 DEF get_attestation_count
<1>6. get_attestation_count(id) = 0
  BY <1>1 DEF get_attestation_count, PoolInv, TallyExact
<1>7. \A w : IsWorker(w)' = IsWorker(w)
  BY <1>1 DEF IsWorker
<1>8. TallyExact'
  BY <1>1, <1>2, <1>4, <1>5, <1>6, <1>7 DEF PoolInv, TallyExact
<1>9. FulfilledAtThreshold'
  BY <1>1, <1>2, <1>4, ThresholdAssumption
  DEF PoolInv, FulfilledAtThreshold
<1>10. CombinedFromAttesters'
  BY <1>1, <1>2 DEF PoolInv, CombinedFromAttesters
<1>11. QED
  BY <1>8, <1>9, <1>10

\* What an accepted attestation does to the storage.
SubmitEffect(caller, id, a) ==
  /\ IsWorker(caller)
  /\ id \notin DOMAIN fulfilled_attestations
  /\ <<id, caller>> \notin DOMAIN partial_attestations
  /\ partial_attestations' = Insert(partial_attestations, <<id, caller>>, a)
  /\ attestation_counts' =
        Insert(attestation_counts, id, get_attestation_count(id) + 1)
  /\ UNCHANGED <<requests, request_ids, authorized_workers, count>>
  /\ get_attestation_count(id) + 1 >= THRESHOLD =>
        fulfilled_attestations' =
          Insert(fulfilled_attestations, id, Combined(id, partial_attestations'))
  /\ ~(get_attestation_count(id) + 1 >= THRESHOLD) =>
        fulfilled_attestations' = fulfilled_attestations

\* A submission that is let through changes these stores in this way.
LEMMA SubmitHasEffect ==
  ASSUME NEW caller \in Accounts, NEW id \in DOMAIN requests,
         NEW a \in Attestations,
         submit_partial_attestation(caller, id, a)
  PROVE  SubmitEffect(caller, id, a)
BY DEF submit_partial_attestation, finalize_request, MayAttest, SubmitEffect

\* One worker joins the attesters of one request.
LEMMA SubmitAttesters ==
  ASSUME PoolInv,
         NEW caller \in Accounts, NEW id \in DOMAIN requests,
         NEW a \in Attestations,
         submit_partial_attestation(caller, id, a)
  PROVE  /\ caller \notin Attesters(id)
         /\ Attesters(id)' = Attesters(id) \cup {caller}
         /\ \A i : i # id => Attesters(i)' = Attesters(i)
<1>0. SubmitEffect(caller, id, a)
  BY SubmitHasEffect
<1>1. /\ DOMAIN partial_attestations' =
            DOMAIN partial_attestations \cup {<<id, caller>>}
      /\ <<id, caller>> \notin DOMAIN partial_attestations
  BY <1>0 DEF SubmitEffect, Insert
<1>2. QED
  BY <1>1 DEF Attesters

\* The tally stays exact, and a request is fulfilled when it gets there.
LEMMA SubmitTally ==
  ASSUME PoolInv,
         NEW caller \in Accounts, NEW id \in DOMAIN requests,
         NEW a \in Attestations,
         submit_partial_attestation(caller, id, a)
  PROVE  TallyExact' /\ FulfilledAtThreshold'
<1>0. SubmitEffect(caller, id, a)
  BY SubmitHasEffect
<1> DEFINE n == Cardinality(Attesters(id))
<1>1. /\ IsFiniteSet(Attesters(id))
      /\ get_attestation_count(id) = n
      /\ n <= THRESHOLD
      /\ n # THRESHOLD
  BY <1>0 DEF SubmitEffect, PoolInv, TallyExact, FulfilledAtThreshold
<1>2. n \in Nat
  BY <1>1, FS_CardinalityType
<1>3. /\ IsFiniteSet(Attesters(id)')
      /\ Cardinality(Attesters(id)') = n + 1
  BY <1>1, SubmitAttesters, FS_AddElement
<1> HIDE DEF n
<1>4. n + 1 <= THRESHOLD
  BY <1>1, <1>2, ThresholdAssumption
<1>5. /\ get_attestation_count(id)' = n + 1
      /\ \A i : i # id => get_attestation_count(i)' = get_attestation_count(i)
      /\ DOMAIN attestation_counts' = DOMAIN attestation_counts \cup {id}
  BY <1>1, <1>0 DEF SubmitEffect, get_attestation_count, Insert
<1>6. \A i : i # id => Attesters(i)' = Attesters(i)
  BY SubmitAttesters
<1>7. TallyExact'
  <2>1. \A k \in DOMAIN partial_attestations' :
          k \in DOMAIN partial_attestations \/ k = <<id, caller>>
    BY <1>0 DEF SubmitEffect, Insert
  <2>2. \A w : IsWorker(w)' = IsWorker(w)
    BY <1>0 DEF SubmitEffect, IsWorker
  <2>3. \A k \in DOMAIN partial_attestations' :
          k[1] \in DOMAIN requests' /\ IsWorker(k[2])'
    BY <2>1, <2>2, <1>0 DEF SubmitEffect, PoolInv, TallyExact
  <2>4. DOMAIN attestation_counts' \subseteq DOMAIN requests'
    BY <1>5, <1>0 DEF SubmitEffect, PoolInv, TallyExact
  <2>5. \A i \in DOMAIN requests' :
          /\ IsFiniteSet(Attesters(i)')
          /\ get_attestation_count(i)' = Cardinality(Attesters(i)')
    BY <1>3, <1>5, <1>6, <1>0 DEF SubmitEffect, PoolInv, TallyExact
  <2>6. QED
    BY <2>3, <2>4, <2>5 DEF TallyExact
<1>8. FulfilledAtThreshold'
  <2>1. DOMAIN fulfilled_attestations' =
          IF n + 1 = THRESHOLD
          THEN DOMAIN fulfilled_attestations \cup {id}
          ELSE DOMAIN fulfilled_attestations
    BY <1>1, <1>2, <1>4, ThresholdAssumption, <1>0 DEF SubmitEffect, Insert
  <2>2. DOMAIN fulfilled_attestations' \subseteq DOMAIN requests'
    BY <2>1, <1>0 DEF SubmitEffect, PoolInv, FulfilledAtThreshold
  <2>3. ASSUME NEW i \in DOMAIN requests'
        PROVE  /\ Cardinality(Attesters(i)') <= THRESHOLD
               /\ i \in DOMAIN fulfilled_attestations'
                     <=> Cardinality(Attesters(i)') = THRESHOLD
    <3>1. CASE i = id
      BY <3>1, <2>1, <1>3, <1>4, <1>0 DEF SubmitEffect
    <3>2. CASE i # id
      BY <3>2, <2>1, <1>6, <1>0 DEF SubmitEffect, PoolInv, FulfilledAtThreshold
    <3>3. QED
      BY <3>1, <3>2
  <2>4. QED
    BY <2>2, <2>3 DEF FulfilledAtThreshold
<1>9. QED
  BY <1>7, <1>8

\* The attestation that fulfils a request combines all that are stored.
LEMMA SubmitCombined ==
  ASSUME PoolInv,
         NEW caller \in Accounts, NEW id \in DOMAIN requests,
         NEW a \in Attestations,
         submit_partial_attestation(caller, id, a)
  PROVE  CombinedFromAttesters'
<1>0. SubmitEffect(caller, id, a)
  BY SubmitHasEffect
<1> SUFFICES ASSUME NEW i \in DOMAIN fulfilled_attestations'
             PROVE  /\ DOMAIN fulfilled_attestations'[i] =
                         {s \in Slots :
                            authorized_workers[s] \in Attesters(i)'}
                    /\ \A s \in DOMAIN fulfilled_attestations'[i] :
                         fulfilled_attestations'[i][s] =
                           partial_attestations'[<<i, authorized_workers[s]>>]
  BY <1>0 DEF SubmitEffect, CombinedFromAttesters
<1>1. CASE i = id
  <2>1. fulfilled_attestations'[id] = Combined(id, partial_attestations')
    BY <1>1, <1>0 DEF SubmitEffect, Insert
  <2>2. \A s \in Slots : authorized_workers[s] \in Accounts
    BY DEF PoolInv, PoolTypeOK
  <2>3. \A s \in Slots : authorized_workers[s] \in Attesters(id)'
          <=> <<id, authorized_workers[s]>> \in DOMAIN partial_attestations'
    BY <2>2 DEF Attesters
  <2>4. QED
    BY <1>1, <2>1, <2>3 DEF Combined
<1>2. CASE i # id
  <2>1. /\ i \in DOMAIN fulfilled_attestations
        /\ fulfilled_attestations'[i] = fulfilled_attestations[i]
    BY <1>2, <1>0 DEF SubmitEffect, Insert
  <2>2. Attesters(i)' = Attesters(i)
    BY <1>2, SubmitAttesters
  <2>3. \A w : <<i, w>> \in DOMAIN partial_attestations =>
          partial_attestations'[<<i, w>>] = partial_attestations[<<i, w>>]
    BY <1>2, <1>0 DEF SubmitEffect, Insert
  <2>4. QED
    BY <2>1, <2>2, <2>3 DEF PoolInv, CombinedFromAttesters, Attesters
<1>3. QED
  BY <1>1, <1>2

\* Every step of the contract preserves the invariant.
LEMMA StepInv == PoolInv /\ [PoolNext]_pool_vars => PoolInv'
<1> SUFFICES ASSUME PoolInv, [PoolNext]_pool_vars PROVE PoolInv'
  OBVIOUS
<1>1. CASE UNCHANGED pool_vars
  <2>1. \A i : /\ Attesters(i)' = Attesters(i)
               /\ IsWorker(i)' = IsWorker(i)
               /\ get_attestation_count(i)' = get_attestation_count(i)
    BY <1>1 DEF pool_vars, Attesters, IsWorker, get_attestation_count
  <2>2. PoolTypeOK' /\ IndexConsistent'
    BY <1>1 DEF pool_vars, PoolInv, PoolTypeOK, IndexConsistent
  <2>3. TallyExact' /\ FulfilledAtThreshold'
    BY <1>1, <2>1 DEF pool_vars, PoolInv, TallyExact, FulfilledAtThreshold
  <2>4. CombinedFromAttesters'
    BY <1>1, <2>1 DEF pool_vars, PoolInv, CombinedFromAttesters
  <2>5. QED
    BY <2>2, <2>3, <2>4 DEF PoolInv
<1>2. ASSUME NEW r \in Requests, add(r) PROVE PoolInv'
  BY <1>2, AddTypeOK, AddIndex, AddTally DEF PoolInv
<1>3. ASSUME NEW caller \in Accounts, NEW id \in DOMAIN requests,
             NEW a \in Attestations,
             submit_partial_attestation(caller, id, a)
      PROVE  PoolInv'
  <2> SubmitEffect(caller, id, a)
    BY <1>3, SubmitHasEffect
  <2>1. IndexConsistent'
    BY DEF SubmitEffect, PoolInv, IndexConsistent
  <2>2. QED
    BY <1>3, <2>1, SubmitTypeOK, SubmitTally, SubmitCombined DEF PoolInv
<1>4. QED
  BY <1>1, <1>2, <1>3 DEF PoolNext

\* The four relations between the six stores hold after any messages.
THEOREM PoolInvariant == PoolSpec => []PoolInv
BY InitInv, StepInv, PTL DEF PoolSpec

\* The list of ids, the mapping of requests and the counter always agree.
THEOREM PoolIndex == PoolSpec => []IndexConsistent
BY PoolInvariant, PTL DEF PoolInv

\* The tally of a request is the number of distinct workers that attested it.
THEOREM PoolTally == PoolSpec => []TallyExact
BY PoolInvariant, PTL DEF PoolInv

\* A request is fulfilled by exactly THRESHOLD distinct workers.
THEOREM PoolThreshold == PoolSpec => []FulfilledAtThreshold
BY PoolInvariant, PTL DEF PoolInv

\* A combined attestation is exactly the attestations stored for its request.
THEOREM PoolCombined == PoolSpec => []CombinedFromAttesters
BY PoolInvariant, PTL DEF PoolInv

\* Nothing the contract has stored is ever removed or overwritten.
THEOREM PoolStoredForever == PoolSpec => StoredForever
<1> DEFINE Kept == /\ Extends(requests, requests')
                   /\ Extends(partial_attestations, partial_attestations')
                   /\ Extends(fulfilled_attestations, fulfilled_attestations')
                   /\ Extends(request_ids, request_ids')
<1>1. ASSUME PoolInv, NEW r \in Requests, add(r) PROVE Kept
  <2>1. Extends(requests, requests')
    BY <1>1 DEF add, IsNewRequest, Insert, Extends
  <2>2. Extends(request_ids, request_ids')
    <3>1. request_ids \in Seq(Ids) /\ hash_request(r) \in Ids
      BY <1>1, HashType DEF PoolInv, PoolTypeOK
    <3>2. request_ids' = Append(request_ids, hash_request(r))
      BY <1>1 DEF add
    <3>3. QED
      BY <3>1, <3>2 DEF Extends
  <2>3. UNCHANGED <<partial_attestations, fulfilled_attestations>>
    BY <1>1 DEF add
  <2>4. QED
    BY <2>1, <2>2, <2>3 DEF Extends
<1>2. ASSUME PoolInv,
             NEW caller \in Accounts, NEW id \in DOMAIN requests,
             NEW a \in Attestations,
             submit_partial_attestation(caller, id, a)
      PROVE  Kept
  <2>1. SubmitEffect(caller, id, a)
    BY <1>2, SubmitHasEffect
  <2>2. Extends(partial_attestations, partial_attestations')
    BY <2>1 DEF SubmitEffect, Insert, Extends
  <2>3. Extends(fulfilled_attestations, fulfilled_attestations')
    BY <2>1 DEF SubmitEffect, Insert, Extends
  <2>4. UNCHANGED <<requests, request_ids>>
    BY <2>1 DEF SubmitEffect
  <2>5. QED
    BY <2>2, <2>3, <2>4 DEF Extends
<1>3. PoolInv /\ [PoolNext]_pool_vars => [Kept]_pool_vars
  BY <1>1, <1>2 DEF PoolNext
<1>4. QED
  BY <1>3, PoolInvariant, PTL DEF PoolSpec, StoredForever

------------------------------------------------------------------------------
(***************************************************************************)
(* The refinement: every message of the contract is a step of WorkBoard.   *)
(***************************************************************************)

\* The constructor gives an empty board with some crew.
LEMMA BoardInit == PoolInit => Board!Init
<1> SUFFICES ASSUME PoolInit PROVE Board!Init
  OBVIOUS
<1>1. {authorized_workers[s] : s \in Slots} \in SUBSET Accounts
  BY DEF PoolInit
<1>2. /\ DOMAIN requests = {}
      /\ DOMAIN fulfilled_attestations = {}
  BY DEF PoolInit, EmptyMapping
<1>3. /\ [id \in DOMAIN requests |-> StatementsFor(id)] = EmptyMapping
      /\ [id \in DOMAIN fulfilled_attestations |-> SettledBy(id)] = EmptyMapping
  BY <1>2 DEF EmptyMapping
<1>4. QED
  BY <1>1, <1>3 DEF Board!Init, Board!EmptyMapping, EmptyMapping

\* add posts an item about which nothing has been said.
LEMMA BoardAdd ==
  ASSUME PoolInv, NEW r \in Requests, add(r)
  PROVE  Board!Post(hash_request(r))
<1> DEFINE id == hash_request(r)
           items == DOMAIN requests
<1>1. /\ id \notin items
      /\ DOMAIN requests' = items \cup {id}
      /\ UNCHANGED <<partial_attestations, fulfilled_attestations,
                     authorized_workers>>
  BY DEF add, IsNewRequest, Insert
<1>2. \A i : StatementsFor(i)' = StatementsFor(i) /\ SettledBy(i)' = SettledBy(i)
  BY <1>1 DEF StatementsFor, SettledBy, Attesters
<1>3. StatementsFor(id) = EmptyMapping
  <2>1. Attesters(id) = {}
    BY <1>1 DEF PoolInv, TallyExact, Attesters
  <2>2. QED
    BY <2>1 DEF StatementsFor, EmptyMapping
<1> HIDE DEF id
<1>4. [i \in DOMAIN requests' |-> StatementsFor(i)'] =
        Insert([i \in items |-> StatementsFor(i)], id, EmptyMapping)
  BY <1>1, <1>2, <1>3 DEF Insert
<1>5. QED
  BY <1>1, <1>2, <1>4 DEF Board!Post, Board!Insert, Board!EmptyMapping,
                          Insert, EmptyMapping, id

\* The abstract module counts as this one does.
LEMMA SameCardinality == \A S : Board!Cardinality(S) = Cardinality(S)
BY DEF Board!Cardinality, Cardinality

\* An accepted attestation is a statement, and it settles the item exactly when
\* it completes the threshold; the combination that is stored has then all that
\* was said.
LEMMA BoardSubmit ==
  ASSUME PoolInv, PoolInv',
         NEW caller \in Accounts, NEW id \in DOMAIN requests,
         NEW a \in Attestations,
         submit_partial_attestation(caller, id, a)
  PROVE  Board!Speak(id, caller, a)
<1> DEFINE said     == [i \in DOMAIN requests |-> StatementsFor(i)]
           settled  == [i \in DOMAIN fulfilled_attestations |-> SettledBy(i)]
           spoken   == Insert(StatementsFor(id), caller, a)
           pairs(f) == {<<w, f[w]>> : w \in DOMAIN f}
<1>1. SubmitEffect(caller, id, a)
  BY SubmitHasEffect
<1>2. /\ caller \notin Attesters(id)
      /\ Attesters(id)' = Attesters(id) \cup {caller}
      /\ \A i : i # id => Attesters(i)' = Attesters(i)
  BY SubmitAttesters
<1>3. StatementsFor(id)' = spoken
  BY <1>1, <1>2 DEF SubmitEffect, StatementsFor, Attesters, Insert
<1>4. \A i : i # id => StatementsFor(i)' = StatementsFor(i)
  BY <1>1, <1>2 DEF SubmitEffect, StatementsFor, Attesters, Insert
<1>5. said' = Insert(said, id, spoken)
  BY <1>1, <1>3, <1>4 DEF SubmitEffect, Insert
<1>6. /\ Cardinality(Attesters(id)) \in Nat
      /\ Cardinality(Attesters(id)) < THRESHOLD
  BY <1>1, ThresholdAssumption, FS_CardinalityType
  DEF SubmitEffect, PoolInv, TallyExact, FulfilledAtThreshold
<1>7. \A i \in DOMAIN fulfilled_attestations : SettledBy(i)' = SettledBy(i)
  <2> SUFFICES ASSUME NEW i \in DOMAIN fulfilled_attestations
               PROVE  SettledBy(i)' = SettledBy(i)
    OBVIOUS
  <2>1. fulfilled_attestations'[i] = fulfilled_attestations[i]
    BY <1>1 DEF SubmitEffect, Insert
  <2>2. QED
    BY <1>1, <2>1 DEF SubmitEffect, SettledBy
<1>8. ASSUME Cardinality(Attesters(id)') = THRESHOLD
      PROVE  settled' = Insert(settled, id, pairs(spoken))
  <2>1. id \in DOMAIN fulfilled_attestations'
    BY <1>1, <1>8 DEF SubmitEffect, PoolInv, FulfilledAtThreshold
  <2>2. DOMAIN fulfilled_attestations' = DOMAIN fulfilled_attestations \cup {id}
    BY <1>1, <2>1 DEF SubmitEffect, Insert
  <2>3. SettledBy(id)' = pairs(StatementsFor(id)')
    <3> DEFINE combined == fulfilled_attestations'[id]
    <3>1. /\ DOMAIN combined =
               {s \in Slots : authorized_workers'[s] \in Attesters(id)'}
          /\ \A s \in DOMAIN combined :
               combined[s] = partial_attestations'[<<id, authorized_workers'[s]>>]
      BY <2>1 DEF PoolInv, CombinedFromAttesters
    <3> HIDE DEF combined
    <3>2. ASSUME NEW w \in Attesters(id)'
          PROVE  \E s \in DOMAIN combined : authorized_workers'[s] = w
      <4>1. <<id, w>> \in DOMAIN partial_attestations'
        BY DEF Attesters
      <4>2. IsWorker(<<id, w>>[2])'
        BY <4>1 DEF PoolInv, TallyExact
      <4>3. PICK s \in Slots : authorized_workers'[s] = w
        BY <4>2 DEF IsWorker
      <4>4. QED
        BY <3>1, <4>3
    <3> DEFINE from(s) == <<authorized_workers'[s], combined[s]>>
               of(w) == <<w, partial_attestations'[<<id, w>>]>>
    <3>3. \A s \in DOMAIN combined :
            /\ authorized_workers'[s] \in Attesters(id)'
            /\ from(s) = of(authorized_workers'[s])
      BY <3>1
    <3>4. \A w \in Attesters(id)' : \E s \in DOMAIN combined : from(s) = of(w)
      BY <3>2, <3>3
    <3> HIDE DEF from, of
    <3>5. {from(s) : s \in DOMAIN combined} = {of(w) : w \in Attesters(id)'}
      BY <3>3, <3>4
    <3>6. QED
      BY <3>5 DEF SettledBy, StatementsFor, combined, from, of
  <2>4. SettledBy(id)' = pairs(spoken)
    BY <1>3, <2>3
  <2> HIDE DEF spoken, pairs
  <2>5. settled' = Insert(settled, id, pairs(spoken))
    BY <1>7, <2>2, <2>4 DEF Insert
  <2>6. QED
    BY <2>5
<1>9. ASSUME Cardinality(Attesters(id)') # THRESHOLD PROVE settled' = settled
  <2>1. UNCHANGED fulfilled_attestations
    BY <1>1, <1>9 DEF SubmitEffect, PoolInv, FulfilledAtThreshold, Insert
  <2>2. settled' = settled
    BY <1>7, <2>1
  <2>3. QED
    BY <2>2
<1>10. settled' = IF Cardinality(Attesters(id)') = THRESHOLD
                  THEN Insert(settled, id, pairs(spoken)) ELSE settled
  BY <1>8, <1>9
<1>11. /\ said[id] = StatementsFor(id)
       /\ DOMAIN StatementsFor(id) = Attesters(id)
       /\ DOMAIN spoken = Attesters(id)'
  BY <1>2, <1>3 DEF StatementsFor, Insert
<1>12. UNCHANGED {authorized_workers[s] : s \in Slots}
  BY <1>1 DEF SubmitEffect
<1>13. caller \in {authorized_workers[s] : s \in Slots}
  BY <1>1 DEF SubmitEffect, IsWorker
<1> HIDE DEF spoken
<1>14. Insert(said[id], caller, a) = spoken
  BY <1>11 DEF spoken
<1>15. \A m, k, v : Board!Insert(m, k, v) = Insert(m, k, v)
  BY DEF Board!Insert, Insert
<1>16. \A f : Board!Pairs(f) = pairs(f)
  BY DEF Board!Pairs
<1> HIDE DEF pairs
<1>17. QED
  BY <1>2, <1>5, <1>6, <1>10, <1>11, <1>12, <1>13, <1>14, <1>15, <1>16,
     SameCardinality
  DEF Board!Speak

\* The contract implements the abstract board.
THEOREM PoolImplementsBoard == PoolSpec => ImplementsBoard
<1>1. PoolInv /\ PoolInv' /\ [PoolNext]_pool_vars => [Board!Next]_(Board!vars)
  <2> SUFFICES ASSUME PoolInv, PoolInv', [PoolNext]_pool_vars
               PROVE  [Board!Next]_(Board!vars)
    OBVIOUS
  <2>1. CASE UNCHANGED pool_vars
    BY <2>1 DEF pool_vars, Board!vars, StatementsFor, SettledBy, Attesters
  <2>2. ASSUME NEW r \in Requests, add(r) PROVE Board!Next
    BY <2>2, BoardAdd DEF Board!Next
  <2>3. ASSUME NEW caller \in Accounts, NEW id \in DOMAIN requests,
               NEW a \in Attestations,
               submit_partial_attestation(caller, id, a)
        PROVE  Board!Next
    <3>1. requests[id] \in Requests /\ hash_request(requests[id]) = id
      BY DEF PoolInv, PoolTypeOK, IndexConsistent
    <3>2. QED
      BY <2>3, <3>1, BoardSubmit DEF Board!Next
  <2>4. QED
    BY <2>1, <2>2, <2>3 DEF PoolNext
<1>2. QED
  BY <1>1, BoardInit, PoolInvariant, PTL DEF PoolSpec, ImplementsBoard, Board!Spec
==============================================================================
