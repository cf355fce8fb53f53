----------------------------- MODULE RequestPool -----------------------------
(***************************************************************************)
(* The ink! contract contract/pool/lib.rs: the on-chain board where        *)
(* clients post decryption requests and authorized workers attest that     *)
(* they served one.  A message that returns Err is reverted by the chain,  *)
(* so a refused call is a stuttering step and each action below is a       *)
(* message that returns Ok.                                                *)
(*                                                                         *)
(* A byte vector is a sequence over Byte, and the Blake2 hash of one is    *)
(* taken to be collision free, so it is the vector itself.                 *)
(***************************************************************************)
EXTENDS Naturals, Sequences, FiniteSets, Mapping

CONSTANTS
  Byte,            \* the alphabet of the request fields
  Requests,        \* the requests that clients may add
  Accounts,        \* the accounts that may call the contract
  Attestations,    \* the attestations a worker may submit
  THRESHOLD,       \* attestations that fulfil a request (1 in the code)
  TOTAL_WORKERS,   \* workers the constructor demands (2 in the code)
  COUNT_MAX        \* the largest value of the counter (2^64 - 1 in the code)

DecryptionRequest ==
  [filename : Seq(Byte), witness_hex : Seq(Byte), location : Seq(Byte)]

ASSUME RequestsAssumption == Requests \subseteq DecryptionRequest
ASSUME ThresholdAssumption == THRESHOLD \in Nat \ {0}
ASSUME TotalWorkersAssumption == TOTAL_WORKERS \in Nat
ASSUME CountMaxAssumption == COUNT_MAX \in Nat

VARIABLES
  requests,                \* id -> request
  request_ids,             \* the ids in the order they were added
  partial_attestations,    \* <<id, worker>> -> attestation
  attestation_counts,      \* id -> number of attestations
  fulfilled_attestations,  \* id -> combined attestation
  authorized_workers,      \* the accounts given to the constructor
  count                    \* the number of requests, saturating

pool_vars == <<requests, request_ids, partial_attestations,
               attestation_counts, fulfilled_attestations,
               authorized_workers, count>>

Ids == Seq(Byte)
Slots == 1..TOTAL_WORKERS

(***************************************************************************)
(* Helpers.                                                                *)
(***************************************************************************)

\* The id of a request: its three fields are appended with no delimiter, so
\* two different requests may have the same id.
hash_request(r) == r.filename \o r.witness_hex \o r.location

\* authorized_workers.contains(&caller)
IsWorker(caller) == \E s \in Slots : authorized_workers[s] = caller

\* attestation_counts.get(&id).unwrap_or(0)
get_attestation_count(id) ==
  IF id \in DOMAIN attestation_counts THEN attestation_counts[id] ELSE 0

\* Mutant: the last authorized worker is left out of the combination.
MutCombinedShort(id, partials) ==
  [s \in {t \in Slots : /\ t < TOTAL_WORKERS
                        /\ <<id, authorized_workers[t]>> \in DOMAIN partials} |->
      partials[<<id, authorized_workers[s]>>]]

\* The value finalize_request stores: the attestations of the workers that
\* have one, in the order of authorized_workers.  The concatenation is kept as
\* a function from worker slots; an account that fills two slots is in it twice.
Combined(id, partials) ==
  [s \in {t \in Slots : <<id, authorized_workers[t]>> \in DOMAIN partials} |->
      partials[<<id, authorized_workers[s]>>]]

\* Mutant: the counter runs past its largest value.
MutUnboundedCount == count + 1

\* count.saturating_add(1)
NextCount == IF count < COUNT_MAX THEN count + 1 ELSE count

\* Mutant: the duplicate check of add is missing.
MutAlwaysNew(id) == TRUE

\* The check of add; an id that is present gives RequestAlreadyExists.
IsNewRequest(id) == id \notin DOMAIN requests

\* Mutant: a worker may attest the same request again.
MutAttestAgain(caller, id) ==
  /\ IsWorker(caller)
  /\ id \in DOMAIN requests
  /\ id \notin DOMAIN fulfilled_attestations

\* Mutant: anyone may attest.
MutAttestAnyone(caller, id) ==
  /\ id \in DOMAIN requests
  /\ id \notin DOMAIN fulfilled_attestations
  /\ <<id, caller>> \notin DOMAIN partial_attestations

\* Mutant: a fulfilled request still takes attestations.
MutAttestFulfilled(caller, id) ==
  /\ IsWorker(caller)
  /\ id \in DOMAIN requests
  /\ <<id, caller>> \notin DOMAIN partial_attestations

\* The checks of submit_partial_attestation, in the order the code makes them.
MayAttest(caller, id) ==
  /\ IsWorker(caller)                           \* else Unauthorized
  /\ id \in DOMAIN requests                     \* else RequestNotFound
  /\ id \notin DOMAIN fulfilled_attestations    \* else AlreadyFulfilled
  /\ <<id, caller>> \notin DOMAIN partial_attestations  \* else AlreadyAttested

\* read_all: the stored requests in the order of request_ids.
read_all == [i \in 1..Len(request_ids) |-> requests[request_ids[i]]]

(***************************************************************************)
(* The constructor and the messages.                                       *)
(***************************************************************************)

\* new(workers) asserts the number of workers, not that they are distinct.
PoolInit ==
  /\ requests = EmptyMapping
  /\ request_ids = << >>
  /\ partial_attestations = EmptyMapping
  /\ attestation_counts = EmptyMapping
  /\ fulfilled_attestations = EmptyMapping
  /\ authorized_workers \in [Slots -> Accounts]
  /\ count = 0

add(r) ==
  LET id == hash_request(r) IN
  /\ IsNewRequest(id)
  /\ requests' = Insert(requests, id, r)
  /\ request_ids' = Append(request_ids, id)
  /\ count' = NextCount
  /\ UNCHANGED <<partial_attestations, attestation_counts,
                 fulfilled_attestations, authorized_workers>>

finalize_request(id, partials) ==
  fulfilled_attestations' =
    Insert(fulfilled_attestations, id, Combined(id, partials))

submit_partial_attestation(caller, id, attestation) ==
  LET partials  == Insert(partial_attestations, <<id, caller>>, attestation)
      new_count == get_attestation_count(id) + 1
  IN
  /\ MayAttest(caller, id)
  /\ partial_attestations' = partials
  /\ attestation_counts' = Insert(attestation_counts, id, new_count)
  /\ IF new_count >= THRESHOLD
     THEN finalize_request(id, partials)
     ELSE UNCHANGED fulfilled_attestations
  /\ UNCHANGED <<requests, request_ids, authorized_workers, count>>

PoolNext ==
  \/ \E r \in Requests : add(r)
  \/ \E caller \in Accounts, id \in DOMAIN requests, a \in Attestations :
        submit_partial_attestation(caller, id, a)

PoolSpec == PoolInit /\ [][PoolNext]_pool_vars

(***************************************************************************)
(* Properties.                                                             *)
(***************************************************************************)

\* The accounts whose attestation for id the contract stores.
Attesters(id) == {w \in Accounts : <<id, w>> \in DOMAIN partial_attestations}

\* What the storage fields hold.
PoolTypeOK ==
  /\ DOMAIN requests \subseteq Ids
  /\ \A id \in DOMAIN requests : requests[id] \in Requests
  /\ request_ids \in Seq(Ids)
  /\ DOMAIN partial_attestations \subseteq Ids \X Accounts
  /\ \A k \in DOMAIN partial_attestations :
        partial_attestations[k] \in Attestations
  /\ DOMAIN attestation_counts \subseteq Ids
  /\ \A id \in DOMAIN attestation_counts : attestation_counts[id] \in Nat
  /\ DOMAIN fulfilled_attestations \subseteq Ids
  /\ authorized_workers \in [Slots -> Accounts]
  /\ count \in 0..COUNT_MAX

\* request_ids lists every key of requests exactly once, each request is stored
\* under its own id, and count() is the length of that list until the counter
\* saturates: read_all neither repeats nor misses a request that was added.
IndexConsistent ==
  /\ {request_ids[i] : i \in 1..Len(request_ids)} = DOMAIN requests
  /\ \A i, j \in 1..Len(request_ids) :
        request_ids[i] = request_ids[j] => i = j
  /\ \A id \in DOMAIN requests : hash_request(requests[id]) = id
  /\ count = IF Len(request_ids) < COUNT_MAX
             THEN Len(request_ids) ELSE COUNT_MAX

\* The tally kept beside the attestations is exact: it counts the distinct
\* authorized workers that attested, and only for requests that exist.
TallyExact ==
  /\ \A k \in DOMAIN partial_attestations :
        k[1] \in DOMAIN requests /\ IsWorker(k[2])
  /\ DOMAIN attestation_counts \subseteq DOMAIN requests
  /\ \A id \in DOMAIN requests :
        /\ IsFiniteSet(Attesters(id))
        /\ get_attestation_count(id) = Cardinality(Attesters(id))

\* A request is fulfilled exactly when THRESHOLD distinct workers attested it,
\* and from then on no attestation is accepted: the tally never passes it.
FulfilledAtThreshold ==
  /\ DOMAIN fulfilled_attestations \subseteq DOMAIN requests
  /\ \A id \in DOMAIN requests :
        /\ Cardinality(Attesters(id)) <= THRESHOLD
        /\ id \in DOMAIN fulfilled_attestations
              <=> Cardinality(Attesters(id)) = THRESHOLD

\* The combined attestation of a fulfilled request is made of the attestations
\* stored for it, all of them and nothing else, each by the worker who sent it.
CombinedFromAttesters ==
  \A id \in DOMAIN fulfilled_attestations :
    LET combined == fulfilled_attestations[id] IN
    /\ DOMAIN combined =
         {s \in Slots : authorized_workers[s] \in Attesters(id)}
    /\ \A s \in DOMAIN combined :
         combined[s] = partial_attestations[<<id, authorized_workers[s]>>]

\* No message removes or changes a request, an attestation or a combined
\* attestation that is stored, and request_ids only grows at its end.
StoredForever ==
  [][/\ Extends(requests, requests')
     /\ Extends(partial_attestations, partial_attestations')
     /\ Extends(fulfilled_attestations, fulfilled_attestations')
     /\ Extends(request_ids, request_ids')]_pool_vars

(***************************************************************************)
(* The contract as a board of work items (WorkBoard): the crew are the     *)
(* accounts in the worker list, an item's statements are the attestations  *)
(* stored under its id, and what settles it is read off the combination.   *)
(***************************************************************************)
StatementsFor(id) ==
  [w \in Attesters(id) |-> partial_attestations[<<id, w>>]]

SettledBy(id) ==
  {<<authorized_workers[s], fulfilled_attestations[id][s]>> :
     s \in DOMAIN fulfilled_attestations[id]}

Board == INSTANCE WorkBoard WITH
  Items <- {hash_request(r) : r \in Requests},
  Members <- Accounts,
  Statements <- Attestations,
  QUORUM <- THRESHOLD,
  crew <- {authorized_workers[s] : s \in Slots},
  said <- [id \in DOMAIN requests |-> StatementsFor(id)],
  settled <- [id \in DOMAIN fulfilled_attestations |-> SettledBy(id)]

\* The contract is such a board: its tally, its two mappings of attestations and
\* the order of its checks (add, submit_partial_attestation, finalize_request)
\* come to one statement per authorized worker and a settlement, at once and for
\* good, by the statement that completes the threshold.
ImplementsBoard == Board!Spec
==============================================================================
