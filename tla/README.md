# Fangorn: TLA+ models, model checking and proofs

Fangorn is a network for intent-bound data. A file is encrypted to the network
and registered on a chain together with a predicate; whoever presents a witness
for the predicate gets partial decryptions from the network's nodes. This
directory models the parts of the repository that carry that logic, checks them
with TLC on small instances and proves the main results with TLAPS for every
value of the constants.

Paths below are relative to the repository root.

## 1. The system

| Part | State it keeps | Operations | Works with |
|---|---|---|---|
| Request pool contract, `contract/pool/lib.rs` | requests by id, list of ids, attestations by (id, worker), tally, combined attestations, worker list, counter | `new`, `add`, `read_all`, `count`, `submit_partial_attestation`, `get_attestation`, `get_attestation_count` | posted to by clients, polled and attested by nodes |
| Predicate registry contract (IRIS), `contract/predicate-registry/lib.rs` | filename -> (cid, predicate), list of filenames | `register_predicate`, `read`, `read_all`, `remove_predicate` | written by encryptors, read by nodes and clients |
| Pool watcher, `fangorn/src/pool/watcher.rs` | the ids it has seen | `watch`: poll, filter, send | reads the pool contract, feeds the worker's channel |
| Decryption worker, `fangorn/src/node/service.rs` | the request at work | `process_decryption_request`: look up, verify, fetch, decrypt, deliver, attest | both contracts, the document store, the client's endpoint |
| Start-up and key synchronisation, `fangorn/src/node/service.rs`, `node.rs`, `types.rs` | config, hints, replica of a shared document, system keys in a file and in the document | `build_full_service` and the tasks it starts | the other nodes through iroh-docs |
| Gadgets, `fangorn/src/gadget` | a map from intent type to gadget | parse an intent string, verify witnesses | called by worker and encryptor |
| Stores and backends, `fangorn/src/storage`, `fangorn/src/backend` | none of their own | contract calls, document reads and writes | chain, iroh |
| Clients, `fangorn/src/crypto/{encrypt,decrypt,cipher}.rs`, `fangorn/src/client` | the partial decryptions that came in | `handle_encrypt`, `handle_decrypt`, the handler for partial decryptions | both contracts, the document, the nodes |
| Key vaults, `fangorn/src/crypto/keyvault.rs` | entries of a keystore directory, by name | generate, read, sign | every process on the directory: nodes, `quickbeam`, `roots` |
| Terminal front end, `entmoot/src` | the screen, two menus, three intent flags, a file path, four text fields and two selections, all in one `App` | one handler per screen, `handle_encrypt_*`, `prepare_witness_string` | the keystore, the clients' calls, the registry |
| Command lines `quickbeam`, `roots`; web page `ui` | none | call the above | |

The parts run concurrently. A node has a task for the watcher, one for the
worker, one that listens to the document, one that applies announcements to its
state and, on the bootstrap node, one that republishes the system keys. They
share channels, two locks and the contracts, and every call to the chain, to the
document or to a peer is an await during which the rest of the system moves on.
Errors are handled with `?`, `unwrap` and `expect`, so what an error ends (a
request, a task or the process) depends on where it happens.

What is hard here, and what makes each part correct:

* **Pool contract**: a tally, a set of attestations and a fulfilled flag that
  must agree under any order of callers; an index that must match the map.
* **Registry**: a list kept with `swap_remove` beside a map; entries may go
  away and come back but never change in place.
* **Watcher and worker**: nothing passed over, nothing served twice, in spite of
  re-reading the whole list; a registry that changes between look-up and
  delivery; panics that end the worker while the watcher lives; peers that do
  not answer; crashes that lose everything in memory.
* **Key synchronisation**: keys that include every hint the bootstrap node has,
  although hints arrive while keys are made and publishing fails half-way;
  start-up steps ordered by nothing but sleeps; entries lost or early.
* **Key vaults**: keys written anew at each start and read back at each use from
  a directory that other processes write to; a hint, an account and an endpoint
  that were made of what was there before.
* **Clients and gadgets**: two strings cut up by different rules that must come
  out as the lists the user meant; two commands that race for a filename and may
  fail between storing and registering; signatures over a nonce that the request
  itself uses up.
* **Terminal front end**: fields, flags and selections that outlive a dialogue
  and are reset in several places, each of which leaves something out; an
  intent string and a witness string put together in different files, that must
  name the same things in the same order.

The hazards, each at its line and with the properties that cover it, are listed
in `PROJECT.json`.

## 2. Modules

| Module | Models |
|---|---|
| `Mapping` | ink's storage `Mapping` (external) as a function with a domain |
| `RequestPool` | the pool contract |
| `WorkBoard` | abstract: what the pool promises, which `RequestPool` implements |
| `PredicateRegistry` | the registry contract |
| `DecryptionService` | watcher and worker of every node; EXTENDS both contracts and composes their actions with its own |
| `ServiceDesk` | abstract: what the nodes promise those who post requests, which `DecryptionService` implements |
| `KeySync` | start-up, document, announcements, system keys |
| `KeyVault` | the processes that share a keystore, and `roots keygen` |
| `Intents` | operators: intent and witness strings, the three gadgets, `verify_intents` |
| `Client` | `quickbeam encrypt` and `decrypt` and the node's verdict; EXTENDS `Intents` and the registry contract |
| `Screens` | the screens of `entmoot`, a key at a time |
| `Entmoot` | `entmoot` as a client of the registry; EXTENDS `Screens`, `Intents` and the registry contract |
| `MCRequestPool`, `MCDecryptionService`, `MCKeySync`, `MCKeyVault`, `MCClient`, `MCEntmoot` | small instances for TLC |
| `RequestPoolProofs`, `PredicateRegistryProofs`, `DecryptionServiceProofs`, `KeySyncProofs`, `KeyVaultProofs`, `IntentsProofs`, `ClientProofs`, `EntmootProofs` | theorems |

### RequestPool and PredicateRegistry

One variable per storage field, one action per message that writes. A message
that returns `Err` is reverted by the chain, so it is a stuttering step and only
successful calls are actions; their guards are the code's checks. The id of a
request is the concatenation of its three fields, as the code builds the input
of its hash; the hash itself is taken to be injective. That keeps the one
collision the code does have: two different requests whose fields concatenate to
the same bytes. The combined attestation, a concatenation in the code, is kept
as a function from worker slots, which loses nothing the properties speak of.
`THRESHOLD` (1), `TOTAL_WORKERS` (2) and the counter's largest value (2^64 - 1)
are constants. Events are left out.

`WorkBoard` is the promise without the bookkeeping: an item is posted once, each
member of a fixed crew makes at most one statement on it while it is open, and
the step in which the QUORUM-th does so settles it, with just the statements
made. The contract keeps this in six stores (ids, requests, attestations by id
and worker, tally, combined attestation, worker list). The refinement mapping
(`Board` in `RequestPool`) reads the statements on a request out of the
attestations, and what settled it out of the combined one; the list of ids, the
counter and the tally have no counterpart. `add` maps to `Post`,
`submit_partial_attestation` with its `finalize_request` to `Speak`.

### DecryptionService

There is one action per await, so that all else may happen in between.

| Action | Code |
|---|---|
| `WatcherRead`, `WatcherReadFails` | `pool.read_all().await?` |
| `WatcherSend` | one turn of `for req in requests`: `seen.insert`, `tx.send(..)?` |
| `WatcherSleep` | end of the batch, sleep |
| `WorkerRecv`, `WorkerExit` | `rx.recv_async()`, `hex::decode(..).unwrap()`; the channel is closed |
| `WorkerGetIntent` | `get_intent(..).await.expect(..).expect(..)` |
| `WorkerVerify` | `verify_intents`, by its outcome |
| `WorkerFetch` | `doc_store.fetch(&cid).await.unwrap()`, partial decryption |
| `WorkerConnect` | parse the location (`unwrap`), `connect` |
| `WorkerDeliver` | `open_bi`, `write_all`, `finish`; the handler puts the message into the client's channel |
| `WorkerEcho`, `WorkerEchoFails` | `read_to_end`, compare |
| `WorkerAttest` | `submit_partial_attestation(..).await.unwrap()` |
| `Restart` | the process ends at any point and is started again |
| `PostRequest`, `RegisterFile`, `RemoveFile` | the contracts' users |

`Panic` ends the worker and drops its end of the channel; the watcher notices at
its next send. A witness is a value that decodes as hex or not, and
`Verdict[<<witness, predicate>>]` gives what `verify_intents` does with it:
`Ok(true)`, `Err` (also when a gadget says no) or a panic (number of witnesses).
The verdict is a constant, one outcome per pair, a panic or an error at a failing
query included; for the PSP22 and SR25519 gadgets it is the one at the time of
the check, since balances and nonces change (`Client` has the gadgets' checks). Requests come from any account: `request_decrypt`
always posts a hex witness and its own address, but the contract takes any bytes.

Who answers: `Handlers` are the addresses whose endpoint accepts the
partial-decryption protocol, and what they do is modelled from
`fangorn/src/client/node.rs`. At this commit the binaries build
`node::node::Node` instead, whose router has the handler commented out
(`fangorn/src/node/node.rs:126`) and whose sender is dropped (line 122), so in a
network of these binaries `Handlers` is empty and `WorkerConnect` always
returns. The runs use a client that has the handler, and one that is silent.

History variables: `delivered`, `acked` and `registered` record what happened
and guard nothing.

`ServiceDesk` is what is left of this for somebody who posted a request. Items
stand in one line that only grows; each clerk goes through it from its
beginning, has one item open at a time, gives it at most one answer, one that
fits, and does not come back to it unless its desk is closed and opened anew. The
refinement mapping (`Desk` in `DecryptionService`) takes `read_all` for the line,
the number of requests taken for the clerk's place, and the await at which the
worker stands for the state of the desk; watcher, batch, seen set and channel
have no counterpart. `WorkerRecv` maps to `Open`, `WorkerDeliver` to `Give`, every
return of `process_decryption_request` to `Finish`, a panic to `Close`, a restart
to `OpenAnew`. An answer fits if the witness of the request satisfies a
predicate that goes with the ciphertext it decrypts (`Fits`); that the two were
registered together is `ServedOnlyIfVerified`.

### KeySync

`phase[n]` is where `build_full_service` stands: `config`, `hints`, `publish`,
`keys` (bootstrap only), `up`, or `failed` after an unwrap. `replica`, `events`
and `chan` are a node's copy of the document, the `InsertRemote` events it has
not handled and the announcements its state task has not applied. A hint is
`<<node, start>>`: each start makes a new key. The updater is the small machine
`sleep -> publish -> write -> sleep`, since it counts the hints under one lock,
takes them under another and writes after releasing that. `write` may succeed,
fail before anything is written, fail after the file is, or panic, which ends
the task.

Sleeps order nothing, so each step may come before what it waits for; the node
then fails as the code would. Replication is external: each entry reaches each
replica at most once, in any order, and raises an event if it comes after
`subscribe`. Only the bootstrap node reads the hints it collects, so other nodes'
hints are left out of the state (`Matters`). A restart of the bootstrap node
creates a new document and so another network; it is not modelled.

### KeyVault

`vault` maps the names of the keystore to entries: how often the name was
written, and the password of the key. A key is the name and the number of the
write that made it. `pc[p]` is where `Node::build`, `PolkadotSigner::new` and
`publish_node_hint` stand in a process, with one action per call of a vault;
`mem[p]` is what the process remembers of what it read, and the keys it has used
since. A read that fails meets an `unwrap`: it ends the process at start-up and
in a client, and the worker task in a node.

rust_vault is external; assumed is that a store overwrites the name and that a
read fails for a missing name and for another password. Its I/O errors are left
out. A vault password that is wrong or not given makes a process panic before it
writes anything, so such a process takes no step. The user-chosen sr25519 names
are taken to differ from the generated names of iroh and STE keys. A process may
be stopped and started again at any point. `roots inspect`, `sign` and `verify`
only read.

Each property has two parts. The first holds of every process: what it uses is
the key it told others or one that the keystore has held under the same name
since (`HeldSince`), and a worker dies of a key only after that was written over.
The second says that nothing is written over under two disciplines, which are
spelled out there and not built into the model: *Alone* (no other command line
on the keystore has this index) and *Kept* (`roots keygen` does not write the
name while it is in use). The code enforces neither: `quickbeam` always uses
index 2 or 3. The run contains a node that shares its index with it and a name
that is rotated, so the collisions do happen in it, only the first part speaks
of them, and what they cost is what the code does: another key is used, or the
worker is dead.

### Intents and Client

A text is a sequence of tokens: the separators the code looks for, the type
names, and words in between. `Intents` has the code's steps as operators, with
`ParsesOk` for `Ok` and the value apart. A hash stands for what was hashed; a
word may be known to be a number, an address, a public key, or a public key with
a signature on a nonce. `decode_public_key` and `decode_contract_addr` return
zeroes for what they cannot decode, as in the code.

In `Client` a user means a list of intents and types it (`Typing`, which also
forgets the last parenthesis at times); an encrypt command parses, adds the
ciphertext to its own replica, and registers. A write to the chain may take
effect and be reported, take effect and not be reported, be reverted, or not
happen. `Replicate` (external) brings the ciphertext to the nodes while the
command still runs, as its replica is in memory. A decrypt command posts its
request, or fails to and does not notice, and then panics: the channel it waits
on has no sender at this commit (`fangorn/src/node/node.rs:122`).

`Serve` is what `process_decryption_request` may come to, up to the partial
decryption, with the gadgets' real checks. Its calls may each fail, and `answers`
records which did:

| Outcome | Code, `fangorn/src/node/service.rs` |
|---|---|
| `lookup_panics` | `get_intent` returns an error: the first `expect`, 581 |
| `no_intent` | nothing is registered: the second `expect`, 582 |
| `verify_panics` | `verify_intents` panics: a wrong number of witnesses, a signature that is not hex, or a failing query of the nonce (`gadget/sr25519.rs:57`) |
| `refused` | `verify_intents` returns an error: a gadget says no, or the query of the balance fails |
| `unavailable` | the node does not have the ciphertext |
| `fetch_panics` | `fetch` fails, or the ciphertext is not decoded or decrypted: the `unwrap`s at 587-594 |
| `served` | a partial decryption is made |

So a witness that is right may still meet a panic, and the properties do not deny
it: they say what the verification makes of the witness, in terms of the outcomes
past it (`Granted`) and those that end in it (`Denied`). `Verifications` has all
that `verify_intents` may come to when the chain does not answer a gadget's query;
for passwords, which need no query, it is the verdict alone. The awaits are one by
one in `DecryptionService`, where the constant `Verdict` stands for the outcome of
the verification at the time of the check. Nobody removes a file here;
`DecryptionService` has that. Transactions of the accounts other than those of the
commands, and changes of balances, are left out.

### Screens and Entmoot

`entmoot/src/main.rs` has an unresolved merge in its imports and its struct, and
the program calls signatures that `fangorn` no longer has, so it does not build
at this commit. What is modelled is what both sides of the merge have: `App`,
the loop of `run` and the six screens.

`Screens` has a variable per field of `App` and an action per key and outcome.
`run` awaits each handler, so a key is handled to the end before the next is
read, and an action is the whole handler with its cleanup. `input` holds the
texts as sequences of keys, `look` how a field is drawn: active, inactive or
marked as an error. `TextArea::input` is external: a key at the end, or the last
one deleted. What the calls into `fangorn` do is left open here: they return, or
they panic and end the program (`CallPanics`). `chosen` is a history variable,
the file picked since the main menu. Errors of the terminal (`draw`, `poll`,
`read`) end the program like `Quit` and are left out, as are the file explorer's
cursor and the titles.

`Entmoot` says what the submissions do. `IntentText` is the intent string of
`handle_encrypt_all`, `_psp22` and `_password`, `WitnessParts` the seven branches
of `prepare_witness_string`; `ParsesOk`, `ParseIntents`, `Witnesses` and
`VerifyIntents` are those of `Intents`, and the registry is the contract of
`PredicateRegistry`. A file is a directory and a name: the handlers pass on the
name alone, which is then read in the current directory. A registration may take
effect and the program panic all the same. Others may remove files. `locked` is a
history variable, the marks and the texts a file was registered with. The
decryption itself changes neither the screens nor the registry beyond the
cleanup; `OpensWhatItLocked` judges the string it would send.

## 3. Runs

| Run | Instance | Shows |
|---|---|---|
| `pool` | 2-of-3, 4 accounts, 3 requests (two with one id), counter bound 1; 48 904 states | `PoolTypeOK`, `IndexConsistent`, `TallyExact`, `FulfilledAtThreshold`, `CombinedFromAttesters`, `StoredForever`, `ImplementsBoard` |
| `registry` | 4 filenames, 2 entries; 633 states | `ListsRegistered`, `EntryNotOverwritten` |
| `service` | 1 node, 3 requests (served or refused; silent peer or panic; not hex), 1 file with 2 possible entries, 1 crash; 60 974 states | `TypeOK`, `TakenInOrder`, `ServedOnlyIfVerified`, `TakenUnlessBlocked`, `ImplementsDesk` |
| `attestation` | 2 nodes, 1 request | violation of `AckedThenAttested` |
| `keysync_safety` | 3 nodes, 1 start each, 1 publishing error; 1 242 839 states | `TypeOK`, `KeysCurrent`, `HintsOnce` |
| `keysync_live` | 2 nodes, 2 starts, 1 error; 90 943 states | `HintGetsIntoKeys` |
| `key_index` | 2 nodes with indices 0 and 2 | violation of `LoadsHintsWhenSynced` |
| `key_restart` | 2 nodes, 2 starts | violation of `KeysFromCurrentHints` |
| `vault` | 2 nodes and 2 clients, three of them with one index, 2 passwords, each name written at most twice; 1 528 068 states | `TypeOK`, `PartialsMatchHint`, `WorkerSurvives`, `AnnouncesItsEndpoint`, `SignsForItsAccount` |
| `client` | 2 encryptors for one file, 22 lists of intents in 3 layouts, 1 decryptor with 13 witness strings; 1 778 016 states | `TypeOK`, `RegisteredAsMeant`, `ServedOnlyForPasswords`, `PasswordsNeverRefused` |
| `signed_nonce` | 1 encryptor with `Sr25519()`, 1 decryptor | violation of `LatestNonceAccepted` |
| `entmoot` | 2 files of one name, 4 keys, 1 key per text and 2 per number, any number of dialogues; 984 060 states | `ScreensTypeOK`, `NothingLeftBehind`, `FileJustChosen`, `FocusShown`, `RegisteredAsMarked`, `OpensWhatItLocked` |

Why the bounds are enough for what they are to show. *pool*: a threshold between
1 and the number of workers, a caller that is no worker, constructors that name
an account twice, and a counter that saturates with requests still coming. 
*registry*: four filenames give removals from the front, the middle and the end
of a list. *service*: nodes share nothing but the contracts, which no node
changes, so one node shows what any number can do; each request of the instance
makes the worker end somewhere else, and one file with two entries is what a
change of the registry during a request needs. *keysync*: with three nodes the
updater sees two hints come in one after the other, before, while and after it
publishes, and one error lets each attempt fail. *vault*: a key in use is the
first write and a key that replaces it the second; a node alone on its index, a
node that is not, and clients with its password and with another are the kinds
of process. *client*: the
passwords are one for each way in which a parenthesis, a blank, a comma or a
delimiter can be in one (in front, behind, alone, in pairs, the wrong way round,
around content); pairs of passwords add the glue between intents, and the empty
password what an open parenthesis leaves of one; the other types appear right and
with each error their gadget knows; the witness strings have a match for the
passwords that can be passed on, and some that match none. The second encryptor
is there for the race. *entmoot*: the program may go through
any number of dialogues, each left anywhere, so what one leaves behind meets
every other; a key may be a name, a password, the token's address, a digit or a
comma, and two digits give a leading zero and an overflow.
The proofs lift the bounds for
the safety properties; liveness has only the runs.

Deadlock is not checked where the system may stop: all requests are posted and
attested (`pool`), every node has failed or has nothing left to do (the
KeySync runs), all commands have ended (`vault`, `client`), or
the program has (`entmoot`).

Each property of a passing run has a mutant, an operator `Mut...` beside the
definition it changes, with which TLC finds the property violated.

### Fairness

`service`: weak fairness of each node's watcher and of its worker. The
runtime polls every task that is ready, and a call to chain or peer ends with an
answer or an error. Not fair: users, crashes, broken connections
(`WorkerEchoFails`), and the answer of a silent handler, since nothing bounds
`read_to_end`; so the property has to except a worker that waits for ever.

`keysync_live`: weak fairness of the publisher, of the task that applies
announcements, and of start-up. Publishing errors and panics are not fair.
Replication and the handling of events are not fair either: the property starts
where a hint has reached the bootstrap node's channel.

### Findings

1. `attestation`: the worker's attestation names the message
   `submit_partial_decryption` (`fangorn/src/pool/contract_pool.rs:97`), which
   the contract does not have. The call fails and the `unwrap` at
   `fangorn/src/node/service.rs:627` ends the worker task, after the first
   request that is served and acknowledged.
2. `key_index`: `docs/setup.md` starts the second peer with `--index 2`;
   `load_previous_hints` then reads key `"1"`, which does not exist, and panics.
3. `key_restart`: system keys are said to be made "from all current hints", and
   hold a restarted node's old hint as well.
4. `signed_nonce`: the gadgets' README says to "first sign the latest nonce" for
   `Sr25519()`. The nonce is read again at verification, after the request was
   posted; if the account that signs also posts, its latest nonce has been used
   up and it is refused. The nonce to sign is the one after.

Found on the way and modelled as it is, with no run of its own: `roots keygen`
for an sr25519 key without `--print-mnemonic` always panics
(`fangorn/src/crypto/keyvault.rs:178`); an intent string whose parenthesis is
not closed parses with empty data (`fangorn/src/gadget/mod.rs:177`), so a file
meant to be locked with a password opens to the empty one (`LeftOf` in `Client`);
`handle_decrypt` always ends in a panic (`fangorn/src/crypto/cipher.rs:176`).
`entmoot` keeps the whole path of the chosen file and passes on its name alone
(`entmoot/src/menus/encryption/encryption_screen.rs:244-262`): for a file outside
the current directory it encrypts the file of that name in the current directory,
or panics if there is none. Its flags do survive the cleanups
(`decrypt_screen.rs:254`, `encryption_screen.rs:169`) and its file path survives
Esc (`intents_screen.rs:19`); both are set again on every way to where they are
used, which is what the run and the proofs show.

## 4. Proofs

All by TLAPS, from the assumptions the modules name, which TLC evaluates on the
instances. `RequestsAssumption`, `ThresholdAssumption`, `TotalWorkersAssumption`,
`CountMaxAssumption`, `NodeConstants`, `NetworkAssumption`, `VaultAssumption`,
`ScreensAssumption`, `IntentConstants`, `ClientConstants` and
`EntmootConstants` say what kind of thing a constant is. Two say a little more:

* `ClientTexts`: what is typed is a sequence of tokens, and the type a user has
  in mind is one word and no separator. Nothing is assumed of the data: it may
  have parentheses, commas, blanks and delimiters in it.
* `NumeralConstants`: the digits of a token count are one word to the parser,
  which is no separator, and if it does not begin with a zero it is not the
  number zero. It need not be a number at all (it may overflow).

* **RequestPoolProofs**. `PoolTypeCorrect`, `PoolIndex`, `PoolTally`,
  `PoolThreshold`, `PoolCombined`: each invariant of the run, from
  `PoolInvariant`, their conjunction, which is inductive as a whole. None is
  alone: the threshold needs the tally to be exact, the tally needs the guard
  that an attester is not counted again, and the combination needs that no
  attestation follows fulfilment. `PoolStoredForever` is the action property.
  `PoolImplementsBoard` is the refinement, from the same invariant: a tally that
  is exact is what makes the contract settle at the step the board does.
* **PredicateRegistryProofs**. `RegistryLists` from `RegistryInvariant` (types
  and the agreement of list and map; distinctness is what makes `swap_remove`
  remove the right filename), and `RegistryNotOverwritten`.
* **DecryptionServiceProofs**. `ServiceUsesContracts`: the service's
  specification implements both contracts', so their theorems carry over.
  `ServiceTypeCorrect`, and `ServiceKeepsBoard`: the refinement holds in the
  composed system.
  `ServiceTakesInOrder`, from an invariant that also
  says where in the list the watcher's batch stands: the batch is a beginning of
  the contract's list, and what was taken and queued is a beginning of the list
  that reaches at least to the watcher's place in the batch, and no further than
  what was seen. `ServiceServesOnlyVerified`, from an invariant that says what
  the worker knows at each await: the entry in its hand was registered under the
  request's filename and, past the verification, accepts its witness.
  `ServiceImplementsDesk` is the refinement, step by step, from the two invariants
  and one more (`HexInHand`, the witness of the request at work was decoded): the
  order makes the head of the channel the next item of the line, although the
  channel was filled from an older copy of it, and what the worker knows makes its
  answer fit.
* **KeySyncProofs**. `KeySyncTypeCorrect`; `KeySyncCurrent` from `KeysInv`: what
  was counted is covered by the hints that are then taken, and what is
  remembered as counted is covered by the keys in the document.
  `KeySyncHintsOnce` from `OnceInv`: a hint on its way is an event, then in the
  channel, then in the state, in one of them only and only once, and its entry is
  in the replica by then, so that it cannot arrive again; the bootstrap node's
  own hint enters at the channel and is in nobody's document before. `HintsOnce`
  alone says nothing of what is still on its way.
* **KeyVaultProofs**. `VaultTypeCorrect`, `VaultPartialsMatchHint`,
  `VaultWorkerSurvives`, `VaultAnnouncesItsEndpoint`, `VaultSignsForItsAccount`,
  for any processes, passwords and writes. The inductive invariant (`IInv`)
  says of each of a process's three keys, at each step of the process: what it
  told others is a key that the keystore has held under that name, what it used
  was held since, and if the keystore still holds what was told, it does so under
  the process's password (`Faithful`); a dead worker has had a key written over
  (`DeadInv`); and with *Alone* and *Kept* the key told is still there. The first
  part is kept by every writer, since a step either leaves an entry or raises its
  generation by one (`VaultGrows`, `ToldGrows`); the password is what turns a
  failed read into a key that was written over (`ToldReadable`). The properties
  speak only of what was used, and are not inductive without this.
* **IntentsProofs**. What cutting and joining do to a text of any length. The
  operators on texts are functions over the indices of the text, and the library's
  induction theorems cannot be instantiated here, so induction is proved once as
  a fact about sets of numbers (`NatInd`, from the library's well-founded order on
  the naturals: a set without some number has a least one it is without) and
  from it for sets of texts (`AppendInd`); each lemma then shows that the
  set of indices or texts it holds for is closed. The steps are: `split` of a
  `join` gives the pieces back if no piece has the separator and the glue has it
  once (`PiecesOfJoin`); `trim` undoes the blanks; if the data survives
  (`Survives`: parentheses match in it and no delimiter is in it), the parenthesis
  that closes the intent is the one the parser stops at. `ParsedAsMeant`:
  `parse_intents` gives the statements of just the intents named, in their order,
  however many and whatever blanks are around them. `AcceptedAsMeant`: it accepts
  just the strings whose types have a gadget and whose data that gadget can read.
  For a string whose last parenthesis is left open (`IsOpenTextOf`), depth never
  gets back to 0 behind it, so `parse_intents` makes the statements of the intents
  named with the data of the last one lost (`ParsedTexts`). `PasswordsOnly`:
  passwords need no query, so the only outcome of their verification is the
  verdict.
* **ClientProofs**. `ClientInvariant` is inductive and says what a command holds
  past the parser: its predicate is what `parse_intents` made of a string it was
  given, closed or not, it added its ciphertext before it registers, an entry was
  put together by a command that has ended, and a request has answers only once it
  is in the pool. `ClientTypeOK` and `ClientRegisteredAsMeant` follow from it and
  `ParsedAsMeant`, for any number of commands that race for any filenames.
  `ServedOnlyForPasswords` and `PasswordsNeverRefused` are both consequences of
  one stronger fact, `PasswordsDecide` (`ClientPasswordsDecide`): for a file
  locked with passwords, if the pieces of the witness string are just the
  passwords, no answer is in `Denied` (verify_intents refuses or panics), and if
  they are not, none is in `Granted`. The other answers, a failing look-up and a
  missing entry, come before the verification and are possible either way, as is
  `fetch_panics` behind one that went well. It is inductive relative to `ClientInvariant` since an entry never
  changes and the text of a posted request does not either. From there the first
  is that cutting at commas and trimming loses blanks only, and the second that
  passwords without commas and blanks at their ends come back from `split` as
  they were.
* **EntmootProofs**. `ScreensTypeCorrect`, `ScreensLeaveNothing`,
  `ScreensFileChosen`, `ScreensFocus`, for any files, keys and lengths of text.
  The inductive invariant adds what the way to a screen leaves behind: no intent
  is marked before the intents screen, the layout of an input screen has a field,
  the selection is one of its fields, and the other screen's selection is 0. The
  focus alone is not inductive, as Tab counts by the flags of the moment.
  `EntmootUsesScreens`: every behaviour of `Entmoot` is one of `Screens`, so these
  carry over (`EntmootKeepsScreens`). `EntmootRegisteredAsMarked` and
  `EntmootOpensWhatItLocked` come from `EntmootInvariant`, which adds to the
  invariant of the screens that a typed count never begins with a zero, that the
  flags of an input screen are the marks, and that each entry is what
  `parse_intents` made of the string for the marks and texts kept in `locked`.
  `prepare_witness_string` has a branch for every set of marks, so the second
  theorem goes through the marks one by one: each piece of its string satisfies
  the gadget of the intent at its place. The chain it is judged on is `Chain`, where
  the signed nonce is still the current one when a node verifies; posting the
  request from the same account breaks that, see finding 4.

  In the first theorem a file that is locked to token holders is
  excepted if the address typed has a parenthesis or a delimiter that the parser
  would cut it at: `0)` is such an address. The proof attempt
  without the exception failed at this case, and TLC with the key `)` agrees; the
  run's four keys had hidden it. A password with such a character was excepted
  from the start.

Every safety invariant and action property of the passing runs is a theorem.
Only model-checked: the liveness properties (`TakenUnlessBlocked`,
`HintGetsIntoKeys`), since the prover does not handle fairness or ENABLED, and the
violations, which are single behaviours of an instance. The modules use no
RECURSIVE operator, which the prover's SMT backend cannot take.

## 5. Not modelled

The cryptography (silent threshold encryption, hashing, signatures) is external
and taken as ideal. iroh's transport and gossip are the lossy replication of
`KeySync` and the fallible connection of `DecryptionService`. SCALE and JSON
encodings appear only as "decodes or not". Transactions are atomic; fees and
finality are left out, and nonces appear in `Client` only. The PSP22 token
contract, the web UI and the local document store are test material or plain
I/O; the drawing of entmoot's screens is left out but for which field is drawn
and looks active. `PROJECT.json` lists every part
with its status.

## 6. Plan

Done: contracts, service, key synchronisation, key vaults, intents, clients and
the terminal front end with their proofs; the abstract specifications of the
pool and of the service.
Next, in this order:

1. `Client` on top of `DecryptionService`, so that the verdict is taken at the
   await where the code takes it and files may be removed in between.
2. An abstract specification of the key synchronisation: hints come in, in any
   order, and the published keys are always those of a set of hints that came
   in, growing with every publication that succeeds.
