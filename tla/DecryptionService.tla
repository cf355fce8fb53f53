-------------------------- MODULE DecryptionService --------------------------
(***************************************************************************)
(* The nodes that serve decryption requests (fangorn/src/node/service.rs,  *)
(* fangorn/src/pool), on top of the two contracts.                         *)
(*                                                                         *)
(* Each node runs two tasks joined by an unbounded channel.  The watcher   *)
(* polls read_all of the pool contract and sends the requests it has not   *)
(* seen; the worker takes them one at a time, reads the registered intent, *)
(* verifies the witness, fetches the ciphertext, computes its partial      *)
(* decryption and delivers it to the location the request names.  There is *)
(* one action per await of those tasks, so that the contracts, the other   *)
(* task and the other nodes may act in between.                            *)
(*                                                                         *)
(* A panic (unwrap, expect, assert) ends the worker task and drops its end *)
(* of the channel; the watcher finds out when it next sends.               *)
(***************************************************************************)
EXTENDS RequestPool, PredicateRegistry

CONSTANTS
  Nodes,          \* the nodes
  HexWitnesses,   \* the values of witness_hex that hex::decode accepts
  Addresses,      \* the locations that parse as an endpoint address
  Handlers,       \* the addresses whose endpoint accepts PD_ALPN
  Silent,         \* the handlers that take the message and never answer
  Verdict,        \* <<witness_hex, predicate>> -> outcome of verify_intents:
                  \* "true" (all gadgets accept), "error" or "panic"
  NoEntry,        \* the value of entry before get_intent
  MaxRestarts     \* bound: how often one node may crash and be restarted

ASSUME NodeConstants ==
  /\ Silent \subseteq Handlers
  /\ Handlers \subseteq Addresses
  /\ MaxRestarts \in Nat

VARIABLES
  \* the watcher task: PollingWatcher::watch
  watcher,    \* what it does: "read", "send" or "ended"
  batch,      \* the result of read_all it iterates over
  pos,        \* the place of the next element of batch
  seen,       \* the requests whose id() is in its seen set
  \* the channel and the worker task
  queue,      \* the requests in the channel
  worker,     \* what it does: see WorkerStates
  taken,      \* the requests received from the channel; the last is at work
  entry,      \* what get_intent returned for the request at work
  \* what happened
  restarts,   \* how often the node was restarted
  delivered,  \* the partial decryptions handed to a client's channel
  acked,      \* <<node, request>> whose echo matched
  registered  \* every <<filename, entry>> that was ever registered

node_vars == <<watcher, batch, pos, seen, queue, worker, taken, entry>>
history_vars == <<restarts, delivered, acked, registered>>
vars == <<pool_vars, registry_vars, node_vars, history_vars>>

WorkerStates == {"recv", "intent", "verify", "fetch", "connect", "deliver",
                 "echo", "attest", "dead", "exited"}

\* The request the worker is processing.
Current(n) == taken[n][Len(taken[n])]

Alive(n) == worker[n] \notin {"dead", "exited"}

(***************************************************************************)
(* The contracts' users.                                                   *)
(***************************************************************************)

\* A client posts a request (DecryptionClient::request_decrypt).
PostRequest(r) ==
  /\ add(r)
  /\ UNCHANGED <<registry_vars, node_vars, history_vars>>

\* An encryptor registers a file (EncryptionClient::encrypt).
RegisterFile(f, e) ==
  /\ register_predicate(f, e)
  /\ registered' = registered \cup {<<f, e>>}
  /\ UNCHANGED <<pool_vars, node_vars, restarts, delivered, acked>>

RemoveFile(f) ==
  /\ remove_predicate(f)
  /\ UNCHANGED <<pool_vars, node_vars, history_vars>>

(***************************************************************************)
(* The watcher task.                                                       *)
(***************************************************************************)

\* pool.read_all().await
WatcherRead(n) ==
  /\ watcher[n] = "read"
  /\ watcher' = [watcher EXCEPT ![n] = "send"]
  /\ batch' = [batch EXCEPT ![n] = read_all]
  /\ pos' = [pos EXCEPT ![n] = 1]
  /\ UNCHANGED <<pool_vars, registry_vars, history_vars,
                 seen, queue, worker, taken, entry>>

\* read_all fails: the ? returns from watch, and nothing starts it again.
WatcherReadFails(n) ==
  /\ watcher[n] = "read"
  /\ watcher' = [watcher EXCEPT ![n] = "ended"]
  /\ UNCHANGED <<pool_vars, registry_vars, history_vars,
                 batch, pos, seen, queue, worker, taken, entry>>

\* Mutant: the seen set is not consulted.
MutAlwaysUnseen(n, r) == TRUE

\* seen.insert(req.id()) is true when the id was not in the set.
IsUnseen(n, r) == r \notin seen[n]

\* One turn of the loop over the batch.  A request that was not seen is marked
\* as seen and then sent; when the worker's end of the channel is gone the
\* send fails and the ? returns from watch.
WatcherSend(n) ==
  /\ watcher[n] = "send"
  /\ pos[n] <= Len(batch[n])
  /\ LET r == batch[n][pos[n]] IN
     /\ seen' = [seen EXCEPT ![n] = @ \cup {r}]
     /\ IF ~IsUnseen(n, r)
        THEN UNCHANGED <<queue, watcher>>
        ELSE IF Alive(n)
        THEN /\ queue' = [queue EXCEPT ![n] = Append(@, r)]
             /\ UNCHANGED watcher
        ELSE /\ watcher' = [watcher EXCEPT ![n] = "ended"]
             /\ UNCHANGED queue
  /\ pos' = [pos EXCEPT ![n] = @ + 1]
  /\ UNCHANGED <<pool_vars, registry_vars, history_vars,
                 batch, worker, taken, entry>>

\* The batch is done: sleep for the poll interval, then read again.
WatcherSleep(n) ==
  /\ watcher[n] = "send"
  /\ pos[n] > Len(batch[n])
  /\ watcher' = [watcher EXCEPT ![n] = "read"]
  /\ UNCHANGED <<pool_vars, registry_vars, history_vars,
                 batch, pos, seen, queue, worker, taken, entry>>

(***************************************************************************)
(* The worker task.                                                        *)
(***************************************************************************)

Goto(n, state) == worker' = [worker EXCEPT ![n] = state]

\* Mutant: the worker takes one request and leaves its loop.
MutReturnOnce(n) ==
  /\ Goto(n, "exited")
  /\ UNCHANGED <<queue, entry>>

\* process_decryption_request returns, Ok or Err: back to the channel.
Return(n) ==
  /\ Goto(n, "recv")
  /\ UNCHANGED <<queue, entry>>

\* The task panics: its end of the channel and what is queued in it are gone.
Panic(n) ==
  /\ Goto(n, "dead")
  /\ queue' = [queue EXCEPT ![n] = << >>]
  /\ UNCHANGED entry

Continue(n, state) ==
  /\ Goto(n, state)
  /\ UNCHANGED <<queue, entry>>

WorkerKeeps == <<pool_vars, registry_vars, watcher, batch, pos, seen,
                 restarts, registered>>

\* rx.recv_async() and hex::decode(witness_hex).unwrap()
WorkerRecv(n) ==
  /\ worker[n] = "recv"
  /\ queue[n] # << >>
  /\ LET r == Head(queue[n]) IN
     /\ taken' = [taken EXCEPT ![n] = Append(@, r)]
     /\ IF r.witness_hex \in HexWitnesses
        THEN /\ Goto(n, "intent")
             /\ queue' = [queue EXCEPT ![n] = Tail(@)]
             /\ UNCHANGED entry
        ELSE Panic(n)
  /\ UNCHANGED <<WorkerKeeps, delivered, acked>>

\* The watcher has returned and dropped the sender: recv_async fails once the
\* channel is empty, and the loop ends.
WorkerExit(n) ==
  /\ worker[n] = "recv"
  /\ queue[n] = << >>
  /\ watcher[n] = "ended"
  /\ Continue(n, "exited")
  /\ UNCHANGED <<WorkerKeeps, taken, delivered, acked>>

\* intent_store.get_intent(&filename): the two expects panic when the chain
\* does not answer and when the filename is not registered.
WorkerGetIntent(n) ==
  /\ worker[n] = "intent"
  /\ \/ LET f == Current(n).filename IN
        IF f \in DOMAIN predicate_registry
        THEN /\ Goto(n, "verify")
             /\ entry' = [entry EXCEPT ![n] = predicate_registry[f]]
             /\ UNCHANGED queue
        ELSE Panic(n)
     \/ Panic(n)
  /\ UNCHANGED <<WorkerKeeps, taken, delivered, acked>>

\* Mutant: only a panic stops the worker, an Err is taken for a success.
MutErrPasses(n) ==
  Verdict[<<Current(n).witness_hex, entry[n].predicate>>] # "panic"

\* registry.verify_intents(intents, &witness) returns Ok(true).
Verified(n) ==
  Verdict[<<Current(n).witness_hex, entry[n].predicate>>] = "true"

\* A gadget that says no or errs makes verify_intents return Err, which is
\* logged and the request is done (the Ok(false) arm does the same, and is never
\* taken); a witness that does not decode to one witness per intent panics.
WorkerVerify(n) ==
  /\ worker[n] = "verify"
  /\ IF Verified(n)
     THEN Continue(n, "fetch")
     ELSE IF Verdict[<<Current(n).witness_hex, entry[n].predicate>>] = "panic"
     THEN Panic(n)
     ELSE Return(n)
  /\ UNCHANGED <<WorkerKeeps, taken, delivered, acked>>

\* doc_store.fetch(&cid): found, None (data unavailable), or an error, which
\* the unwrap turns into a panic.  The partial decryption is computed here.
WorkerFetch(n) ==
  /\ worker[n] = "fetch"
  /\ \/ Continue(n, "connect")
     \/ Return(n)
     \/ Panic(n)
  /\ UNCHANGED <<WorkerKeeps, taken, delivered, acked>>

\* The location is parsed (unwrap) and dialled on PD_ALPN; a failure to
\* connect is not reported and the request is done.
WorkerConnect(n) ==
  /\ worker[n] = "connect"
  /\ IF Current(n).location \notin Addresses
     THEN Panic(n)
     ELSE \/ /\ Current(n).location \in Handlers
             /\ Continue(n, "deliver")
          \/ Return(n)
  /\ UNCHANGED <<WorkerKeeps, taken, delivered, acked>>

\* Mutant: the cid is read from the registry again, after the verification.
MutCidNow(n) ==
  LET f == Current(n).filename IN
  IF f \in DOMAIN predicate_registry
  THEN predicate_registry[f].cid ELSE entry[n].cid

\* The ciphertext that is decrypted is the one get_intent named.
CidOf(n) == entry[n].cid

\* The message is written and the client's PartialDecryptionHandler puts it
\* into its channel, or the connection breaks first and the ? returns Err.
WorkerDeliver(n) ==
  /\ worker[n] = "deliver"
  /\ \/ /\ Continue(n, "echo")
        /\ delivered' = delivered \cup
             {[location |-> Current(n).location, node |-> n,
               filename |-> Current(n).filename, cid |-> CidOf(n)]}
     \/ Return(n) /\ UNCHANGED delivered
  /\ UNCHANGED <<WorkerKeeps, taken, acked>>

\* The handler echoes the message: response == msg_bytes.
WorkerEcho(n) ==
  /\ worker[n] = "echo"
  /\ Current(n).location \notin Silent
  /\ Continue(n, "attest")
  /\ acked' = acked \cup {<<n, Current(n)>>}
  /\ UNCHANGED <<WorkerKeeps, taken, delivered>>

\* Mutant: the delivery is tried again.
MutDeliverAgain(n) ==
  /\ worker[n] = "echo"
  /\ Continue(n, "deliver")
  /\ UNCHANGED <<WorkerKeeps, taken, delivered, acked>>

\* The connection breaks, or the answer is another: no attestation.
WorkerEchoFails(n) ==
  /\ worker[n] = "echo"
  /\ Return(n)
  /\ UNCHANGED <<WorkerKeeps, taken, delivered, acked>>

\* The messages of the pool contract.
PoolMessages == {"add", "read_all", "count", "submit_partial_attestation",
                 "get_attestation", "get_attestation_count"}

\* The message InkContractPool::submit_partial_attestation calls.
AttestSelector == "submit_partial_decryption"

\* The contract has no such message, the call fails and the unwrap panics.
WorkerAttest(n) ==
  /\ worker[n] = "attest"
  /\ AttestSelector \notin PoolMessages
  /\ Panic(n)
  /\ UNCHANGED <<WorkerKeeps, taken, delivered, acked>>

(***************************************************************************)
(* A node crashes and is started again: all it knew is gone.               *)
(***************************************************************************)

\* Mutant: the worker is not set up anew.
MutOldWorker(n) ==
  /\ taken' = [taken EXCEPT ![n] = << >>]
  /\ UNCHANGED <<worker, entry>>

\* The worker task spawn_pool_watcher starts.
NewWorker(n) ==
  /\ Goto(n, "recv")
  /\ taken' = [taken EXCEPT ![n] = << >>]
  /\ entry' = [entry EXCEPT ![n] = NoEntry]

Restart(n) ==
  /\ restarts[n] < MaxRestarts
  /\ restarts' = [restarts EXCEPT ![n] = @ + 1]
  /\ watcher' = [watcher EXCEPT ![n] = "read"]
  /\ batch' = [batch EXCEPT ![n] = << >>]
  /\ pos' = [pos EXCEPT ![n] = 1]
  /\ seen' = [seen EXCEPT ![n] = {}]
  /\ queue' = [queue EXCEPT ![n] = << >>]
  /\ NewWorker(n)
  /\ UNCHANGED <<pool_vars, registry_vars, delivered, acked, registered>>

------------------------------------------------------------------------------

Init ==
  /\ PoolInit
  /\ RegistryInit
  /\ watcher = [n \in Nodes |-> "read"]
  /\ batch = [n \in Nodes |-> << >>]
  /\ pos = [n \in Nodes |-> 1]
  /\ seen = [n \in Nodes |-> {}]
  /\ queue = [n \in Nodes |-> << >>]
  /\ worker = [n \in Nodes |-> "recv"]
  /\ taken = [n \in Nodes |-> << >>]
  /\ entry = [n \in Nodes |-> NoEntry]
  /\ restarts = [n \in Nodes |-> 0]
  /\ delivered = {}
  /\ acked = {}
  /\ registered = {}

Users ==
  \/ \E r \in Requests : PostRequest(r)
  \/ \E f \in Filenames, e \in Entries : RegisterFile(f, e)
  \/ \E f \in Filenames : RemoveFile(f)

Watcher(n) ==
  \/ WatcherRead(n)
  \/ WatcherReadFails(n)
  \/ WatcherSend(n)
  \/ WatcherSleep(n)

Worker(n) ==
  \/ WorkerRecv(n)
  \/ WorkerExit(n)
  \/ WorkerGetIntent(n)
  \/ WorkerVerify(n)
  \/ WorkerFetch(n)
  \/ WorkerConnect(n)
  \/ WorkerDeliver(n)
  \/ WorkerEcho(n)
  \/ WorkerAttest(n)

Next ==
  \/ Users
  \/ \E n \in Nodes :
       \/ Watcher(n)
       \/ Worker(n)
       \/ WorkerEchoFails(n)
       \/ Restart(n)

Spec == Init /\ [][Next]_vars

\* The runtime polls every task that can run, calls to the chain and to peers
\* end with an answer or an error, and a handler that is not silent answers.
\* Users, crashes and connection losses are not fair, nor is a silent peer.
Fairness == \A n \in Nodes : WF_vars(Watcher(n)) /\ WF_vars(Worker(n))

FairSpec == Spec /\ Fairness

(***************************************************************************)
(* Properties.                                                             *)
(***************************************************************************)

\* What the variables hold, and what a worker has in hand at each await: a
\* request once it took one, and the entry once get_intent returned.
TypeOK ==
  /\ watcher \in [Nodes -> {"read", "send", "ended"}]
  /\ batch \in [Nodes -> Seq(Requests)]
  /\ pos \in [Nodes -> Nat \ {0}]
  /\ \A n \in Nodes : pos[n] <= Len(batch[n]) + 1
  /\ seen \in [Nodes -> SUBSET Requests]
  /\ queue \in [Nodes -> Seq(Requests)]
  /\ worker \in [Nodes -> WorkerStates]
  /\ taken \in [Nodes -> Seq(Requests)]
  /\ entry \in [Nodes -> Entries \cup {NoEntry}]
  /\ restarts \in [Nodes -> 0..MaxRestarts]
  /\ \A n \in Nodes :
       /\ worker[n] \notin {"recv", "exited", "dead"} => taken[n] # << >>
       /\ worker[n] \in {"verify", "fetch", "connect", "deliver"} =>
             entry[n] \in Entries

\* s is the beginning of t.
IsBeginningOf(s, t) ==
  Len(s) <= Len(t) /\ \A i \in 1..Len(s) : s[i] = t[i]

\* The requests a node took and those waiting in its channel are, in order and
\* without a gap or a repetition, the first requests the contract lists; while
\* the worker lives they are all the watcher has seen.  So polling with a seen
\* set neither serves a request twice nor passes one over.
TakenInOrder ==
  \A n \in Nodes :
    LET line == taken[n] \o queue[n] IN
    /\ IsBeginningOf(line, read_all)
    /\ worker[n] # "dead" =>
         seen[n] = {line[i] : i \in 1..Len(line)}

\* A client's channel only ever gets a partial decryption that some posted
\* request asked for: it goes to the location of that request, and it decrypts
\* the ciphertext that was registered, under the filename of the request,
\* together with a predicate the witness of the request satisfies.
ServedOnlyIfVerified ==
  \A m \in delivered :
    \E id \in DOMAIN requests :
      /\ requests[id].filename = m.filename
      /\ requests[id].location = m.location
      /\ \E e \in Entries :
           /\ <<m.filename, e>> \in registered
           /\ e.cid = m.cid
           /\ Verdict[<<requests[id].witness_hex, e.predicate>>] = "true"

Posted(r) == \E id \in DOMAIN requests : requests[id] = r
Down(n) == watcher[n] = "ended" \/ worker[n] = "dead"
Blocked(n) == worker[n] = "echo" /\ Current(n).location \in Silent

\* A node takes up every request that is posted, unless one of its tasks has
\* ended, or its worker is stuck for good behind a peer that does not answer
\* (reading the echo has no timeout).
TakenUnlessBlocked ==
  \A n \in Nodes, r \in Requests :
    \/ <>[]Blocked(n)
    \/ Posted(r) ~> (Down(n) \/ \E i \in 1..Len(taken[n]) : taken[n][i] = r)

\* pool.rs says that submit_partial_attestation submits "evidence that a worker
\* has processed a work item": once a worker has got the echo of a delivery and
\* is done attesting it, the contract holds an attestation for the request.
AckedThenAttested ==
  \A a \in acked :
    \/ worker[a[1]] = "attest" /\ Current(a[1]) = a[2]
    \/ Attesters(hash_request(a[2])) # {}

(***************************************************************************)
(* The nodes as clerks at desks (ServiceDesk): the line is what read_all   *)
(* returns, and a delivery is an answer that fits if the witness of the    *)
(* request satisfies the predicate that goes with the ciphertext.          *)
(***************************************************************************)
Proper ==
  {t \in Nodes \X Requests \X Entries :
     /\ t[2].witness_hex \in HexWitnesses
     /\ Verdict[<<t[2].witness_hex, t[3].predicate>>] = "true"}

Fits ==
  {<<t[1], t[2], [location |-> t[2].location, node |-> t[1],
                  filename |-> t[2].filename, cid |-> t[3].cid]>> : t \in Proper}

DeskOf(n) ==
  CASE worker[n] = "recv" -> "free"
    [] worker[n] \in {"intent", "verify", "fetch", "connect", "deliver"} -> "open"
    [] worker[n] \in {"echo", "attest"} -> "answered"
    [] OTHER -> "closed"

Desk == INSTANCE ServiceDesk WITH
  Clerks <- Nodes,
  Items <- Requests,
  line <- read_all,
  place <- [n \in Nodes |-> Len(taken[n])],
  desk <- [n \in Nodes |-> DeskOf(n)],
  given <- delivered

\* Every step of the two tasks, of the contracts and of their users is a step at
\* the desks or none: between two starts of a node (process_decryption_request,
\* watch) a request is answered at most once, in its turn, and is not returned
\* to after a broken connection or another poll.
ImplementsDesk == Desk!Spec
==============================================================================
