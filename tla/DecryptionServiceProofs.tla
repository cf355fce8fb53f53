----------------------- MODULE DecryptionServiceProofs -----------------------
(***************************************************************************)
(* What the nodes guarantee for any number of nodes, requests, files and   *)
(* restarts, with the two contracts as proved in their own modules;        *)
(* that polling, seen set and channel come to a line of requests, which is *)
(* what ServiceDesk says.                                                  *)
(***************************************************************************)
EXTENDS DecryptionService, RequestPoolProofs, PredicateRegistryProofs, SequenceTheorems

(***************************************************************************)
(* Every step of the service is a step of each contract, or leaves it      *)
(* alone, so what is proved of the contracts holds here too.               *)
(***************************************************************************)
LEMMA NextIsPoolStep == [Next]_vars => [PoolNext]_pool_vars
<1> SUFFICES ASSUME [Next]_vars, ~UNCHANGED pool_vars
             PROVE  PoolNext
  OBVIOUS
<1>1. CASE UNCHANGED vars
  BY <1>1 DEF vars
<1>2. ASSUME NEW r \in Requests, PostRequest(r) PROVE PoolNext
  BY <1>2 DEF PostRequest, PoolNext
<1>3. CASE Users /\ ~(\E r \in Requests : PostRequest(r))
  BY <1>3 DEF Users, RegisterFile, RemoveFile
<1>4. ASSUME NEW n \in Nodes, Watcher(n) PROVE FALSE
  BY <1>4 DEF Watcher, WatcherRead, WatcherReadFails, WatcherSend,
              WatcherSleep
<1>5. ASSUME NEW n \in Nodes, Worker(n) PROVE FALSE
  BY <1>5 DEF Worker, WorkerRecv, WorkerExit, WorkerGetIntent, WorkerVerify,
              WorkerFetch, WorkerConnect, WorkerDeliver, WorkerEcho,
              WorkerAttest, WorkerKeeps
<1>6. ASSUME NEW n \in Nodes, WorkerEchoFails(n) \/ Restart(n) PROVE FALSE
  BY <1>6 DEF WorkerEchoFails, Restart, WorkerKeeps
<1>7. QED
  BY <1>1, <1>2, <1>3, <1>4, <1>5, <1>6 DEF Next, Users

\* And a step of the registry, or no step of it.
LEMMA NextIsRegistryStep == [Next]_vars => [RegistryNext]_registry_vars
<1> SUFFICES ASSUME [Next]_vars, ~UNCHANGED registry_vars
             PROVE  RegistryNext
  OBVIOUS
<1>1. CASE UNCHANGED vars
  BY <1>1 DEF vars
<1>2. CASE Users
  BY <1>2 DEF Users, PostRequest, RegisterFile, RemoveFile, RegistryNext
<1>3. ASSUME NEW n \in Nodes, Watcher(n) PROVE FALSE
  BY <1>3 DEF Watcher, WatcherRead, WatcherReadFails, WatcherSend,
              WatcherSleep
<1>4. ASSUME NEW n \in Nodes, Worker(n) PROVE FALSE
  BY <1>4 DEF Worker, WorkerRecv, WorkerExit, WorkerGetIntent, WorkerVerify,
              WorkerFetch, WorkerConnect, WorkerDeliver, WorkerEcho,
              WorkerAttest, WorkerKeeps
<1>5. ASSUME NEW n \in Nodes, WorkerEchoFails(n) \/ Restart(n) PROVE FALSE
  BY <1>5 DEF WorkerEchoFails, Restart, WorkerKeeps
<1>6. QED
  BY <1>1, <1>2, <1>3, <1>4, <1>5 DEF Next

\* The service only uses the contracts through their messages.
THEOREM ServiceUsesContracts == Spec => PoolSpec /\ RegistrySpec
<1>1. Init => PoolInit /\ RegistryInit
  BY DEF Init
<1>2. QED
  BY <1>1, NextIsPoolStep, NextIsRegistryStep, PTL
  DEF Spec, PoolSpec, RegistrySpec

------------------------------------------------------------------------------
(***************************************************************************)
(* What the watcher reads.                                                 *)
(***************************************************************************)

\* read_all lists each stored request once.
ReadAllOK ==
  /\ read_all \in Seq(Requests)
  /\ Len(read_all) = Len(request_ids)
  /\ Len(request_ids) \in Nat
  /\ \A i \in 1..Len(read_all) : read_all[i] = requests[request_ids[i]]
  /\ \A i, j \in 1..Len(read_all) : read_all[i] = read_all[j] => i = j
  /\ \A i \in 1..Len(read_all) :
       \E id \in DOMAIN requests : requests[id] = read_all[i]

\* read_all lists requests of the map only.
LEMMA ReadAllFacts == PoolInv => ReadAllOK
<1> SUFFICES ASSUME PoolInv PROVE ReadAllOK
  OBVIOUS
<1>1. Len(request_ids) \in Nat
  BY DEF PoolInv, PoolTypeOK
<1>2. \A i \in 1..Len(request_ids) : request_ids[i] \in DOMAIN requests
  BY DEF PoolInv, IndexConsistent
<1>3. \A i \in 1..Len(request_ids) : requests[request_ids[i]] \in Requests
  BY <1>2 DEF PoolInv, PoolTypeOK
<1>4. /\ read_all \in Seq(Requests)
      /\ Len(read_all) = Len(request_ids)
      /\ \A i \in 1..Len(read_all) : read_all[i] = requests[request_ids[i]]
  BY <1>1, <1>3 DEF read_all
<1>5. \A i \in 1..Len(request_ids) :
        hash_request(requests[request_ids[i]]) = request_ids[i]
  BY <1>2 DEF PoolInv, IndexConsistent
<1>6. \A i, j \in 1..Len(read_all) : read_all[i] = read_all[j] => i = j
  BY <1>4, <1>5 DEF PoolInv, IndexConsistent
<1>7. QED
  BY <1>1, <1>2, <1>4, <1>6 DEF ReadAllOK

\* A step of the contract only appends to what read_all returns.
LEMMA ReadAllGrows ==
  ASSUME PoolInv, [PoolNext]_pool_vars
  PROVE  IsBeginningOf(read_all, read_all')
<1>1. ReadAllOK
  BY ReadAllFacts
<1>2. PoolInv'
  BY StepInv
<1>3. ReadAllOK'
  BY <1>2, ReadAllFacts, PTL
<1>4. request_ids \in Seq(Ids)
  BY DEF PoolInv, PoolTypeOK
<1>5. \A i \in 1..Len(request_ids) : request_ids[i] \in DOMAIN requests
  BY DEF PoolInv, IndexConsistent
<1>6. ASSUME NEW r \in Requests, add(r) PROVE IsBeginningOf(read_all, read_all')
  <2>1. /\ hash_request(r) \in Ids
        /\ hash_request(r) \notin DOMAIN requests
        /\ request_ids' = Append(request_ids, hash_request(r))
        /\ requests' = Insert(requests, hash_request(r), r)
    BY <1>6, HashType DEF add, IsNewRequest
  <2>2. /\ Len(request_ids') = Len(request_ids) + 1
        /\ \A i \in 1..Len(request_ids) : request_ids'[i] = request_ids[i]
    BY <1>4, <2>1
  <2>3. \A id \in DOMAIN requests : requests'[id] = requests[id]
    BY <2>1 DEF Insert
  <2>4. QED
    BY <1>1, <1>3, <1>5, <2>2, <2>3 DEF IsBeginningOf, ReadAllOK
<1>7. CASE UNCHANGED <<requests, request_ids>>
  BY <1>1, <1>3, <1>7 DEF IsBeginningOf, ReadAllOK
<1>8. ASSUME NEW caller \in Accounts, NEW id \in DOMAIN requests,
             NEW a \in Attestations,
             submit_partial_attestation(caller, id, a)
      PROVE  UNCHANGED <<requests, request_ids>>
  BY <1>8 DEF submit_partial_attestation
<1>9. QED
  BY <1>6, <1>7, <1>8 DEF PoolNext, pool_vars

------------------------------------------------------------------------------
(***************************************************************************)
(* Type correctness.                                                       *)
(***************************************************************************)
\* Changing the entry of one node keeps the others and the type.
LEMMA SetOne ==
  ASSUME NEW S, NEW f \in [Nodes -> S], NEW n \in Nodes, NEW v \in S
  PROVE  /\ [f EXCEPT ![n] = v] \in [Nodes -> S]
         /\ [f EXCEPT ![n] = v][n] = v
         /\ \A m \in Nodes \ {n} : [f EXCEPT ![n] = v][m] = f[m]
OBVIOUS

\* The types at the start.
LEMMA InitNodeTypes == Init => TypeOK
BY NodeConstants DEF Init, TypeOK, WorkerStates

\* The watcher keeps the types.
LEMMA WatcherTypes ==
  ASSUME TypeOK, ReadAllOK, NEW n \in Nodes, Watcher(n)
  PROVE  TypeOK'
<1>1. CASE WatcherRead(n)
  BY <1>1 DEF WatcherRead, TypeOK, ReadAllOK, history_vars
<1>2. CASE WatcherReadFails(n)
  BY <1>2 DEF WatcherReadFails, TypeOK, history_vars
<1>3. CASE WatcherSend(n)
  <2> DEFINE r == batch[n][pos[n]]
  <2>1. r \in Requests
    BY <1>3 DEF WatcherSend, TypeOK
  <2>2. /\ seen' = [seen EXCEPT ![n] = @ \cup {r}]
        /\ pos' = [pos EXCEPT ![n] = @ + 1]
        /\ pos[n] <= Len(batch[n])
        /\ \/ queue' = queue
           \/ queue' = [queue EXCEPT ![n] = Append(queue[n], r)]
        /\ \/ watcher' = watcher
           \/ watcher' = [watcher EXCEPT ![n] = "ended"]
        /\ UNCHANGED <<batch, worker, taken, entry, restarts>>
    BY <1>3 DEF WatcherSend, history_vars
  <2> HIDE DEF r
  <2>3. queue' \in [Nodes -> Seq(Requests)]
    <3>1. queue \in [Nodes -> Seq(Requests)]
      BY DEF TypeOK
    <3>2. Append(queue[n], r) \in Seq(Requests)
      BY <2>1, <3>1
    <3>3. QED
      BY <2>2, <3>1, <3>2, SetOne
  <2>4. seen' \in [Nodes -> SUBSET Requests]
    BY <2>1, <2>2 DEF TypeOK
  <2>5. /\ pos' \in [Nodes -> Nat \ {0}]
        /\ \A m \in Nodes : pos'[m] <= Len(batch'[m]) + 1
    BY <2>2 DEF TypeOK
  <2>6. watcher' \in [Nodes -> {"read", "send", "ended"}]
    BY <2>2 DEF TypeOK
  <2>7. QED
    BY <2>2, <2>3, <2>4, <2>5, <2>6 DEF TypeOK
<1>4. CASE WatcherSleep(n)
  BY <1>4 DEF WatcherSleep, TypeOK, history_vars
<1>5. QED
  BY <1>1, <1>2, <1>3, <1>4 DEF Watcher

\* What a worker must have in hand to be in a state.
HasInHand(n, state) ==
  /\ state \in WorkerStates
  /\ state \notin {"recv", "exited", "dead"} => taken[n] # << >>
  /\ state \in {"verify", "fetch", "connect", "deliver"} =>
       entry[n] \in Entries

\* A move of the worker that takes no request and reads no entry.
LEMMA MoveTypes ==
  ASSUME TypeOK, NEW n \in Nodes, NEW state,
         Continue(n, state) \/ (state = "recv" /\ Return(n))
                            \/ (state = "dead" /\ Panic(n)),
         HasInHand(n, state),
         UNCHANGED <<watcher, batch, pos, seen, taken, restarts>>
  PROVE  TypeOK'
<1>1. /\ worker' = [worker EXCEPT ![n] = state]
      /\ \/ queue' = queue
         \/ queue' = [queue EXCEPT ![n] = << >>]
      /\ entry' = entry
  BY DEF Continue, Return, Panic, Goto
<1>2. worker' \in [Nodes -> WorkerStates]
  BY <1>1 DEF TypeOK, HasInHand
<1>3. queue' \in [Nodes -> Seq(Requests)]
  <2>1. queue \in [Nodes -> Seq(Requests)] /\ << >> \in Seq(Requests)
    BY DEF TypeOK
  <2>2. QED
    BY <1>1, <2>1, SetOne, ZenonT(40)
<1>4. \A m \in Nodes : HasInHand(m, worker'[m])
  BY <1>1 DEF TypeOK, HasInHand
<1>5. QED
  BY <1>1, <1>2, <1>3, <1>4 DEF TypeOK, HasInHand

\* The worker keeps them.
LEMMA WorkerTypes ==
  ASSUME TypeOK, RegistryTypeOK, NEW n \in Nodes,
         Worker(n) \/ WorkerEchoFails(n)
  PROVE  TypeOK'
<1> USE DEF WorkerKeeps, WorkerStates
<1>1. CASE WorkerRecv(n)
  <2> DEFINE r == Head(queue[n])
  <2>1. r \in Requests /\ Tail(queue[n]) \in Seq(Requests)
    BY <1>1 DEF WorkerRecv, TypeOK
  <2>2. /\ taken' = [taken EXCEPT ![n] = Append(taken[n], r)]
        /\ UNCHANGED <<watcher, batch, pos, seen, entry, restarts>>
        /\ \/ /\ worker' = [worker EXCEPT ![n] = "intent"]
              /\ queue' = [queue EXCEPT ![n] = Tail(queue[n])]
           \/ /\ worker' = [worker EXCEPT ![n] = "dead"]
              /\ queue' = [queue EXCEPT ![n] = << >>]
    BY <1>1 DEF WorkerRecv, Goto, Panic
  <2> HIDE DEF r
  <2>3. /\ taken' \in [Nodes -> Seq(Requests)]
        /\ taken'[n] # << >>
        /\ \A m \in Nodes \ {n} : taken'[m] = taken[m]
    <3>1. taken \in [Nodes -> Seq(Requests)]
      BY DEF TypeOK
    <3>2. Append(taken[n], r) \in Seq(Requests) /\ Append(taken[n], r) # << >>
      BY <2>1, <3>1
    <3>3. QED
      BY <2>2, <3>1, <3>2, SetOne
  <2>4. queue' \in [Nodes -> Seq(Requests)]
    <3>1. queue \in [Nodes -> Seq(Requests)] /\ << >> \in Seq(Requests)
      BY DEF TypeOK
    <3>2. QED
      BY <2>1, <2>2, <3>1, SetOne, ZenonT(40)
  <2>5. /\ worker' \in [Nodes -> WorkerStates]
        /\ worker'[n] \in {"intent", "dead"}
        /\ \A m \in Nodes \ {n} : worker'[m] = worker[m]
    BY <2>2 DEF TypeOK
  <2>6. QED
    BY <2>2, <2>3, <2>4, <2>5 DEF TypeOK
<1>2. CASE WorkerExit(n)
  BY <1>2, MoveTypes DEF WorkerExit, HasInHand
<1>3. CASE WorkerGetIntent(n)
  <2>1. CASE Panic(n)
    BY <1>3, <2>1, MoveTypes DEF WorkerGetIntent, HasInHand
  <2>2. CASE ~Panic(n)
    <3>1. PICK e \in Entries :
            /\ entry' = [entry EXCEPT ![n] = e]
            /\ worker' = [worker EXCEPT ![n] = "verify"]
            /\ UNCHANGED <<watcher, batch, pos, seen, queue, taken, restarts>>
      BY <1>3, <2>2 DEF WorkerGetIntent, Goto, RegistryTypeOK
    <3>2. taken[n] # << >>
      BY <1>3 DEF WorkerGetIntent, TypeOK
    <3>3. QED
      BY <3>1, <3>2 DEF TypeOK
  <2>3. QED
    BY <2>1, <2>2
<1>4. CASE WorkerVerify(n)
  <2>1. HasInHand(n, "fetch") /\ HasInHand(n, "dead") /\ HasInHand(n, "recv")
    BY <1>4 DEF WorkerVerify, TypeOK, HasInHand
  <2>2. Continue(n, "fetch") \/ Panic(n) \/ Return(n)
    BY <1>4 DEF WorkerVerify
  <2>3. QED
    BY <1>4, <2>1, <2>2, MoveTypes DEF WorkerVerify
<1>5. CASE WorkerFetch(n)
  <2>1. HasInHand(n, "connect") /\ HasInHand(n, "dead") /\ HasInHand(n, "recv")
    BY <1>5 DEF WorkerFetch, TypeOK, HasInHand
  <2>2. QED
    BY <1>5, <2>1, MoveTypes DEF WorkerFetch
<1>6. CASE WorkerConnect(n)
  <2>1. HasInHand(n, "deliver") /\ HasInHand(n, "dead") /\ HasInHand(n, "recv")
    BY <1>6 DEF WorkerConnect, TypeOK, HasInHand
  <2>2. Continue(n, "deliver") \/ Panic(n) \/ Return(n)
    BY <1>6 DEF WorkerConnect
  <2>3. QED
    BY <1>6, <2>1, <2>2, MoveTypes DEF WorkerConnect
<1>7. CASE WorkerDeliver(n)
  <2>1. HasInHand(n, "echo") /\ HasInHand(n, "recv")
    BY <1>7 DEF WorkerDeliver, TypeOK, HasInHand
  <2>2. QED
    BY <1>7, <2>1, MoveTypes DEF WorkerDeliver
<1>8. CASE WorkerEcho(n)
  <2>1. HasInHand(n, "attest")
    BY <1>8 DEF WorkerEcho, TypeOK, HasInHand
  <2>2. QED
    BY <1>8, <2>1, MoveTypes DEF WorkerEcho
<1>9. CASE WorkerAttest(n)
  BY <1>9, MoveTypes DEF WorkerAttest, HasInHand
<1>10. CASE WorkerEchoFails(n)
  BY <1>10, MoveTypes DEF WorkerEchoFails, HasInHand
<1>11. QED
  BY <1>1, <1>2, <1>3, <1>4, <1>5, <1>6, <1>7, <1>8, <1>9, <1>10 DEF Worker

\* A restart keeps them.
LEMMA RestartTypes ==
  ASSUME TypeOK, NEW n \in Nodes, Restart(n)
  PROVE  TypeOK'
BY NodeConstants DEF TypeOK, Restart, NewWorker, Goto, WorkerStates

\* Users do not touch a node.
LEMMA UsersTypes ==
  ASSUME TypeOK, Users
  PROVE  TypeOK'
BY DEF TypeOK, Users, PostRequest, RegisterFile, RemoveFile, node_vars,
       history_vars

\* Every step keeps them.
LEMMA StepTypes ==
  TypeOK /\ PoolInv /\ RegistryTypeOK /\ [Next]_vars => TypeOK'
<1> SUFFICES ASSUME TypeOK, PoolInv, RegistryTypeOK, [Next]_vars
             PROVE  TypeOK'
  OBVIOUS
<1>1. ReadAllOK
  BY ReadAllFacts
<1>2. CASE UNCHANGED vars
  BY <1>2 DEF vars, node_vars, history_vars, TypeOK
<1>3. CASE Next
  BY <1>1, <1>3, WatcherTypes, WorkerTypes, RestartTypes, UsersTypes DEF Next
<1>4. QED
  BY <1>2, <1>3

\* The contracts' invariants hold in the composed system.
LEMMA ContractInvariants == Spec => [](PoolInv /\ RegistryInv)
BY ServiceUsesContracts, PoolInvariant, RegistryInvariant, PTL

\* Every reachable state of the nodes is well typed, and a worker never acts
\* without a request or past get_intent without an entry.
THEOREM ServiceTypeCorrect == Spec => []TypeOK
<1>1. TypeOK /\ (PoolInv /\ RegistryInv) /\ [Next]_vars => TypeOK'
  BY StepTypes DEF RegistryInv
<1>2. QED
  BY InitNodeTypes, ContractInvariants, <1>1, PTL DEF Spec

\* With the nodes, the users and the crashes around it, the pool contract is
\* still the bulletin board a client relies on: what add and
\* submit_partial_attestation do for them are steps of WorkBoard.
THEOREM ServiceKeepsBoard == Spec => ImplementsBoard
BY ServiceUsesContracts, PoolImplementsBoard, PTL

(***************************************************************************)
(* Every node takes up the requests of the pool contract in the order of   *)
(* read_all, without a gap and without a repetition, and only answers a    *)
(* request whose witness satisfies the registered predicate.               *)
(***************************************************************************)

(***************************************************************************)
(* Beginnings of sequences.                                                *)
(***************************************************************************)
LEMMA BeginningTrans ==
  ASSUME NEW S, NEW s \in Seq(S), NEW t \in Seq(S), NEW u \in Seq(S),
         IsBeginningOf(s, t), IsBeginningOf(t, u)
  PROVE  IsBeginningOf(s, u)
BY DEF IsBeginningOf

\* A sequence begins with itself.
LEMMA BeginningRefl ==
  ASSUME NEW S, NEW s \in Seq(S)
  PROVE  IsBeginningOf(s, s) /\ IsBeginningOf(<< >>, s)
BY DEF IsBeginningOf

\* A concatenation begins with its first part.
LEMMA ConcatBegins ==
  ASSUME NEW S, NEW s \in Seq(S), NEW t \in Seq(S)
  PROVE  IsBeginningOf(s, s \o t)
BY ConcatProperties DEF IsBeginningOf

\* Moving the head of the second sequence to the end of the first.
LEMMA MoveHead ==
  ASSUME NEW S, NEW s \in Seq(S), NEW t \in Seq(S), t # << >>
  PROVE  Append(s, Head(t)) \o Tail(t) = s \o t
<1>1. /\ Head(t) \in S
      /\ Tail(t) \in Seq(S)
      /\ <<Head(t)>> \in Seq(S)
      /\ t = <<Head(t)>> \o Tail(t)
  BY HeadTailProperties, ConcatProperties
<1>2. Append(s, Head(t)) = s \o <<Head(t)>>
  BY <1>1, AppendIsConcat
<1>3. QED
  BY <1>1, <1>2, ConcatAssociative

\* Appending to the second part appends to the whole.
LEMMA AppendToSecond ==
  \A S : \A s, t \in Seq(S), e \in S : s \o Append(t, e) = Append(s \o t, e)
<1> SUFFICES ASSUME NEW S, NEW s \in Seq(S), NEW t \in Seq(S), NEW e \in S
             PROVE  s \o Append(t, e) = Append(s \o t, e)
  OBVIOUS
<1>1. s \o t \in Seq(S) /\ <<e>> \in Seq(S)
  BY ConcatProperties
<1>2. QED
  BY <1>1, AppendIsConcat, ConcatAssociative

\* Appending keeps the beginnings.
LEMMA AppendBegins ==
  ASSUME NEW S, NEW s \in Seq(S), NEW t \in Seq(S),
         IsBeginningOf(s, t), Len(s) < Len(t)
  PROVE  IsBeginningOf(Append(s, t[Len(s) + 1]), t)
BY DEF IsBeginningOf

------------------------------------------------------------------------------
(***************************************************************************)
(* The inductive invariant behind TakenInOrder.                            *)
(***************************************************************************)
Line(n) == taken[n] \o queue[n]

Elements(s) == {s[i] : i \in 1..Len(s)}

Order(n) ==
  /\ IsBeginningOf(batch[n], read_all)
  /\ IsBeginningOf(Line(n), read_all)
  /\ worker[n] # "dead" => seen[n] = Elements(Line(n))
  /\ worker[n] # "dead" /\ watcher[n] = "send" => pos[n] <= Len(Line(n)) + 1
  /\ worker[n] = "exited" => watcher[n] = "ended"

OrderInv == \A n \in Nodes : Order(n)

\* What a step does not change of a node.
NodeSame(n) ==
  /\ watcher'[n] = watcher[n]
  /\ batch'[n] = batch[n]
  /\ pos'[n] = pos[n]
  /\ seen'[n] = seen[n]
  /\ queue'[n] = queue[n]
  /\ worker'[n] = worker[n]
  /\ taken'[n] = taken[n]

\* What a node has taken, in order, are requests.
LEMMA LineType ==
  ASSUME TypeOK, NEW n \in Nodes
  PROVE  Line(n) \in Seq(Requests) /\ Len(Line(n)) \in Nat
BY ConcatProperties DEF TypeOK, Line

\* A step that leaves these variables alone keeps the order.
LEMMA OrderFrame ==
  ASSUME TypeOK, ReadAllOK, ReadAllOK', IsBeginningOf(read_all, read_all'),
         NEW n \in Nodes, Order(n), NodeSame(n)
  PROVE  Order(n)'
<1>1. /\ Line(n) \in Seq(Requests)
      /\ batch[n] \in Seq(Requests)
      /\ read_all \in Seq(Requests)
      /\ read_all' \in Seq(Requests)
  BY LineType DEF TypeOK, ReadAllOK
<1>2. /\ IsBeginningOf(batch[n], read_all')
      /\ IsBeginningOf(Line(n), read_all')
  BY <1>1, BeginningTrans DEF Order
<1>3. Line(n)' = Line(n)
  BY DEF NodeSame, Line
<1>4. QED
  BY <1>2, <1>3 DEF Order, NodeSame

\* The order at the start.
LEMMA InitOrder == Init => OrderInv
<1> SUFFICES ASSUME Init, NEW n \in Nodes PROVE Order(n)
  BY DEF OrderInv
<1>1. read_all = << >>
  BY DEF Init, PoolInit, read_all
<1>2. /\ batch[n] = << >>
      /\ taken[n] = << >>
      /\ queue[n] = << >>
      /\ seen[n] = {}
      /\ worker[n] = "recv"
      /\ watcher[n] = "read"
  BY DEF Init
<1>3. Line(n) = << >>
  BY <1>2 DEF Line
<1>4. IsBeginningOf(<< >>, << >>)
  BY DEF IsBeginningOf
<1>5. Elements(<< >>) = {}
  BY DEF Elements
<1>6. QED
  BY <1>1, <1>2, <1>3, <1>4, <1>5 DEF Order

\* A send of the watcher keeps the order.
LEMMA SendOrder ==
  ASSUME TypeOK, ReadAllOK, UNCHANGED pool_vars,
         NEW n \in Nodes, Order(n), WatcherSend(n)
  PROVE  Order(n)'
<1> DEFINE r == batch[n][pos[n]]
<1>1. /\ Line(n) \in Seq(Requests)
      /\ Len(Line(n)) \in Nat
      /\ read_all \in Seq(Requests)
      /\ pos[n] \in Nat \ {0}
      /\ batch[n] \in Seq(Requests)
      /\ taken[n] \in Seq(Requests)
      /\ queue[n] \in Seq(Requests)
  BY LineType DEF TypeOK, ReadAllOK
<1>2. pos[n] <= Len(read_all) /\ r = read_all[pos[n]] /\ r \in Requests
  BY <1>1 DEF WatcherSend, Order, IsBeginningOf
<1>3. /\ batch'[n] = batch[n]
      /\ worker'[n] = worker[n]
      /\ taken'[n] = taken[n]
      /\ pos'[n] = pos[n] + 1
      /\ seen'[n] = seen[n] \cup {r}
      /\ watcher[n] = "send"
  BY DEF WatcherSend, TypeOK
<1>4. read_all' = read_all
  BY DEF pool_vars, read_all
<1>5. worker[n] # "exited"
  BY <1>3 DEF Order
<1>6. /\ r \in seen[n] => UNCHANGED <<queue, watcher>>
      /\ r \notin seen[n] /\ worker[n] # "dead" =>
           /\ queue'[n] = Append(queue[n], r)
           /\ UNCHANGED watcher
      /\ r \notin seen[n] /\ worker[n] = "dead" => UNCHANGED queue
  BY <1>5 DEF WatcherSend, IsUnseen, Alive, TypeOK
<1> HIDE DEF r
<1>7. CASE worker[n] = "dead"
  <2>1. Line(n)' = Line(n)
    BY <1>3, <1>6, <1>7 DEF Line
  <2>2. QED
    BY <1>3, <1>4, <1>7, <2>1 DEF Order
<1>8. CASE worker[n] # "dead" /\ r \in seen[n]
  <2>1. Line(n)' = Line(n)
    BY <1>3, <1>6, <1>8 DEF Line
  <2>2. PICK i \in 1..Len(Line(n)) : r = Line(n)[i]
    BY <1>8 DEF Order, Elements
  <2>3. r = read_all[i] /\ i <= Len(read_all)
    BY <1>1, <2>2 DEF Order, IsBeginningOf
  <2>4. i = pos[n]
    <3>1. \A j, k \in 1..Len(read_all) : read_all[j] = read_all[k] => j = k
      BY DEF ReadAllOK
    <3>2. /\ i \in 1..Len(read_all) /\ pos[n] \in 1..Len(read_all)
          /\ read_all[i] = read_all[pos[n]]
      BY <1>1, <1>2, <2>2, <2>3
    <3>3. QED
      BY <3>1, <3>2
  <2>5. pos[n] + 1 <= Len(Line(n)) + 1
    BY <1>1, <2>2, <2>4
  <2>6. seen'[n] = seen[n]
    BY <1>3, <1>8
  <2>7. QED
    BY <1>3, <1>4, <1>5, <1>8, <2>1, <2>5, <2>6 DEF Order
<1>9. CASE worker[n] # "dead" /\ r \notin seen[n]
  <2>1. Line(n)' = Append(Line(n), r)
    <3>1. Line(n)' = taken[n] \o Append(queue[n], r)
      BY <1>3, <1>6, <1>9 DEF Line
    <3>2. taken[n] \o Append(queue[n], r) = Append(taken[n] \o queue[n], r)
      <4>1. /\ taken[n] \in Seq(Requests)
            /\ queue[n] \in Seq(Requests)
            /\ r \in Requests
        BY <1>1, <1>2
      <4>2. \A s, t \in Seq(Requests), e \in Requests :
              s \o Append(t, e) = Append(s \o t, e)
        BY AppendToSecond
      <4>3. QED
        BY <4>1, <4>2
    <3>3. QED
      BY <3>1, <3>2 DEF Line
  <2>2. ~(pos[n] <= Len(Line(n)))
    BY <1>1, <1>2, <1>9 DEF Order, Elements, IsBeginningOf
  <2>3. pos[n] = Len(Line(n)) + 1
    BY <1>1, <1>3, <1>9, <2>2 DEF Order
  <2>4. IsBeginningOf(Line(n)', read_all)
    BY <1>1, <1>2, <2>1, <2>3, AppendBegins, SMTT(30) DEF Order
  <2>5. Len(Line(n)') = Len(Line(n)) + 1
    BY <1>1, <1>2, <2>1
  <2>6. Elements(Line(n)') = Elements(Line(n)) \cup {r}
    <3>1. /\ \A i \in 1..Len(Line(n)) : Line(n)'[i] = Line(n)[i]
          /\ Line(n)'[Len(Line(n)) + 1] = r
      BY <1>1, <1>2, <2>1
    <3>2. 1..Len(Line(n)') = (1..Len(Line(n))) \cup {Len(Line(n)) + 1}
      BY <1>1, <2>5
    <3>3. QED
      BY <3>1, <3>2 DEF Elements
  <2>7. Elements(Line(n))' = Elements(Line(n)')
    BY DEF Elements
  <2>8. QED
    BY <1>1, <1>3, <1>4, <1>5, <1>9, <2>3, <2>4, <2>5, <2>6, <2>7 DEF Order
<1>10. QED
  BY <1>7, <1>8, <1>9

\* Every step of the watcher does.
LEMMA WatcherOrder ==
  ASSUME TypeOK, ReadAllOK, UNCHANGED pool_vars,
         NEW n \in Nodes, Order(n), Watcher(n)
  PROVE  Order(n)'
<1>1. read_all' = read_all
  BY DEF pool_vars, read_all
<1>2. /\ Line(n) \in Seq(Requests)
      /\ Len(Line(n)) \in Nat
      /\ read_all \in Seq(Requests)
  BY LineType DEF ReadAllOK
<1>3. CASE WatcherRead(n)
  <2>1. /\ batch'[n] = read_all
        /\ pos'[n] = 1
        /\ Line(n)' = Line(n)
        /\ seen'[n] = seen[n]
        /\ worker'[n] = worker[n]
        /\ watcher[n] = "read"
    BY <1>3 DEF WatcherRead, TypeOK, Line
  <2>2. IsBeginningOf(read_all, read_all)
    BY <1>2, BeginningRefl
  <2>3. QED
    BY <1>1, <1>2, <2>1, <2>2 DEF Order
<1>4. CASE WatcherReadFails(n) \/ WatcherSleep(n)
  <2>1. /\ UNCHANGED <<batch, seen, queue, worker, taken>>
        /\ watcher'[n] \in {"read", "ended"}
        /\ watcher[n] # "ended"
    BY <1>4 DEF WatcherReadFails, WatcherSleep, TypeOK
  <2>2. Line(n)' = Line(n)
    BY <2>1 DEF Line
  <2>3. QED
    BY <1>1, <2>1, <2>2 DEF Order
<1>5. QED
  BY <1>3, <1>4, SendOrder DEF Watcher

\* The worker goes on, panics, or takes the next request; each leaves in the
\* line a beginning of what was there, and all of it unless it panics.
LEMMA WorkerOrder ==
  ASSUME TypeOK, ReadAllOK, UNCHANGED pool_vars,
         NEW n \in Nodes, Order(n), Worker(n) \/ WorkerEchoFails(n)
  PROVE  Order(n)'
<1>1. read_all' = read_all
  BY DEF pool_vars, read_all
<1>2. /\ Line(n) \in Seq(Requests)
      /\ read_all \in Seq(Requests)
      /\ taken[n] \in Seq(Requests)
      /\ queue[n] \in Seq(Requests)
  BY LineType DEF ReadAllOK, TypeOK
<1>3. UNCHANGED <<watcher, batch, pos, seen>>
  BY DEF Worker, WorkerRecv, WorkerExit, WorkerGetIntent, WorkerVerify,
         WorkerFetch, WorkerConnect, WorkerDeliver, WorkerEcho,
         WorkerAttest, WorkerEchoFails, WorkerKeeps
<1>4. worker[n] # "dead"
  BY DEF Worker, WorkerRecv, WorkerExit, WorkerGetIntent, WorkerVerify,
         WorkerFetch, WorkerConnect, WorkerDeliver, WorkerEcho,
         WorkerAttest, WorkerEchoFails
<1>5. CASE /\ Line(n)' = Line(n)
           /\ worker'[n] # "dead"
           /\ worker'[n] = "exited" => watcher[n] = "ended"
  BY <1>1, <1>3, <1>4, <1>5 DEF Order
<1>6. ASSUME NEW s \in Seq(Requests), IsBeginningOf(s, Line(n)),
             Line(n)' = s, worker'[n] = "dead"
      PROVE  Order(n)'
  <2>1. IsBeginningOf(s, read_all)
    BY <1>2, <1>6, BeginningTrans DEF Order
  <2>2. QED
    BY <1>1, <1>3, <1>6, <2>1 DEF Order
<1>7. CASE Panic(n) /\ taken' = taken
  <2>1. /\ queue'[n] = << >>
        /\ worker'[n] = "dead"
        /\ taken'[n] = taken[n]
    BY <1>7 DEF Panic, Goto, TypeOK
  <2>2. Line(n)' = taken[n]
    BY <1>2, <2>1, ConcatEmptySeq DEF Line
  <2>3. IsBeginningOf(taken[n], Line(n))
    BY <1>2, ConcatBegins DEF Line
  <2>4. QED
    BY <1>2, <1>6, <2>1, <2>2, <2>3
<1>8. CASE WorkerRecv(n)
  <2>1. /\ queue[n] # << >>
        /\ taken'[n] = Append(taken[n], Head(queue[n]))
        /\ \/ worker'[n] = "intent" /\ queue'[n] = Tail(queue[n])
           \/ worker'[n] = "dead" /\ queue'[n] = << >>
    BY <1>8 DEF WorkerRecv, Goto, Panic, TypeOK
  <2>2. Append(taken[n], Head(queue[n])) \o Tail(queue[n]) = Line(n)
    BY <1>2, <2>1, MoveHead DEF Line
  <2>3. CASE worker'[n] = "intent" /\ queue'[n] = Tail(queue[n])
    <3>1. Line(n)' = Line(n)
      BY <2>1, <2>2, <2>3 DEF Line
    <3>2. QED
      BY <1>5, <2>3, <3>1
  <2>4. CASE worker'[n] = "dead" /\ queue'[n] = << >>
    <3>1. /\ Append(taken[n], Head(queue[n])) \in Seq(Requests)
          /\ Tail(queue[n]) \in Seq(Requests)
      BY <1>2, <2>1, HeadTailProperties
    <3>2. Line(n)' = Append(taken[n], Head(queue[n]))
      BY <2>1, <2>4, <3>1, ConcatEmptySeq DEF Line
    <3>3. IsBeginningOf(Append(taken[n], Head(queue[n])), Line(n))
      BY <2>2, <3>1, ConcatBegins
    <3>4. QED
      BY <1>6, <2>4, <3>1, <3>2, <3>3
  <2>5. QED
    BY <2>1, <2>3, <2>4
<1>9. CASE ~WorkerRecv(n) /\ ~Panic(n)
  <2>1. /\ queue' = queue /\ taken' = taken
        /\ \/ worker'[n] \notin {"dead", "exited"}
           \/ worker'[n] = "exited" /\ watcher[n] = "ended"
    BY <1>9 DEF Worker, WorkerExit, WorkerGetIntent, WorkerVerify,
         WorkerFetch, WorkerConnect, WorkerDeliver, WorkerEcho,
         WorkerAttest, WorkerEchoFails, Continue, Return, Goto, TypeOK
  <2>2. Line(n)' = Line(n)
    BY <2>1 DEF Line
  <2>3. QED
    BY <1>5, <2>1, <2>2
<1>10. ~WorkerRecv(n) => taken' = taken
  BY DEF Worker, WorkerExit, WorkerGetIntent, WorkerVerify,
         WorkerFetch, WorkerConnect, WorkerDeliver, WorkerEcho,
         WorkerAttest, WorkerEchoFails
<1>11. QED
  BY <1>7, <1>8, <1>9, <1>10

\* A restart does, since it begins at the list again.
LEMMA RestartOrder ==
  ASSUME TypeOK, ReadAllOK, NEW n \in Nodes, Restart(n)
  PROVE  Order(n)'
<1>1. read_all' = read_all /\ read_all \in Seq(Requests)
  BY DEF Restart, pool_vars, read_all, ReadAllOK
<1>2. /\ batch'[n] = << >>
      /\ taken'[n] = << >>
      /\ queue'[n] = << >>
      /\ seen'[n] = {}
      /\ worker'[n] = "recv"
      /\ watcher'[n] = "read"
  BY DEF Restart, NewWorker, Goto, TypeOK
<1>3. Line(n)' = << >>
  BY <1>2 DEF Line
<1>4. IsBeginningOf(<< >>, read_all)
  BY <1>1, BeginningRefl
<1>5. Elements(<< >>) = {}
  BY DEF Elements
<1>6. Elements(Line(n))' = {}
  BY <1>3, <1>5 DEF Elements
<1>7. QED
  BY <1>1, <1>2, <1>3, <1>4, <1>6 DEF Order

\* A step of one node leaves the others as they are.
LEMMA OtherNodes ==
  ASSUME TypeOK, NEW n \in Nodes, NEW m \in Nodes, m # n,
         Watcher(n) \/ Worker(n) \/ WorkerEchoFails(n) \/ Restart(n)
  PROVE  NodeSame(m)
<1> USE DEF NodeSame, TypeOK
<1>1. CASE Watcher(n)
  BY <1>1 DEF Watcher, WatcherRead, WatcherReadFails, WatcherSend,
              WatcherSleep
<1>2. CASE Restart(n)
  BY <1>2 DEF Restart, NewWorker, Goto
<1>3. CASE Worker(n) \/ WorkerEchoFails(n)
  <2>1. UNCHANGED <<watcher, batch, pos, seen>>
    BY <1>3
    DEF Worker, WorkerRecv, WorkerExit, WorkerGetIntent, WorkerVerify,
        WorkerFetch, WorkerConnect, WorkerDeliver, WorkerEcho,
        WorkerAttest, WorkerEchoFails, WorkerKeeps
  <2>2. queue'[m] = queue[m] /\ worker'[m] = worker[m] /\ taken'[m] = taken[m]
    BY <1>3
    DEF Worker, WorkerRecv, WorkerExit, WorkerGetIntent, WorkerVerify,
        WorkerFetch, WorkerConnect, WorkerDeliver, WorkerEcho, WorkerAttest,
        WorkerEchoFails, Continue, Return, Panic, Goto
  <2>3. QED
    BY <2>1, <2>2
<1>4. QED
  BY <1>1, <1>2, <1>3

\* Every step does.
LEMMA StepOrder ==
  TypeOK /\ PoolInv /\ OrderInv /\ [Next]_vars => OrderInv'
<1> SUFFICES ASSUME TypeOK, PoolInv, OrderInv, [Next]_vars, NEW m \in Nodes
             PROVE  Order(m)'
  BY DEF OrderInv
<1>1. [PoolNext]_pool_vars
  BY NextIsPoolStep
<1>2. ReadAllOK /\ IsBeginningOf(read_all, read_all')
  BY <1>1, ReadAllFacts, ReadAllGrows
<1>3. PoolInv'
  BY <1>1, StepInv
<1>4. ReadAllOK'
  BY <1>3, ReadAllFacts, PTL
<1>5. Order(m)
  BY DEF OrderInv
<1>6. CASE Users \/ UNCHANGED vars
  <2>1. NodeSame(m)
    BY <1>6 DEF Users, PostRequest, RegisterFile, RemoveFile, vars,
                node_vars, NodeSame
  <2>2. QED
    BY <1>2, <1>4, <1>5, <2>1, OrderFrame
<1>7. ASSUME NEW n \in Nodes,
             Watcher(n) \/ Worker(n) \/ WorkerEchoFails(n) \/ Restart(n)
      PROVE  Order(m)'
  <2>1. UNCHANGED pool_vars
    BY <1>7
    DEF Watcher, WatcherRead, WatcherReadFails, WatcherSend, WatcherSleep,
        Worker, WorkerRecv, WorkerExit, WorkerGetIntent, WorkerVerify,
        WorkerFetch, WorkerConnect, WorkerDeliver, WorkerEcho,
        WorkerAttest, WorkerEchoFails, WorkerKeeps, Restart
  <2>2. CASE m = n
    BY <1>2, <1>5, <1>7, <2>1, <2>2, WatcherOrder, WorkerOrder, RestartOrder
  <2>3. CASE m # n
    <3>1. NodeSame(m)
      BY <1>7, <2>3, OtherNodes
    <3>2. QED
      BY <1>2, <1>4, <1>5, <3>1, OrderFrame
  <2>4. QED
    BY <2>2, <2>3
<1>8. QED
  BY <1>6, <1>7 DEF Next

\* Every node takes up the requests of the contract in the order it lists them,
\* none twice and none passed over, whatever the interleaving of the watchers,
\* the workers, the clients that post requests, and the restarts.
THEOREM ServiceTakesInOrder == Spec => []TakenInOrder
<1>1. OrderInv => TakenInOrder
  BY DEF OrderInv, Order, TakenInOrder, Line, Elements
<1>2. TypeOK /\ (PoolInv /\ RegistryInv) /\ OrderInv /\ [Next]_vars => OrderInv'
  BY StepOrder
<1>3. QED
  BY <1>1, <1>2, InitOrder, ContractInvariants, ServiceTypeCorrect, PTL
  DEF Spec

------------------------------------------------------------------------------
(***************************************************************************)
(* The inductive invariant behind ServedOnlyIfVerified: what the worker    *)
(* knows at each await of process_decryption_request, although the         *)
(* registry may have changed since it read the entry.                      *)
(***************************************************************************)
Knows(n) ==
  /\ worker[n] \in {"verify", "fetch", "connect", "deliver"} =>
       <<Current(n).filename, entry[n]>> \in registered
  /\ worker[n] \in {"fetch", "connect", "deliver"} =>
       Verdict[<<Current(n).witness_hex, entry[n].predicate>>] = "true"

EntriesRegistered ==
  \A f \in DOMAIN predicate_registry :
    <<f, predicate_registry[f]>> \in registered

ServeInv ==
  /\ EntriesRegistered
  /\ \A n \in Nodes : Knows(n)
  /\ ServedOnlyIfVerified

\* Nothing is served at the start.
LEMMA InitServe == Init => ServeInv
BY DEF Init, RegistryInit, EmptyMapping, ServeInv, EntriesRegistered, Knows,
       ServedOnlyIfVerified

\* The request at work was posted.
LEMMA CurrentPosted ==
  ASSUME TypeOK, ReadAllOK, NEW n \in Nodes, Order(n), taken[n] # << >>
  PROVE  Posted(Current(n)) /\ Current(n) \in Requests
<1>1. /\ taken[n] \in Seq(Requests)
      /\ Line(n) \in Seq(Requests)
      /\ read_all \in Seq(Requests)
      /\ IsBeginningOf(taken[n], Line(n))
  BY LineType, ConcatBegins DEF TypeOK, ReadAllOK, Line
<1>2. IsBeginningOf(taken[n], read_all)
  BY <1>1, BeginningTrans DEF Order
<1>3. Len(taken[n]) \in 1..Len(taken[n])
  BY <1>1
<1>4. /\ Current(n) = read_all[Len(taken[n])]
      /\ Len(taken[n]) \in 1..Len(read_all)
      /\ Current(n) \in Requests
  BY <1>1, <1>2, <1>3 DEF IsBeginningOf, Current
<1>5. QED
  BY <1>4 DEF ReadAllOK, Posted

\* Requests are never removed, so a delivery that was justified stays so.
LEMMA RequestsStay ==
  ASSUME PoolInv, [PoolNext]_pool_vars
  PROVE  Extends(requests, requests')
<1>1. ASSUME NEW r \in Requests, add(r) PROVE Extends(requests, requests')
  BY <1>1 DEF add, IsNewRequest, Insert, Extends
<1>2. CASE UNCHANGED requests
  BY <1>2 DEF Extends
<1>3. QED
  BY <1>1, <1>2 DEF PoolNext, pool_vars, submit_partial_attestation

\* A step that serves nothing new, and keeps the evidence, keeps the promise.
LEMMA ServedStays ==
  ASSUME ServedOnlyIfVerified, Extends(requests, requests'),
         registered \subseteq registered', delivered' = delivered
  PROVE  ServedOnlyIfVerified'
BY ZenonT(40) DEF ServedOnlyIfVerified, Extends

\* What a node knows stays true while it and its request are left alone.
LEMMA KnowsStays ==
  ASSUME NEW n \in Nodes, Knows(n), registered \subseteq registered',
         taken'[n] = taken[n], entry'[n] = entry[n],
         worker'[n] = worker[n]
  PROVE  Knows(n)'
BY DEF Knows, Current

\* The actions of the contracts' users.
LEMMA UsersServe ==
  ASSUME ServeInv, Extends(requests, requests'), Users
  PROVE  ServeInv'
<1>1. /\ registered \subseteq registered'
      /\ UNCHANGED <<worker, taken, entry, delivered>>
  BY DEF Users, PostRequest, RegisterFile, RemoveFile, node_vars,
         history_vars
<1>2. EntriesRegistered'
  <2>1. ASSUME NEW r \in Requests, PostRequest(r) PROVE EntriesRegistered'
    BY <2>1 DEF PostRequest, registry_vars, history_vars, ServeInv,
                EntriesRegistered
  <2>2. ASSUME NEW f \in Filenames, NEW e \in Entries, RegisterFile(f, e)
        PROVE  EntriesRegistered'
    <3>1. /\ predicate_registry' = Insert(predicate_registry, f, e)
          /\ registered' = registered \cup {<<f, e>>}
      BY <2>2 DEF RegisterFile, register_predicate
    <3>2. \A g \in DOMAIN predicate_registry' :
            \/ g = f /\ predicate_registry'[g] = e
            \/ /\ g \in DOMAIN predicate_registry
               /\ predicate_registry'[g] = predicate_registry[g]
      BY <3>1 DEF Insert
    <3>3. QED
      BY <3>1, <3>2 DEF ServeInv, EntriesRegistered
  <2>3. ASSUME NEW f \in Filenames, RemoveFile(f) PROVE EntriesRegistered'
    BY <2>3 DEF RemoveFile, remove_predicate, Take, history_vars, ServeInv,
                EntriesRegistered
  <2>4. QED
    BY <2>1, <2>2, <2>3 DEF Users
<1>3. \A n \in Nodes : Knows(n)'
  BY <1>1, KnowsStays DEF ServeInv
<1>4. ServedOnlyIfVerified'
  BY <1>1, ServedStays DEF ServeInv
<1>5. QED
  BY <1>2, <1>3, <1>4 DEF ServeInv

\* The actions that neither change the registry nor deliver.
LEMMA QuietServe ==
  ASSUME ServeInv, Extends(requests, requests'),
         UNCHANGED <<registry_vars, registered, delivered>>,
         \A n \in Nodes : Knows(n)'
  PROVE  ServeInv'
<1>1. ServedOnlyIfVerified'
  BY ServedStays DEF ServeInv
<1>2. EntriesRegistered'
  BY DEF ServeInv, EntriesRegistered, registry_vars
<1>3. QED
  BY <1>1, <1>2 DEF ServeInv

\* A worker that goes on keeps what it knows, and verify adds the verdict.
LEMMA WorkerKnows ==
  ASSUME TypeOK, ServeInv, NEW n \in Nodes, Worker(n) \/ WorkerEchoFails(n)
  PROVE  Knows(n)'
<1>1. Knows(n)
  BY DEF ServeInv
<1>2. CASE worker'[n] \in {"recv", "intent", "echo", "attest", "dead", "exited"}
  BY <1>2 DEF Knows
<1>3. CASE WorkerRecv(n)
  <2>1. worker'[n] \in {"intent", "dead"}
    BY <1>3 DEF WorkerRecv, Goto, Panic, TypeOK
  <2>2. QED
    BY <1>2, <2>1
<1>4. CASE WorkerGetIntent(n) /\ ~Panic(n)
  <2>1. /\ taken' = taken
        /\ worker'[n] = "verify"
        /\ Current(n).filename \in DOMAIN predicate_registry
        /\ entry'[n] = predicate_registry[Current(n).filename]
        /\ registered' = registered
    BY <1>4 DEF WorkerGetIntent, Goto, WorkerKeeps, TypeOK
  <2>2. <<Current(n).filename, entry'[n]>> \in registered
    BY <2>1 DEF ServeInv, EntriesRegistered
  <2>3. QED
    BY <2>1, <2>2 DEF Knows, Current
<1>5. CASE WorkerVerify(n) /\ Verified(n)
  <2>1. /\ taken' = taken
        /\ entry' = entry
        /\ worker[n] = "verify"
        /\ worker'[n] = "fetch"
        /\ registered' = registered
    BY <1>5 DEF WorkerVerify, Continue, Goto, WorkerKeeps, TypeOK
  <2>2. QED
    BY <1>1, <1>5, <2>1 DEF Knows, Current, Verified
<1>6. CASE Panic(n)
  <2>1. worker'[n] = "dead"
    BY <1>6 DEF Panic, Goto, TypeOK
  <2>2. QED
    BY <1>2, <2>1
<1>7. CASE Return(n)
  <2>1. worker'[n] = "recv"
    BY <1>7 DEF Return, Goto, TypeOK
  <2>2. QED
    BY <1>2, <2>1
<1>8. CASE \/ WorkerFetch(n) /\ Continue(n, "connect")
           \/ WorkerConnect(n) /\ Continue(n, "deliver")
  <2>1. /\ taken' = taken
        /\ entry' = entry
        /\ worker[n] \in {"fetch", "connect"}
        /\ registered' = registered
    BY <1>8 DEF WorkerFetch, WorkerConnect, Continue, WorkerKeeps
  <2>2. QED
    BY <1>1, <2>1 DEF Knows, Current
<1>9. CASE WorkerExit(n) \/ Continue(n, "echo") \/ Continue(n, "attest")
  <2>1. worker'[n] \in {"exited", "echo", "attest"}
    BY <1>9 DEF WorkerExit, Continue, Goto, TypeOK
  <2>2. QED
    BY <1>2, <2>1
<1>10. QED
  BY <1>3, <1>4, <1>5, <1>6, <1>7, <1>8, <1>9
  DEF Worker, WorkerVerify, WorkerFetch, WorkerConnect, WorkerDeliver,
      WorkerEcho, WorkerAttest, WorkerEchoFails

\* The delivery itself.
LEMMA DeliverServe ==
  ASSUME TypeOK, ReadAllOK, ServeInv, NEW n \in Nodes, Order(n),
         WorkerDeliver(n)
  PROVE  ServedOnlyIfVerified'
<1>1. /\ requests' = requests
      /\ registered' = registered
      /\ worker[n] = "deliver"
  BY DEF WorkerDeliver, WorkerKeeps, pool_vars
<1>2. CASE delivered' = delivered
  BY <1>1, <1>2 DEF ServeInv, ServedOnlyIfVerified
<1>3. CASE delivered' # delivered
  <2> DEFINE m == [location |-> Current(n).location, node |-> n,
                   filename |-> Current(n).filename, cid |-> CidOf(n)]
  <2>1. delivered' = delivered \cup {m}
    BY <1>3 DEF WorkerDeliver
  <2>2. taken[n] # << >> /\ entry[n] \in Entries
    BY <1>1 DEF TypeOK
  <2>3. PICK id \in DOMAIN requests : requests[id] = Current(n)
    BY <2>2, CurrentPosted DEF Posted
  <2>4. /\ <<Current(n).filename, entry[n]>> \in registered
        /\ Verdict[<<Current(n).witness_hex, entry[n].predicate>>] = "true"
    BY <1>1 DEF ServeInv, Knows
  <2>5. /\ requests[id].filename = m.filename
        /\ requests[id].location = m.location
        /\ <<m.filename, entry[n]>> \in registered
        /\ entry[n].cid = m.cid
        /\ Verdict[<<requests[id].witness_hex, entry[n].predicate>>] = "true"
    BY <2>3, <2>4 DEF CidOf
  <2> HIDE DEF m
  <2>6. QED
    BY <1>1, <2>1, <2>2, <2>3, <2>5 DEF ServeInv, ServedOnlyIfVerified
<1>4. QED
  BY <1>2, <1>3

\* What one node does leaves the entry of another alone.
LEMMA OtherEntries ==
  ASSUME TypeOK, NEW n \in Nodes, NEW m \in Nodes, m # n,
         Watcher(n) \/ Worker(n) \/ WorkerEchoFails(n) \/ Restart(n)
  PROVE  entry'[m] = entry[m]
BY DEF TypeOK, Watcher, WatcherRead, WatcherReadFails, WatcherSend,
       WatcherSleep, Restart, NewWorker, Worker, WorkerRecv, WorkerExit,
       WorkerGetIntent, WorkerVerify, WorkerFetch, WorkerConnect,
       WorkerDeliver, WorkerEcho, WorkerAttest, WorkerEchoFails, Continue,
       Return, Panic

\* What the steps of a node show of the request it has in hand.
LEMMA NodeKnows ==
  ASSUME TypeOK, ServeInv, NEW n \in Nodes,
         Watcher(n) \/ Worker(n) \/ WorkerEchoFails(n) \/ Restart(n)
  PROVE  \A m \in Nodes : Knows(m)'
<1> SUFFICES ASSUME NEW m \in Nodes PROVE Knows(m)'
  OBVIOUS
<1>1. Knows(m)
  BY DEF ServeInv
<1>2. registered' = registered
  BY DEF Watcher, WatcherRead, WatcherReadFails, WatcherSend,
         WatcherSleep, Restart, Worker, WorkerRecv, WorkerExit,
         WorkerGetIntent, WorkerVerify, WorkerFetch, WorkerConnect,
         WorkerDeliver, WorkerEcho, WorkerAttest, WorkerEchoFails,
         WorkerKeeps, history_vars
<1>3. CASE m # n
  <2>1. NodeSame(m) /\ entry'[m] = entry[m]
    BY <1>3, OtherNodes, OtherEntries
  <2>2. QED
    BY <1>1, <1>2, <2>1, KnowsStays DEF NodeSame
<1>4. CASE m = n /\ Watcher(n)
  <2>1. UNCHANGED <<worker, taken, entry>>
    BY <1>4 DEF Watcher, WatcherRead, WatcherReadFails, WatcherSend,
                WatcherSleep
  <2>2. QED
    BY <1>1, <1>2, <2>1, KnowsStays
<1>5. CASE m = n /\ Restart(n)
  <2>1. worker'[n] = "recv"
    BY <1>5 DEF Restart, NewWorker, Goto, TypeOK
  <2>2. QED
    BY <1>5, <2>1 DEF Knows
<1>6. QED
  BY <1>3, <1>4, <1>5, WorkerKnows

\* Every step keeps the promise.
LEMMA StepServe ==
  TypeOK /\ PoolInv /\ OrderInv /\ ServeInv /\ [Next]_vars => ServeInv'
<1> SUFFICES ASSUME TypeOK, PoolInv, OrderInv, ServeInv, [Next]_vars
             PROVE  ServeInv'
  OBVIOUS
<1>1. Extends(requests, requests')
  BY NextIsPoolStep, RequestsStay
<1>2. ReadAllOK
  BY ReadAllFacts
<1>3. CASE Users
  BY <1>1, <1>3, UsersServe
<1>4. CASE UNCHANGED vars
  <2>1. \A n \in Nodes : Knows(n)'
    BY <1>4, KnowsStays DEF vars, node_vars, history_vars, ServeInv
  <2>2. QED
    BY <1>1, <1>4, <2>1, QuietServe DEF vars, history_vars
<1>5. ASSUME NEW n \in Nodes, WorkerDeliver(n) PROVE ServeInv'
  <2>1. \A m \in Nodes : Knows(m)'
    BY <1>5, NodeKnows DEF Worker
  <2>2. ServedOnlyIfVerified'
    BY <1>2, <1>5, DeliverServe DEF OrderInv
  <2>3. UNCHANGED <<registry_vars, registered>>
    BY <1>5 DEF WorkerDeliver, WorkerKeeps
  <2>4. EntriesRegistered'
    BY <2>3 DEF ServeInv, EntriesRegistered, registry_vars
  <2>5. QED
    BY <2>1, <2>2, <2>4 DEF ServeInv
<1>6. ASSUME NEW n \in Nodes, ~WorkerDeliver(n),
             Watcher(n) \/ Worker(n) \/ WorkerEchoFails(n) \/ Restart(n)
      PROVE  ServeInv'
  <2>1. UNCHANGED <<registry_vars, registered, delivered>>
    BY <1>6
    DEF Watcher, WatcherRead, WatcherReadFails, WatcherSend, WatcherSleep,
        Worker, WorkerRecv, WorkerExit, WorkerGetIntent, WorkerVerify,
        WorkerFetch, WorkerConnect, WorkerEcho, WorkerAttest,
        WorkerEchoFails, WorkerKeeps, Restart, history_vars
  <2>2. \A m \in Nodes : Knows(m)'
    BY <1>6, NodeKnows
  <2>3. QED
    BY <1>1, <2>1, <2>2, QuietServe
<1>7. QED
  BY <1>3, <1>4, <1>5, <1>6 DEF Next

\* A client only gets a partial decryption for a posted request whose witness
\* satisfies the predicate registered with the ciphertext, for any number of
\* nodes and although entries are removed and registered anew meanwhile.
THEOREM ServiceServesOnlyVerified == Spec => []ServedOnlyIfVerified
<1>1. ServeInv => ServedOnlyIfVerified
  BY DEF ServeInv
<1>2. /\ TypeOK /\ (PoolInv /\ RegistryInv) /\ OrderInv /\ ServeInv
      /\ [Next]_vars
      => OrderInv' /\ ServeInv'
  BY StepOrder, StepServe
<1>3. QED
  BY <1>1, <1>2, InitOrder, InitServe, ContractInvariants,
     ServiceTypeCorrect, PTL
  DEF Spec
------------------------------------------------------------------------------
(***************************************************************************)
(* The refinement: every step of the nodes, the contracts and their users  *)
(* is a step of ServiceDesk or none.  It needs what is proved above of the *)
(* order and of what the worker knows.                                     *)
(***************************************************************************)
Handling == {"intent", "verify", "fetch", "connect", "deliver"}

\* The witness of the request at work was decoded.
HexInHand ==
  \A n \in Nodes :
    worker[n] \in Handling => Current(n).witness_hex \in HexWitnesses

\* A node gets to these states from recv, where it decoded the witness.
LEMMA HexStays ==
  ASSUME TypeOK, NEW n \in Nodes, NEW m \in Nodes,
         worker[m] \in Handling => Current(m).witness_hex \in HexWitnesses,
         Watcher(n) \/ Worker(n) \/ WorkerEchoFails(n) \/ Restart(n)
  PROVE  worker'[m] \in Handling => Current(m)'.witness_hex \in HexWitnesses
<1>1. CASE m # n
  <2>1. NodeSame(m)
    BY <1>1, OtherNodes
  <2> QED BY <2>1 DEF NodeSame, Current
<1>2. CASE m = n /\ (Watcher(n) \/ Restart(n))
  <2>1. \/ UNCHANGED <<worker, taken>>
        \/ worker'[n] = "recv"
    BY <1>2 DEF Watcher, WatcherRead, WatcherReadFails, WatcherSend,
                WatcherSleep, Restart, NewWorker, Goto, TypeOK
  <2> QED BY <1>2, <2>1 DEF Handling, Current
<1>3. CASE m = n /\ WorkerRecv(n)
  <2>1. CASE worker'[n] = "intent"
    <3>1. /\ Head(queue[n]).witness_hex \in HexWitnesses
          /\ taken'[n] = Append(taken[n], Head(queue[n]))
          /\ taken[n] \in Seq(Requests) /\ queue[n] # << >>
          /\ queue[n] \in Seq(Requests)
      BY <1>3, <2>1 DEF WorkerRecv, Panic, Goto, TypeOK
    <3>2. Current(n)' = Head(queue[n])
      BY <3>1 DEF Current
    <3> QED BY <1>3, <3>1, <3>2
  <2>2. CASE worker'[n] # "intent"
    <3>1. worker'[n] = "dead"
      BY <1>3, <2>2 DEF WorkerRecv, Panic, Goto, TypeOK
    <3> QED BY <1>3, <3>1 DEF Handling
  <2> QED BY <2>1, <2>2
<1>4. CASE m = n /\ (Worker(n) \/ WorkerEchoFails(n)) /\ ~ WorkerRecv(n)
  <2>1. /\ taken' = taken
        /\ worker'[n] \in Handling => worker[n] \in Handling
    BY <1>4 DEF Worker, WorkerExit, WorkerGetIntent, WorkerVerify,
                WorkerFetch, WorkerConnect, WorkerDeliver, WorkerEcho,
                WorkerAttest, WorkerEchoFails, Goto, Continue, Return, Panic,
                Handling, TypeOK
  <2> QED BY <1>4, <2>1 DEF Current
<1> QED BY <1>1, <1>2, <1>3, <1>4

\* Every step keeps it.
LEMMA StepHex == TypeOK /\ HexInHand /\ [Next]_vars => HexInHand'
<1> SUFFICES ASSUME TypeOK, HexInHand, [Next]_vars, NEW m \in Nodes
             PROVE  worker'[m] \in Handling => Current(m)'.witness_hex \in HexWitnesses
  BY DEF HexInHand
<1>1. CASE UNCHANGED vars \/ Users
  <2>1. UNCHANGED <<worker, taken>>
    BY <1>1 DEF vars, node_vars, Users, PostRequest, RegisterFile, RemoveFile
  <2> QED BY <2>1 DEF HexInHand, Current
<1>2. ASSUME NEW n \in Nodes,
             Watcher(n) \/ Worker(n) \/ WorkerEchoFails(n) \/ Restart(n)
      PROVE  worker'[m] \in Handling => Current(m)'.witness_hex \in HexWitnesses
  BY <1>2, HexStays DEF HexInHand
<1> QED BY <1>1, <1>2 DEF Next

\* A request that is posted joins the line.
LEMMA LineJoins ==
  ASSUME PoolInv, PoolInv', NEW r \in Requests, add(r)
  PROVE  /\ read_all' = Append(read_all, r)
         /\ \A k \in 1..Len(read_all) : read_all[k] # r
<1> DEFINE id == hash_request(r)
<1>1. ReadAllOK /\ ReadAllOK'
  BY ReadAllFacts, PTL
<1>2. /\ id \in Ids /\ id \notin DOMAIN requests
      /\ request_ids' = Append(request_ids, id)
      /\ requests' = Insert(requests, id, r)
  BY HashType DEF add, IsNewRequest
<1> HIDE DEF id
<1>3. request_ids \in Seq(Ids)
  BY DEF PoolInv, PoolTypeOK
<1>4. /\ Len(request_ids') = Len(request_ids) + 1
      /\ request_ids'[Len(request_ids) + 1] = id
      /\ \A i \in 1..Len(request_ids) : request_ids'[i] = request_ids[i]
  BY <1>2, <1>3
<1>5. /\ requests'[id] = r
      /\ \A i \in DOMAIN requests : requests'[i] = requests[i]
  BY <1>2 DEF Insert
<1>6. \A i \in 1..Len(request_ids) : request_ids[i] \in DOMAIN requests
  BY DEF PoolInv, IndexConsistent
<1>7. /\ Len(read_all') = Len(read_all) + 1
      /\ read_all'[Len(read_all) + 1] = r
      /\ \A i \in 1..Len(read_all) : read_all'[i] = read_all[i]
  BY <1>1, <1>4, <1>5, <1>6 DEF ReadAllOK
<1>8. read_all' = Append(read_all, r)
  BY <1>1, <1>7 DEF ReadAllOK
<1>9. \A k \in 1..Len(read_all) : read_all[k] # r
  <2> SUFFICES ASSUME NEW k \in 1..Len(read_all), read_all[k] = r PROVE FALSE
    OBVIOUS
  <2>1. /\ read_all'[k] = read_all'[Len(read_all) + 1]
        /\ k \in 1..Len(read_all') /\ Len(read_all) + 1 \in 1..Len(read_all')
        /\ k # Len(read_all) + 1
    BY <1>1, <1>7 DEF ReadAllOK
  <2> QED BY <1>1, <2>1 DEF ReadAllOK
<1> QED BY <1>8, <1>9

\* What a step of one node does to the others' desks.
LEMMA OneDesk ==
  ASSUME TypeOK, NEW n \in Nodes,
         Watcher(n) \/ Worker(n) \/ WorkerEchoFails(n) \/ Restart(n)
  PROVE  /\ [m \in Nodes |-> DeskOf(m)]'
              = [[m \in Nodes |-> DeskOf(m)] EXCEPT ![n] = DeskOf(n)']
         /\ [m \in Nodes |-> Len(taken[m])]'
              = [[m \in Nodes |-> Len(taken[m])] EXCEPT ![n] = Len(taken'[n])]
         /\ read_all' = read_all
<1>1. ASSUME NEW m \in Nodes, m # n
      PROVE  worker'[m] = worker[m] /\ taken'[m] = taken[m]
  BY <1>1, OtherNodes DEF NodeSame
<1>2. \A m \in Nodes : m # n => DeskOf(m)' = DeskOf(m)
  BY <1>1 DEF DeskOf
<1>3. UNCHANGED pool_vars
  BY DEF Watcher, WatcherRead, WatcherReadFails, WatcherSend, WatcherSleep,
         Worker, WorkerRecv, WorkerExit, WorkerGetIntent, WorkerVerify,
         WorkerFetch, WorkerConnect, WorkerDeliver, WorkerEcho, WorkerAttest,
         WorkerEchoFails, WorkerKeeps, Restart
<1>4. read_all' = read_all
  BY <1>3 DEF pool_vars, read_all
<1> QED BY <1>1, <1>2, <1>4

\* A step that only ends what is on the desk, or changes nothing there.
LEMMA DeskMoves ==
  ASSUME TypeOK, NEW n \in Nodes,
         Watcher(n) \/ Worker(n) \/ WorkerEchoFails(n) \/ Restart(n),
         taken' = taken, delivered' = delivered,
         \/ DeskOf(n)' = DeskOf(n)
         \/ DeskOf(n)' = "closed"
         \/ DeskOf(n) \in {"open", "answered"} /\ DeskOf(n)' = "free"
  PROVE  [Desk!Next]_(Desk!vars)
<1> DEFINE desk == [m \in Nodes |-> DeskOf(m)]
           place == [m \in Nodes |-> Len(taken[m])]
<1>1. /\ desk' = [desk EXCEPT ![n] = DeskOf(n)']
      /\ read_all' = read_all
  BY OneDesk
<1>2. place' = place /\ desk[n] = DeskOf(n)
  OBVIOUS
<1>3. CASE DeskOf(n)' = DeskOf(n)
  <2>1. desk' = desk
    BY <1>1, <1>3
  <2> QED BY <1>1, <1>2, <2>1 DEF Desk!vars
<1>4. CASE DeskOf(n)' = "closed"
  <2>1. Desk!Close(n)
    BY <1>1, <1>2, <1>4 DEF Desk!Close
  <2> QED BY <2>1 DEF Desk!Next
<1>5. CASE DeskOf(n) \in {"open", "answered"} /\ DeskOf(n)' = "free"
  <2>1. Desk!Finish(n)
    BY <1>1, <1>2, <1>5 DEF Desk!Finish
  <2> QED BY <2>1 DEF Desk!Next
<1> QED BY <1>3, <1>4, <1>5

\* Taking a request from the channel is opening the next item of the line.
LEMMA DeskOpens ==
  ASSUME TypeOK, ReadAllOK, NEW n \in Nodes, Order(n), WorkerRecv(n)
  PROVE  Desk!Next
<1> DEFINE desk == [m \in Nodes |-> DeskOf(m)]
           place == [m \in Nodes |-> Len(taken[m])]
<1>1. /\ desk' = [desk EXCEPT ![n] = DeskOf(n)']
      /\ place' = [place EXCEPT ![n] = Len(taken'[n])]
      /\ read_all' = read_all
  BY OneDesk DEF Worker
<1>2. /\ taken[n] \in Seq(Requests) /\ queue[n] \in Seq(Requests)
      /\ queue[n] # << >> /\ read_all \in Seq(Requests)
      /\ taken'[n] = Append(taken[n], Head(queue[n]))
      /\ delivered' = delivered
  BY DEF WorkerRecv, TypeOK, ReadAllOK
<1>3. Len(taken'[n]) = place[n] + 1 /\ place[n] < Len(read_all)
  <2>1. Len(Line(n)) = Len(taken[n]) + Len(queue[n])
    BY <1>2, ConcatProperties DEF Line
  <2>2. Len(Line(n)) <= Len(read_all)
    BY DEF Order, IsBeginningOf
  <2>3. Len(queue[n]) \in Nat \ {0} /\ Len(taken[n]) \in Nat /\ Len(read_all) \in Nat
    BY <1>2
  <2>4. Len(taken'[n]) = Len(taken[n]) + 1 /\ place[n] = Len(taken[n])
    BY <1>2
  <2> HIDE DEF place, desk
  <2>5. ASSUME NEW a \in Nat, NEW b \in Nat \ {0}, NEW c \in Nat, a + b <= c
        PROVE  a < c
    BY <2>5
  <2>6. Len(taken[n]) < Len(read_all)
    BY <2>1, <2>2, <2>3, <2>5, Zenon
  <2> QED BY <2>4, <2>6, Zenon
<1>4. desk[n] = "free" /\ DeskOf(n)' \in {"open", "closed"}
  <2>1. worker[n] = "recv" /\ worker'[n] \in {"intent", "dead"}
    BY DEF WorkerRecv, Panic, Goto, TypeOK
  <2> QED BY <2>1 DEF DeskOf
<1>5. Desk!Open(n)
  BY <1>1, <1>2, <1>3, <1>4 DEF Desk!Open
<1> QED BY <1>5 DEF Desk!Next

\* The delivery is the answer to the open item, and fits.
LEMMA DeskGives ==
  ASSUME TypeOK, ReadAllOK, HexInHand, NEW n \in Nodes, Order(n), Knows(n),
         WorkerDeliver(n), Continue(n, "echo"),
         delivered' = delivered \cup
           {[location |-> Current(n).location, node |-> n,
             filename |-> Current(n).filename, cid |-> CidOf(n)]}
  PROVE  Desk!Next
<1> DEFINE desk == [m \in Nodes |-> DeskOf(m)]
           place == [m \in Nodes |-> Len(taken[m])]
           answer == [location |-> Current(n).location, node |-> n,
                      filename |-> Current(n).filename, cid |-> CidOf(n)]
           fit == <<n, Current(n), answer>>
           how == <<n, Current(n), entry[n]>>
<1>1. /\ desk' = [desk EXCEPT ![n] = DeskOf(n)']
      /\ read_all' = read_all
  BY OneDesk DEF Worker
<1>2. /\ worker[n] = "deliver" /\ worker'[n] = "echo" /\ taken' = taken
      /\ taken[n] # << >> /\ entry[n] \in Entries
  BY DEF WorkerDeliver, Continue, Goto, TypeOK
<1>3. desk[n] = "open" /\ DeskOf(n)' = "answered" /\ place' = place
  BY <1>2 DEF DeskOf
<1>4. Current(n) \in Requests
  BY <1>2, CurrentPosted
<1>5. /\ Current(n).witness_hex \in HexWitnesses
      /\ Verdict[<<Current(n).witness_hex, entry[n].predicate>>] = "true"
  BY <1>2 DEF HexInHand, Handling, Knows
<1>6. how \in Proper
  BY <1>2, <1>4, <1>5 DEF Proper
<1>7. fit \in Fits
  <2>1. fit = <<how[1], how[2],
                [location |-> how[2].location, node |-> how[1],
                 filename |-> how[2].filename, cid |-> how[3].cid]>>
    BY DEF CidOf
  <2> HIDE DEF how, fit
  <2> QED BY <1>6, <2>1 DEF Fits
<1>8. read_all[place[n]] = Current(n)
  <2>1. /\ taken[n] \in Seq(Requests) /\ Line(n) \in Seq(Requests)
        /\ read_all \in Seq(Requests) /\ IsBeginningOf(taken[n], Line(n))
    BY LineType, ConcatBegins DEF TypeOK, ReadAllOK, Line
  <2>2. IsBeginningOf(taken[n], read_all)
    BY <2>1, BeginningTrans DEF Order
  <2>3. Len(taken[n]) \in 1..Len(taken[n])
    BY <1>2, <2>1
  <2> QED BY <2>1, <2>2, <2>3 DEF IsBeginningOf, Current
<1> HIDE DEF answer
<1>9. Desk!Give(n, answer)
  BY <1>1, <1>3, <1>7, <1>8 DEF Desk!Give, answer
<1>10. fit[3] = answer
  OBVIOUS
<1> HIDE DEF fit
<1> QED BY <1>7, <1>9, <1>10 DEF Desk!Next

\* A node that starts again begins with the line anew.
LEMMA DeskAnew ==
  ASSUME TypeOK, NEW n \in Nodes, Restart(n)
  PROVE  Desk!Next
<1>1. /\ [m \in Nodes |-> DeskOf(m)]'
           = [[m \in Nodes |-> DeskOf(m)] EXCEPT ![n] = DeskOf(n)']
      /\ [m \in Nodes |-> Len(taken[m])]'
           = [[m \in Nodes |-> Len(taken[m])] EXCEPT ![n] = Len(taken'[n])]
      /\ read_all' = read_all
  BY OneDesk
<1>2. worker'[n] = "recv" /\ taken'[n] = << >> /\ delivered' = delivered
  BY DEF Restart, NewWorker, Goto, TypeOK
<1>3. DeskOf(n)' = "free" /\ Len(taken'[n]) = 0
  BY <1>2 DEF DeskOf
<1>4. Desk!OpenAnew(n)
  BY <1>1, <1>2, <1>3 DEF Desk!OpenAnew
<1> QED BY <1>4 DEF Desk!Next

\* The other steps of the worker, and those of the watcher.
LEMMA DeskRests ==
  ASSUME TypeOK, NEW n \in Nodes,
         \/ Watcher(n)
         \/ WorkerExit(n) \/ WorkerGetIntent(n) \/ WorkerVerify(n)
         \/ WorkerFetch(n) \/ WorkerConnect(n) \/ WorkerEcho(n)
         \/ WorkerAttest(n) \/ WorkerEchoFails(n)
         \/ WorkerDeliver(n) /\ Return(n) /\ UNCHANGED delivered
  PROVE  [Desk!Next]_(Desk!vars)
<1>1. Watcher(n) \/ Worker(n) \/ WorkerEchoFails(n)
  BY DEF Worker
<1>2. taken' = taken /\ delivered' = delivered
  BY DEF Watcher, WatcherRead, WatcherReadFails, WatcherSend, WatcherSleep,
         WorkerExit, WorkerGetIntent, WorkerVerify, WorkerFetch, WorkerConnect,
         WorkerEcho, WorkerAttest, WorkerEchoFails, WorkerDeliver, history_vars
<1>3. \/ worker' = worker
      \/ worker'[n] \in {"dead", "exited"}
      \/ /\ worker[n] \in Handling \cup {"echo"} /\ worker'[n] = "recv"
      \/ /\ worker[n] \in Handling /\ worker'[n] \in Handling
      \/ /\ worker[n] = "echo" /\ worker'[n] = "attest"
  BY DEF Watcher, WatcherRead, WatcherReadFails, WatcherSend, WatcherSleep,
         WorkerExit, WorkerGetIntent, WorkerVerify, WorkerFetch, WorkerConnect,
         WorkerEcho, WorkerAttest, WorkerEchoFails, WorkerDeliver,
         Goto, Continue, Return, Panic, Handling, TypeOK
<1>4. \/ DeskOf(n)' = DeskOf(n)
      \/ DeskOf(n)' = "closed"
      \/ DeskOf(n) \in {"open", "answered"} /\ DeskOf(n)' = "free"
  BY <1>3 DEF DeskOf, Handling
<1> QED BY <1>1, <1>2, <1>4, DeskMoves

\* Each step, by who takes it.
LEMMA StepDesk ==
  TypeOK /\ PoolInv /\ PoolInv' /\ OrderInv /\ ServeInv /\ HexInHand
    /\ [Next]_vars => [Desk!Next]_(Desk!vars)
<1> SUFFICES ASSUME TypeOK, PoolInv, PoolInv', OrderInv, ServeInv, HexInHand,
                    [Next]_vars
             PROVE  [Desk!Next]_(Desk!vars)
  OBVIOUS
<1>1. ReadAllOK
  BY ReadAllFacts
<1>2. CASE UNCHANGED <<request_ids, requests, worker, taken, delivered>>
  BY <1>2 DEF Desk!vars, read_all, DeskOf
<1>3. CASE UNCHANGED vars
  BY <1>2, <1>3 DEF vars, pool_vars, node_vars, history_vars
<1>4. ASSUME NEW r \in Requests, PostRequest(r) PROVE [Desk!Next]_(Desk!vars)
  <2>1. /\ read_all' = Append(read_all, r)
        /\ \A k \in 1..Len(read_all) : read_all[k] # r
    BY <1>4, LineJoins DEF PostRequest
  <2>2. UNCHANGED <<worker, taken, delivered>>
    BY <1>4 DEF PostRequest, node_vars, history_vars
  <2>3. Desk!Join(r)
    BY <2>1, <2>2 DEF Desk!Join, DeskOf
  <2> QED BY <2>3 DEF Desk!Next
<1>5. CASE Users /\ ~ (\E r \in Requests : PostRequest(r))
  BY <1>2, <1>5 DEF Users, RegisterFile, RemoveFile, pool_vars, node_vars,
                    history_vars
<1>6. ASSUME NEW n \in Nodes, Restart(n) PROVE [Desk!Next]_(Desk!vars)
  BY <1>6, DeskAnew
<1>7. ASSUME NEW n \in Nodes, Worker(n) \/ Watcher(n) \/ WorkerEchoFails(n)
      PROVE  [Desk!Next]_(Desk!vars)
  <2>1. CASE WorkerRecv(n)
    BY <1>1, <2>1, DeskOpens DEF OrderInv
  <2>2. CASE WorkerDeliver(n) /\ ~ (Return(n) /\ UNCHANGED delivered)
    <3>1. /\ Continue(n, "echo")
          /\ delivered' = delivered \cup
               {[location |-> Current(n).location, node |-> n,
                 filename |-> Current(n).filename, cid |-> CidOf(n)]}
      BY <2>2 DEF WorkerDeliver
    <3> QED BY <1>1, <2>2, <3>1, DeskGives DEF OrderInv, ServeInv
  <2> QED BY <1>7, <2>1, <2>2, DeskRests DEF Worker
<1> QED BY <1>3, <1>4, <1>5, <1>6, <1>7 DEF Next

\* Between two starts of a node each request is opened once, in the order of
\* read_all, and answered at most once, with what its witness is good for: the
\* polling, the seen set and the channel cannot be told from a line of requests.
THEOREM ServiceImplementsDesk == Spec => ImplementsDesk
<1>1. Init => Desk!Init
  <2> SUFFICES ASSUME Init PROVE Desk!Init
    OBVIOUS
  <2>1. read_all = << >> /\ delivered = {}
    BY DEF Init, PoolInit, read_all
  <2>2. \A n \in Nodes : taken[n] = << >> /\ worker[n] = "recv"
    BY DEF Init
  <2> QED BY <2>1, <2>2 DEF Desk!Init, DeskOf
<1>2. Init => HexInHand
  BY DEF Init, HexInHand, Handling
<1>3. TypeOK /\ (PoolInv /\ RegistryInv) /\ OrderInv /\ ServeInv /\ HexInHand
        /\ [Next]_vars => OrderInv' /\ ServeInv' /\ HexInHand'
  BY StepOrder, StepServe, StepHex
<1> QED BY <1>1, <1>2, <1>3, StepDesk, InitOrder, InitServe, ContractInvariants,
           ServiceTypeCorrect, PTL
        DEF Spec, ImplementsDesk, Desk!Spec
==============================================================================
