---------------------------- MODULE KeySyncProofs ----------------------------
(***************************************************************************)
(* The system keys keep up with the hints, for any number of nodes, starts *)
(* and failed attempts.                                                    *)
(***************************************************************************)
EXTENDS KeySync, TLAPS

(***************************************************************************)
(* Sequences.                                                              *)
(***************************************************************************)
LEMMA BeginningRefl ==
  ASSUME NEW S, NEW s \in Seq(S)
  PROVE  IsBeginningOf(s, s)
BY DEF IsBeginningOf

\* A beginning of a beginning is a beginning.
LEMMA BeginningTrans ==
  ASSUME NEW S, NEW s \in Seq(S), NEW t \in Seq(S), NEW u \in Seq(S),
         IsBeginningOf(s, t), IsBeginningOf(t, u)
  PROVE  IsBeginningOf(s, u)
BY DEF IsBeginningOf

\* A beginning as long as the whole is the whole.
LEMMA SameLength ==
  ASSUME NEW S, NEW s \in Seq(S), NEW t \in Seq(S),
         IsBeginningOf(s, t), Len(t) <= Len(s)
  PROVE  s = t
<1>1. Len(s) = Len(t) /\ \A i \in 1..Len(s) : s[i] = t[i]
  BY DEF IsBeginningOf
<1>2. QED
  BY <1>1

------------------------------------------------------------------------------
(***************************************************************************)
(* Type correctness.                                                       *)
(***************************************************************************)
LEMMA SetOne ==
  ASSUME NEW S, NEW f \in [Nodes -> S], NEW n \in Nodes, NEW v \in S
  PROVE  /\ [f EXCEPT ![n] = v] \in [Nodes -> S]
         /\ [f EXCEPT ![n] = v][n] = v
         /\ \A m \in Nodes \ {n} : [f EXCEPT ![n] = v][m] = f[m]
OBVIOUS

\* The announcements and the entries that are made.
LEMMA Made ==
  /\ ConfigAnn \in Announcement
  /\ KeysAnn \in Announcement
  /\ ConfigEntry \in DocEntry
  /\ \A h \in Hints : /\ HintAnn(h) \in Announcement
                      /\ HintEntry(Index[h[1]], h) \in DocEntry
  /\ \A e \in DocEntry : e.ann \in Announcement
  /\ \A ann \in Announcement : ann.tag = "Hint" => ann.data \in Hints
<1>1. ConfigAnn \in Announcement /\ KeysAnn \in Announcement
  BY DEF Announcement
<1>2. \A h \in Hints : HintAnn(h) \in Announcement
  BY DEF Announcement
<1>3. /\ ConfigEntry \in DocEntry
      /\ \A h \in Hints : HintEntry(Index[h[1]], h) \in DocEntry
  BY DEF DocEntry
<1>4. \A e \in DocEntry : e.ann \in Announcement
  BY <1>1, <1>2 DEF DocEntry, ConfigEntry, HintEntry
<1>5. \A ann \in Announcement : ann.tag = "Hint" => ann.data \in Hints
  BY DEF Announcement, ConfigAnn, KeysAnn, HintAnn
<1>6. QED
  BY <1>1, <1>2, <1>3, <1>4, <1>5

\* The types at the start.
LEMMA InitTypeOK == Init => TypeOK
<1> SUFFICES ASSUME Init PROVE TypeOK
  OBVIOUS
<1>1. \A S : << >> \in Seq(S)
  OBVIOUS
<1>2. QED
  BY <1>1, NetworkAssumption DEF Init, TypeOK, Phases, Running

\* Sending keeps the types of the channels.
LEMMA SendType ==
  ASSUME chan \in [Nodes -> Seq(Announcement)], NEW n \in Nodes,
         NEW ann \in Announcement, Send(n, ann)
  PROVE  chan' \in [Nodes -> Seq(Announcement)]
<1>1. Append(chan[n], ann) \in Seq(Announcement)
  OBVIOUS
<1>2. chan' = chan \/ chan' = [chan EXCEPT ![n] = Append(chan[n], ann)]
  BY DEF Send
<1>3. QED
  BY <1>1, <1>2, SetOne

\* The steps that start, stop and connect nodes.
LEMMA StartTypes ==
  ASSUME TypeOK,
         \/ StartBootstrap
         \/ \E n \in Nodes : StartJoiner(n) \/ Stop(n) \/ Subscribe(n)
  PROVE  TypeOK'
<1> USE NetworkAssumption
<1>1. CASE StartBootstrap
  <2>1. chan' \in [Nodes -> Seq(Announcement)]
    BY <1>1, Made, SendType DEF StartBootstrap, TypeOK
  <2>2. replica' \in [Nodes -> SUBSET DocEntry]
    BY <1>1, Made DEF StartBootstrap, TypeOK
  <2>3. /\ phase' \in [Nodes -> Phases]
        /\ starts' \in [Nodes -> 0..MaxStarts]
        /\ \A n \in Nodes : Running(n)' => starts'[n] # 0
    BY <1>1 DEF StartBootstrap, Goto, TypeOK, Phases, Running
  <2>4. QED
    BY <1>1, <2>1, <2>2, <2>3 DEF StartBootstrap, TypeOK, key_vars
<1>2. ASSUME NEW n \in Nodes, StartJoiner(n) PROVE TypeOK'
  <2>1. /\ phase' \in [Nodes -> Phases]
        /\ starts' \in [Nodes -> 0..MaxStarts]
        /\ \A m \in Nodes : Running(m)' => starts'[m] # 0
    <3>1. /\ phase' = [phase EXCEPT ![n] = "config"]
          /\ starts' = [starts EXCEPT ![n] = starts[n] + 1]
          /\ starts[n] + 1 \in 0..MaxStarts
          /\ starts[n] + 1 # 0
      BY <1>2 DEF StartJoiner, Goto, TypeOK
    <3>2. phase' \in [Nodes -> Phases] /\ starts' \in [Nodes -> 0..MaxStarts]
      BY <3>1, SetOne DEF TypeOK, Phases
    <3>3. \A m \in Nodes \ {n} : phase'[m] = phase[m] /\ starts'[m] = starts[m]
      BY <3>1 DEF TypeOK
    <3>4. starts'[n] # 0
      BY <3>1 DEF TypeOK
    <3>5. QED
      BY <3>2, <3>3, <3>4 DEF TypeOK, Running
  <2>2. QED
    BY <1>2, <2>1 DEF StartJoiner, TypeOK, key_vars
<1>3. ASSUME NEW n \in Nodes, Stop(n) PROVE TypeOK'
  <2>1. << >> \in Seq(Announcement)
    OBVIOUS
  <2>2. /\ events' \in [Nodes -> Seq(Announcement)]
        /\ chan' \in [Nodes -> Seq(Announcement)]
    BY <1>3, <2>1, SetOne DEF Stop, TypeOK
  <2>3. /\ phase' \in [Nodes -> Phases]
        /\ next' \in [Nodes -> Nat \ {0}]
        /\ replica' \in [Nodes -> SUBSET DocEntry]
        /\ subscribed' \in [Nodes -> BOOLEAN]
        /\ config' \in [Nodes -> BOOLEAN]
        /\ \A m \in Nodes : Running(m)' => starts'[m] # 0
    BY <1>3 DEF Stop, Goto, TypeOK, Phases, Running
  <2>4. QED
    BY <1>3, <2>2, <2>3 DEF Stop, TypeOK, key_vars
<1>4. ASSUME NEW n \in Nodes, Subscribe(n) PROVE TypeOK'
  BY <1>4 DEF Subscribe, TypeOK, key_vars, Running
<1>5. QED
  BY <1>1, <1>2, <1>3, <1>4

\* The document, the events and the announcements.
LEMMA SyncTypes ==
  ASSUME TypeOK, NEW n \in Nodes,
         HandleEvent(n) \/ Update(n) \/ \E m \in Nodes : Replicate(n, m)
  PROVE  TypeOK'
<1>0. /\ events \in [Nodes -> Seq(Announcement)]
      /\ chan \in [Nodes -> Seq(Announcement)]
  BY DEF TypeOK
<1>1. ASSUME NEW m \in Nodes, Replicate(n, m) PROVE TypeOK'
  <2>1. PICK e \in replica[m] \ replica[n] :
          /\ replica' = [replica EXCEPT ![n] = @ \cup {e}]
          /\ \/ events' = events
             \/ events' = [events EXCEPT ![n] = Append(events[n], e.ann)]
    BY <1>1 DEF Replicate
  <2>2. e \in DocEntry /\ e.ann \in Announcement
    BY <2>1, Made DEF TypeOK
  <2>3. replica' \in [Nodes -> SUBSET DocEntry]
    BY <2>1, <2>2 DEF TypeOK
  <2>4. events' \in [Nodes -> Seq(Announcement)]
    <3>1. Append(events[n], e.ann) \in Seq(Announcement)
      BY <1>0, <2>2
    <3>2. [events EXCEPT ![n] = Append(events[n], e.ann)]
            \in [Nodes -> Seq(Announcement)]
      BY <1>0, <3>1
    <3>3. QED
      BY <1>0, <2>1, <3>2
  <2>5. QED
    BY <1>1, <2>3, <2>4 DEF Replicate, TypeOK, key_vars, Running
<1>2. CASE HandleEvent(n)
  <2>1. Head(events[n]) \in Announcement /\ Tail(events[n]) \in Seq(Announcement)
    BY <1>0, <1>2 DEF HandleEvent
  <2>2. events' \in [Nodes -> Seq(Announcement)]
    <3>1. events' = [events EXCEPT ![n] = Tail(events[n])]
      BY <1>2 DEF HandleEvent
    <3>2. QED
      BY <1>0, <2>1, <3>1, SetOne
  <2>3. chan' \in [Nodes -> Seq(Announcement)]
    <3>1. CASE Send(n, Head(events[n]))
      BY <1>0, <2>1, <3>1, SendType
    <3>2. QED
      BY <1>0, <1>2, <3>1 DEF HandleEvent
  <2>4. QED
    BY <1>2, <2>2, <2>3 DEF HandleEvent, TypeOK, key_vars, Running
<1>3. CASE Update(n)
  <2>1. Head(chan[n]) \in Announcement /\ Tail(chan[n]) \in Seq(Announcement)
    BY <1>0, <1>3 DEF Update
  <2>2. chan' \in [Nodes -> Seq(Announcement)]
    <3>1. chan' = [chan EXCEPT ![n] = Tail(chan[n])]
      BY <1>3 DEF Update
    <3>2. QED
      BY <1>0, <2>1, <3>1, SetOne
  <2>3. hints' \in Seq(Hints)
    <3>1. hints \in Seq(Hints)
      BY DEF TypeOK
    <3>2. CASE Head(chan[n]).tag = "Hint"
      <4>1. Head(chan[n]).data \in Hints
        BY <2>1, <3>2, Made
      <4>2. hints' = Append(hints, Head(chan[n]).data)
        BY <1>3, <3>2 DEF Update, Applied
      <4>3. QED
        BY <3>1, <4>1, <4>2
    <3>3. CASE Head(chan[n]).tag # "Hint"
      BY <1>3, <3>1, <3>3 DEF Update, Applied
    <3>4. QED
      BY <3>2, <3>3
  <2>4. config' \in [Nodes -> BOOLEAN]
    <3>1. config \in [Nodes -> BOOLEAN]
      BY DEF TypeOK
    <3>2. config' = [config EXCEPT ![n] =
                       config[n] \/ Head(chan[n]).tag = "Config"]
      BY <1>3 DEF Update
    <3>3. (config[n] \/ Head(chan[n]).tag = "Config") \in BOOLEAN
      OBVIOUS
    <3>4. QED
      BY <3>1, <3>2, <3>3, SetOne
  <2>5. QED
    BY <1>3, <2>2, <2>3, <2>4 DEF Update, TypeOK, key_vars, Running
<1>4. QED
  BY <1>1, <1>2, <1>3

\* The rest of build_full_service.
LEMMA StartupTypes ==
  ASSUME TypeOK, NEW n \in Nodes, Startup(n)
  PROVE  TypeOK'
<1> USE NetworkAssumption
<1>0. /\ phase \in [Nodes -> Phases]
      /\ \A p \in Phases : [phase EXCEPT ![n] = p] \in [Nodes -> Phases]
      /\ Running(n)
  BY DEF Startup, LoadConfig, LoadPreviousHint, PreviousHintsLoaded,
         PublishNodeHint, TypeOK, Running
<1>1. /\ phase' \in [Nodes -> Phases]
      /\ \A m \in Nodes : phase'[m] = phase[m] \/ m = n
  <2>1. phase' = phase \/ \E p \in Phases : phase' = [phase EXCEPT ![n] = p]
    BY DEF Startup, LoadConfig, LoadPreviousHint, PreviousHintsLoaded,
           PublishNodeHint, Goto, Fail, Phases
  <2>2. QED
    BY <1>0, <2>1
<1>2. /\ starts' = starts
      /\ \A m \in Nodes : Running(m)' => starts'[m] # 0
  BY <1>0, <1>1 DEF Startup, LoadConfig, LoadPreviousHint,
     PreviousHintsLoaded, PublishNodeHint, TypeOK, Running
<1>3. Hint(n) \in Hints
  BY <1>0 DEF Hint, Hints, TypeOK
<1>4. chan' \in [Nodes -> Seq(Announcement)]
  <2>1. chan \in [Nodes -> Seq(Announcement)]
    BY DEF TypeOK
  <2>2. chan' = chan \/ \E ann \in Announcement : Send(n, ann)
    <3>1. CASE LoadConfig(n)
      BY <3>1, Made DEF LoadConfig, Fail
    <3>2. CASE LoadPreviousHint(n)
      BY <3>2, Made DEF LoadPreviousHint, Fail, TypeOK
    <3>3. CASE PreviousHintsLoaded(n)
      BY <3>3 DEF PreviousHintsLoaded
    <3>4. CASE PublishNodeHint(n)
      BY <1>3, <3>4, Made DEF PublishNodeHint, Fail
    <3>5. QED
      BY <3>1, <3>2, <3>3, <3>4 DEF Startup
  <2>3. QED
    BY <2>1, <2>2, SendType
<1>5. replica' \in [Nodes -> SUBSET DocEntry]
  <2>1. HintEntry(Index[n], Hint(n)) \in DocEntry
    <3>1. Hint(n)[1] = n
      BY DEF Hint
    <3>2. HintEntry(Index[Hint(n)[1]], Hint(n)) \in DocEntry
      BY <1>3, Made
    <3>3. QED
      BY <3>1, <3>2
  <2>2. \/ replica' = replica
        \/ replica' = [replica EXCEPT ![n] =
                         replica[n] \cup {HintEntry(Index[n], Hint(n))}]
    BY DEF Startup, LoadConfig, LoadPreviousHint, PreviousHintsLoaded,
           PublishNodeHint, Fail
  <2>3. /\ replica \in [Nodes -> SUBSET DocEntry]
        /\ replica[n] \cup {HintEntry(Index[n], Hint(n))} \in SUBSET DocEntry
    BY <2>1 DEF TypeOK
  <2>4. QED
    BY <2>2, <2>3, SetOne
<1>6. next' \in [Nodes -> Nat \ {0}]
  <2>1. next' = next \/ next' = [next EXCEPT ![n] = next[n] + 1]
    BY DEF Startup, LoadConfig, LoadPreviousHint, PreviousHintsLoaded,
           PublishNodeHint
  <2>2. next \in [Nodes -> Nat \ {0}] /\ next[n] + 1 \in Nat \ {0}
    BY SMTT(30) DEF TypeOK
  <2>3. QED
    BY <2>1, <2>2, SetOne
<1>7. UNCHANGED <<subscribed, events, config, hints, key_vars>>
  BY DEF Startup, LoadConfig, LoadPreviousHint, PreviousHintsLoaded,
         PublishNodeHint, EventsAfterWrite
<1>8. QED
  BY <1>1, <1>2, <1>4, <1>5, <1>6, <1>7 DEF TypeOK, key_vars

\* Making and publishing the system keys.
LEMMA PublisherTypes ==
  ASSUME TypeOK, Publisher \/ KeysNotPublished \/ UpdaterPanics
  PROVE  TypeOK'
<1> USE NetworkAssumption
<1> DEFINE b == Bootstrap
<1>0. b \in Nodes /\ hints \in Seq(Hints) /\ Len(hints) \in Nat
  BY DEF TypeOK
<1>1. /\ phase' \in [Nodes -> Phases]
      /\ \A m \in Nodes : Running(m)' => Running(m)
  <2>1. /\ Running(b)
        /\ \/ phase' = phase
           \/ \E p \in Phases : phase' = [phase EXCEPT ![b] = p]
    BY DEF Publisher, InitialKeys, CountHints, UpdateKeys, KeysPublished,
           KeysNotPublished, UpdaterPanics, Goto, node_vars, Phases, Running
  <2>2. QED
    BY <1>0, <2>1 DEF TypeOK, Running
<1>2. chan' \in [Nodes -> Seq(Announcement)]
  <2>1. chan' = chan \/ Send(b, KeysAnn)
    BY DEF Publisher, InitialKeys, CountHints, UpdateKeys, KeysPublished,
           KeysNotPublished, UpdaterPanics, node_vars
  <2>2. QED
    BY <1>0, <2>1, SendType, Made DEF TypeOK
<1>3. UNCHANGED <<starts, next, replica, subscribed, events, config, hints>>
  BY DEF Publisher, InitialKeys, CountHints, UpdateKeys, KeysPublished,
         KeysNotPublished, UpdaterPanics, node_vars
<1>4. /\ updater' \in {"off", "initial", "sleep", "publish", "write", "dead"}
      /\ current_hint_count' \in Nat
      /\ last_hint_count' \in Nat
      /\ errors' \in 0..MaxErrors
  BY <1>0, SMTT(30)
  DEF Publisher, InitialKeys, CountHints, UpdateKeys, KeysPublished,
      KeysNotPublished, UpdaterPanics, PublishedCount, FailedCount, TypeOK
<1>5. {snapshot, key_file, key_entry}' \subseteq Seq(Hints)
  <2>1. CASE Publisher \/ KeysNotPublished
    BY <1>0, <2>1
    DEF Publisher, InitialKeys, CountHints, UpdateKeys, KeysPublished,
        KeysNotPublished, TypeOK
  <2>2. CASE UpdaterPanics
    <3>1. << >> \in Seq(Hints)
      OBVIOUS
    <3>2. key_file' \in {key_file, << >>} /\ UNCHANGED <<snapshot, key_entry>>
      BY <2>2 DEF UpdaterPanics
    <3>3. QED
      BY <3>1, <3>2 DEF TypeOK
  <2>3. QED
    BY <2>1, <2>2
<1>6. QED
  BY <1>1, <1>2, <1>3, <1>4, <1>5 DEF TypeOK

\* Every step keeps the types.
LEMMA StepTypeOK == TypeOK /\ [Next]_vars => TypeOK'
<1>1. TypeOK /\ UNCHANGED vars => TypeOK'
  BY DEF TypeOK, vars, node_vars, key_vars, Running
<1>2. TypeOK /\ Next => TypeOK'
  BY StartTypes, SyncTypes, StartupTypes, PublisherTypes DEF Next
<1>3. QED
  BY <1>1, <1>2

\* Every reachable state is well typed: only hints that nodes made are in the
\* document, in the channels, in State and in the system keys.
THEOREM KeySyncTypeCorrect == Spec => []TypeOK
BY InitTypeOK, StepTypeOK, PTL DEF Spec

------------------------------------------------------------------------------
(***************************************************************************)
(* The inductive invariant behind KeysCurrent: what the updater counted is *)
(* covered by the hints it then takes, and what it remembers to have       *)
(* counted is covered by the keys in the document.                         *)
(***************************************************************************)
KeysInv ==
  /\ updater # "dead" => IsBeginningOf(key_entry, key_file)
  /\ IsBeginningOf(key_file, hints)
  /\ IsBeginningOf(key_entry, hints)
  /\ updater \in {"initial", "write"} =>
       /\ IsBeginningOf(snapshot, hints)
       /\ IsBeginningOf(key_file, snapshot)
  /\ updater \in {"publish", "write"} => current_hint_count <= Len(hints)
  /\ updater = "write" => current_hint_count <= Len(snapshot)
  /\ last_hint_count <= 1 \/ last_hint_count <= Len(key_entry)

\* The keys at the start.
LEMMA InitKeys == Init => KeysInv
<1> SUFFICES ASSUME Init PROVE KeysInv
  OBVIOUS
<1>1. IsBeginningOf(<< >>, << >>)
  BY DEF IsBeginningOf
<1>2. QED
  BY <1>1 DEF Init, KeysInv

\* The steps of the other tasks only ever append a hint.
LEMMA OthersKeys ==
  ASSUME TypeOK, TypeOK', KeysInv, UNCHANGED key_vars,
         hints' = hints \/ \E h \in Hints : hints' = Append(hints, h)
  PROVE  KeysInv'
<1>1. /\ hints \in Seq(Hints)
      /\ hints' \in Seq(Hints)
      /\ snapshot \in Seq(Hints)
      /\ key_file \in Seq(Hints)
      /\ key_entry \in Seq(Hints)
      /\ current_hint_count \in Nat
  BY DEF TypeOK
<1>2. IsBeginningOf(hints, hints') /\ Len(hints) <= Len(hints')
  <2>1. CASE hints' = hints
    BY <1>1, <2>1 DEF IsBeginningOf
  <2>2. ASSUME NEW h \in Hints, hints' = Append(hints, h)
        PROVE  IsBeginningOf(hints, hints') /\ Len(hints) <= Len(hints')
    BY <1>1, <2>2 DEF IsBeginningOf
  <2>3. QED
    BY <2>1, <2>2
<1>3. IsBeginningOf(key_file, hints') /\ IsBeginningOf(key_entry, hints')
  BY <1>1, <1>2, BeginningTrans DEF KeysInv
<1>4. updater \in {"initial", "write"} => IsBeginningOf(snapshot, hints')
  BY <1>1, <1>2, BeginningTrans DEF KeysInv
<1>5. updater \in {"publish", "write"} => current_hint_count <= Len(hints')
  BY <1>1, <1>2 DEF KeysInv
<1>6. QED
  BY <1>3, <1>4, <1>5 DEF KeysInv, key_vars

\* The steps of the publisher keep KeysInv.
LEMMA PublisherKeys ==
  ASSUME TypeOK, KeysInv, Publisher \/ KeysNotPublished \/ UpdaterPanics
  PROVE  KeysInv'
<1>0. /\ hints \in Seq(Hints)
      /\ snapshot \in Seq(Hints)
      /\ key_file \in Seq(Hints)
      /\ key_entry \in Seq(Hints)
      /\ current_hint_count \in Nat
      /\ last_hint_count \in Nat
      /\ Len(hints) \in Nat
  BY DEF TypeOK
<1>1. hints' = hints
  BY DEF Publisher, InitialKeys, CountHints, UpdateKeys, KeysPublished,
         KeysNotPublished, UpdaterPanics, node_vars
<1>2. IsBeginningOf(hints, hints) /\ IsBeginningOf(snapshot, snapshot)
  BY <1>0, BeginningRefl
<1>3. CASE InitialKeys
  BY <1>1, <1>2, <1>3 DEF InitialKeys, KeysInv
<1>4. CASE CountHints
  <2>1. /\ updater = "sleep"
        /\ updater' = "publish"
        /\ current_hint_count' = Len(hints)
        /\ UNCHANGED <<last_hint_count, snapshot, key_file, key_entry>>
    BY <1>4 DEF CountHints
  <2>2. current_hint_count' <= Len(hints')
    BY <1>0, <1>1, <2>1
  <2>3. QED
    BY <1>1, <2>1, <2>2 DEF KeysInv
<1>5. CASE UpdateKeys
  <2>1. CASE TooFew
    BY <1>0, <1>1, <1>5, <2>1
    DEF UpdateKeys, PublishedCount, TooFew, KeysInv
  <2>2. CASE ~TooFew
    BY <1>0, <1>1, <1>2, <1>5, <2>2 DEF UpdateKeys, KeysInv
  <2>3. QED
    BY <2>1, <2>2
<1>6. CASE KeysPublished
  <2>1. /\ key_file' = snapshot
        /\ key_entry' = snapshot
        /\ updater' = "sleep"
        /\ updater \in {"initial", "write"}
        /\ IsBeginningOf(snapshot, hints)
        /\ IsBeginningOf(key_file, snapshot)
    BY <1>6 DEF KeysPublished, KeysInv
  <2>2. last_hint_count' <= 1 \/ last_hint_count' <= Len(snapshot)
    <3>1. CASE updater = "initial"
      <4>1. last_hint_count' = last_hint_count
        BY <1>6, <3>1 DEF KeysPublished
      <4>2. Len(key_entry) <= Len(snapshot)
        BY <1>0, <2>1 DEF KeysInv, IsBeginningOf
      <4>3. QED
        BY <1>0, <4>1, <4>2 DEF KeysInv
    <3>2. CASE updater = "write"
      BY <1>6, <3>2 DEF KeysPublished, PublishedCount, KeysInv
    <3>3. QED
      BY <2>1, <3>1, <3>2
  <2>3. QED
    BY <1>1, <1>2, <2>1, <2>2 DEF KeysInv
<1>7. CASE KeysNotPublished
  <2>1. /\ updater \in {"initial", "write"}
        /\ updater' \in {"off", "sleep"}
        /\ key_file' = key_file \/ key_file' = snapshot
        /\ key_entry' = key_entry
        /\ last_hint_count' = last_hint_count
        /\ IsBeginningOf(snapshot, hints)
        /\ IsBeginningOf(key_file, snapshot)
    BY <1>7 DEF KeysNotPublished, FailedCount, KeysInv
  <2>2. IsBeginningOf(key_entry, snapshot)
    BY <1>0, <2>1, BeginningTrans DEF KeysInv
  <2>3. QED
    BY <1>1, <2>1, <2>2 DEF KeysInv
<1>8. CASE UpdaterPanics
  <2>1. IsBeginningOf(<< >>, hints)
    BY <1>0 DEF IsBeginningOf
  <2>2. QED
    BY <1>1, <1>8, <2>1 DEF UpdaterPanics, KeysInv
<1>9. QED
  BY <1>3, <1>4, <1>5, <1>6, <1>7, <1>8 DEF Publisher

\* Every step does.
LEMMA StepKeys ==
  TypeOK /\ TypeOK' /\ KeysInv /\ [Next]_vars => KeysInv'
<1> SUFFICES ASSUME TypeOK, TypeOK', KeysInv, [Next]_vars PROVE KeysInv'
  OBVIOUS
<1>1. CASE Publisher \/ KeysNotPublished \/ UpdaterPanics
  BY <1>1, PublisherKeys
<1>2. CASE UNCHANGED vars
  BY <1>2, OthersKeys DEF vars, node_vars
<1>3. ASSUME NEW n \in Nodes, Update(n) PROVE KeysInv'
  <2>1. Head(chan[n]) \in Announcement
    BY <1>3 DEF Update, TypeOK
  <2>2. hints' = hints \/ \E h \in Hints : hints' = Append(hints, h)
    BY <1>3, <2>1, Made DEF Update, Applied
  <2>3. QED
    BY <1>3, <2>2, OthersKeys DEF Update
<1>4. CASE \/ StartBootstrap
           \/ \E n \in Nodes : \/ StartJoiner(n)
                               \/ Stop(n)
                               \/ Subscribe(n)
                               \/ \E m \in Nodes : Replicate(n, m)
                               \/ HandleEvent(n)
                               \/ Startup(n)
  <2>1. UNCHANGED <<hints, key_vars>>
    BY <1>4 DEF StartBootstrap, StartJoiner, Stop, Subscribe, Replicate,
       HandleEvent, Startup, LoadConfig, LoadPreviousHint,
       PreviousHintsLoaded, PublishNodeHint
  <2>2. QED
    BY <2>1, OthersKeys
<1>5. QED
  BY <1>1, <1>2, <1>3, <1>4 DEF Next

\* And it is stronger than the property.
LEMMA KeysInvCurrent == TypeOK /\ KeysInv => KeysCurrent
<1> SUFFICES ASSUME TypeOK, KeysInv PROVE KeysCurrent
  OBVIOUS
<1>0. /\ hints \in Seq(Hints)
      /\ key_file \in Seq(Hints)
      /\ key_entry \in Seq(Hints)
      /\ last_hint_count \in Nat
  BY DEF TypeOK
<1>1. IsBeginningOf(key_entry, hints)
  BY DEF KeysInv
<1>2. ASSUME updater = "sleep", last_hint_count >= Len(hints), Len(hints) >= 2
      PROVE  key_file = hints /\ key_entry = hints
  <2>1. Len(hints) <= Len(key_entry)
    BY <1>0, <1>2 DEF KeysInv
  <2>2. Len(hints) <= Len(key_file)
    BY <1>0, <1>2, <2>1 DEF KeysInv, IsBeginningOf
  <2>3. QED
    BY <1>0, <1>1, <2>1, <2>2, SameLength DEF KeysInv
<1>3. QED
  BY <1>2 DEF KeysCurrent, KeysInv

\* No hint is overlooked: whenever the updater sleeps with as many hints
\* counted as there are, the file and the document hold the keys made of all of
\* them, whatever came in while the keys were made and whatever failed.
THEOREM KeySyncCurrent == Spec => []KeysCurrent
BY InitTypeOK, InitKeys, KeySyncTypeCorrect, StepKeys, KeysInvCurrent, PTL
DEF Spec

------------------------------------------------------------------------------
(***************************************************************************)
(* HintsOnce.  A hint on its way into State is an event, then in the       *)
(* channel, then in hints.  It is in only one of them, only once, and its  *)
(* entry is in the replica by then, so that it cannot arrive again.  The   *)
(* bootstrap node's own hint enters at the channel, and nobody's document  *)
(* has it before.                                                          *)
(***************************************************************************)
IsIn(a, s) == \E i \in 1..Len(s) : s[i] = a

\* No hint is twice in s.
Distinct(s) ==
  \A i, j \in 1..Len(s) : s[i].tag = "Hint" /\ s[i] = s[j] => i = j

EntryOf(h) == HintEntry(Index[h[1]], h)

\* Where hint h is at the bootstrap node.
Pushed(h) == IsIn(h, hints)
Sent(h) == IsIn(HintAnn(h), chan[Bootstrap])
Heard(h) == IsIn(HintAnn(h), events[Bootstrap])

OneWay ==
  /\ HintsOnce
  /\ Distinct(chan[Bootstrap])
  /\ Distinct(events[Bootstrap])
  /\ \A h \in Hints :
       /\ ~ (Pushed(h) /\ Sent(h))
       /\ ~ (Pushed(h) /\ Heard(h))
       /\ ~ (Sent(h) /\ Heard(h))
       /\ Pushed(h) \/ Sent(h) \/ Heard(h) => EntryOf(h) \in replica[Bootstrap]

\* The phases before the bootstrap node has published its hint.
Early == {"off", "config", "publish"}

OwnHint ==
  /\ phase[Bootstrap] # "hints"
  /\ phase[Bootstrap] = "off" =>
       hints = << >> /\ chan[Bootstrap] = << >> /\ events[Bootstrap] = << >>
  /\ phase[Bootstrap] \in Early =>
       \A n \in Nodes, s \in 1..MaxStarts :
         EntryOf(<<Bootstrap, s>>) \notin replica[n]

\* The other nodes' channels are about the config only.
ConfigOnly ==
  \A n \in Joiners : \A i \in 1..Len(chan[n]) : chan[n][i].tag = "Config"

OnceInv == OneWay /\ OwnHint /\ ConfigOnly

\* What taking the head off and appending do to the members of a sequence.
LEMMA TailMembers ==
  ASSUME NEW S, NEW s \in Seq(S), s # << >>
  PROVE  /\ Head(s) \in S
         /\ IsIn(Head(s), s)
         /\ \A a : IsIn(a, Tail(s)) => IsIn(a, s)
         /\ \A a : IsIn(a, s) => a = Head(s) \/ IsIn(a, Tail(s))
<1>1. /\ Len(s) \in Nat \ {0} /\ Len(Tail(s)) = Len(s) - 1 /\ Head(s) = s[1]
      /\ \A i \in 1..Len(Tail(s)) : Tail(s)[i] = s[i + 1]
  OBVIOUS
<1>2. Head(s) \in S
  OBVIOUS
<1>3. IsIn(Head(s), s)
  BY <1>1 DEF IsIn
<1>4. ASSUME NEW a, IsIn(a, Tail(s)) PROVE IsIn(a, s)
  <2>1. PICK i \in 1..Len(Tail(s)) : Tail(s)[i] = a
    BY <1>4 DEF IsIn
  <2>2. i + 1 \in 1..Len(s) /\ s[i + 1] = a
    BY <1>1, <2>1
  <2> QED BY <2>2 DEF IsIn
<1>5. ASSUME NEW a, IsIn(a, s), a # Head(s) PROVE IsIn(a, Tail(s))
  <2>1. PICK i \in 1..Len(s) : s[i] = a
    BY <1>5 DEF IsIn
  <2>2. i - 1 \in 1..Len(Tail(s)) /\ Tail(s)[i - 1] = a
    BY <1>1, <1>5, <2>1
  <2> QED BY <2>2 DEF IsIn
<1> QED BY <1>2, <1>3, <1>4, <1>5

\* The members of an extended sequence.
LEMMA AppendMembers ==
  ASSUME NEW S, NEW s \in Seq(S), NEW b \in S
  PROVE  \A a : IsIn(a, Append(s, b)) <=> a = b \/ IsIn(a, s)
<1>1. /\ Len(s) \in Nat /\ Len(Append(s, b)) = Len(s) + 1
      /\ Append(s, b)[Len(s) + 1] = b
      /\ \A i \in 1..Len(s) : Append(s, b)[i] = s[i]
  OBVIOUS
<1>2. ASSUME NEW a, IsIn(a, Append(s, b)), a # b PROVE IsIn(a, s)
  <2>1. PICK i \in 1..(Len(s) + 1) : Append(s, b)[i] = a
    BY <1>1, <1>2 DEF IsIn
  <2>2. i \in 1..Len(s)
    BY <1>1, <1>2, <2>1
  <2> QED BY <1>1, <2>1, <2>2 DEF IsIn
<1>3. ASSUME NEW a, IsIn(a, s) PROVE IsIn(a, Append(s, b))
  BY <1>1, <1>3 DEF IsIn
<1>4. IsIn(b, Append(s, b))
  BY <1>1 DEF IsIn
<1> QED BY <1>2, <1>3, <1>4

\* A sequence of announcements stays distinct when its head is taken off, which
\* is then not in it any more, and when something new is appended.
LEMMA DistinctTail ==
  ASSUME NEW s \in Seq(Announcement), s # << >>, Distinct(s)
  PROVE  /\ Distinct(Tail(s))
         /\ Head(s).tag = "Hint" => ~ IsIn(Head(s), Tail(s))
<1>1. /\ Len(s) \in Nat \ {0} /\ Len(Tail(s)) = Len(s) - 1 /\ Head(s) = s[1]
      /\ \A i \in 1..Len(Tail(s)) : Tail(s)[i] = s[i + 1]
  OBVIOUS
<1>2. ASSUME NEW i \in 1..Len(Tail(s)), NEW j \in 1..Len(Tail(s)),
             Tail(s)[i].tag = "Hint", Tail(s)[i] = Tail(s)[j]
      PROVE  i = j
  <2>1. /\ i + 1 \in 1..Len(s) /\ j + 1 \in 1..Len(s)
        /\ s[i + 1].tag = "Hint" /\ s[i + 1] = s[j + 1]
    BY <1>1, <1>2
  <2>2. i + 1 = j + 1
    BY <2>1 DEF Distinct
  <2> QED BY <2>2
<1>3. ASSUME Head(s).tag = "Hint", IsIn(Head(s), Tail(s)) PROVE FALSE
  <2>1. PICK i \in 1..Len(Tail(s)) : Tail(s)[i] = Head(s)
    BY <1>3 DEF IsIn
  <2>2. /\ i + 1 \in 1..Len(s) /\ 1 \in 1..Len(s) /\ s[i + 1] = s[1]
        /\ s[1].tag = "Hint"
    BY <1>1, <1>3, <2>1
  <2>3. i + 1 = 1
    BY <2>2 DEF Distinct
  <2> QED BY <2>1, <2>3
<1> QED BY <1>2, <1>3 DEF Distinct

\* Appending a new member keeps the members distinct.
LEMMA DistinctAppend ==
  ASSUME NEW s \in Seq(Announcement), NEW a \in Announcement, Distinct(s),
         a.tag = "Hint" => ~ IsIn(a, s)
  PROVE  Distinct(Append(s, a))
<1>1. /\ Len(s) \in Nat /\ Len(Append(s, a)) = Len(s) + 1
      /\ Append(s, a)[Len(s) + 1] = a
      /\ \A i \in 1..Len(s) : Append(s, a)[i] = s[i]
  OBVIOUS
<1>2. ASSUME NEW i \in 1..(Len(s) + 1), NEW j \in 1..(Len(s) + 1),
             Append(s, a)[i].tag = "Hint", Append(s, a)[i] = Append(s, a)[j]
      PROVE  i = j
  <2>1. CASE i \in 1..Len(s) /\ j \in 1..Len(s)
    BY <1>1, <1>2, <2>1 DEF Distinct
  <2>2. CASE i = Len(s) + 1 /\ j \in 1..Len(s)
    BY <1>1, <1>2, <2>2 DEF IsIn
  <2>3. CASE i \in 1..Len(s) /\ j = Len(s) + 1
    BY <1>1, <1>2, <2>3 DEF IsIn
  <2>4. CASE i = Len(s) + 1 /\ j = Len(s) + 1
    BY <2>4
  <2> QED BY <1>1, <2>1, <2>2, <2>3, <2>4
<1> QED BY <1>1, <1>2 DEF Distinct

\* Hints and their entries are told apart by the node and the start.
LEMMA HintParts ==
  /\ \A h \in Hints, g \in Hints : HintAnn(h) = HintAnn(g) => h = g
  /\ \A h \in Hints, g \in Hints : EntryOf(h) = EntryOf(g) => h = g
  /\ \A h \in Hints : EntryOf(h).ann = HintAnn(h) /\ EntryOf(h) # ConfigEntry
  /\ \A h \in Hints : HintAnn(h) # ConfigAnn /\ HintAnn(h) # KeysAnn
                      /\ HintAnn(h).tag = "Hint" /\ HintAnn(h).data = h
  /\ \A e \in DocEntry : e.ann.tag = "Hint" =>
       \E h \in Hints : e = EntryOf(h) /\ e.ann = HintAnn(h)
  /\ \A a \in Announcement : a.tag = "Hint" => \E h \in Hints : a = HintAnn(h)
  /\ ConfigAnn.tag # "Hint" /\ KeysAnn.tag # "Hint"
<1>1. \A h : HintAnn(h).tag = "Hint" /\ HintAnn(h).data = h
  BY DEF HintAnn
<1>2. /\ ConfigAnn.tag = "Config" /\ KeysAnn.tag = "SystemKeys"
      /\ ConfigEntry.ann = ConfigAnn
  BY DEF ConfigAnn, KeysAnn, ConfigEntry
<1>3. \A h : EntryOf(h).ann = HintAnn(h)
  BY DEF EntryOf, HintEntry
<1>4. \A e \in DocEntry : e = ConfigEntry \/ \E h \in Hints : e = EntryOf(h)
  BY DEF DocEntry, EntryOf
<1>5. \A a \in Announcement :
        a = ConfigAnn \/ a = KeysAnn \/ \E h \in Hints : a = HintAnn(h)
  BY DEF Announcement
<1> QED BY <1>1, <1>2, <1>3, <1>4, <1>5

\* A step that moves no hint: OneWay stays.
LEMMA NoHintMoves ==
  ASSUME OneWay, hints' = hints, events'[Bootstrap] = events[Bootstrap],
         Distinct(chan[Bootstrap])', \A h \in Hints : Sent(h)' <=> Sent(h),
         replica[Bootstrap] \subseteq replica'[Bootstrap]
  PROVE  OneWay'
<1>1. HintsOnce' /\ Distinct(events[Bootstrap])'
  BY DEF OneWay, HintsOnce, Distinct
<1>2. \A h \in Hints : (Pushed(h)' <=> Pushed(h)) /\ (Heard(h)' <=> Heard(h))
  BY DEF Pushed, Heard
<1> QED BY <1>1, <1>2 DEF OneWay

\* Nothing a joiner sends, and nothing but a hint, puts a hint into the channel
\* of the bootstrap node.
LEMMA SendNoHint ==
  ASSUME TypeOK, OnceInv, NEW n \in Nodes, NEW ann \in Announcement,
         Send(n, ann), n = Bootstrap => ann.tag # "Hint"
  PROVE  /\ Distinct(chan[Bootstrap])'
         /\ \A h \in Hints : Sent(h)' <=> Sent(h)
         /\ ConfigOnly'
         /\ n # Bootstrap => chan'[Bootstrap] = chan[Bootstrap]
<1> USE NetworkAssumption
<1>1. chan \in [Nodes -> Seq(Announcement)] /\ Distinct(chan[Bootstrap])
  BY DEF TypeOK, OnceInv, OneWay
<1>2. CASE n = Bootstrap
  <2>1. chan' = [chan EXCEPT ![Bootstrap] = Append(chan[Bootstrap], ann)]
    BY <1>2 DEF Send, Matters
  <2>2. chan'[Bootstrap] = Append(chan[Bootstrap], ann)
    BY <1>1, <2>1
  <2>3. Distinct(Append(chan[Bootstrap], ann))
    BY <1>1, <1>2, DistinctAppend
  <2>4. \A h \in Hints : Sent(h)' <=> Sent(h)
    BY <1>1, <1>2, <2>2, AppendMembers, HintParts DEF Sent
  <2>5. ConfigOnly'
    BY <1>1, <2>1 DEF ConfigOnly, OnceInv, Joiners
  <2> QED BY <1>2, <2>2, <2>3, <2>4, <2>5
<1>3. CASE n # Bootstrap
  <2>1. \/ chan' = chan
        \/ ann.tag = "Config" /\ chan' = [chan EXCEPT ![n] = Append(chan[n], ann)]
    BY <1>3 DEF Send, Matters
  <2>2. chan'[Bootstrap] = chan[Bootstrap]
    BY <1>1, <1>3, <2>1
  <2>3. ConfigOnly'
    <3>1. CASE chan' = chan
      BY <3>1 DEF ConfigOnly, OnceInv
    <3>2. CASE ann.tag = "Config" /\ chan' = [chan EXCEPT ![n] = Append(chan[n], ann)]
      <4>1. ASSUME NEW m \in Joiners, NEW i \in 1..Len(chan'[m])
            PROVE  chan'[m][i].tag = "Config"
        <5>1. CASE m = n
          <6>1. chan'[m] = Append(chan[n], ann) /\ chan[n] \in Seq(Announcement)
            BY <1>1, <3>2, <5>1
          <6>2. \A j \in 1..Len(chan[n]) : chan[n][j].tag = "Config"
            BY <5>1 DEF ConfigOnly, OnceInv
          <6>3. /\ Len(chan'[m]) = Len(chan[n]) + 1 /\ Len(chan[n]) \in Nat
                /\ chan'[m][Len(chan[n]) + 1] = ann
                /\ \A j \in 1..Len(chan[n]) : chan'[m][j] = chan[n][j]
            BY <6>1
          <6>4. CASE i = Len(chan[n]) + 1
            BY <3>2, <6>3, <6>4
          <6>5. CASE i # Len(chan[n]) + 1
            <7>1. i \in 1..(Len(chan[n]) + 1)
              BY <6>3
            <7>2. i \in 1..Len(chan[n])
              BY <6>3, <6>5, <7>1
            <7> QED BY <6>2, <6>3, <7>2
          <6> QED BY <6>4, <6>5
        <5>2. CASE m # n
          BY <1>1, <3>2, <4>1, <5>2 DEF ConfigOnly, OnceInv, Joiners
        <5> QED BY <5>1, <5>2
      <4> QED BY <4>1 DEF ConfigOnly
    <3> QED BY <2>1, <3>1, <3>2
  <2> QED BY <1>1, <2>2, <2>3 DEF Sent
<1> QED BY <1>2, <1>3

\* The bootstrap node's phases only go on, and its hint is in no document that
\* did not have it.
LEMMA OwnHintStays ==
  ASSUME OwnHint,
         \/ phase'[Bootstrap] = phase[Bootstrap]
         \/ phase'[Bootstrap] \in {"keys", "up", "failed"}
         \/ phase[Bootstrap] = "config" /\ phase'[Bootstrap] = "publish",
         phase[Bootstrap] = "off" =>
           /\ hints' = hints /\ chan'[Bootstrap] = chan[Bootstrap]
           /\ events'[Bootstrap] = events[Bootstrap],
         phase'[Bootstrap] \in Early =>
           \A n \in Nodes, s \in 1..MaxStarts :
             EntryOf(<<Bootstrap, s>>) \in replica'[n] =>
               \E m \in Nodes : EntryOf(<<Bootstrap, s>>) \in replica[m]
  PROVE  OwnHint'
<1>1. phase'[Bootstrap] \in Early => phase[Bootstrap] \in Early
  BY DEF Early
<1>2. \A s : EntryOf(<<Bootstrap, s>>)' = EntryOf(<<Bootstrap, s>>)
  BY DEF EntryOf, HintEntry, HintAnn
<1>3. phase'[Bootstrap] # "hints"
  BY DEF OwnHint
<1>4. phase'[Bootstrap] = "off" => phase[Bootstrap] = "off"
  OBVIOUS
<1> QED BY <1>1, <1>2, <1>3, <1>4 DEF OwnHint, Early

\* Starting, stopping and connecting.
LEMMA StartOnce ==
  ASSUME TypeOK, OnceInv,
         \/ StartBootstrap
         \/ \E n \in Nodes : StartJoiner(n) \/ Stop(n) \/ Subscribe(n)
  PROVE  OnceInv'
<1> USE NetworkAssumption
<1>1. CASE StartBootstrap
  <2>1. /\ hints = << >> /\ chan[Bootstrap] = << >> /\ events[Bootstrap] = << >>
        /\ phase[Bootstrap] \in Early
    BY <1>1 DEF StartBootstrap, OnceInv, OwnHint, Early
  <2>2. /\ hints' = << >> /\ events' = events
        /\ phase'[Bootstrap] = "config"
        /\ replica' = [replica EXCEPT ![Bootstrap] = {ConfigEntry}]
    BY <1>1, <2>1 DEF StartBootstrap, Goto, TypeOK
  <2>3. /\ Distinct(chan[Bootstrap])' /\ ConfigOnly'
        /\ \A h \in Hints : ~ Sent(h)'
    <3>1. \A h \in Hints : ~ Sent(h)
      BY <2>1 DEF Sent, IsIn
    <3> QED BY <1>1, <3>1, SendNoHint, Made, HintParts DEF StartBootstrap
  <2>4. OneWay'
    <3>1. \A h \in Hints : ~ Pushed(h)' /\ ~ Heard(h)'
      BY <2>1, <2>2 DEF Pushed, Heard, IsIn
    <3>2. HintsOnce' /\ Distinct(events[Bootstrap])'
      BY <2>1, <2>2 DEF HintsOnce, Distinct
    <3> QED BY <2>3, <3>1, <3>2 DEF OneWay
  <2>5. OwnHint'
    <3>1. ASSUME NEW n \in Nodes, NEW s \in 1..MaxStarts
          PROVE  EntryOf(<<Bootstrap, s>>) \notin replica'[n]
      <4>1. <<Bootstrap, s>> \in Hints
        BY DEF Hints
      <4> QED BY <2>1, <2>2, <4>1, HintParts DEF OnceInv, OwnHint, TypeOK
    <3> QED BY <2>2, <3>1 DEF OwnHint, EntryOf, HintEntry, HintAnn
  <2> QED BY <2>3, <2>4, <2>5 DEF OnceInv
<1>2. ASSUME NEW n \in Nodes, StartJoiner(n) \/ Stop(n) \/ Subscribe(n)
      PROVE  OnceInv'
  <2>1. /\ hints' = hints
        /\ phase'[Bootstrap] = phase[Bootstrap]
        /\ events'[Bootstrap] = events[Bootstrap]
        /\ chan'[Bootstrap] = chan[Bootstrap]
        /\ replica'[Bootstrap] = replica[Bootstrap]
        /\ \A m \in Nodes : replica'[m] \subseteq replica[m]
        /\ \A m \in Nodes : chan'[m] = chan[m] \/ chan'[m] = << >>
    BY <1>2, ZenonT(40) DEF StartJoiner, Stop, Subscribe, Goto, TypeOK
  <2>2. OneWay'
    BY <2>1, NoHintMoves DEF OnceInv, OneWay, Sent, Distinct
  <2>3. OwnHint'
    BY <2>1, OwnHintStays DEF OnceInv
  <2>4. ConfigOnly'
    BY <2>1 DEF OnceInv, ConfigOnly, Joiners
  <2> QED BY <2>2, <2>3, <2>4 DEF OnceInv
<1> QED BY <1>1, <1>2

\* An entry arrives: at the bootstrap node its hint is nowhere yet.
LEMMA ReplicateOnce ==
  ASSUME TypeOK, OnceInv, NEW n \in Nodes, NEW m \in Nodes, Replicate(n, m)
  PROVE  OnceInv'
<1> USE NetworkAssumption
<1>1. PICK e \in replica[m] \ replica[n] :
        /\ replica' = [replica EXCEPT ![n] = replica[n] \cup {e}]
        /\ events' = IF subscribed[n] /\ Matters(n, e.ann)
                     THEN [events EXCEPT ![n] = Append(events[n], e.ann)]
                     ELSE events
  BY DEF Replicate
<1>2. /\ hints' = hints /\ chan' = chan /\ phase' = phase
      /\ phase[Bootstrap] = "off" => n # Bootstrap
  BY DEF Replicate, Running
<1>3. /\ e \in DocEntry /\ e.ann \in Announcement
      /\ events \in [Nodes -> Seq(Announcement)]
      /\ replica \in [Nodes -> SUBSET DocEntry]
  BY <1>1, Made DEF TypeOK
<1>4. replica[Bootstrap] \subseteq replica'[Bootstrap]
  BY <1>1, <1>3
<1>5. \A h \in Hints : (Pushed(h)' <=> Pushed(h)) /\ (Sent(h)' <=> Sent(h))
  BY <1>2 DEF Pushed, Sent
<1>6. OneWay'
  <2>1. CASE events'[Bootstrap] = events[Bootstrap]
    BY <1>2, <1>4, <1>5, <2>1, NoHintMoves DEF OnceInv, OneWay, Distinct
  <2>2. CASE events'[Bootstrap] # events[Bootstrap]
    <3>1. n = Bootstrap /\ events'[Bootstrap] = Append(events[Bootstrap], e.ann)
      BY <1>1, <1>3, <2>2
    <3>2. \A h \in Hints : e.ann = HintAnn(h) =>
            /\ ~ Pushed(h) /\ ~ Sent(h) /\ ~ Heard(h)
            /\ EntryOf(h) \in replica'[Bootstrap]
      <4> SUFFICES ASSUME NEW h \in Hints, e.ann = HintAnn(h)
                   PROVE  /\ ~ Pushed(h) /\ ~ Sent(h) /\ ~ Heard(h)
                          /\ EntryOf(h) \in replica'[Bootstrap]
        OBVIOUS
      <4>1. e = EntryOf(h)
        <5>1. e.ann.tag = "Hint"
          BY HintParts
        <5>2. PICK g \in Hints : e = EntryOf(g) /\ e.ann = HintAnn(g)
          BY <1>3, <5>1, HintParts
        <5>3. g = h
          BY <5>2, HintParts
        <5> QED BY <5>2, <5>3
      <4>2. EntryOf(h) \notin replica[Bootstrap]
        BY <1>1, <3>1, <4>1
      <4>3. EntryOf(h) \in replica'[Bootstrap]
        BY <1>1, <1>3, <3>1, <4>1
      <4> QED BY <4>2, <4>3 DEF OnceInv, OneWay
    <3>3. \A h \in Hints : Heard(h)' <=> e.ann = HintAnn(h) \/ Heard(h)
      BY <1>3, <3>1, AppendMembers DEF Heard
    <3>4. Distinct(events[Bootstrap])'
      <4>1. e.ann.tag = "Hint" => ~ IsIn(e.ann, events[Bootstrap])
        BY <1>3, <3>2, HintParts DEF Heard
      <4> QED BY <1>3, <3>1, <4>1, DistinctAppend DEF OnceInv, OneWay
    <3>5. HintsOnce' /\ Distinct(chan[Bootstrap])'
      BY <1>2 DEF OnceInv, OneWay, HintsOnce, Distinct
    <3> QED BY <1>4, <1>5, <3>2, <3>3, <3>4, <3>5 DEF OnceInv, OneWay
  <2> QED BY <2>1, <2>2
<1>7. OwnHint'
  <2>1. phase[Bootstrap] = "off" => events'[Bootstrap] = events[Bootstrap]
    BY <1>1, <1>2, <1>3
  <2>2. \A k \in Nodes : \A f \in replica'[k] : \E l \in Nodes : f \in replica[l]
    BY <1>1, <1>3
  <2> QED BY <1>2, <2>1, <2>2, OwnHintStays DEF OnceInv
<1>8. ConfigOnly'
  BY <1>2 DEF OnceInv, ConfigOnly
<1> QED BY <1>6, <1>7, <1>8 DEF OnceInv

\* An event becomes an announcement in the channel, or is lost.
LEMMA HandleEventOnce ==
  ASSUME TypeOK, OnceInv, NEW n \in Nodes, HandleEvent(n)
  PROVE  OnceInv'
<1> USE NetworkAssumption
<1> DEFINE a == Head(events[n])
<1>1. /\ hints' = hints /\ replica' = replica /\ phase' = phase
      /\ events[n] # << >> /\ events' = [events EXCEPT ![n] = Tail(events[n])]
      /\ Send(n, a) \/ chan' = chan
      /\ phase[Bootstrap] = "off" => n # Bootstrap
  BY DEF HandleEvent, Running
<1>2. events \in [Nodes -> Seq(Announcement)] /\ chan \in [Nodes -> Seq(Announcement)]
  BY DEF TypeOK
<1>3. a \in Announcement
  BY <1>1, <1>2, TailMembers
<1> HIDE DEF a
<1>4. /\ phase[Bootstrap] = "off" =>
           /\ chan'[Bootstrap] = chan[Bootstrap]
           /\ events'[Bootstrap] = events[Bootstrap]
  BY <1>1, <1>2, <1>3, SendNoHint
<1>5. OwnHint'
  BY <1>1, <1>4, OwnHintStays DEF OnceInv
<1>6. CASE n # Bootstrap
  <2>1. events'[Bootstrap] = events[Bootstrap]
    BY <1>1, <1>2, <1>6
  <2>2. /\ Distinct(chan[Bootstrap])' /\ \A h \in Hints : Sent(h)' <=> Sent(h)
        /\ ConfigOnly'
    <3>1. CASE Send(n, a)
      BY <1>3, <1>6, <3>1, SendNoHint
    <3>2. CASE chan' = chan
      BY <3>2 DEF OnceInv, OneWay, Distinct, Sent, ConfigOnly
    <3> QED BY <1>1, <3>1, <3>2
  <2> QED BY <1>1, <1>5, <2>1, <2>2, NoHintMoves DEF OnceInv
<1>7. CASE n = Bootstrap
  <2>1. /\ events'[Bootstrap] = Tail(events[Bootstrap])
        /\ events[Bootstrap] # << >> /\ a = Head(events[Bootstrap])
    BY <1>1, <1>2, <1>7 DEF a
  <2>2. /\ Distinct(Tail(events[Bootstrap]))
        /\ a.tag = "Hint" => ~ IsIn(a, Tail(events[Bootstrap]))
        /\ IsIn(a, events[Bootstrap])
    BY <1>2, <2>1, DistinctTail, TailMembers DEF OnceInv, OneWay
  <2>3. \A h \in Hints : Heard(h)' => Heard(h) /\ a # HintAnn(h)
    BY <1>2, <2>1, <2>2, TailMembers, HintParts DEF Heard
  <2>4. \A h \in Hints : a = HintAnn(h) => Heard(h)
    BY <2>2 DEF Heard
  <2>5. \A h \in Hints : Pushed(h)' <=> Pushed(h)
    BY <1>1 DEF Pushed
  <2>6. HintsOnce' /\ Distinct(events[Bootstrap])'
    BY <1>1, <2>1, <2>2 DEF OnceInv, OneWay, HintsOnce
  <2>7. /\ Distinct(chan[Bootstrap])' /\ ConfigOnly'
        /\ \A h \in Hints : Sent(h)' => Sent(h) \/ a = HintAnn(h)
    <3>1. CASE chan' = chan
      BY <3>1 DEF OnceInv, OneWay, Distinct, Sent, ConfigOnly
    <3>2. CASE chan' # chan
      <4>1. chan' = [chan EXCEPT ![Bootstrap] = Append(chan[Bootstrap], a)]
        BY <1>1, <1>7, <3>2 DEF Send, Matters
      <4>2. chan'[Bootstrap] = Append(chan[Bootstrap], a)
        BY <1>2, <4>1
      <4>3. a.tag = "Hint" => ~ IsIn(a, chan[Bootstrap])
        BY <1>3, <2>4, HintParts DEF OnceInv, OneWay, Sent
      <4>4. Distinct(chan[Bootstrap])'
        BY <1>2, <1>3, <4>2, <4>3, DistinctAppend DEF OnceInv, OneWay
      <4>5. ConfigOnly'
        BY <1>2, <4>1 DEF OnceInv, ConfigOnly, Joiners
      <4>6. \A h \in Hints : Sent(h)' => Sent(h) \/ a = HintAnn(h)
        BY <1>2, <1>3, <4>2, AppendMembers DEF Sent
      <4> QED BY <4>4, <4>5, <4>6
    <3> QED BY <3>1, <3>2
  <2>8. OneWay'
    BY <1>1, <2>3, <2>4, <2>5, <2>6, <2>7 DEF OnceInv, OneWay
  <2> QED BY <1>5, <2>7, <2>8 DEF OnceInv
<1> QED BY <1>6, <1>7

\* An announcement is applied: a hint goes from the channel to State.
LEMMA UpdateOnce ==
  ASSUME TypeOK, OnceInv, NEW n \in Nodes, Update(n)
  PROVE  OnceInv'
<1> USE NetworkAssumption
<1> DEFINE a == Head(chan[n])
<1>1. /\ replica' = replica /\ phase' = phase /\ events' = events
      /\ chan[n] # << >> /\ chan' = [chan EXCEPT ![n] = Tail(chan[n])]
      /\ hints' = IF a.tag = "Hint" THEN Append(hints, a.data) ELSE hints
      /\ phase[Bootstrap] = "off" => n # Bootstrap
  BY DEF Update, Running, Applied
<1>2. chan \in [Nodes -> Seq(Announcement)] /\ hints \in Seq(Hints)
  BY DEF TypeOK
<1>3. a \in Announcement /\ IsIn(a, chan[n])
  BY <1>1, <1>2, TailMembers
<1>4. n # Bootstrap => a.tag # "Hint"
  BY <1>3 DEF OnceInv, ConfigOnly, Joiners, IsIn
<1> HIDE DEF a
<1>5. ConfigOnly'
  <2>1. ASSUME NEW k \in Joiners, NEW i \in 1..Len(chan'[k])
        PROVE  chan'[k][i].tag = "Config"
    <3>1. IsIn(chan'[k][i], chan'[k])
      BY DEF IsIn
    <3>2. chan'[k] = chan[k] \/ (k = n /\ chan'[k] = Tail(chan[k]))
      BY <1>1, <1>2 DEF Joiners
    <3>3. IsIn(chan'[k][i], chan[k])
      BY <1>1, <1>2, <3>1, <3>2, TailMembers
    <3> QED BY <3>3 DEF OnceInv, ConfigOnly, IsIn
  <2> QED BY <2>1 DEF ConfigOnly
<1>6. OwnHint'
  BY <1>1, <1>2, <1>4, OwnHintStays DEF OnceInv
<1>7. CASE n # Bootstrap
  <2>1. chan'[Bootstrap] = chan[Bootstrap] /\ hints' = hints
    BY <1>1, <1>2, <1>4, <1>7
  <2> QED BY <1>1, <1>5, <1>6, <2>1, NoHintMoves DEF OnceInv, OneWay, Sent, Distinct
<1>8. CASE n = Bootstrap
  <2>1. /\ chan'[Bootstrap] = Tail(chan[Bootstrap])
        /\ chan[Bootstrap] # << >> /\ a = Head(chan[Bootstrap])
    BY <1>1, <1>2, <1>8 DEF a
  <2>2. /\ Distinct(Tail(chan[Bootstrap]))
        /\ a.tag = "Hint" => ~ IsIn(a, Tail(chan[Bootstrap]))
        /\ IsIn(a, chan[Bootstrap])
    BY <1>2, <2>1, DistinctTail, TailMembers DEF OnceInv, OneWay
  <2>3. \A h \in Hints : Sent(h)' => Sent(h) /\ a # HintAnn(h)
    BY <1>2, <2>1, <2>2, TailMembers, HintParts DEF Sent
  <2>4. \A h \in Hints : a = HintAnn(h) => Sent(h)
    BY <2>2 DEF Sent
  <2>5. \A h \in Hints : Heard(h)' <=> Heard(h)
    BY <1>1 DEF Heard
  <2>6. Distinct(chan[Bootstrap])' /\ Distinct(events[Bootstrap])'
    BY <1>1, <2>1, <2>2 DEF OnceInv, OneWay
  <2>7. CASE a.tag # "Hint"
    <3>1. hints' = hints
      BY <1>1, <2>7
    <3>2. HintsOnce' /\ \A h \in Hints : Pushed(h)' <=> Pushed(h)
      BY <3>1 DEF OnceInv, OneWay, HintsOnce, Pushed
    <3> QED BY <1>1, <1>5, <1>6, <2>3, <2>5, <2>6, <3>2 DEF OnceInv, OneWay
  <2>8. CASE a.tag = "Hint"
    <3>1. PICK g \in Hints : a = HintAnn(g)
      BY <1>3, <2>8, HintParts
    <3>2. hints' = Append(hints, g)
      BY <1>1, <2>8, <3>1, HintParts
    <3>3. Sent(g) /\ ~ Pushed(g) /\ ~ Heard(g)
      BY <2>4, <3>1 DEF OnceInv, OneWay
    <3>4. \A h \in Hints : Pushed(h)' <=> h = g \/ Pushed(h)
      BY <1>2, <3>2, AppendMembers DEF Pushed
    <3>5. HintsOnce'
      <4>1. /\ Len(hints) \in Nat /\ Len(hints') = Len(hints) + 1
            /\ hints'[Len(hints) + 1] = g
            /\ \A i \in 1..Len(hints) : hints'[i] = hints[i] /\ hints[i] # g
        BY <1>2, <3>2, <3>3 DEF Pushed, IsIn
      <4>2. ASSUME NEW i \in 1..(Len(hints) + 1), NEW j \in 1..(Len(hints) + 1),
                   hints'[i] = hints'[j]
            PROVE  i = j
        <5>1. CASE i \in 1..Len(hints) /\ j \in 1..Len(hints)
          BY <4>1, <4>2, <5>1 DEF OnceInv, OneWay, HintsOnce
        <5>2. CASE i = Len(hints) + 1 \/ j = Len(hints) + 1
          BY <4>1, <4>2, <5>2
        <5> QED BY <4>1, <5>1, <5>2
      <4> QED BY <4>1, <4>2 DEF HintsOnce
    <3>6. \A h \in Hints : h = g => ~ Sent(h)'
      BY <2>3, <3>1
    <3>7. OneWay'
      BY <1>1, <2>3, <2>5, <2>6, <3>3, <3>4, <3>5, <3>6 DEF OnceInv, OneWay
    <3> QED BY <1>5, <1>6, <3>7 DEF OnceInv
  <2> QED BY <2>7, <2>8
<1> QED BY <1>7, <1>8

\* Starting up: the bootstrap node loads no hints of others, and publishes its
\* own once.
LEMMA StartupOnce ==
  ASSUME TypeOK, OnceInv, NEW n \in Nodes, Startup(n)
  PROVE  OnceInv'
<1> USE NetworkAssumption
<1>0. /\ chan \in [Nodes -> Seq(Announcement)] /\ phase \in [Nodes -> Phases]
      /\ replica \in [Nodes -> SUBSET DocEntry]
  BY DEF TypeOK
<1>1. CASE LoadConfig(n)
  <2>1. /\ hints' = hints /\ events' = events /\ replica' = replica
        /\ Send(n, ConfigAnn) \/ chan' = chan
        /\ phase[Bootstrap] = "off" => n # Bootstrap
        /\ \/ phase'[Bootstrap] = phase[Bootstrap]
           \/ phase[Bootstrap] = "config" /\ phase'[Bootstrap] = "publish"
    BY <1>0, <1>1 DEF LoadConfig, Fail, Goto
  <2>2. /\ Distinct(chan[Bootstrap])' /\ \A h \in Hints : Sent(h)' <=> Sent(h)
        /\ ConfigOnly'
        /\ n # Bootstrap => chan'[Bootstrap] = chan[Bootstrap]
    <3>1. CASE Send(n, ConfigAnn)
      BY <3>1, SendNoHint, Made, HintParts
    <3>2. CASE chan' = chan
      BY <3>2 DEF OnceInv, OneWay, Distinct, Sent, ConfigOnly
    <3> QED BY <2>1, <3>1, <3>2
  <2>3. OneWay'
    BY <2>1, <2>2, NoHintMoves DEF OnceInv
  <2>4. OwnHint'
    BY <2>1, <2>2, OwnHintStays DEF OnceInv
  <2> QED BY <2>2, <2>3, <2>4 DEF OnceInv
<1>2. CASE LoadPreviousHint(n) \/ PreviousHintsLoaded(n)
  <2>1. n # Bootstrap
    BY <1>2 DEF LoadPreviousHint, PreviousHintsLoaded, OnceInv, OwnHint
  <2>2. /\ hints' = hints /\ events' = events /\ replica' = replica
        /\ phase'[Bootstrap] = phase[Bootstrap]
    BY <1>0, <1>2, <2>1 DEF LoadPreviousHint, PreviousHintsLoaded, Fail, Goto
  <2>3. chan' = chan \/ \E e \in DocEntry : Send(n, e.ann)
    BY <1>0, <1>2 DEF LoadPreviousHint, PreviousHintsLoaded, Fail
  <2>4. /\ Distinct(chan[Bootstrap])' /\ \A h \in Hints : Sent(h)' <=> Sent(h)
        /\ ConfigOnly' /\ chan'[Bootstrap] = chan[Bootstrap]
    <3>1. CASE \E e \in DocEntry : Send(n, e.ann)
      BY <2>1, <3>1, SendNoHint, Made
    <3>2. CASE chan' = chan
      BY <3>2 DEF OnceInv, OneWay, Distinct, Sent, ConfigOnly
    <3> QED BY <2>3, <3>1, <3>2
  <2>5. OneWay'
    BY <2>2, <2>4, NoHintMoves DEF OnceInv
  <2>6. OwnHint'
    BY <2>2, <2>4, OwnHintStays DEF OnceInv
  <2> QED BY <2>4, <2>5, <2>6 DEF OnceInv
<1>3. CASE PublishNodeHint(n)
  <2> DEFINE g == Hint(n)
  <2>1. /\ hints' = hints /\ events' = events
        /\ phase[n] = "publish"
        /\ phase' = [phase EXCEPT ![n] = phase'[n]]
        /\ phase'[Bootstrap] \in {"keys", "failed"} \/ n # Bootstrap
    BY <1>0, <1>3 DEF PublishNodeHint, EventsAfterWrite, Fail, Goto
  <2>2. \/ chan' = chan /\ replica' = replica
        \/ /\ Send(n, HintAnn(g))
           /\ replica' = [replica EXCEPT ![n] = replica[n] \cup {EntryOf(g)}]
    BY <1>3 DEF PublishNodeHint, Fail, EntryOf, Hint
  <2>3. g \in Hints /\ g[1] = n /\ HintAnn(g) \in Announcement
    <3>1. starts[n] \in 1..MaxStarts
      <4>1. starts[n] \in 0..MaxStarts /\ MaxStarts \in Nat
        BY DEF TypeOK
      <4>2. starts[n] # 0
        BY <2>1 DEF TypeOK, Running
      <4> QED BY <4>1, <4>2
    <3> QED BY <3>1, Made DEF Hint, Hints
  <2> HIDE DEF g
  <2>4. CASE chan' = chan /\ replica' = replica
    <3>1. OneWay' /\ ConfigOnly'
      BY <2>1, <2>4, NoHintMoves DEF OnceInv, OneWay, Sent, Distinct, ConfigOnly
    <3>2. OwnHint'
      BY <1>0, <2>1, <2>4, OwnHintStays DEF OnceInv
    <3> QED BY <3>1, <3>2 DEF OnceInv
  <2>5. CASE /\ Send(n, HintAnn(g))
             /\ replica' = [replica EXCEPT ![n] = replica[n] \cup {EntryOf(g)}]
             /\ n # Bootstrap
    <3>1. /\ Distinct(chan[Bootstrap])' /\ \A h \in Hints : Sent(h)' <=> Sent(h)
          /\ ConfigOnly' /\ chan'[Bootstrap] = chan[Bootstrap]
      BY <2>3, <2>5, SendNoHint
    <3>2. replica'[Bootstrap] = replica[Bootstrap]
      BY <1>0, <2>5
    <3>3. OneWay'
      BY <2>1, <3>1, <3>2, NoHintMoves DEF OnceInv
    <3>4. \A m \in Nodes, s \in 1..MaxStarts :
            EntryOf(<<Bootstrap, s>>) \in replica'[m] =>
              EntryOf(<<Bootstrap, s>>) \in replica[m]
      <4>1. \A s \in 1..MaxStarts : EntryOf(<<Bootstrap, s>>) # EntryOf(g)
        <5>1. \A s \in 1..MaxStarts : <<Bootstrap, s>> \in Hints /\ <<Bootstrap, s>> # g
          BY <2>3, <2>5 DEF Hints
        <5> QED BY <2>3, <5>1, HintParts
      <4> QED BY <1>0, <2>5, <4>1
    <3>5. phase'[Bootstrap] = phase[Bootstrap]
      BY <1>0, <2>1, <2>5
    <3>6. OwnHint'
      BY <2>1, <3>1, <3>4, <3>5, OwnHintStays DEF OnceInv
    <3> QED BY <3>1, <3>3, <3>6 DEF OnceInv
  <2>6. CASE /\ Send(n, HintAnn(g))
             /\ replica' = [replica EXCEPT ![n] = replica[n] \cup {EntryOf(g)}]
             /\ n = Bootstrap
    <3>1. EntryOf(g) \notin replica[Bootstrap]
      <4>1. g = <<Bootstrap, g[2]>> /\ g[2] \in 1..MaxStarts
        BY <2>3, <2>6 DEF Hints
      <4> QED BY <2>1, <2>6, <4>1 DEF OnceInv, OwnHint, Early
    <3>2. ~ Pushed(g) /\ ~ Sent(g) /\ ~ Heard(g)
      BY <2>3, <3>1 DEF OnceInv, OneWay
    <3>3. chan' = [chan EXCEPT ![Bootstrap] = Append(chan[Bootstrap], HintAnn(g))]
      BY <2>6 DEF Send, Matters
    <3>4. chan'[Bootstrap] = Append(chan[Bootstrap], HintAnn(g))
      BY <1>0, <3>3
    <3>5. Distinct(chan[Bootstrap])'
      BY <1>0, <2>3, <3>2, <3>4, DistinctAppend DEF OnceInv, OneWay, Sent
    <3>6. \A h \in Hints : Sent(h)' <=> h = g \/ Sent(h)
      BY <1>0, <2>3, <3>4, AppendMembers, HintParts DEF Sent
    <3>7. \A h \in Hints : (Pushed(h)' <=> Pushed(h)) /\ (Heard(h)' <=> Heard(h))
      BY <2>1 DEF Pushed, Heard
    <3>8. HintsOnce' /\ Distinct(events[Bootstrap])'
      BY <2>1 DEF OnceInv, OneWay, HintsOnce, Distinct
    <3>9. replica'[Bootstrap] = replica[Bootstrap] \cup {EntryOf(g)}
      BY <1>0, <2>6
    <3>10. OneWay'
      BY <2>3, <3>2, <3>5, <3>6, <3>7, <3>8, <3>9 DEF OnceInv, OneWay
    <3>11. ConfigOnly'
      BY <1>0, <3>3 DEF OnceInv, ConfigOnly, Joiners
    <3>12. OwnHint'
      BY <2>1, <2>6 DEF OwnHint, Early
    <3> QED BY <3>10, <3>11, <3>12 DEF OnceInv
  <2> QED BY <2>2, <2>4, <2>5, <2>6
<1> QED BY <1>1, <1>2, <1>3 DEF Startup

\* Making and publishing keys moves no hint.
LEMMA PublisherOnce ==
  ASSUME TypeOK, OnceInv, Publisher \/ KeysNotPublished \/ UpdaterPanics
  PROVE  OnceInv'
<1> USE NetworkAssumption
<1>0. chan \in [Nodes -> Seq(Announcement)] /\ phase \in [Nodes -> Phases]
  BY DEF TypeOK
<1>1. /\ hints' = hints /\ events' = events /\ replica' = replica
      /\ chan' = chan \/ Send(Bootstrap, KeysAnn)
      /\ phase[Bootstrap] = "off" => chan' = chan
      /\ phase'[Bootstrap] = phase[Bootstrap] \/ phase'[Bootstrap] \in {"up", "failed"}
  <2>1. CASE InitialKeys
    BY <1>0, <2>1 DEF InitialKeys, Goto
  <2>2. CASE CountHints \/ UpdateKeys \/ UpdaterPanics
    BY <2>2 DEF CountHints, UpdateKeys, UpdaterPanics, node_vars
  <2>3. CASE KeysPublished
    BY <1>0, <2>3 DEF KeysPublished, Goto, Running
  <2>4. CASE KeysNotPublished
    BY <1>0, <2>4 DEF KeysNotPublished, Goto, Running
  <2> QED BY <2>1, <2>2, <2>3, <2>4 DEF Publisher
<1>2. /\ Distinct(chan[Bootstrap])' /\ \A h \in Hints : Sent(h)' <=> Sent(h)
      /\ ConfigOnly'
  <2>1. CASE Send(Bootstrap, KeysAnn)
    BY <2>1, SendNoHint, Made, HintParts
  <2>2. CASE chan' = chan
    BY <2>2 DEF OnceInv, OneWay, Distinct, Sent, ConfigOnly
  <2> QED BY <1>1, <2>1, <2>2
<1>3. OneWay'
  BY <1>1, <1>2, NoHintMoves DEF OnceInv
<1>4. OwnHint'
  BY <1>1, OwnHintStays DEF OnceInv
<1> QED BY <1>2, <1>3, <1>4 DEF OnceInv

\* Every step keeps OnceInv.
LEMMA StepOnce == TypeOK /\ OnceInv /\ [Next]_vars => OnceInv'
<1> SUFFICES ASSUME TypeOK, OnceInv, [Next]_vars PROVE OnceInv'
  OBVIOUS
<1>1. CASE UNCHANGED vars
  <2>1. UNCHANGED <<hints, events, chan, replica, phase>>
    BY <1>1 DEF vars, node_vars
  <2> QED BY <2>1, NoHintMoves, OwnHintStays DEF OnceInv, OneWay, Sent, Distinct,
         ConfigOnly
<1>2. CASE Next
  BY <1>2, StartOnce, ReplicateOnce, HandleEventOnce, UpdateOnce, StartupOnce,
     PublisherOnce DEF Next
<1> QED BY <1>1, <1>2

\* OnceInv at the start.
LEMMA InitOnce == Init => OnceInv
<1> SUFFICES ASSUME Init PROVE OnceInv
  OBVIOUS
<1> USE NetworkAssumption
<1>1. /\ hints = << >> /\ chan[Bootstrap] = << >> /\ events[Bootstrap] = << >>
      /\ phase[Bootstrap] = "off"
      /\ \A n \in Nodes : replica[n] = {} /\ chan[n] = << >>
  BY DEF Init
<1>2. OneWay
  BY <1>1 DEF OneWay, HintsOnce, Distinct, Pushed, Sent, Heard, IsIn
<1>3. OwnHint /\ ConfigOnly
  BY <1>1 DEF OwnHint, ConfigOnly, Joiners
<1> QED BY <1>2, <1>3 DEF OnceInv

\* The bootstrap node counts no hint twice, for any number of nodes, restarts,
\* orders of arrival and losses, although State::update drops no duplicate: an
\* entry is replicated once, and its own hint never comes back as an event.
THEOREM KeySyncHintsOnce == Spec => []HintsOnce
<1>1. Spec => []OnceInv
  BY InitOnce, StepOnce, KeySyncTypeCorrect, PTL DEF Spec
<1> QED BY <1>1, PTL DEF OnceInv, OneWay

==============================================================================
