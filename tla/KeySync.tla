------------------------------- MODULE KeySync -------------------------------
(***************************************************************************)
(* How the nodes of a network agree on the system keys: build_full_service *)
(* and the tasks it starts (fangorn/src/node/service.rs), Node::build      *)
(* (fangorn/src/node/node.rs) and State::update (fangorn/src/types.rs).    *)
(*                                                                         *)
(* The bootstrap node creates a replicated document with the config; the   *)
(* others join with its ticket.  Each node publishes its hint there under  *)
(* its index.  A node hears of remote entries through run_state_sync, and  *)
(* sends every announcement through a channel to the task that applies it  *)
(* to State.  The bootstrap node aggregates the hints into system keys and *)
(* does so again whenever their number has grown.                          *)
(*                                                                         *)
(* The code waits with fixed sleeps for the other tasks to catch up.  A    *)
(* sleep orders nothing, so here each step may come before they have.      *)
(*                                                                         *)
(* iroh-docs (external): a replica gets each entry once, at some time and  *)
(* in any order, from a running node that has it; what arrives after       *)
(* subscribe raises one InsertRemote event.                                *)
(***************************************************************************)
EXTENDS Naturals, Sequences, FiniteSets

CONSTANTS
  Nodes,        \* the nodes
  Bootstrap,    \* the one started with is_bootstrap
  Index,        \* node -> its --index
  MaxStarts,    \* bound: how often one node may be started
  MaxErrors     \* bound: how often publishing the system keys may fail

ASSUME NetworkAssumption ==
  /\ Bootstrap \in Nodes
  /\ Index \in [Nodes -> Nat]
  /\ MaxStarts \in Nat \ {0}
  /\ MaxErrors \in Nat

VARIABLES
  phase,      \* node -> how far build_full_service is
  starts,     \* node -> how often it was started
  next,       \* node -> i of the loop in load_previous_hints
  replica,    \* node -> the document entries it has
  subscribed, \* node -> run_state_sync has subscribed
  events,     \* node -> InsertRemote events not handled yet
  chan,       \* node -> announcements not applied yet
  config,     \* node -> State.config is Some
  hints,      \* State.hints of the bootstrap node (None is << >>)
  updater,    \* what the bootstrap node's key publisher does
  current_hint_count,
  last_hint_count,
  snapshot,   \* the hints publish_system_keys made its keys of
  key_file,   \* the hints behind the keys in tmp/sys/key
  key_entry,  \* the hints behind the keys in the document
  errors      \* how often publishing failed

node_vars == <<phase, starts, next, replica, subscribed, events, chan,
               config, hints>>
key_vars == <<updater, current_hint_count, last_hint_count, snapshot,
              key_file, key_entry, errors>>
vars == <<node_vars, key_vars>>

Joiners == Nodes \ {Bootstrap}

(***************************************************************************)
(* Announcements and document entries.                                     *)
(***************************************************************************)

\* A node makes a new STE key, and so another hint, every time it starts.
Hint(n) == <<n, starts[n]>>
Hints == Nodes \X (1..MaxStarts)

ConfigAnn == [tag |-> "Config", data |-> << >>]
HintAnn(h) == [tag |-> "Hint", data |-> h]
KeysAnn == [tag |-> "SystemKeys", data |-> << >>]
Announcement == {ConfigAnn, KeysAnn} \cup {HintAnn(h) : h \in Hints}

\* An entry: its key, and its content.  A node writes under the author it got
\* when it started, so no two writes of a hint are to the same place.
ConfigEntry == [key |-> <<"config-key-">>, ann |-> ConfigAnn]
HintEntry(i, h) == [key |-> <<"hint", i>>, ann |-> HintAnn(h)]
DocEntry == {ConfigEntry} \cup {HintEntry(Index[h[1]], h) : h \in Hints}

Running(n) == phase[n] \notin {"off", "failed"}

\* The announcements a node makes use of.  Every node collects hints, but only
\* the bootstrap node ever reads them, so they are left out elsewhere.
Matters(n, ann) == n = Bootstrap \/ ann.tag = "Config"

\* tx.send(announcement): to the channel of the node's own State.
Send(n, ann) ==
  chan' = IF Matters(n, ann)
          THEN [chan EXCEPT ![n] = Append(@, ann)]
          ELSE chan

Goto(n, p) == phase' = [phase EXCEPT ![n] = p]

\* An unwrap or a ? in build_full_service: the process ends.
Fail(n) == Goto(n, "failed") /\ UNCHANGED <<chan, replica>>

(***************************************************************************)
(* Starting: build_full_service, up to the wait for the initial sync.      *)
(***************************************************************************)

\* Node::build, and setup_document_stream of the bootstrap node.
StartBootstrap ==
  LET b == Bootstrap IN
  /\ phase[b] = "off"
  /\ starts[b] = 0
  /\ starts' = [starts EXCEPT ![b] = 1]
  /\ Goto(b, "config")
  /\ Send(b, ConfigAnn)
  /\ replica' = [replica EXCEPT ![b] = {ConfigEntry}]
  /\ UNCHANGED <<next, subscribed, events, config, hints, key_vars>>

\* Node::build, and setup_document_stream of a node with a ticket.  It connects
\* to the bootstrap node first, and panics when that is not there.
StartJoiner(n) ==
  /\ n # Bootstrap
  /\ phase[n] = "off"
  /\ starts[n] < MaxStarts
  /\ Running(Bootstrap)
  /\ starts' = [starts EXCEPT ![n] = @ + 1]
  /\ Goto(n, "config")
  /\ UNCHANGED <<next, replica, subscribed, events, chan, config, hints,
                 key_vars>>

\* A node that joined stops; documents, blobs and state are in memory only.
Stop(n) ==
  /\ n # Bootstrap
  /\ phase[n] # "off"
  /\ Goto(n, "off")
  /\ next' = [next EXCEPT ![n] = 1]
  /\ replica' = [replica EXCEPT ![n] = {}]
  /\ subscribed' = [subscribed EXCEPT ![n] = FALSE]
  /\ events' = [events EXCEPT ![n] = << >>]
  /\ chan' = [chan EXCEPT ![n] = << >>]
  /\ config' = [config EXCEPT ![n] = FALSE]
  /\ UNCHANGED <<starts, hints, key_vars>>

(***************************************************************************)
(* The document, run_state_sync and the task that applies announcements.   *)
(***************************************************************************)

\* start_sync and subscribe, in a task of their own.
Subscribe(n) ==
  /\ Running(n)
  /\ ~subscribed[n]
  /\ subscribed' = [subscribed EXCEPT ![n] = TRUE]
  /\ UNCHANGED <<phase, starts, next, replica, events, chan, config, hints,
                 key_vars>>

\* An entry of another node reaches the replica of n.
Replicate(n, m) ==
  /\ Running(n) /\ Running(m)
  /\ \E e \in replica[m] \ replica[n] :
       /\ replica' = [replica EXCEPT ![n] = @ \cup {e}]
       /\ events' = IF subscribed[n] /\ Matters(n, e.ann)
                    THEN [events EXCEPT ![n] = Append(@, e.ann)]
                    ELSE events
  /\ UNCHANGED <<phase, starts, next, subscribed, chan, config, hints,
                 key_vars>>

\* An InsertRemote event: the content is there at once or after up to three
\* more attempts, or the announcement is lost.
HandleEvent(n) ==
  /\ Running(n)
  /\ events[n] # << >>
  /\ events' = [events EXCEPT ![n] = Tail(@)]
  /\ \/ Send(n, Head(events[n]))
     \/ UNCHANGED chan
  /\ UNCHANGED <<phase, starts, next, replica, subscribed, config, hints,
                 key_vars>>

\* Mutant: the tag is not looked at.
MutAnyTag(ann) == Append(hints, ann.data)

\* The hints after State::update.
Applied(ann) == IF ann.tag = "Hint" THEN Append(hints, ann.data) ELSE hints

\* State::update: the config is replaced, a hint is pushed whether or not it is
\* there already, and any other announcement is ignored.
Update(n) ==
  /\ Running(n)
  /\ chan[n] # << >>
  /\ chan' = [chan EXCEPT ![n] = Tail(@)]
  /\ LET ann == Head(chan[n]) IN
     /\ config' = [config EXCEPT ![n] = @ \/ ann.tag = "Config"]
     /\ hints' = Applied(ann)
  /\ UNCHANGED <<phase, starts, next, replica, subscribed, events, key_vars>>

(***************************************************************************)
(* The rest of build_full_service.                                         *)
(***************************************************************************)

\* load_and_distribute_config: config[0] and get_bytes panic when the entry or
\* its content has not arrived.
LoadConfig(n) ==
  /\ phase[n] = "config"
  /\ \/ /\ ConfigEntry \in replica[n]
        /\ Send(n, ConfigAnn)
        /\ Goto(n, IF n = Bootstrap THEN "publish" ELSE "hints")
        /\ UNCHANGED replica
     \/ n # Bootstrap /\ Fail(n)
  /\ UNCHANGED <<starts, next, subscribed, events, config, hints, key_vars>>

\* One turn of the loop of load_previous_hints, for i in 1..our_index: entry[0]
\* panics when no entry with key i has arrived, get_bytes when its content has
\* not.
LoadPreviousHint(n) ==
  /\ phase[n] = "hints"
  /\ next[n] < Index[n]
  /\ \/ /\ \E e \in replica[n] :
             e.key = <<"hint", next[n]>> /\ Send(n, e.ann)
        /\ next' = [next EXCEPT ![n] = @ + 1]
        /\ UNCHANGED <<phase, replica>>
     \/ Fail(n) /\ UNCHANGED next
  /\ UNCHANGED <<starts, subscribed, events, config, hints, key_vars>>

PreviousHintsLoaded(n) ==
  /\ phase[n] = "hints"
  /\ next[n] >= Index[n]
  /\ Goto(n, "publish")
  /\ UNCHANGED <<starts, next, replica, subscribed, events, chan, config,
                 hints, key_vars>>

\* Mutant: run_state_sync takes InsertLocal events for remote ones.
MutHandlesLocal(n) == [events EXCEPT ![n] = Append(@, HintAnn(Hint(n)))]

\* The events after an entry is written: run_state_sync ignores InsertLocal.
EventsAfterWrite(n) == events

\* publish_node_hint: get_pk needs the config, or the unwrap panics.  The hint
\* is sent to the node's own State and written to the document.
PublishNodeHint(n) ==
  /\ phase[n] = "publish"
  /\ IF config[n]
     THEN /\ Send(n, HintAnn(Hint(n)))
          /\ replica' = [replica EXCEPT ![n] =
                           @ \cup {HintEntry(Index[n], Hint(n))}]
          /\ events' = EventsAfterWrite(n)
          /\ Goto(n, IF n = Bootstrap THEN "keys" ELSE "up")
     ELSE Fail(n) /\ UNCHANGED events
  /\ UNCHANGED <<starts, next, subscribed, config, hints, key_vars>>

(***************************************************************************)
(* publish_system_keys, and the task that calls it again.                  *)
(***************************************************************************)

\* Under the lock: config and hints must be there, and with fewer than two
\* hints there is nothing to do (returns).
HaveState == config[Bootstrap] /\ hints # << >>
TooFew == Len(hints) <= 1

\* The first call, from build_full_service: an Err ends the process.
InitialKeys ==
  LET b == Bootstrap IN
  /\ phase[b] = "keys"
  /\ updater = "off"
  /\ \/ /\ ~HaveState
        /\ Goto(b, "failed")
        /\ UNCHANGED <<updater, snapshot>>
     \/ /\ HaveState /\ TooFew
        /\ Goto(b, "up")
        /\ updater' = "sleep"
        /\ UNCHANGED snapshot
     \/ /\ HaveState /\ ~TooFew
        /\ updater' = "initial"
        /\ snapshot' = hints
        /\ UNCHANGED phase
  /\ UNCHANGED <<starts, next, replica, subscribed, events, chan, config,
                 hints, current_hint_count, last_hint_count, key_file,
                 key_entry, errors>>

\* spawn_system_keys_updater wakes up and counts the hints.
CountHints ==
  /\ Running(Bootstrap)
  /\ updater = "sleep"
  /\ Len(hints) > last_hint_count
  /\ current_hint_count' = Len(hints)
  /\ updater' = "publish"
  /\ UNCHANGED <<node_vars, last_hint_count, snapshot, key_file, key_entry,
                 errors>>

\* Mutant: the hints are counted again after the keys were published.
MutCountAgain == Len(hints)

\* The count that is remembered is the one made before publish_system_keys.
PublishedCount == current_hint_count

\* The updater calls publish_system_keys, which takes the lock anew and may see
\* more hints than were counted.  The config and the hints are there: the first
\* call found them, and State never loses one.
UpdateKeys ==
  /\ Running(Bootstrap)
  /\ updater = "publish"
  /\ \/ /\ TooFew
        /\ updater' = "sleep"
        /\ last_hint_count' = PublishedCount
        /\ UNCHANGED snapshot
     \/ /\ ~TooFew
        /\ updater' = "write"
        /\ snapshot' = hints
        /\ UNCHANGED last_hint_count
  /\ UNCHANGED <<node_vars, current_hint_count, key_file, key_entry, errors>>

\* Aggregation, the file, the channel and the document have all succeeded.
KeysPublished ==
  /\ Running(Bootstrap)
  /\ updater \in {"initial", "write"}
  /\ key_file' = snapshot
  /\ key_entry' = snapshot
  /\ Send(Bootstrap, KeysAnn)
  /\ updater' = "sleep"
  /\ IF updater = "initial"
     THEN Goto(Bootstrap, "up") /\ UNCHANGED last_hint_count
     ELSE last_hint_count' = PublishedCount /\ UNCHANGED phase
  /\ UNCHANGED <<starts, next, replica, subscribed, events, config, hints,
                 current_hint_count, snapshot, errors>>

\* Mutant: the count is remembered although the keys were not published.
MutCountFailure == current_hint_count

\* After a failure the last count stands, so the hints still look new.
FailedCount == last_hint_count

\* It failed: in SystemPublicKeys::new before anything was written, or in
\* set_bytes after the file was.  The updater tries again after its sleep.
KeysNotPublished ==
  /\ Running(Bootstrap)
  /\ updater \in {"initial", "write"}
  /\ errors < MaxErrors
  /\ errors' = errors + 1
  /\ \/ UNCHANGED <<key_file, chan>>
     \/ key_file' = snapshot /\ Send(Bootstrap, KeysAnn)
  /\ IF updater = "initial"
     THEN /\ Goto(Bootstrap, "failed")
          /\ updater' = "off"
          /\ UNCHANGED last_hint_count
     ELSE /\ updater' = "sleep"
          /\ last_hint_count' = FailedCount
          /\ UNCHANGED phase
  /\ UNCHANGED <<starts, next, replica, subscribed, events, config, hints,
                 current_hint_count, snapshot, key_entry>>

\* It panicked: SystemPublicKeys::new or the unwraps around the file, whose old
\* content may be gone.  That ends the updater task and nothing starts another.
\* (In the first call it ends the process, as an Err does.)
UpdaterPanics ==
  /\ Running(Bootstrap)
  /\ updater = "write"
  /\ updater' = "dead"
  /\ key_file' \in {key_file, << >>}
  /\ UNCHANGED <<node_vars, current_hint_count, last_hint_count, snapshot,
                 key_entry, errors>>

------------------------------------------------------------------------------

Init ==
  /\ phase = [n \in Nodes |-> "off"]
  /\ starts = [n \in Nodes |-> 0]
  /\ next = [n \in Nodes |-> 1]
  /\ replica = [n \in Nodes |-> {}]
  /\ subscribed = [n \in Nodes |-> FALSE]
  /\ events = [n \in Nodes |-> << >>]
  /\ chan = [n \in Nodes |-> << >>]
  /\ config = [n \in Nodes |-> FALSE]
  /\ hints = << >>
  /\ updater = "off"
  /\ current_hint_count = 0
  /\ last_hint_count = 0
  /\ snapshot = << >>
  /\ key_file = << >>
  /\ key_entry = << >>
  /\ errors = 0

Startup(n) ==
  \/ LoadConfig(n)
  \/ LoadPreviousHint(n)
  \/ PreviousHintsLoaded(n)
  \/ PublishNodeHint(n)

Publisher ==
  \/ InitialKeys
  \/ CountHints
  \/ UpdateKeys
  \/ KeysPublished

Next ==
  \/ StartBootstrap
  \/ Publisher
  \/ KeysNotPublished
  \/ UpdaterPanics
  \/ \E n \in Nodes :
       \/ StartJoiner(n)
       \/ Stop(n)
       \/ Subscribe(n)
       \/ \E m \in Nodes : Replicate(n, m)
       \/ HandleEvent(n)
       \/ Update(n)
       \/ Startup(n)

Spec == Init /\ [][Next]_vars

\* The tasks of a running node are scheduled, and publishing does not fail for
\* ever.  Starting and stopping nodes, and replication, are not fair.
Fairness ==
  /\ WF_vars(Publisher)
  /\ \A n \in Nodes : WF_vars(Update(n)) /\ WF_vars(Startup(n))

FairSpec == Spec /\ Fairness

(***************************************************************************)
(* Properties.                                                             *)
(***************************************************************************)

Phases == {"off", "config", "hints", "publish", "keys", "up", "failed"}

\* What the variables hold; only the hint a node makes is announced as its own.
TypeOK ==
  /\ phase \in [Nodes -> Phases]
  /\ starts \in [Nodes -> 0..MaxStarts]
  /\ \A n \in Nodes : Running(n) => starts[n] # 0
  /\ next \in [Nodes -> Nat \ {0}]
  /\ replica \in [Nodes -> SUBSET DocEntry]
  /\ subscribed \in [Nodes -> BOOLEAN]
  /\ events \in [Nodes -> Seq(Announcement)]
  /\ chan \in [Nodes -> Seq(Announcement)]
  /\ config \in [Nodes -> BOOLEAN]
  /\ hints \in Seq(Hints)
  /\ updater \in {"off", "initial", "sleep", "publish", "write", "dead"}
  /\ current_hint_count \in Nat
  /\ last_hint_count \in Nat
  /\ {snapshot, key_file, key_entry} \subseteq Seq(Hints)
  /\ errors \in 0..MaxErrors

\* s is the beginning of t.
IsBeginningOf(s, t) ==
  Len(s) <= Len(t) /\ \A i \in 1..Len(s) : s[i] = t[i]

\* The keys are always made of the hints the bootstrap node got first, and when
\* the updater goes to sleep with as many hints counted as there are, both the
\* file and the document have the keys made of all of them: no hint that comes
\* in while keys are being made is overlooked.  Until the updater panics, the
\* file is never behind the document.
KeysCurrent ==
  /\ updater # "dead" => IsBeginningOf(key_entry, key_file)
  /\ IsBeginningOf(key_file, hints)
  /\ IsBeginningOf(key_entry, hints)
  /\ /\ updater = "sleep"
     /\ last_hint_count >= Len(hints)
     /\ Len(hints) >= 2
     => key_file = hints /\ key_entry = hints

\* The bootstrap node counts no hint twice, although its own reaches State
\* through the channel and the document and State::update drops no duplicate.
HintsOnce ==
  \A i, j \in 1..Len(hints) :
    hints[i] = hints[j] => i = j

\* A hint that a node published and that reached the channel of the bootstrap
\* node is in the system keys in the end, unless that node fails to start or its updater
\* panics.
HintGetsIntoKeys ==
  \A h \in Joiners \X (1..MaxStarts) :
    (\E i \in 1..Len(chan[Bootstrap]) : chan[Bootstrap][i] = HintAnn(h))
      ~> \/ phase[Bootstrap] = "failed"
         \/ updater = "dead"
         \/ \E i \in 1..Len(key_entry) : key_entry[i] = h

\* docs/setup.md has the second peer start with --index 2 once the bootstrap
\* node is up.  If it then waits until it has all there is in the document, it
\* finds the hints of the previous nodes that load_previous_hints asks for.
LoadsHintsWhenSynced ==
  \A n \in Joiners :
    /\ phase[Bootstrap] = "up"
    /\ phase[n] = "hints"
    /\ next[n] < Index[n]
    =>
      \/ \E m \in Nodes : Running(m) /\ ~(replica[m] \subseteq replica[n])
      \/ \E e \in replica[n] : e.key = <<"hint", next[n]>>

\* publish_system_keys: "Generate system keys from all current hints".  A node
\* has one hint at a time, so the keys hold one for each index.
KeysFromCurrentHints ==
  \A i, j \in 1..Len(key_file) : key_file[i][1] = key_file[j][1] => i = j
==============================================================================
