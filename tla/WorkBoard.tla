------------------------------ MODULE WorkBoard ------------------------------
(***************************************************************************)
(* What a board of work items promises those who use it, with none of the  *)
(* bookkeeping by which the request pool contract keeps the promise.  An   *)
(* item is posted once.  While it is open, each member of the crew may     *)
(* make one statement that it is done.  The step in which the QUORUM-th of *)
(* them does so settles the item, with just the statements made: there is  *)
(* no state in which enough have spoken and the item is open, nobody       *)
(* speaks after that, and what settled an item stays.                      *)
(***************************************************************************)
EXTENDS Naturals, FiniteSets, Mapping

CONSTANTS
  Items,
  Members,      \* who may be in the crew
  Statements,   \* what they may say
  QUORUM        \* how many statements settle an item

VARIABLES
  crew,         \* a set of members, fixed at the start
  said,         \* posted item -> (member -> its statement)
  settled       \* settled item -> the pairs of member and statement

vars == <<crew, said, settled>>

Init ==
  /\ crew \in SUBSET Members
  /\ said = EmptyMapping
  /\ settled = EmptyMapping

Post(i) ==
  /\ i \notin DOMAIN said
  /\ said' = Insert(said, i, EmptyMapping)
  /\ UNCHANGED <<crew, settled>>

Pairs(f) == {<<w, f[w]>> : w \in DOMAIN f}

Speak(i, w, s) ==
  LET spoken == Insert(said[i], w, s) IN
  /\ w \in crew
  /\ i \in DOMAIN said
  /\ w \notin DOMAIN said[i]
  /\ Cardinality(DOMAIN said[i]) < QUORUM
  /\ said' = Insert(said, i, spoken)
  /\ settled' = IF Cardinality(DOMAIN spoken) = QUORUM
                THEN Insert(settled, i, Pairs(spoken))
                ELSE settled
  /\ UNCHANGED crew

Next ==
  \/ \E i \in Items : Post(i)
  \/ \E i \in Items, w \in Members, s \in Statements : Speak(i, w, s)

Spec == Init /\ [][Next]_vars
==============================================================================
