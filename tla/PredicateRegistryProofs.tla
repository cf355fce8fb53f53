----------------------- MODULE PredicateRegistryProofs -----------------------
(***************************************************************************)
(* What the predicate registry contract guarantees for any filenames and   *)
(* entries.                                                                *)
(***************************************************************************)
EXTENDS PredicateRegistry, TLAPS

\* The inductive invariant: ListsRegistered alone does not say that the list
\* is a sequence.
RegistryInv == RegistryTypeOK /\ ListsRegistered

\* register_ciphertext keeps the list and the mapping together.
LEMMA RegisterInv ==
  ASSUME RegistryInv, NEW f \in Filenames, NEW e \in Entries,
         register_predicate(f, e)
  PROVE  RegistryInv'
<1>1. /\ f \notin DOMAIN predicate_registry
      /\ predicate_registry' = Insert(predicate_registry, f, e)
      /\ filenames' = Append(filenames, f)
  BY DEF register_predicate, IsFree
<1>2. /\ DOMAIN predicate_registry' = DOMAIN predicate_registry \cup {f}
      /\ \A g \in DOMAIN predicate_registry' :
           predicate_registry'[g] \in Entries
  BY <1>1 DEF Insert, RegistryInv, RegistryTypeOK
<1>3. filenames \in Seq(Filenames)
  BY DEF RegistryInv, RegistryTypeOK
<1>4. /\ filenames' \in Seq(Filenames)
      /\ Len(filenames') = Len(filenames) + 1
      /\ \A i \in 1..Len(filenames) : filenames'[i] = filenames[i]
      /\ filenames'[Len(filenames) + 1] = f
      /\ Len(filenames) \in Nat
  BY <1>1, <1>3
<1>5. \A i \in 1..Len(filenames) : filenames[i] # f
  BY <1>1 DEF RegistryInv, ListsRegistered
<1>6. {filenames'[i] : i \in 1..Len(filenames')} = DOMAIN predicate_registry'
  BY <1>2, <1>4 DEF RegistryInv, ListsRegistered
<1>7. \A i, j \in 1..Len(filenames') : filenames'[i] = filenames'[j] => i = j
  BY <1>4, <1>5 DEF RegistryInv, ListsRegistered
<1>8. QED
  BY <1>2, <1>4, <1>6, <1>7 DEF RegistryInv, RegistryTypeOK, ListsRegistered

\* A listed filename is removed from the only place it has.
LEMMA UnlistedIsSwapRemove ==
  ASSUME RegistryInv, NEW f \in DOMAIN predicate_registry
  PROVE  \E p \in 1..Len(filenames) :
            /\ filenames[p] = f
            /\ Unlisted(f) = SwapRemove(filenames, p)
<1>1. PICK p \in 1..Len(filenames) : filenames[p] = f
  BY DEF RegistryInv, ListsRegistered
<1>2. Places(f) = {p}
  BY <1>1 DEF Places, RegistryInv, ListsRegistered
<1>3. p <= p
  BY DEF RegistryInv, RegistryTypeOK
<1>4. (CHOOSE q \in Places(f) : \A r \in Places(f) : q <= r) = p
  BY <1>2, <1>3
<1>5. QED
  BY <1>1, <1>2, <1>4 DEF Unlisted

\* So does the swap-remove of remove_ciphertext.
LEMMA RemoveInv ==
  ASSUME RegistryInv, NEW f \in Filenames, remove_predicate(f)
  PROVE  RegistryInv'
<1>1. /\ f \in DOMAIN predicate_registry
      /\ predicate_registry' = Take(predicate_registry, f)
      /\ filenames' = Unlisted(f)
  BY DEF remove_predicate
<1>2. /\ DOMAIN predicate_registry' = DOMAIN predicate_registry \ {f}
      /\ \A g \in DOMAIN predicate_registry' :
           predicate_registry'[g] \in Entries
  BY <1>1 DEF Take, RegistryInv, RegistryTypeOK
<1>3. PICK p \in 1..Len(filenames) :
        /\ filenames[p] = f
        /\ filenames' = SwapRemove(filenames, p)
  BY <1>1, UnlistedIsSwapRemove
<1> DEFINE n == Len(filenames)
<1>4. filenames \in Seq(Filenames) /\ n \in Nat
  BY DEF RegistryInv, RegistryTypeOK
<1>5. n - 1 \in Nat /\ n \in 1..n
  BY <1>3, <1>4
<1>6. /\ filenames' \in Seq(Filenames)
      /\ Len(filenames') = n - 1
      /\ \A i \in 1..(n - 1) :
           filenames'[i] = IF i = p THEN filenames[n] ELSE filenames[i]
  BY <1>3, <1>4, <1>5 DEF SwapRemove
<1>7. \A i, j \in 1..n : filenames[i] = filenames[j] => i = j
  BY DEF RegistryInv, ListsRegistered
<1> HIDE DEF n
<1>8. {filenames'[i] : i \in 1..(n - 1)} = DOMAIN predicate_registry'
  <2>1. \A i \in 1..(n - 1) : filenames'[i] \in DOMAIN predicate_registry'
    BY <1>2, <1>3, <1>4, <1>5, <1>6, <1>7
    DEF RegistryInv, ListsRegistered, n
  <2>2. ASSUME NEW g \in DOMAIN predicate_registry'
        PROVE  \E i \in 1..(n - 1) : filenames'[i] = g
    <3>1. PICK j \in 1..n : filenames[j] = g /\ j # p
      BY <2>2, <1>2, <1>3 DEF RegistryInv, ListsRegistered, n
    <3>2. CASE j = n
      <4>1. p \in 1..(n - 1) /\ filenames'[p] = g
        BY <3>1, <3>2, <1>3, <1>4, <1>6 DEF n
      <4>2. QED
        BY <4>1
    <3>3. CASE j # n
      <4>1. j \in 1..(n - 1) /\ filenames'[j] = g
        BY <3>1, <3>3, <1>4, <1>6
      <4>2. QED
        BY <4>1
    <3>4. QED
      BY <3>2, <3>3
  <2>3. QED
    BY <2>1, <2>2
<1>9. \A i, j \in 1..(n - 1) : filenames'[i] = filenames'[j] => i = j
  BY <1>4, <1>5, <1>6, <1>7
<1>10. QED
  BY <1>2, <1>6, <1>8, <1>9 DEF RegistryInv, RegistryTypeOK, ListsRegistered

\* Every reachable registry is well typed and lists what it holds.
THEOREM RegistryInvariant == RegistrySpec => []RegistryInv
<1>1. RegistryInit => RegistryInv
  BY DEF RegistryInit, RegistryInv, RegistryTypeOK, ListsRegistered,
         EmptyMapping
<1>2. RegistryInv /\ [RegistryNext]_registry_vars => RegistryInv'
  <2> SUFFICES ASSUME RegistryInv, [RegistryNext]_registry_vars
               PROVE  RegistryInv'
    OBVIOUS
  <2>1. CASE UNCHANGED registry_vars
    BY <2>1 DEF registry_vars, RegistryInv, RegistryTypeOK, ListsRegistered
  <2>2. CASE RegistryNext
    BY <2>2, RegisterInv, RemoveInv DEF RegistryNext
  <2>3. QED
    BY <2>1, <2>2
<1>3. QED
  BY <1>1, <1>2, PTL DEF RegistrySpec

\* read_all lists each registered filename exactly once.
THEOREM RegistryLists == RegistrySpec => []ListsRegistered
BY RegistryInvariant, PTL DEF RegistryInv

\* The entry of a registered filename never changes in place.
THEOREM RegistryNotOverwritten == RegistrySpec => EntryNotOverwritten
<1>1. [RegistryNext]_registry_vars =>
        [\A f \in DOMAIN predicate_registry :
           f \in DOMAIN predicate_registry' =>
             predicate_registry'[f] = predicate_registry[f]]_registry_vars
  BY DEF RegistryNext, register_predicate, remove_predicate, IsFree, Insert,
         Take, registry_vars
<1>2. QED
  BY <1>1, PTL DEF RegistrySpec, EntryNotOverwritten
==============================================================================
