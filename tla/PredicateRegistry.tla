-------------------------- MODULE PredicateRegistry --------------------------
(***************************************************************************)
(* The ink! contract contract/predicate-registry/lib.rs (IRIS): the        *)
(* registry from a filename to the content id of its ciphertext and the    *)
(* predicate a witness must satisfy.  Any account may register a free      *)
(* filename and remove a registered one.  A message that returns Err is    *)
(* reverted, so each action is a message that returns Ok.                  *)
(***************************************************************************)
EXTENDS Naturals, Sequences, Mapping

CONSTANTS
  Filenames,   \* the filenames that may be registered
  Entries      \* the [cid, predicate] records that may be registered

VARIABLES
  predicate_registry,   \* filename -> entry
  filenames             \* the registered filenames, as read_all returns them

registry_vars == <<predicate_registry, filenames>>

(***************************************************************************)
(* Helpers.                                                                *)
(***************************************************************************)

\* Mutant: the element at pos is dropped and the last one is lost with it.
MutTruncate(s, pos) == [i \in 1..(Len(s) - 1) |-> s[i]]

\* Vec::swap_remove: the last element takes the place of the removed one.
SwapRemove(s, pos) ==
  [i \in 1..(Len(s) - 1) |-> IF i = pos THEN s[Len(s)] ELSE s[i]]

\* The places of a filename in the list.
Places(filename) == {p \in 1..Len(filenames) : filenames[p] = filename}

\* filenames.iter().position(..) and swap_remove of what it finds, if anything.
Unlisted(filename) ==
  IF Places(filename) = {}
  THEN filenames
  ELSE SwapRemove(filenames, CHOOSE p \in Places(filename) :
                               \A q \in Places(filename) : p <= q)

\* Mutant: a registered filename is taken over.
MutAlwaysFree(filename) == TRUE

\* The check of register_predicate; else FilenameAlreadyExists.
IsFree(filename) == filename \notin DOMAIN predicate_registry

(***************************************************************************)
(* The constructor and the messages.                                       *)
(***************************************************************************)

RegistryInit ==
  /\ predicate_registry = EmptyMapping
  /\ filenames = << >>

register_predicate(filename, entry) ==
  /\ IsFree(filename)
  /\ predicate_registry' = Insert(predicate_registry, filename, entry)
  /\ filenames' = Append(filenames, filename)

remove_predicate(filename) ==
  /\ filename \in DOMAIN predicate_registry    \* else FilenameNotFound
  /\ predicate_registry' = Take(predicate_registry, filename)
  /\ filenames' = Unlisted(filename)

RegistryNext ==
  \E f \in Filenames :
    \/ \E e \in Entries : register_predicate(f, e)
    \/ remove_predicate(f)

RegistrySpec == RegistryInit /\ [][RegistryNext]_registry_vars

(***************************************************************************)
(* Properties.                                                             *)
(***************************************************************************)

\* What the storage fields hold.
RegistryTypeOK ==
  /\ DOMAIN predicate_registry \subseteq Filenames
  /\ \A f \in DOMAIN predicate_registry : predicate_registry[f] \in Entries
  /\ filenames \in Seq(Filenames)

\* read_all lists each registered filename exactly once, whatever order of
\* registrations and swap-removes led here.
ListsRegistered ==
  /\ {filenames[i] : i \in 1..Len(filenames)} = DOMAIN predicate_registry
  /\ \A i, j \in 1..Len(filenames) : filenames[i] = filenames[j] => i = j

\* No message changes the entry of a registered filename in place: a worker
\* and a client that both find a filename registered, with no removal between
\* them, read the same cid and predicate.
EntryNotOverwritten ==
  [][\A f \in DOMAIN predicate_registry :
       f \in DOMAIN predicate_registry' =>
         predicate_registry'[f] = predicate_registry[f]]_registry_vars
==============================================================================
