------------------------------- MODULE Mapping -------------------------------
(***************************************************************************)
(* ink::storage::Mapping, the key-value storage of both contracts, as a    *)
(* function whose DOMAIN is the set of keys present.                       *)
(***************************************************************************)

EmptyMapping == [k \in {} |-> k]

\* Mapping::insert: add or overwrite the value of a key.
Insert(mapping, key, value) ==
  [k \in DOMAIN mapping \cup {key} |-> IF k = key THEN value ELSE mapping[k]]

\* Mapping::take, the storage side: the key is no longer present.
Take(mapping, key) == [k \in DOMAIN mapping \ {key} |-> mapping[k]]

\* Every entry of f is an entry of g, with the same value.
Extends(f, g) ==
  DOMAIN f \subseteq DOMAIN g /\ \A k \in DOMAIN f : g[k] = f[k]
==============================================================================
