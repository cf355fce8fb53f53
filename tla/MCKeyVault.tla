----------------------------- MODULE MCKeyVault -----------------------------
(***************************************************************************)
(* One keystore, as in docs/setup.md: the bootstrap node with index 0, a   *)
(* peer with index 2 and `quickbeam encrypt`, whose index is always 2, run *)
(* with another STE password than the peer's (other) and with the same     *)
(* one (same).                                                             *)
(***************************************************************************)
EXTENDS KeyVault

CONSTANTS boot, peer, other, same, sr0, sr1, a, b

MCIndex == [p \in Procs |-> IF p = boot THEN 0 ELSE 2]
MCSubstrateName == [p \in Procs |-> IF p \in Serving THEN sr0 ELSE sr1]
MCMaster == [p \in Procs |-> a]
MCIrohPswd == [p \in Procs |-> IF p \in Serving THEN b ELSE a]
MCStePswd == [p \in Procs |-> IF p = other THEN b ELSE a]
MCSrPswd == [p \in Procs |-> IF p \in Serving THEN a ELSE b]

\* roots may replace the clients' account key, and the iroh key that peer and
\* clients share, while they run.
MCRotated == {<<"sr25519", sr1>>, <<"iroh", 2>>}
=============================================================================
