------------------------- MODULE MCDecryptionService -------------------------
(***************************************************************************)
(* Small instances of the decryption service.  Every field is one byte.    *)
(* One filename may be registered, removed and registered again with       *)
(* another ciphertext and predicate while a worker is serving it.          *)
(***************************************************************************)
EXTENDS DecryptionService

MCByte == {"f", "good", "odd", "nohex", "hand", "mute"}

Req(witness, location) ==
  [filename |-> <<"f">>, witness_hex |-> <<witness>>, location |-> <<location>>]

MCFilenames == {<<"f">>}
MCEntries == {[cid |-> "c1", predicate |-> "p1"],
              [cid |-> "c2", predicate |-> "p2"]}
MCHexWitnesses == {<<"good">>, <<"odd">>}
MCAddresses == {<<"hand">>, <<"mute">>}
MCHandlers == MCAddresses
MCSilent == {<<"mute">>}

\* Both satisfy p1; a gadget of p2 refuses "good", and for "odd" p2 has another
\* number of intents than there are witnesses.
MCVerdict ==
  [wp \in (MCHexWitnesses \X {"p1", "p2"}) |->
     IF wp[2] = "p1" THEN "true"
     ELSE IF wp[1] = <<"good">> THEN "error" ELSE "panic"]

\* Served or refused; stuck behind a silent peer, or a panic in verify_intents;
\* a panic in hex::decode.
MCRequests == {Req("good", "hand"), Req("odd", "mute"), Req("nohex", "hand")}

\* One request that can be served.
MCOneRequest == {Req("good", "hand")}
==============================================================================
