------------------------------- MODULE KeyVault -------------------------------
(***************************************************************************)
(* The processes that share one keystore directory: fangorn nodes and      *)
(* quickbeam clients, which both run Node::build (fangorn/src/node/node.rs) *)
(* and sign transactions with PolkadotSigner (backend/substrate.rs), and   *)
(* the commands of roots (roots/src/main.rs).  They reach the keys through *)
(* the three vaults of fangorn/src/crypto/keyvault.rs.                     *)
(*                                                                         *)
(* A process writes its iroh and STE keys again at every start and reads   *)
(* them back from the keystore every time it uses them, so what it uses is *)
(* whatever the directory holds under its key names at that moment.  What  *)
(* it told others (its endpoint identity, its account, its hint) is what   *)
(* the directory held before.                                              *)
(*                                                                         *)
(* rust_vault (external): a directory that maps names to bytes, opened     *)
(* with one password; store_bytes overwrites a name and protects it with   *)
(* the key's password, get fails for a name that is absent or protected    *)
(* with another password.  A failed call meets an unwrap: the task or the  *)
(* process that made it panics.                                            *)
(*                                                                         *)
(* A generated key is new.  It is the pair of its name and its generation, *)
(* how often the name was written; it also stands for the public key that  *)
(* belongs to it.                                                          *)
(***************************************************************************)
EXTENDS Naturals

CONSTANTS
  Procs,          \* the command lines that run Node::build
  Serving,        \* those of them that are `fangorn run`; others: quickbeam
  Index,          \* process -> its --index (2 or 3 for quickbeam)
  SubstrateName,  \* process -> its --substrate-name
  VaultPswd,      \* process -> its --vault-pswd, or None
  IrohKeyPswd,    \* process -> its --iroh-key-pswd
  SteKeyPswd,     \* process -> its --ste-key-pswd
  SubstratePswd,  \* process -> its --substrate-pswd
  Indices,        \* the indices in use
  SrNames,        \* the names of sr25519 keys in use
  Pswds,          \* passwords
  MasterPswd,     \* the one the directory was created with
  None,           \* an option that is not given
  Rotated,        \* names that roots keygen may write while a process runs
  MaxGen          \* bound: how often a name may be written

Names == ({"iroh", "ste"} \X Indices) \cup ({"sr25519"} \X SrNames)

ASSUME VaultAssumption ==
  /\ Serving \subseteq Procs
  /\ Indices \subseteq Nat /\ 0 \in Indices
  /\ Index \in [Procs -> Indices]
  /\ SubstrateName \in [Procs -> SrNames]
  /\ VaultPswd \in [Procs -> Pswds \cup {None}]
  /\ IrohKeyPswd \in [Procs -> Pswds]
  /\ SteKeyPswd \in [Procs -> Pswds]
  /\ SubstratePswd \in [Procs -> Pswds]
  /\ None \notin Pswds
  /\ MasterPswd \in Pswds
  /\ Rotated \subseteq Names
  /\ MaxGen \in Nat

VARIABLES
  vault,    \* name -> its entry in the keystore; generation 0: none
  pc,       \* process -> the step it is at
  mem       \* process -> what it keeps in memory, and what it made

vars == <<vault, pc, mem>>

Phases == {"off", "gen_iroh", "gen_ste", "secret", "public", "signer", "hint",
           "serving", "attest", "dead", "client"}

NoKey == << <<"none", 0>>, 0 >>
Keys == Names \X Nat

\* What a process has: the secret key of its endpoint, the public key its
\* discovery announces, the account of its signer, the hint it published; and
\* the keys its partial decryptions and its transactions were made with.
Memory == [endpoint : Keys \cup {NoKey}, mdns : Keys \cup {NoKey},
           account : Keys \cup {NoKey}, hint : Keys \cup {NoKey},
           partials : SUBSET Keys, txs : SUBSET Keys]
Empty == [endpoint |-> NoKey, mdns |-> NoKey, account |-> NoKey,
          hint |-> NoKey, partials |-> {}, txs |-> {}]

(***************************************************************************)
(* The vaults                                                              *)
(***************************************************************************)
MutIrohName(i) == <<"iroh", 0>>
MutSteName(i) == <<"ste", 0>>

\* key_name of IrohKeyVault and of SteKeyVault, made of the index; the name of
\* an sr25519 key is the user's.
IrohName(i) == <<"iroh", i>>
SteName(i) == <<"ste", i>>
SrName(s) == <<"sr25519", s>>

MutStore(name, pswd) ==
  /\ vault[name].gen < MaxGen
  /\ vault' = [vault EXCEPT ![name] = [gen |-> @.gen + 1, pswd |-> None]]

\* Vault::store_bytes of a key just generated.
Store(name, pswd) ==
  /\ vault[name].gen < MaxGen
  /\ vault' = [vault EXCEPT ![name] = [gen |-> @.gen + 1, pswd |-> pswd]]

\* Vault::get succeeds, and what it returns.
Readable(name, pswd) == vault[name].gen > 0 /\ vault[name].pswd = pswd
KeyIn(name) == <<name, vault[name].gen>>

\* Vault::open_or_create.  Without --vault-pswd the vaults hold no passwords
\* and ask get_secure_password for them, which always fails: the process
\* panics at its first generate_key, before it writes anything.
Opens(pswd) == pswd = MasterPswd

(***************************************************************************)
(* The start of a process: Node::build, SubstrateBackend::new and the hint *)
(***************************************************************************)
Goto(p, next, held) ==
  /\ pc' = [pc EXCEPT ![p] = next]
  /\ mem' = [mem EXCEPT ![p] = held]

\* The process ends: an unwrap of its main task panics.
Panics(p) == Goto(p, "off", Empty)

CreateVaults(p) ==
  /\ pc[p] = "off"
  /\ Opens(VaultPswd[p])
  /\ Goto(p, "gen_iroh", Empty)
  /\ UNCHANGED vault

GenerateIrohKey(p) ==
  /\ pc[p] = "gen_iroh"
  /\ Store(IrohName(Index[p]), IrohKeyPswd[p])
  /\ Goto(p, "gen_ste", mem[p])

GenerateSteKey(p) ==
  /\ pc[p] = "gen_ste"
  /\ Store(SteName(Index[p]), SteKeyPswd[p])
  /\ Goto(p, "secret", mem[p])

\* The endpoint gets the secret key that is in the keystore now.
GetSecretKey(p) ==
  LET name == IrohName(Index[p]) IN
  /\ pc[p] = "secret"
  /\ \/ /\ Readable(name, IrohKeyPswd[p])
        /\ Goto(p, "public", [mem[p] EXCEPT !.endpoint = KeyIn(name)])
     \/ /\ ~ Readable(name, IrohKeyPswd[p])
        /\ Panics(p)
  /\ UNCHANGED vault

\* A second read, for the public key that mDNS announces.
GetPublicKey(p) ==
  LET name == IrohName(Index[p]) IN
  /\ pc[p] = "public"
  /\ \/ /\ Readable(name, IrohKeyPswd[p])
        /\ Goto(p, "signer", [mem[p] EXCEPT !.mdns = KeyIn(name)])
     \/ /\ ~ Readable(name, IrohKeyPswd[p])
        /\ Panics(p)
  /\ UNCHANGED vault

\* PolkadotSigner::new keeps the account of the key that is there now.
NewSigner(p) ==
  LET name == SrName(SubstrateName[p]) IN
  /\ pc[p] = "signer"
  /\ \/ /\ Readable(name, SubstratePswd[p])
        /\ Goto(p, IF p \in Serving THEN "hint" ELSE "client",
                   [mem[p] EXCEPT !.account = KeyIn(name)])
     \/ /\ ~ Readable(name, SubstratePswd[p])
        /\ Panics(p)
  /\ UNCHANGED vault

\* publish_node_hint: Node::get_pk reads the STE key.
PublishHint(p) ==
  LET name == SteName(Index[p]) IN
  /\ pc[p] = "hint"
  /\ \/ /\ Readable(name, SteKeyPswd[p])
        /\ Goto(p, "serving", [mem[p] EXCEPT !.hint = KeyIn(name)])
     \/ /\ ~ Readable(name, SteKeyPswd[p])
        /\ Panics(p)
  /\ UNCHANGED vault

(***************************************************************************)
(* A running process                                                       *)
(***************************************************************************)
MutPartialPswd(p) ==
  LET name == SteName(Index[p]) IN
  /\ pc[p] = "serving"
  /\ IF Readable(name, IrohKeyPswd[p])
       THEN Goto(p, "serving", mem[p])
       ELSE Goto(p, "dead", mem[p])
  /\ UNCHANGED vault

\* The worker serves a request.  Its client takes the partial decryption, and
\* the worker goes on to the attestation; or the client does not.  If the key
\* cannot be read the worker panics, and the node answers no request any more.
PartialDecryption(p) ==
  LET name == SteName(Index[p]) IN
  /\ pc[p] = "serving"
  /\ \/ /\ Readable(name, SteKeyPswd[p])
        /\ \E next \in {"serving", "attest"} :
             Goto(p, next, [mem[p] EXCEPT !.partials = @ \cup {KeyIn(name)}])
     \/ /\ ~ Readable(name, SteKeyPswd[p])
        /\ Goto(p, "dead", mem[p])
  /\ UNCHANGED vault

MutSignAttestation(p) ==
  LET name == IrohName(Index[p]) IN
  /\ pc[p] = "attest"
  /\ Readable(name, IrohKeyPswd[p])
  /\ Goto(p, "serving", [mem[p] EXCEPT !.txs = @ \cup {KeyIn(name)}])
  /\ UNCHANGED vault

\* PolkadotSigner::sign, for the worker's attestation.
SignAttestation(p) ==
  LET name == SrName(SubstrateName[p]) IN
  /\ pc[p] = "attest"
  /\ \/ /\ Readable(name, SubstratePswd[p])
        /\ Goto(p, "serving", [mem[p] EXCEPT !.txs = @ \cup {KeyIn(name)}])
     \/ /\ ~ Readable(name, SubstratePswd[p])
        /\ Goto(p, "dead", mem[p])
  /\ UNCHANGED vault

\* The same for the transaction of a client, in its main task.
SignClient(p) ==
  LET name == SrName(SubstrateName[p]) IN
  /\ pc[p] = "client"
  /\ \/ /\ Readable(name, SubstratePswd[p])
        /\ Goto(p, "client", [mem[p] EXCEPT !.txs = @ \cup {KeyIn(name)}])
     \/ /\ ~ Readable(name, SubstratePswd[p])
        /\ Panics(p)
  /\ UNCHANGED vault

\* The process is done, is stopped or crashes.
Exit(p) ==
  /\ pc[p] # "off"
  /\ Goto(p, "off", Empty)
  /\ UNCHANGED vault

(***************************************************************************)
(* roots                                                                   *)
(***************************************************************************)
\* The entry a command is about: --key-name for polkadot keys, and for fangorn
\* keys the index, 0 if none is given.
Unwrap(i) == IF i = None THEN 0 ELSE i
RootsNames == {SrName(s) : s \in SrNames}
              \cup {IrohName(Unwrap(i)) : i \in Indices \cup {None}}

Holds(p, name) ==
  pc[p] # "off" /\ name \in {IrohName(Index[p]), SrName(SubstrateName[p])}

\* An sr25519 key is made by generate_key_print_mnemonic or, without
\* --print-mnemonic, by generate_key, which asks get_secure_password: that
\* always fails, and the command panics before it writes.
Generates(name, print_mnemonic) == name[1] = "sr25519" => print_mnemonic

\* Commands::Keygen.  Operators leave the names of running processes alone
\* except for those in Rotated.
Keygen(name, pswd, print_mnemonic) ==
  /\ name \in Rotated \/ \A p \in Procs : ~ Holds(p, name)
  /\ Generates(name, print_mnemonic)
  /\ Store(name, pswd)
  /\ UNCHANGED <<pc, mem>>

(***************************************************************************)
(* The specification                                                       *)
(***************************************************************************)
Init ==
  /\ vault = [n \in Names |-> [gen |-> 0, pswd |-> MasterPswd]]
  /\ pc = [p \in Procs |-> "off"]
  /\ mem = [p \in Procs |-> Empty]

Next ==
  \/ \E p \in Procs :
       \/ CreateVaults(p) \/ GenerateIrohKey(p) \/ GenerateSteKey(p)
       \/ GetSecretKey(p) \/ GetPublicKey(p) \/ NewSigner(p)
       \/ PublishHint(p) \/ PartialDecryption(p) \/ SignAttestation(p)
       \/ SignClient(p) \/ Exit(p)
  \/ \E name \in RootsNames, pswd \in Pswds, print_mnemonic \in BOOLEAN :
       Keygen(name, pswd, print_mnemonic)

Spec == Init /\ [][Next]_vars

(***************************************************************************)
(* Properties                                                              *)
(***************************************************************************)
\* The type invariant: the keystore, the processes and roots.
TypeOK ==
  /\ vault \in [Names -> [gen : Nat, pswd : Pswds]]
  /\ pc \in [Procs -> Phases]
  /\ mem \in [Procs -> Memory]

\* No other command line on this keystore has the index of p.
Alone(p) == \A q \in Procs \ {p} : Index[q] # Index[p]

\* roots keygen never writes this name while a process that uses it runs.
Kept(name) == name \notin Rotated

\* The keys that the keystore held under a name from a key of that name on.
HeldSince(name, key) == {<<name, g>> : g \in key[2]..vault[name].gen}

\* The partial decryptions of a node (service.rs, process_decryption_request)
\* are made with the secret key of the hint it published (publish_node_hint), or
\* with a key written over it since: the key is read from the shared keystore
\* each time.  Nobody writes over it if no other command line has the index,
\* whatever the others on the keystore do, starts and stops included.
PartialsMatchHint ==
  \A p \in Procs :
    LET ste == SteName(Index[p])
        hint == mem[p].hint
    IN /\ mem[p].partials \subseteq HeldSince(ste, hint)
       /\ Alone(p) /\ hint # NoKey => KeyIn(ste) = hint

\* The worker of a node dies of a key that it cannot read any more (the unwraps
\* of partial_decryption and of sign) only after that key, or the account's, was
\* written over: never if no other command line has the index and the account's
\* key is kept.
WorkerSurvives ==
  \A p \in Procs :
    LET sr == SrName(SubstrateName[p]) IN
    pc[p] = "dead" =>
      /\ \/ KeyIn(SteName(Index[p])) # mem[p].hint
         \/ KeyIn(sr) # mem[p].account
      /\ ~ (Alone(p) /\ Kept(sr))

\* Node::build reads the iroh key twice (node.rs, Endpoint::builder), for the
\* endpoint and for the key that mDNS announces.  The second is the first or one
\* written over it since; they are one key if no other command line has the index
\* and nobody writes the name with roots meanwhile.
AnnouncesItsEndpoint ==
  \A p \in Procs :
    LET iroh == IrohName(Index[p]) IN
    mem[p].mdns # NoKey =>
      /\ mem[p].mdns \in HeldSince(iroh, mem[p].endpoint)
      /\ Alone(p) /\ Kept(iroh) => mem[p].mdns = mem[p].endpoint

\* PolkadotSigner signs with the key of the account_id it was made with, which
\* the chain checks the signature against, or with one written over it since;
\* with no other if the name of the key is not written with roots while the
\* process runs.
SignsForItsAccount ==
  \A p \in Procs :
    LET sr == SrName(SubstrateName[p])
        account == mem[p].account
    IN /\ mem[p].txs \subseteq HeldSince(sr, account)
       /\ Kept(sr) /\ account # NoKey => KeyIn(sr) = account
===============================================================================
