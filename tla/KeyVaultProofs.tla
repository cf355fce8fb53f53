---------------------------- MODULE KeyVaultProofs ----------------------------
(***************************************************************************)
(* Proofs about KeyVault, for any processes, indices, names and passwords. *)
(*                                                                         *)
(* A process uses what the keystore holds now, and told others what it     *)
(* held before.  The inductive invariant relates the two for each of the   *)
(* three keys of a process, phase by phase: what the process told is a key *)
(* that the keystore has held, what it used was held since, and if the     *)
(* keystore still holds what was told, it does so under the same password. *)
(* Any writer keeps that, as a name's generation only grows.  The key told *)
(* is still there if no other writer has a name in common with the         *)
(* process, since the process itself writes its names only before.         *)
(***************************************************************************)
EXTENDS KeyVault, TLAPS

USE VaultAssumption

Ste(p) == SteName(Index[p])
Iroh(p) == IrohName(Index[p])
Sr(p) == SrName(SubstrateName[p])

Published == {"serving", "attest", "dead"}
Built == {"signer", "hint", "serving", "attest", "dead", "client"}
HasSigner == {"hint", "serving", "attest", "dead", "client"}

\* told is a key that the keystore v has held under the name, protected with
\* pswd if it still does; what was used was held since.
ToldIn(v, told, name, pswd) ==
  /\ \E g \in 1..v[name].gen : told = <<name, g>>
  /\ told = <<name, v[name].gen>> => v[name].pswd = pswd
SinceIn(v, told, name) == {<<name, g>> : g \in told[2]..v[name].gen}
Faithful(v, told, used, name, pswd) ==
  ToldIn(v, told, name, pswd) /\ used \subseteq SinceIn(v, told, name)

\* A node that has published its hint: what it decrypts with.
SteOk(p, v, c, m) ==
  IF c \in Published
    THEN /\ Faithful(v, m.hint, m.partials, Ste(p), SteKeyPswd[p])
         /\ Alone(p) => m.hint = <<Ste(p), v[Ste(p)].gen>>
    ELSE m.hint = NoKey /\ m.partials = {}
SteInv == \A p \in Procs : SteOk(p, vault, pc[p], mem[p])

\* A process with an endpoint: what it announces.
IrohOk(p, v, c, m) ==
  IF c \in {"public"} \cup Built
    THEN /\ ToldIn(v, m.endpoint, Iroh(p), IrohKeyPswd[p])
         /\ IF c \in Built THEN m.mdns \in SinceIn(v, m.endpoint, Iroh(p))
                           ELSE m.mdns = NoKey
         /\ Alone(p) /\ Kept(Iroh(p)) => m.endpoint = <<Iroh(p), v[Iroh(p)].gen>>
    ELSE m.mdns = NoKey
IrohInv == \A p \in Procs : IrohOk(p, vault, pc[p], mem[p])

\* A process with a signer: what it signs with.
SrOk(p, v, c, m) ==
  IF c \in HasSigner
    THEN /\ Faithful(v, m.account, m.txs, Sr(p), SubstratePswd[p])
         /\ Kept(Sr(p)) => m.account = <<Sr(p), v[Sr(p)].gen>>
    ELSE m.account = NoKey /\ m.txs = {}
SrInv == \A p \in Procs : SrOk(p, vault, pc[p], mem[p])

\* A worker died of a key that was written over.
DeadInv ==
  \A p \in Procs : pc[p] = "dead" =>
    \/ mem[p].hint # <<Ste(p), vault[Ste(p)].gen>>
    \/ mem[p].account # <<Sr(p), vault[Sr(p)].gen>>

IInv == TypeOK /\ SteInv /\ IrohInv /\ SrInv /\ DeadInv

-------------------------------------------------------------------------------
(* What a step does to the keystore and to the other processes.             *)

\* The three names of a process are names of the keystore, of different kinds.
LEMMA NamesTyped ==
  /\ \A i \in Indices : IrohName(i) \in Names /\ SteName(i) \in Names
  /\ \A s \in SrNames : SrName(s) \in Names
  /\ RootsNames \subseteq Names
  /\ RootsNames \cap {SteName(i) : i \in Indices} = {}
  /\ NoKey \notin Keys
BY DEF IrohName, SteName, SrName, Names, RootsNames, Unwrap, NoKey, Keys

\* Store writes one entry and leaves the others alone.
LEMMA StoreEffect ==
  ASSUME TypeOK, NEW name \in Names, NEW pswd \in Pswds, Store(name, pswd)
  PROVE  /\ vault' \in [Names -> [gen : Nat, pswd : Pswds]]
         /\ \A n \in Names \ {name} : vault'[n] = vault[n]
BY DEF TypeOK, Store

\* A process moves alone.
LEMMA GotoEffect ==
  ASSUME TypeOK, NEW q \in Procs, NEW next \in Phases, NEW held \in Memory,
         Goto(q, next, held)
  PROVE  /\ pc' \in [Procs -> Phases]
         /\ mem' \in [Procs -> Memory]
         /\ pc'[q] = next /\ mem'[q] = held
         /\ \A p \in Procs \ {q} : pc'[p] = pc[p] /\ mem'[p] = mem[p]
BY DEF TypeOK, Goto

\* What a process puts into its memory is of its type.
LEMMA MemoryTyped ==
  ASSUME NEW m \in Memory, NEW k \in Keys
  PROVE  /\ [m EXCEPT !.endpoint = k] \in Memory
         /\ [m EXCEPT !.mdns = k] \in Memory
         /\ [m EXCEPT !.account = k] \in Memory
         /\ [m EXCEPT !.hint = k] \in Memory
         /\ [m EXCEPT !.partials = @ \cup {k}] \in Memory
         /\ [m EXCEPT !.txs = @ \cup {k}] \in Memory
         /\ Empty \in Memory
BY DEF Memory, Empty

\* Every key that can be read is one of Keys.
LEMMA KeyTyped == ASSUME TypeOK, NEW name \in Names PROVE KeyIn(name) \in Keys
BY DEF TypeOK, KeyIn, Keys

\* The types of what a process step mentions.
LEMMA ProcTyped ==
  ASSUME TypeOK, NEW q \in Procs
  PROVE  /\ Ste(q) \in Names /\ Iroh(q) \in Names /\ Sr(q) \in Names
         /\ KeyIn(Ste(q)) \in Keys /\ KeyIn(Iroh(q)) \in Keys
         /\ KeyIn(Sr(q)) \in Keys
         /\ SteKeyPswd[q] \in Pswds /\ IrohKeyPswd[q] \in Pswds
         /\ mem[q] \in Memory /\ Empty \in Memory
<1>1. Ste(q) \in Names /\ Iroh(q) \in Names /\ Sr(q) \in Names
  BY NamesTyped DEF Ste, Iroh, Sr
<1>2. Empty \in Memory
  BY DEF Empty, Memory
<1> QED BY <1>1, <1>2, KeyTyped DEF TypeOK

\* The steps of a process, told apart by what they do to the keystore: two
\* write one of its own names, the others leave the keystore alone.
Starts(q) == GenerateIrohKey(q) \/ GenerateSteKey(q)
Reads(q) == \/ CreateVaults(q) \/ GetSecretKey(q) \/ GetPublicKey(q)
            \/ NewSigner(q) \/ PublishHint(q) \/ PartialDecryption(q)
            \/ SignAttestation(q) \/ SignClient(q) \/ Exit(q)

\* A step that reads the keystore moves its process to a typed state.
LEMMA ReadsMove ==
  ASSUME TypeOK, NEW q \in Procs, Reads(q)
  PROVE  /\ UNCHANGED vault
         /\ \E next \in Phases, held \in Memory : Goto(q, next, held)
<1> USE ProcTyped DEF Panics
<1>1. CASE CreateVaults(q)
  BY <1>1 DEF CreateVaults, Phases
<1>2. CASE GetSecretKey(q)
  <2>1. [mem[q] EXCEPT !.endpoint = KeyIn(Iroh(q))] \in Memory
    BY MemoryTyped
  <2> QED BY <1>2, <2>1 DEF GetSecretKey, Phases, Iroh
<1>3. CASE GetPublicKey(q)
  <2>1. [mem[q] EXCEPT !.mdns = KeyIn(Iroh(q))] \in Memory
    BY MemoryTyped
  <2> QED BY <1>3, <2>1 DEF GetPublicKey, Phases, Iroh
<1>4. CASE NewSigner(q)
  <2>1. [mem[q] EXCEPT !.account = KeyIn(Sr(q))] \in Memory
    BY MemoryTyped
  <2> QED BY <1>4, <2>1 DEF NewSigner, Phases, Sr
<1>5. CASE PublishHint(q)
  <2>1. [mem[q] EXCEPT !.hint = KeyIn(Ste(q))] \in Memory
    BY MemoryTyped
  <2> QED BY <1>5, <2>1 DEF PublishHint, Phases, Ste
<1>6. CASE PartialDecryption(q)
  <2>1. [mem[q] EXCEPT !.partials = @ \cup {KeyIn(Ste(q))}] \in Memory
    BY MemoryTyped
  <2> QED BY <1>6, <2>1 DEF PartialDecryption, Phases, Ste
<1>7. CASE SignAttestation(q)
  <2>1. [mem[q] EXCEPT !.txs = @ \cup {KeyIn(Sr(q))}] \in Memory
    BY MemoryTyped
  <2> QED BY <1>7, <2>1 DEF SignAttestation, Phases, Sr
<1>8. CASE SignClient(q)
  <2>1. [mem[q] EXCEPT !.txs = @ \cup {KeyIn(Sr(q))}] \in Memory
    BY MemoryTyped
  <2> QED BY <1>8, <2>1 DEF SignClient, Phases, Sr
<1>9. CASE Exit(q)
  BY <1>9 DEF Exit, Phases
<1> QED BY <1>1, <1>2, <1>3, <1>4, <1>5, <1>6, <1>7, <1>8, <1>9 DEF Reads

\* The two steps that write move their process too, and write one of its own
\* names with its own password.
LEMMA StartsMove ==
  ASSUME TypeOK, NEW q \in Procs, Starts(q)
  PROVE  /\ \E next \in Phases : Goto(q, next, mem[q])
         /\ \/ GenerateIrohKey(q) /\ Store(Iroh(q), IrohKeyPswd[q])
            \/ GenerateSteKey(q) /\ Store(Ste(q), SteKeyPswd[q])
BY DEF Starts, GenerateIrohKey, GenerateSteKey, Phases, Iroh, Ste

\* Next is one of these steps.
LEMMA StepKinds ==
  ASSUME Next
  PROVE  \/ \E q \in Procs : Starts(q) \/ Reads(q)
         \/ \E name \in RootsNames, pswd \in Pswds, b \in BOOLEAN :
              Keygen(name, pswd, b)
BY DEF Next, Starts, Reads

\* Types are preserved.
LEMMA TypeStep == ASSUME TypeOK, [Next]_vars PROVE TypeOK'
<1>1. CASE UNCHANGED vars
  BY <1>1 DEF TypeOK, vars
<1>2. ASSUME NEW q \in Procs, Starts(q) PROVE TypeOK'
  <2>1. PICK next \in Phases : Goto(q, next, mem[q])
    BY <1>2, StartsMove
  <2>2. pc' \in [Procs -> Phases] /\ mem' \in [Procs -> Memory]
    BY <2>1, GotoEffect, ProcTyped
  <2>3. vault' \in [Names -> [gen : Nat, pswd : Pswds]]
    BY <1>2, StartsMove, StoreEffect, ProcTyped
  <2> QED BY <1>2, <2>2, <2>3, StartsMove DEF TypeOK
<1>3. ASSUME NEW q \in Procs, Reads(q) PROVE TypeOK'
  <2>1. PICK next \in Phases, held \in Memory : Goto(q, next, held)
    BY <1>3, ReadsMove
  <2>2. pc' \in [Procs -> Phases] /\ mem' \in [Procs -> Memory]
    BY <2>1, GotoEffect
  <2> QED BY <1>3, <2>2, ReadsMove DEF TypeOK
<1>4. ASSUME NEW name \in RootsNames, NEW pswd \in Pswds, NEW b \in BOOLEAN,
             Keygen(name, pswd, b)
      PROVE  TypeOK'
  <2>1. name \in Names
    BY NamesTyped
  <2>2. vault' \in [Names -> [gen : Nat, pswd : Pswds]]
    BY <1>4, <2>1, StoreEffect DEF Keygen, TypeOK
  <2> QED BY <1>4, <2>2 DEF Keygen, TypeOK
<1> QED BY <1>1, <1>2, <1>3, <1>4, StepKinds

-------------------------------------------------------------------------------
(* The three keys.                                                          *)

\* Only a process with the index writes the STE key of an index.
LEMMA SteWritten ==
  ASSUME TypeOK, [Next]_vars, NEW p \in Procs, Alone(p)
  PROVE  vault'[Ste(p)] = vault[Ste(p)] \/ GenerateSteKey(p)
<1> Ste(p) \in Names
  BY ProcTyped
<1>1. CASE UNCHANGED vars
  BY <1>1 DEF vars
<1>2. ASSUME NEW q \in Procs, GenerateIrohKey(q)
      PROVE  vault'[Ste(p)] = vault[Ste(p)]
  <2>1. Store(Iroh(q), IrohKeyPswd[q])
    BY <1>2 DEF GenerateIrohKey, Iroh
  <2>2. Ste(p) # Iroh(q)
    BY DEF Ste, Iroh, SteName, IrohName
  <2> QED BY <2>1, <2>2, StoreEffect, ProcTyped
<1>3. ASSUME NEW q \in Procs, q # p, GenerateSteKey(q)
      PROVE  vault'[Ste(p)] = vault[Ste(p)]
  <2>1. Store(Ste(q), SteKeyPswd[q])
    BY <1>3 DEF GenerateSteKey, Ste
  <2>2. Ste(p) # Ste(q)
    BY <1>3 DEF Ste, SteName, Alone
  <2> QED BY <2>1, <2>2, StoreEffect, ProcTyped
<1>4. ASSUME NEW q \in Procs, Reads(q) PROVE vault'[Ste(p)] = vault[Ste(p)]
  BY <1>4, ReadsMove
<1>5. ASSUME NEW name \in RootsNames, NEW pswd \in Pswds, NEW b \in BOOLEAN,
             Keygen(name, pswd, b)
      PROVE  vault'[Ste(p)] = vault[Ste(p)]
  <2>1. name \in Names /\ name # Ste(p)
    BY NamesTyped DEF Ste
  <2> QED BY <1>5, <2>1, StoreEffect DEF Keygen
<1> QED BY <1>1, <1>2, <1>3, <1>4, <1>5, StepKinds DEF Starts

\* Only a process with the index writes the iroh key of an index, or roots.
LEMMA IrohWritten ==
  ASSUME TypeOK, [Next]_vars, NEW p \in Procs, Alone(p), Kept(Iroh(p)),
         pc[p] # "off"
  PROVE  vault'[Iroh(p)] = vault[Iroh(p)] \/ GenerateIrohKey(p)
<1> Iroh(p) \in Names
  BY ProcTyped
<1>1. CASE UNCHANGED vars
  BY <1>1 DEF vars
<1>2. ASSUME NEW q \in Procs, GenerateSteKey(q)
      PROVE  vault'[Iroh(p)] = vault[Iroh(p)]
  <2>1. Store(Ste(q), SteKeyPswd[q])
    BY <1>2 DEF GenerateSteKey, Ste
  <2>2. Iroh(p) # Ste(q)
    BY DEF Ste, Iroh, SteName, IrohName
  <2> QED BY <2>1, <2>2, StoreEffect, ProcTyped
<1>3. ASSUME NEW q \in Procs, q # p, GenerateIrohKey(q)
      PROVE  vault'[Iroh(p)] = vault[Iroh(p)]
  <2>1. Store(Iroh(q), IrohKeyPswd[q])
    BY <1>3 DEF GenerateIrohKey, Iroh
  <2>2. Iroh(p) # Iroh(q)
    BY <1>3 DEF Iroh, IrohName, Alone
  <2> QED BY <2>1, <2>2, StoreEffect, ProcTyped
<1>4. ASSUME NEW q \in Procs, Reads(q) PROVE vault'[Iroh(p)] = vault[Iroh(p)]
  BY <1>4, ReadsMove
<1>5. ASSUME NEW name \in RootsNames, NEW pswd \in Pswds, NEW b \in BOOLEAN,
             Keygen(name, pswd, b)
      PROVE  vault'[Iroh(p)] = vault[Iroh(p)]
  <2>1. name \in Names /\ name # Iroh(p)
    BY <1>5, NamesTyped DEF Keygen, Holds, Kept, Iroh
  <2> QED BY <1>5, <2>1, StoreEffect DEF Keygen
<1> QED BY <1>1, <1>2, <1>3, <1>4, <1>5, StepKinds DEF Starts

\* No process writes an sr25519 key; roots does.
LEMMA SrWritten ==
  ASSUME TypeOK, [Next]_vars, NEW p \in Procs, Kept(Sr(p)), pc[p] # "off"
  PROVE  vault'[Sr(p)] = vault[Sr(p)]
<1> Sr(p) \in Names
  BY ProcTyped
<1>1. CASE UNCHANGED vars
  BY <1>1 DEF vars
<1>2. ASSUME NEW q \in Procs, Starts(q) PROVE vault'[Sr(p)] = vault[Sr(p)]
  <2>1. Sr(p) # Ste(q) /\ Sr(p) # Iroh(q)
    BY DEF Ste, Iroh, Sr, SteName, IrohName, SrName
  <2> QED BY <1>2, <2>1, StartsMove, StoreEffect, ProcTyped
<1>3. ASSUME NEW q \in Procs, Reads(q) PROVE vault'[Sr(p)] = vault[Sr(p)]
  BY <1>3, ReadsMove
<1>4. ASSUME NEW name \in RootsNames, NEW pswd \in Pswds, NEW b \in BOOLEAN,
             Keygen(name, pswd, b)
      PROVE  vault'[Sr(p)] = vault[Sr(p)]
  <2>1. name \in Names /\ name # Sr(p)
    BY <1>4, NamesTyped DEF Keygen, Holds, Kept, Sr
  <2> QED BY <1>4, <2>1, StoreEffect DEF Keygen
<1> QED BY <1>1, <1>2, <1>3, <1>4, StepKinds

\* A step of another process, or of roots, does not move p.
LEMMA OthersStay ==
  ASSUME TypeOK, [Next]_vars, NEW p \in Procs, ~ Starts(p), ~ Reads(p)
  PROVE  pc'[p] = pc[p] /\ mem'[p] = mem[p]
<1>1. CASE UNCHANGED vars
  BY <1>1 DEF vars
<1>2. ASSUME NEW q \in Procs, q # p, Starts(q) \/ Reads(q)
      PROVE  pc'[p] = pc[p] /\ mem'[p] = mem[p]
  <2>1. PICK next \in Phases, held \in Memory : Goto(q, next, held)
    BY <1>2, StartsMove, ReadsMove, ProcTyped
  <2> QED BY <1>2, <2>1, GotoEffect
<1>3. ASSUME NEW name \in RootsNames, NEW pswd \in Pswds, NEW b \in BOOLEAN,
             Keygen(name, pswd, b)
      PROVE  pc'[p] = pc[p] /\ mem'[p] = mem[p]
  BY <1>3 DEF Keygen
<1> QED BY <1>1, <1>2, <1>3, StepKinds

-------------------------------------------------------------------------------
(* Keys that were held.                                                     *)

\* No step takes a name's generation back, or changes an entry without a new
\* generation.
LEMMA VaultGrows ==
  ASSUME TypeOK, [Next]_vars, NEW name \in Names
  PROVE  /\ vault[name].gen \in Nat
         /\ \/ vault'[name] = vault[name]
            \/ vault'[name].gen = vault[name].gen + 1
<1> DEFINE Grown == \/ vault'[name] = vault[name]
                    \/ vault'[name].gen = vault[name].gen + 1
<1>0. vault[name].gen \in Nat /\ vault \in [Names -> [gen : Nat, pswd : Pswds]]
  BY DEF TypeOK
<1>1. ASSUME UNCHANGED vars PROVE Grown
  BY <1>1 DEF vars
<1>2. ASSUME NEW n \in Names, NEW pswd, Store(n, pswd) PROVE Grown
  BY <1>0, <1>2 DEF Store
<1>3. ASSUME NEW q \in Procs, Starts(q) PROVE Grown
  BY <1>2, <1>3, StartsMove, ProcTyped
<1>4. ASSUME NEW q \in Procs, Reads(q) PROVE Grown
  BY <1>4, ReadsMove
<1>5. ASSUME NEW n \in RootsNames, NEW pswd \in Pswds, NEW b \in BOOLEAN,
             Keygen(n, pswd, b)
      PROVE  Grown
  BY <1>2, <1>5, NamesTyped DEF Keygen
<1> QED BY <1>0, <1>1, <1>3, <1>4, <1>5, StepKinds

\* The keystore grows from v to w at a name.
Grows(v, w, name) ==
  /\ v[name].gen \in Nat
  /\ w[name] = v[name] \/ w[name].gen = v[name].gen + 1

\* What was told stays told, a key once written over does not come back, and
\* what was held since stays so.
LEMMA ToldGrows ==
  ASSUME NEW v, NEW w, NEW name, Grows(v, w, name), NEW told, NEW pswd,
         ToldIn(v, told, name, pswd)
  PROVE  /\ ToldIn(w, told, name, pswd)
         /\ told # <<name, v[name].gen>> => told # <<name, w[name].gen>>
         /\ SinceIn(v, told, name) \subseteq SinceIn(w, told, name)
<1>1. PICK g \in 1..v[name].gen : told = <<name, g>>
  BY DEF ToldIn
<1>2. v[name].gen \in Nat /\ g \in Nat /\ g <= v[name].gen /\ 1 <= g /\ told[2] = g
  BY <1>1 DEF Grows
<1>3. CASE w[name] = v[name]
  BY <1>3 DEF ToldIn, SinceIn
<1>4. CASE w[name].gen = v[name].gen + 1
  <2>1. g \in 1..w[name].gen /\ g # w[name].gen
    BY <1>2, <1>4
  <2>2. told # <<name, w[name].gen>>
    BY <1>1, <2>1
  <2>3. ToldIn(w, told, name, pswd)
    BY <1>1, <2>1, <2>2 DEF ToldIn
  <2>4. told[2]..v[name].gen \subseteq told[2]..w[name].gen
    BY <1>2, <1>4
  <2> QED BY <2>2, <2>3, <2>4 DEF SinceIn
<1> QED BY <1>3, <1>4 DEF Grows

\* A key told that was written over stays so.
LEMMA WrittenOver ==
  ASSUME TypeOK, [Next]_vars, NEW name \in Names, NEW told, NEW pswd,
         ToldIn(vault, told, name, pswd), told # <<name, vault[name].gen>>
  PROVE  told # <<name, vault'[name].gen>>
<1>1. Grows(vault, vault', name)
  BY VaultGrows DEF Grows
<1>2. PICK g \in 1..vault[name].gen : told = <<name, g>>
  BY DEF ToldIn
<1>3. vault[name].gen \in Nat /\ g \in Nat /\ g < vault[name].gen
  BY <1>1, <1>2 DEF Grows
<1>4. g # vault'[name].gen
  BY <1>1, <1>3 DEF Grows
<1> QED BY <1>2, <1>4

\* What is read now is told, if it can be read.
LEMMA ToldNow ==
  ASSUME TypeOK, NEW name \in Names, NEW pswd, Readable(name, pswd)
  PROVE  ToldIn(vault, KeyIn(name), name, pswd)
<1>1. vault[name].gen \in 1..vault[name].gen
  BY DEF TypeOK, Readable
<1> QED BY <1>1 DEF ToldIn, KeyIn, Readable

\* What is read now was held since anything that was told.
LEMMA SinceNow ==
  ASSUME TypeOK, NEW name \in Names, NEW told, NEW pswd,
         ToldIn(vault, told, name, pswd)
  PROVE  KeyIn(name) \in SinceIn(vault, told, name)
<1>1. PICK g \in 1..vault[name].gen : told = <<name, g>>
  BY DEF ToldIn
<1>2. vault[name].gen \in Nat
  BY DEF TypeOK
<1>3. vault[name].gen \in told[2]..vault[name].gen
  BY <1>1, <1>2
<1> QED BY <1>3 DEF SinceIn, KeyIn

\* What was told and is still held can be read.
LEMMA ToldReadable ==
  ASSUME TypeOK, NEW name \in Names, NEW told, NEW pswd,
         ToldIn(vault, told, name, pswd), told = KeyIn(name)
  PROVE  Readable(name, pswd)
<1>1. PICK g \in 1..vault[name].gen : told = <<name, g>>
  BY DEF ToldIn
<1>2. vault[name].gen > 0
  BY <1>1 DEF TypeOK
<1> QED BY <1>2 DEF ToldIn, KeyIn, Readable

-------------------------------------------------------------------------------
(* The invariant is inductive.                                              *)

\* Other writers do not disturb what p told of its STE key.
LEMMA SteVaultKept ==
  ASSUME TypeOK, [Next]_vars, NEW p \in Procs, SteOk(p, vault, pc[p], mem[p])
  PROVE  SteOk(p, vault', pc[p], mem[p])
<1>1. Ste(p) \in Names
  BY ProcTyped
<1>2. Grows(vault, vault', Ste(p))
  BY <1>1, VaultGrows DEF Grows
<1>3. SUFFICES ASSUME pc[p] \in Published
               PROVE  SteOk(p, vault', pc[p], mem[p])
  BY DEF SteOk
<1>4. /\ Faithful(vault, mem[p].hint, mem[p].partials, Ste(p), SteKeyPswd[p])
      /\ Alone(p) => mem[p].hint = <<Ste(p), vault[Ste(p)].gen>>
  BY <1>3 DEF SteOk
<1>5. Faithful(vault', mem[p].hint, mem[p].partials, Ste(p), SteKeyPswd[p])
  BY <1>2, <1>4, ToldGrows DEF Faithful
<1>6. ~ GenerateSteKey(p)
  BY <1>3 DEF GenerateSteKey, Published
<1>7. Alone(p) => vault'[Ste(p)] = vault[Ste(p)]
  BY <1>6, SteWritten
<1> QED BY <1>3, <1>4, <1>5, <1>7 DEF SteOk

\* What a node told of its STE key: its own steps write the key before the hint
\* only.
LEMMA SteStep == ASSUME IInv, [Next]_vars PROVE SteInv'
<1> TypeOK /\ SteInv
  BY DEF IInv
<1> SUFFICES ASSUME NEW p \in Procs PROVE SteOk(p, vault', pc'[p], mem'[p])
  BY DEF SteInv, SteOk, Ste, SteName, Alone
<1>p. SteOk(p, vault', pc[p], mem[p])
  BY SteVaultKept DEF SteInv
<1>o. SteOk(p, vault, pc[p], mem[p])
  BY DEF SteInv
<1>t. mem[p] \in Memory /\ Empty \in Memory /\ pc \in [Procs -> Phases]
      /\ mem \in [Procs -> Memory]
  BY ProcTyped DEF TypeOK
<1>s. ASSUME mem'[p].hint = mem[p].hint, mem'[p].partials = mem[p].partials,
             pc'[p] \in Published <=> pc[p] \in Published
      PROVE  SteOk(p, vault', pc'[p], mem'[p])
  BY <1>s, <1>p DEF SteOk
<1>e. ASSUME mem'[p] = Empty, pc'[p] \notin Published
      PROVE  SteOk(p, vault', pc'[p], mem'[p])
  BY <1>e DEF SteOk, Empty
<1>1. CASE ~ Starts(p) /\ ~ Reads(p)
  BY <1>1, <1>s, OthersStay
<1>2. CASE Starts(p)
  BY <1>2, <1>s, <1>t DEF Starts, GenerateIrohKey, GenerateSteKey, Goto, Published
<1>3. CASE CreateVaults(p)
  BY <1>3, <1>e, <1>t DEF CreateVaults, Goto, Published
<1>4. CASE GetSecretKey(p)
  BY <1>4, <1>s, <1>e, <1>t DEF GetSecretKey, Panics, Goto, Published, Memory
<1>5. CASE GetPublicKey(p)
  BY <1>5, <1>s, <1>e, <1>t DEF GetPublicKey, Panics, Goto, Published, Memory
<1>6. CASE NewSigner(p)
  BY <1>6, <1>s, <1>e, <1>t DEF NewSigner, Panics, Goto, Published, Memory
<1>7. CASE PublishHint(p)
  <2>1. CASE ~ Readable(Ste(p), SteKeyPswd[p])
    BY <1>7, <2>1, <1>e, <1>t DEF PublishHint, Panics, Goto, Published, Ste
  <2>2. CASE Readable(Ste(p), SteKeyPswd[p])
    <3>1. /\ UNCHANGED vault /\ pc'[p] = "serving"
          /\ mem'[p] = [mem[p] EXCEPT !.hint = KeyIn(Ste(p))]
      BY <1>7, <2>2, <1>t DEF PublishHint, Goto, Ste
    <3>2. mem'[p].hint = KeyIn(Ste(p)) /\ mem'[p].partials = mem[p].partials
      BY <3>1, <1>t DEF Memory
    <3>3. mem[p].partials = {}
      BY <1>7, <1>o DEF PublishHint, SteOk, Published
    <3>4. ToldIn(vault, KeyIn(Ste(p)), Ste(p), SteKeyPswd[p])
      BY <2>2, ToldNow, ProcTyped
    <3>5. Faithful(vault, mem'[p].hint, mem'[p].partials, Ste(p), SteKeyPswd[p])
      BY <3>2, <3>3, <3>4 DEF Faithful
    <3> QED BY <3>1, <3>2, <3>5 DEF SteOk, Published, KeyIn
  <2> QED BY <2>1, <2>2
<1>8. CASE PartialDecryption(p)
  <2>0. pc[p] \in Published
    BY <1>8 DEF PartialDecryption, Published
  <2>1. CASE ~ Readable(Ste(p), SteKeyPswd[p])
    BY <1>8, <2>1, <1>s, <1>t DEF PartialDecryption, Goto, Published, Ste
  <2>2. CASE Readable(Ste(p), SteKeyPswd[p])
    <3>1. /\ UNCHANGED vault /\ pc'[p] \in Published
          /\ mem'[p] = [mem[p] EXCEPT !.partials = @ \cup {KeyIn(Ste(p))}]
      BY <1>8, <2>2, <1>t DEF PartialDecryption, Goto, Published, Ste
    <3>2. /\ mem'[p].hint = mem[p].hint
          /\ mem'[p].partials = mem[p].partials \cup {KeyIn(Ste(p))}
      BY <3>1, <1>t DEF Memory
    <3>3. /\ Faithful(vault, mem[p].hint, mem[p].partials, Ste(p), SteKeyPswd[p])
          /\ Alone(p) => mem[p].hint = <<Ste(p), vault[Ste(p)].gen>>
      BY <2>0, <1>o DEF SteOk
    <3>4. KeyIn(Ste(p)) \in SinceIn(vault, mem[p].hint, Ste(p))
      BY <3>3, SinceNow, ProcTyped DEF Faithful
    <3>5. Faithful(vault, mem'[p].hint, mem'[p].partials, Ste(p), SteKeyPswd[p])
      BY <3>2, <3>3, <3>4 DEF Faithful
    <3> QED BY <3>1, <3>2, <3>3, <3>5 DEF SteOk
  <2> QED BY <2>1, <2>2
<1>9. CASE SignAttestation(p)
  BY <1>9, <1>s, <1>t DEF SignAttestation, Goto, Published, Memory
<1>10. CASE SignClient(p)
  BY <1>10, <1>s, <1>e, <1>t DEF SignClient, Panics, Goto, Published, Memory
<1>11. CASE Exit(p)
  BY <1>11, <1>e, <1>t DEF Exit, Goto, Published
<1> QED BY <1>1, <1>2, <1>3, <1>4, <1>5, <1>6, <1>7, <1>8, <1>9, <1>10, <1>11
        DEF Reads

\* Other writers do not disturb what p told of its iroh key.
LEMMA IrohVaultKept ==
  ASSUME TypeOK, [Next]_vars, NEW p \in Procs, IrohOk(p, vault, pc[p], mem[p])
  PROVE  IrohOk(p, vault', pc[p], mem[p])
<1>1. Iroh(p) \in Names
  BY ProcTyped
<1>2. Grows(vault, vault', Iroh(p))
  BY <1>1, VaultGrows DEF Grows
<1>3. SUFFICES ASSUME pc[p] \in {"public"} \cup Built
               PROVE  IrohOk(p, vault', pc[p], mem[p])
  BY DEF IrohOk
<1>4. ToldIn(vault, mem[p].endpoint, Iroh(p), IrohKeyPswd[p])
  BY <1>3 DEF IrohOk
<1>5. /\ ToldIn(vault', mem[p].endpoint, Iroh(p), IrohKeyPswd[p])
      /\ SinceIn(vault, mem[p].endpoint, Iroh(p))
           \subseteq SinceIn(vault', mem[p].endpoint, Iroh(p))
  BY <1>2, <1>4, ToldGrows
<1>6. ~ GenerateIrohKey(p) /\ pc[p] # "off"
  BY <1>3 DEF GenerateIrohKey, Built
<1>7. Alone(p) /\ Kept(Iroh(p)) => vault'[Iroh(p)] = vault[Iroh(p)]
  BY <1>6, IrohWritten
<1> QED BY <1>3, <1>5, <1>7 DEF IrohOk

\* The second read of Node::build is of what was held since the first.
LEMMA IrohStep == ASSUME IInv, [Next]_vars PROVE IrohInv'
<1> TypeOK /\ IrohInv
  BY DEF IInv
<1> SUFFICES ASSUME NEW p \in Procs PROVE IrohOk(p, vault', pc'[p], mem'[p])
  BY DEF IrohInv, IrohOk, Iroh, IrohName, Alone, Kept
<1>p. IrohOk(p, vault', pc[p], mem[p])
  BY IrohVaultKept DEF IrohInv
<1>o. IrohOk(p, vault, pc[p], mem[p])
  BY DEF IrohInv
<1>t. mem[p] \in Memory /\ Empty \in Memory /\ pc \in [Procs -> Phases]
      /\ mem \in [Procs -> Memory]
  BY ProcTyped DEF TypeOK
<1>s. ASSUME mem'[p].endpoint = mem[p].endpoint, mem'[p].mdns = mem[p].mdns,
             pc'[p] \in Built <=> pc[p] \in Built, pc'[p] # "public", pc[p] # "public"
      PROVE  IrohOk(p, vault', pc'[p], mem'[p])
  BY <1>s, <1>p DEF IrohOk
<1>e. ASSUME mem'[p] = Empty, pc'[p] \notin {"public"} \cup Built
      PROVE  IrohOk(p, vault', pc'[p], mem'[p])
  BY <1>e DEF IrohOk, Empty
<1>1. CASE ~ Starts(p) /\ ~ Reads(p)
  BY <1>1, <1>p, OthersStay
<1>2. CASE Starts(p)
  BY <1>2, <1>s, <1>t DEF Starts, GenerateIrohKey, GenerateSteKey, Goto, Built
<1>3. CASE CreateVaults(p)
  BY <1>3, <1>e, <1>t DEF CreateVaults, Goto, Built
<1>4. CASE GetSecretKey(p)
  <2>1. CASE ~ Readable(Iroh(p), IrohKeyPswd[p])
    BY <1>4, <2>1, <1>e, <1>t DEF GetSecretKey, Panics, Goto, Built, Iroh
  <2>2. CASE Readable(Iroh(p), IrohKeyPswd[p])
    <3>1. /\ UNCHANGED vault /\ pc'[p] = "public"
          /\ mem'[p] = [mem[p] EXCEPT !.endpoint = KeyIn(Iroh(p))]
      BY <1>4, <2>2, <1>t DEF GetSecretKey, Goto, Iroh
    <3>2. mem'[p].endpoint = KeyIn(Iroh(p)) /\ mem'[p].mdns = mem[p].mdns
      BY <3>1, <1>t DEF Memory
    <3>3. mem[p].mdns = NoKey
      BY <1>4, <1>o DEF GetSecretKey, IrohOk, Built
    <3>4. ToldIn(vault, KeyIn(Iroh(p)), Iroh(p), IrohKeyPswd[p])
      BY <2>2, ToldNow, ProcTyped
    <3> QED BY <3>1, <3>2, <3>3, <3>4 DEF IrohOk, Built, KeyIn
  <2> QED BY <2>1, <2>2
<1>5. CASE GetPublicKey(p)
  <2>1. CASE ~ Readable(Iroh(p), IrohKeyPswd[p])
    BY <1>5, <2>1, <1>e, <1>t DEF GetPublicKey, Panics, Goto, Built, Iroh
  <2>2. CASE Readable(Iroh(p), IrohKeyPswd[p])
    <3>1. /\ UNCHANGED vault /\ pc'[p] = "signer"
          /\ mem'[p] = [mem[p] EXCEPT !.mdns = KeyIn(Iroh(p))]
      BY <1>5, <2>2, <1>t DEF GetPublicKey, Goto, Iroh
    <3>2. mem'[p].mdns = KeyIn(Iroh(p)) /\ mem'[p].endpoint = mem[p].endpoint
      BY <3>1, <1>t DEF Memory
    <3>3. /\ ToldIn(vault, mem[p].endpoint, Iroh(p), IrohKeyPswd[p])
          /\ Alone(p) /\ Kept(Iroh(p)) => mem[p].endpoint = <<Iroh(p), vault[Iroh(p)].gen>>
      BY <1>5, <1>o DEF GetPublicKey, IrohOk
    <3>4. KeyIn(Iroh(p)) \in SinceIn(vault, mem[p].endpoint, Iroh(p))
      BY <3>3, SinceNow, ProcTyped
    <3> QED BY <3>1, <3>2, <3>3, <3>4 DEF IrohOk, Built
  <2> QED BY <2>1, <2>2
<1>6. CASE NewSigner(p)
  BY <1>6, <1>s, <1>e, <1>t DEF NewSigner, Panics, Goto, Built, Memory
<1>7. CASE PublishHint(p)
  BY <1>7, <1>s, <1>e, <1>t DEF PublishHint, Panics, Goto, Built, Memory
<1>8. CASE PartialDecryption(p)
  BY <1>8, <1>s, <1>t DEF PartialDecryption, Goto, Built, Memory
<1>9. CASE SignAttestation(p)
  BY <1>9, <1>s, <1>t DEF SignAttestation, Goto, Built, Memory
<1>10. CASE SignClient(p)
  BY <1>10, <1>s, <1>e, <1>t DEF SignClient, Panics, Goto, Built, Memory
<1>11. CASE Exit(p)
  BY <1>11, <1>e, <1>t DEF Exit, Goto, Built
<1> QED BY <1>1, <1>2, <1>3, <1>4, <1>5, <1>6, <1>7, <1>8, <1>9, <1>10, <1>11
        DEF Reads

\* Nobody but roots disturbs what p told of its account.
LEMMA SrVaultKept ==
  ASSUME TypeOK, [Next]_vars, NEW p \in Procs, SrOk(p, vault, pc[p], mem[p])
  PROVE  SrOk(p, vault', pc[p], mem[p])
<1>1. Sr(p) \in Names
  BY ProcTyped
<1>2. Grows(vault, vault', Sr(p))
  BY <1>1, VaultGrows DEF Grows
<1>3. SUFFICES ASSUME pc[p] \in HasSigner
               PROVE  SrOk(p, vault', pc[p], mem[p])
  BY DEF SrOk
<1>4. /\ Faithful(vault, mem[p].account, mem[p].txs, Sr(p), SubstratePswd[p])
      /\ Kept(Sr(p)) => mem[p].account = <<Sr(p), vault[Sr(p)].gen>>
  BY <1>3 DEF SrOk
<1>5. Faithful(vault', mem[p].account, mem[p].txs, Sr(p), SubstratePswd[p])
  BY <1>2, <1>4, ToldGrows DEF Faithful
<1>6. Kept(Sr(p)) => vault'[Sr(p)] = vault[Sr(p)]
  BY <1>3, SrWritten DEF HasSigner
<1> QED BY <1>3, <1>4, <1>5, <1>6 DEF SrOk

\* What PolkadotSigner signs with was held since its account was read.
LEMMA SrStep == ASSUME IInv, [Next]_vars PROVE SrInv'
<1> TypeOK /\ SrInv
  BY DEF IInv
<1> SUFFICES ASSUME NEW p \in Procs PROVE SrOk(p, vault', pc'[p], mem'[p])
  BY DEF SrInv, SrOk, Sr, SrName, Kept
<1>p. SrOk(p, vault', pc[p], mem[p])
  BY SrVaultKept DEF SrInv
<1>o. SrOk(p, vault, pc[p], mem[p])
  BY DEF SrInv
<1>t. mem[p] \in Memory /\ Empty \in Memory /\ pc \in [Procs -> Phases]
      /\ mem \in [Procs -> Memory]
  BY ProcTyped DEF TypeOK
<1>s. ASSUME mem'[p].account = mem[p].account, mem'[p].txs = mem[p].txs,
             pc'[p] \in HasSigner <=> pc[p] \in HasSigner
      PROVE  SrOk(p, vault', pc'[p], mem'[p])
  BY <1>s, <1>p DEF SrOk
<1>e. ASSUME mem'[p] = Empty, pc'[p] \notin HasSigner
      PROVE  SrOk(p, vault', pc'[p], mem'[p])
  BY <1>e DEF SrOk, Empty
<1>1. CASE ~ Starts(p) /\ ~ Reads(p)
  BY <1>1, <1>p, OthersStay
<1>2. CASE Starts(p)
  BY <1>2, <1>s, <1>t DEF Starts, GenerateIrohKey, GenerateSteKey, Goto, HasSigner
<1>3. CASE CreateVaults(p)
  BY <1>3, <1>e, <1>t DEF CreateVaults, Goto, HasSigner
<1>4. CASE GetSecretKey(p)
  BY <1>4, <1>s, <1>e, <1>t DEF GetSecretKey, Panics, Goto, HasSigner, Memory
<1>5. CASE GetPublicKey(p)
  BY <1>5, <1>s, <1>e, <1>t DEF GetPublicKey, Panics, Goto, HasSigner, Memory
<1>6. CASE NewSigner(p)
  <2>1. CASE ~ Readable(Sr(p), SubstratePswd[p])
    BY <1>6, <2>1, <1>e, <1>t DEF NewSigner, Panics, Goto, HasSigner, Sr
  <2>2. CASE Readable(Sr(p), SubstratePswd[p])
    <3>1. /\ UNCHANGED vault /\ pc'[p] \in HasSigner
          /\ mem'[p] = [mem[p] EXCEPT !.account = KeyIn(Sr(p))]
      BY <1>6, <2>2, <1>t DEF NewSigner, Goto, HasSigner, Sr
    <3>2. mem'[p].account = KeyIn(Sr(p)) /\ mem'[p].txs = mem[p].txs
      BY <3>1, <1>t DEF Memory
    <3>3. mem[p].txs = {}
      BY <1>6, <1>o DEF NewSigner, SrOk, HasSigner
    <3>4. ToldIn(vault, KeyIn(Sr(p)), Sr(p), SubstratePswd[p])
      BY <2>2, ToldNow, ProcTyped
    <3>5. Faithful(vault, mem'[p].account, mem'[p].txs, Sr(p), SubstratePswd[p])
      BY <3>2, <3>3, <3>4 DEF Faithful
    <3> QED BY <3>1, <3>2, <3>5 DEF SrOk, KeyIn
  <2> QED BY <2>1, <2>2
<1>7. CASE PublishHint(p)
  BY <1>7, <1>s, <1>e, <1>t DEF PublishHint, Panics, Goto, HasSigner, Memory
<1>8. CASE PartialDecryption(p)
  BY <1>8, <1>s, <1>t DEF PartialDecryption, Goto, HasSigner, Memory
<1>9. CASE SignAttestation(p) \/ SignClient(p)
  <2>1. CASE ~ Readable(Sr(p), SubstratePswd[p])
    BY <1>9, <2>1, <1>s, <1>e, <1>t
    DEF SignAttestation, SignClient, Panics, Goto, HasSigner, Sr
  <2>2. CASE Readable(Sr(p), SubstratePswd[p])
    <3>0. pc[p] \in HasSigner
      BY <1>9 DEF SignAttestation, SignClient, HasSigner
    <3>1. /\ UNCHANGED vault /\ pc'[p] \in HasSigner
          /\ mem'[p] = [mem[p] EXCEPT !.txs = @ \cup {KeyIn(Sr(p))}]
      BY <1>9, <2>2, <1>t DEF SignAttestation, SignClient, Goto, HasSigner, Sr
    <3>2. /\ mem'[p].account = mem[p].account
          /\ mem'[p].txs = mem[p].txs \cup {KeyIn(Sr(p))}
      BY <3>1, <1>t DEF Memory
    <3>3. /\ Faithful(vault, mem[p].account, mem[p].txs, Sr(p), SubstratePswd[p])
          /\ Kept(Sr(p)) => mem[p].account = <<Sr(p), vault[Sr(p)].gen>>
      BY <3>0, <1>o DEF SrOk
    <3>4. KeyIn(Sr(p)) \in SinceIn(vault, mem[p].account, Sr(p))
      BY <3>3, SinceNow, ProcTyped DEF Faithful
    <3>5. Faithful(vault, mem'[p].account, mem'[p].txs, Sr(p), SubstratePswd[p])
      BY <3>2, <3>3, <3>4 DEF Faithful
    <3> QED BY <3>1, <3>2, <3>3, <3>5 DEF SrOk
  <2> QED BY <2>1, <2>2
<1>10. CASE Exit(p)
  BY <1>10, <1>e, <1>t DEF Exit, Goto, HasSigner
<1> QED BY <1>1, <1>2, <1>3, <1>4, <1>5, <1>6, <1>7, <1>8, <1>9, <1>10
        DEF Reads

\* The worker's reads fail only of a key that was written over.
LEMMA DeadStep == ASSUME IInv, [Next]_vars PROVE DeadInv'
<1> TypeOK /\ SteInv /\ SrInv /\ DeadInv
  BY DEF IInv
<1> SUFFICES ASSUME NEW p \in Procs, pc'[p] = "dead"
             PROVE  \/ mem'[p].hint # <<Ste(p), vault'[Ste(p)].gen>>
                    \/ mem'[p].account # <<Sr(p), vault'[Sr(p)].gen>>
  BY DEF DeadInv, Ste, SteName, Sr, SrName
<1>t. pc \in [Procs -> Phases] /\ mem \in [Procs -> Memory]
  BY DEF TypeOK
<1>n. Ste(p) \in Names /\ Sr(p) \in Names
  BY ProcTyped
<1>k. ASSUME pc[p] \in Published
      PROVE  /\ ToldIn(vault, mem[p].hint, Ste(p), SteKeyPswd[p])
             /\ ToldIn(vault, mem[p].account, Sr(p), SubstratePswd[p])
  BY <1>k DEF SteInv, SteOk, SrInv, SrOk, Published, HasSigner, Faithful
<1>1. CASE ~ Starts(p) /\ ~ Reads(p)
  <2>1. pc[p] = "dead" /\ mem'[p] = mem[p]
    BY <1>1, OthersStay
  <2>2. /\ ToldIn(vault, mem[p].hint, Ste(p), SteKeyPswd[p])
        /\ ToldIn(vault, mem[p].account, Sr(p), SubstratePswd[p])
    BY <2>1, <1>k DEF Published
  <2>3. mem[p].hint # <<Ste(p), vault[Ste(p)].gen>>
          => mem[p].hint # <<Ste(p), vault'[Ste(p)].gen>>
    BY <1>n, <2>2, WrittenOver
  <2>4. mem[p].account # <<Sr(p), vault[Sr(p)].gen>>
          => mem[p].account # <<Sr(p), vault'[Sr(p)].gen>>
    BY <1>n, <2>2, WrittenOver
  <2> QED BY <2>1, <2>3, <2>4 DEF DeadInv
<1>2. CASE Starts(p)
  BY <1>2, <1>t DEF Starts, GenerateIrohKey, GenerateSteKey, Goto
<1>3. CASE PartialDecryption(p)
  <2>1. ~ Readable(Ste(p), SteKeyPswd[p]) /\ mem'[p] = mem[p] /\ UNCHANGED vault
    BY <1>3, <1>t DEF PartialDecryption, Goto, Ste
  <2>2. pc[p] \in Published
    BY <1>3 DEF PartialDecryption, Published
  <2>3. mem[p].hint # KeyIn(Ste(p))
    BY <2>1, <2>2, <1>k, <1>n, ToldReadable
  <2> QED BY <2>1, <2>3 DEF KeyIn
<1>4. CASE SignAttestation(p)
  <2>1. ~ Readable(Sr(p), SubstratePswd[p]) /\ mem'[p] = mem[p] /\ UNCHANGED vault
    BY <1>4, <1>t DEF SignAttestation, Goto, Sr
  <2>2. pc[p] \in Published
    BY <1>4 DEF SignAttestation, Published
  <2>3. mem[p].account # KeyIn(Sr(p))
    BY <2>1, <2>2, <1>k, <1>n, ToldReadable
  <2> QED BY <2>1, <2>3 DEF KeyIn
<1>5. CASE \/ CreateVaults(p) \/ GetSecretKey(p) \/ GetPublicKey(p)
           \/ NewSigner(p) \/ PublishHint(p) \/ SignClient(p) \/ Exit(p)
  BY <1>5, <1>t DEF CreateVaults, GetSecretKey, GetPublicKey, NewSigner,
                    PublishHint, SignClient, Exit, Panics, Goto
<1> QED BY <1>1, <1>2, <1>3, <1>4, <1>5 DEF Reads

\* The inductive invariant holds throughout.
LEMMA Inductive == Spec => []IInv
<1>1. Init => IInv
  <2> SUFFICES ASSUME Init PROVE IInv
    OBVIOUS
  <2>1. TypeOK
    BY DEF Init, TypeOK, Phases, Memory, Empty
  <2>2. SteInv
    BY DEF Init, SteInv, SteOk, Empty, Published
  <2>3. IrohInv
    BY DEF Init, IrohInv, IrohOk, Empty, Built
  <2>4. SrInv
    BY DEF Init, SrInv, SrOk, Empty, HasSigner
  <2>5. DeadInv
    BY DEF Init, DeadInv
  <2> QED BY <2>1, <2>2, <2>3, <2>4, <2>5 DEF IInv
<1>2. IInv /\ [Next]_vars => IInv'
  BY TypeStep, SteStep, IrohStep, SrStep, DeadStep DEF IInv
<1> QED BY <1>1, <1>2, PTL DEF Spec

-------------------------------------------------------------------------------
(* The theorems.                                                            *)

\* Type correctness of the keystore and of the processes that share it.
THEOREM VaultTypeCorrect == Spec => []TypeOK
<1>1. IInv => TypeOK
  BY DEF IInv
<1> QED BY <1>1, Inductive, PTL

\* A node makes its partial decryptions with the key of the hint it published
\* (process_decryption_request and publish_node_hint), or with one written over
\* it since, which nobody does if no other command line has its index.
THEOREM VaultPartialsMatchHint == Spec => []PartialsMatchHint
<1>1. ASSUME IInv, NEW p \in Procs
      PROVE  /\ mem[p].partials \subseteq HeldSince(Ste(p), mem[p].hint)
             /\ Alone(p) /\ mem[p].hint # NoKey => KeyIn(Ste(p)) = mem[p].hint
  <2>1. SteOk(p, vault, pc[p], mem[p])
    BY <1>1 DEF IInv, SteInv
  <2> QED BY <2>1 DEF SteOk, Faithful, SinceIn, HeldSince, KeyIn
<1>2. IInv => PartialsMatchHint
  BY <1>1 DEF PartialsMatchHint, Ste
<1> QED BY <1>2, Inductive, PTL

\* A node's worker panics because it cannot read a key only after the key was
\* written over, and never if its index and its account are its own.
THEOREM VaultWorkerSurvives == Spec => []WorkerSurvives
<1>1. ASSUME IInv, NEW p \in Procs, pc[p] = "dead"
      PROVE  /\ KeyIn(Ste(p)) # mem[p].hint \/ KeyIn(Sr(p)) # mem[p].account
             /\ ~ (Alone(p) /\ Kept(Sr(p)))
  <2>1. /\ SteOk(p, vault, pc[p], mem[p]) /\ SrOk(p, vault, pc[p], mem[p])
        /\ \/ mem[p].hint # <<Ste(p), vault[Ste(p)].gen>>
           \/ mem[p].account # <<Sr(p), vault[Sr(p)].gen>>
    BY <1>1 DEF IInv, SteInv, SrInv, DeadInv
  <2> QED BY <1>1, <2>1 DEF SteOk, SrOk, Published, HasSigner, KeyIn
<1>2. IInv => WorkerSurvives
  BY <1>1 DEF WorkerSurvives, Ste, Sr
<1> QED BY <1>2, Inductive, PTL

\* The second read of the iroh key in Node::build gives the first key or one
\* written over it since, and the first if nobody else writes the name.
THEOREM VaultAnnouncesItsEndpoint == Spec => []AnnouncesItsEndpoint
<1>1. ASSUME IInv, NEW p \in Procs, mem[p].mdns # NoKey
      PROVE  /\ mem[p].mdns \in HeldSince(Iroh(p), mem[p].endpoint)
             /\ Alone(p) /\ Kept(Iroh(p)) => mem[p].mdns = mem[p].endpoint
  <2>1. IrohOk(p, vault, pc[p], mem[p])
    BY <1>1 DEF IInv, IrohInv
  <2>2. pc[p] \in Built /\ mem[p].mdns \in SinceIn(vault, mem[p].endpoint, Iroh(p))
    BY <1>1, <2>1 DEF IrohOk
  <2>3. ASSUME Alone(p), Kept(Iroh(p)) PROVE mem[p].mdns = mem[p].endpoint
    <3>1. mem[p].endpoint = <<Iroh(p), vault[Iroh(p)].gen>>
      BY <2>1, <2>2, <2>3 DEF IrohOk
    <3>2. vault[Iroh(p)].gen \in Nat
      BY <1>1, ProcTyped DEF IInv, TypeOK
    <3>3. PICK g \in vault[Iroh(p)].gen..vault[Iroh(p)].gen : mem[p].mdns = <<Iroh(p), g>>
      BY <2>2, <3>1 DEF SinceIn
    <3>4. g = vault[Iroh(p)].gen
      BY <3>2
    <3> QED BY <3>1, <3>3, <3>4
  <2> QED BY <2>2, <2>3 DEF SinceIn, HeldSince
<1>2. IInv => AnnouncesItsEndpoint
  BY <1>1 DEF AnnouncesItsEndpoint, Iroh
<1> QED BY <1>2, Inductive, PTL

\* PolkadotSigner signs with the key of its account_id or one written over it
\* since, which nobody does if the name is kept.
THEOREM VaultSignsForItsAccount == Spec => []SignsForItsAccount
<1>1. ASSUME IInv, NEW p \in Procs
      PROVE  /\ mem[p].txs \subseteq HeldSince(Sr(p), mem[p].account)
             /\ Kept(Sr(p)) /\ mem[p].account # NoKey => KeyIn(Sr(p)) = mem[p].account
  <2>1. SrOk(p, vault, pc[p], mem[p])
    BY <1>1 DEF IInv, SrInv
  <2> QED BY <2>1 DEF SrOk, Faithful, SinceIn, HeldSince, KeyIn
<1>2. IInv => SignsForItsAccount
  BY <1>1 DEF SignsForItsAccount, Sr
<1> QED BY <1>2, Inductive, PTL
===============================================================================
