-------------------------------- MODULE Client --------------------------------
(***************************************************************************)
(* quickbeam's encrypt and decrypt commands (quickbeam/src/main.rs,        *)
(* fangorn/src/crypto) from the strings that are typed to the verdict of a *)
(* node: handle_encrypt parses the intents, puts the ciphertext into the   *)
(* shared document and registers it with the registry contract;            *)
(* handle_decrypt cuts the witness string and posts a request; a node      *)
(* verifies the witnesses (process_decryption_request).                    *)
(*                                                                         *)
(* Each command is a process of its own and signs with its own account.    *)
(* Every transaction that reaches the chain uses up a nonce of the         *)
(* account, also one that the contract reverts.                            *)
(***************************************************************************)
EXTENDS Intents, PredicateRegistry

CONSTANTS
  Encryptors,    \* the encrypt commands; one also names its ciphertext's cid
  Decryptors,    \* the decrypt commands
  FileOf,        \* command -> its --filename
  Account,       \* command -> the account of its substrate key
  Meant,         \* encryptor -> the lists of [type, data] its user may mean
  Layouts,       \* how they may be typed: see Typing
  Typed,         \* the witness strings that may be typed
  Accounts,
  Balance        \* account -> its balance in the token contract

ASSUME ClientConstants ==
  /\ FileOf \in [Encryptors \cup Decryptors -> Filenames]
  /\ Account \in [Encryptors \cup Decryptors -> Accounts]
  /\ Balance \in [Accounts \cup {Zero} -> Nat]

\* What is typed is text, and the type of an intent is a word.
ASSUME ClientTexts ==
  /\ Typed \subseteq Seq(STRING)
  /\ \A p \in Encryptors : \A meant \in Meant[p] :
       /\ meant \in Seq([type : Seq(STRING), data : Seq(STRING)])
       /\ \A k \in 1..Len(meant) :
            Len(meant[k].type) = 1 /\ meant[k].type[1] \notin Separators
  /\ Layouts \subseteq {"tight", "spaced", "open"}

VARIABLES
  enc,      \* encryptor -> [pc, meant, closed, intents, added]
  dec,      \* decryptor -> [pc, text, latest]
  docs,     \* the ciphertexts that some node has
  pool,     \* the decryptors whose request is in the pool
  nonce,    \* account -> how many transactions it has made
  answers   \* decryptor -> what nodes made of its request

client_vars == <<enc, dec>>
vars == <<registry_vars, client_vars, docs, pool, nonce, answers>>

(***************************************************************************)
(* What users type                                                         *)
(***************************************************************************)
\* "Type1(data1) && Type2(data2)", with or without the blanks, or with the last
\* parenthesis forgotten.
Typing(meant, layout) ==
  LET one(k) == meant[k].type \o <<"(">> \o meant[k].data \o
                IF layout = "open" /\ k = Len(meant) THEN << >> ELSE <<")">>
      texts == [k \in 1..Len(meant) |-> one(k)]
  IN IF layout = "spaced"
     THEN <<Blank>> \o Join(texts, <<Blank, "&&", Blank>>)
     ELSE Join(texts, <<"&&">>)

(***************************************************************************)
(* handle_encrypt                                                          *)
(***************************************************************************)
MoveEnc(p, next) == enc' = [enc EXCEPT ![p].pc = next]

\* parse_intents comes first: an invalid intent ends the command, nothing done.
ParseIntent(p) ==
  /\ enc[p].pc = "parse"
  /\ \E meant \in Meant[p], layout \in Layouts :
       LET text == Typing(meant, layout)
           parsed(next, intents) ==
             enc' = [enc EXCEPT ![p] = [pc |-> next, meant |-> meant,
                       closed |-> layout # "open", intents |-> intents,
                       added |-> FALSE]]
       IN \/ ParsesOk(text) /\ parsed("add", ParseIntents(text))
          \/ ~ ParsesOk(text) /\ parsed("failed", << >>)
  /\ UNCHANGED <<registry_vars, dec, docs, pool, nonce, answers>>

\* doc_store.add, into the command's own replica of the document.
AddCiphertext(p) ==
  /\ enc[p].pc = "add"
  /\ \/ enc' = [enc EXCEPT ![p].pc = "register", ![p].added = TRUE]
     \/ MoveEnc(p, "failed")
  /\ UNCHANGED <<registry_vars, dec, docs, pool, nonce, answers>>

\* The replicas of the nodes get it while the command runs (external).
Replicate(p) ==
  /\ enc[p].pc = "register"
  /\ docs' = docs \cup {p}
  /\ UNCHANGED <<registry_vars, client_vars, pool, nonce, answers>>

\* A transaction of the account reaches the chain.
Transaction(account) == nonce' = [nonce EXCEPT ![account] = @ + 1]

\* Mutant: the filename is registered in place of the cid.
MutEntry(p) == [cid |-> FileOf[p], predicate |-> enc[p].intents]

Entry(p) == [cid |-> p, predicate |-> enc[p].intents]

\* register_intent takes effect.  The command ends well, or in its expect if it
\* lost the connection before it saw the transaction finalized.
Register(p) ==
  /\ enc[p].pc = "register"
  /\ register_predicate(FileOf[p], Entry(p))
  /\ \E next \in {"done", "failed"} : MoveEnc(p, next)
  /\ Transaction(Account[p])
  /\ UNCHANGED <<dec, docs, pool, answers>>

\* The filename is taken: the contract reverts.
RegisterReverts(p) ==
  /\ enc[p].pc = "register"
  /\ ~ IsFree(FileOf[p])
  /\ MoveEnc(p, "failed")
  /\ Transaction(Account[p])
  /\ UNCHANGED <<registry_vars, dec, docs, pool, answers>>

\* The transaction is not submitted, or the command is stopped before.
RegisterFails(p) ==
  /\ enc[p].pc = "register"
  /\ MoveEnc(p, "failed")
  /\ UNCHANGED <<registry_vars, dec, docs, pool, nonce, answers>>

(***************************************************************************)
(* handle_decrypt                                                          *)
(***************************************************************************)
\* The user types the witnesses, who may look up the account's latest nonce.
TypeWitness(q) ==
  /\ dec[q].pc = "type"
  /\ \E text \in Typed :
       dec' = [dec EXCEPT ![q] = [pc |-> "post", text |-> text,
                                  latest |-> nonce[Account[q]]]]
  /\ UNCHANGED <<registry_vars, enc, docs, pool, nonce, answers>>

\* request_decrypt ignores what add returns, so the command goes on whether or
\* not the request got into the pool.
RequestDecrypt(q) ==
  /\ dec[q].pc = "post"
  /\ dec' = [dec EXCEPT ![q].pc = "wait"]
  /\ \/ pool' = pool \cup {q} /\ Transaction(Account[q])
     \/ UNCHANGED <<pool, nonce>>
  /\ UNCHANGED <<registry_vars, enc, docs, answers>>

\* Node::build dropped the sender of the channel the handler reads: its loop
\* ends at once, drops done_tx, and done_rx.await.unwrap() panics.
AwaitPartials(q) ==
  /\ dec[q].pc = "wait"
  /\ dec' = [dec EXCEPT ![q].pc = "panicked"]
  /\ UNCHANGED <<registry_vars, enc, docs, pool, nonce, answers>>

(***************************************************************************)
(* The nodes and the chain                                                 *)
(***************************************************************************)
Chain == [nonce |-> nonce, balance |-> Balance]

\* What follows on the verdict: a document that cannot be read, decoded or
\* decrypted with meets an unwrap, and a node need not have it.
AfterVerdict(verdict, cid) ==
  CASE verdict = "panic" -> {"verify_panics"}
    [] verdict = "error" -> {"refused"}
    [] OTHER -> {"unavailable", "fetch_panics"}
                \cup (IF cid \in docs THEN {"served"} ELSE {})

\* All that process_decryption_request may come to, up to the partial decryption
\* (its delivery is in DecryptionService).  The expect of a failing look-up comes
\* first; an unregistered file meets the next expect.
Outcomes(q) ==
  {"lookup_panics"} \cup
  IF IsFree(FileOf[q]) THEN {"no_intent"}
  ELSE LET entry == predicate_registry[FileOf[q]] IN
       UNION {AfterVerdict(verdict, entry.cid) : verdict \in
                Verifications(entry.predicate, Witnesses(dec[q].text), Chain)}

\* A node takes the request; any node may, and again after a restart.
Serve(q) ==
  /\ q \in pool
  /\ \E outcome \in Outcomes(q) :
       answers' = [answers EXCEPT ![q] = @ \cup {outcome}]
  /\ UNCHANGED <<registry_vars, client_vars, docs, pool, nonce>>

(***************************************************************************)
(* The specification                                                       *)
(***************************************************************************)
Init ==
  /\ RegistryInit
  /\ enc = [p \in Encryptors |->
              [pc |-> "parse", meant |-> << >>, closed |-> FALSE,
               intents |-> << >>, added |-> FALSE]]
  /\ nonce = [a \in Accounts |-> 0]
  /\ dec = [q \in Decryptors |->
              [pc |-> "type", text |-> << >>, latest |-> 0]]
  /\ docs = {} /\ pool = {}
  /\ answers = [q \in Decryptors |-> {}]

Next ==
  \/ \E p \in Encryptors :
       \/ ParseIntent(p) \/ AddCiphertext(p) \/ Replicate(p)
       \/ Register(p) \/ RegisterReverts(p) \/ RegisterFails(p)
  \/ \E q \in Decryptors :
       \/ TypeWitness(q) \/ RequestDecrypt(q) \/ AwaitPartials(q) \/ Serve(q)

Spec == Init /\ [][Next]_vars

(***************************************************************************)
(* Properties                                                              *)
(***************************************************************************)
\* The data of all that p's user meant has its parentheses in pairs, and no
\* delimiter.
Sound(p) == \A k \in 1..Len(enc[p].meant) : Survives(enc[p].meant[k].data)

\* What p's user meant, but for the data of an intent whose parenthesis is left
\* open: it is lost, as end_pos is still 0 (parse_intent_string).
LeftOf(p) ==
  [k \in 1..Len(enc[p].meant) |->
     IF enc[p].closed \/ k < Len(enc[p].meant) THEN enc[p].meant[k]
     ELSE [enc[p].meant[k] EXCEPT !.data = << >>]]

\* The command whose registration of q's file took effect, if any.
Owns(p, q) ==
  /\ ~ IsFree(FileOf[q])
  /\ predicate_registry[FileOf[q]].cid = p

\* All that p's user means is passwords.
OnlyPasswords(p) ==
  \A k \in 1..Len(enc[p].meant) : enc[p].meant[k].type = <<"Password">>

Datas(p) == [k \in 1..Len(LeftOf(p)) |-> LeftOf(p)[k].data]

\* The answers that tell of a verification that went well, and of one that
\* did not.
Granted == {"served", "unavailable", "fetch_panics"}
Denied == {"refused", "verify_panics"}

\* A text without its blanks.
Squeeze(text) ==
  LET kept[i \in 0..Len(text)] ==
        IF i = 0 THEN << >>
        ELSE IF text[i] = Blank THEN kept[i - 1]
        ELSE Append(kept[i - 1], text[i])
  IN kept[Len(text)]

\* The type invariant.
TypeOK ==
  /\ \A p \in Encryptors :
       /\ enc[p].pc \in {"parse", "add", "register", "done", "failed"}
       /\ enc[p].closed \in BOOLEAN /\ enc[p].added \in BOOLEAN
       /\ enc[p].pc \in {"add", "register", "done"} =>
            \A k \in 1..Len(enc[p].intents) : enc[p].intents[k].type \in Types
  /\ \A q \in Decryptors : dec[q].pc \in {"type", "post", "wait", "panicked"}
  /\ \A f \in DOMAIN predicate_registry :
       f \in Filenames /\ predicate_registry[f].cid \in Encryptors
  /\ docs \subseteq Encryptors
  /\ pool \subseteq Decryptors
  /\ nonce \in [Accounts -> Nat]
  /\ \A q \in Decryptors :
       answers[q] \subseteq {"lookup_panics", "no_intent"} \cup Granted \cup Denied

\* What the registry holds for a file is what one command put together: its
\* ciphertext, which it had added by then (EncryptionClient::encrypt), and the
\* statements of just the intents its user meant, in order (parse_intent_string
\* and the gadgets), although another command may have raced it for the filename
\* and either may have failed.  A parenthesis left open costs the data of that
\* intent, and no other's; data with unpaired parentheses or a delimiter is
\* excepted.
RegisteredAsMeant ==
  \A f \in DOMAIN predicate_registry :
    LET entry == predicate_registry[f]
        p == entry.cid
    IN /\ enc[p].added /\ FileOf[p] = f
       /\ Sound(p) =>
            entry.predicate = [k \in 1..Len(LeftOf(p)) |->
              [type |-> LeftOf(p)[k].type, statement |-> Statement(LeftOf(p)[k])]]

\* A request for a file that is locked with passwords gets past the verification
\* of a node, and so to the ciphertext, only if the witness string is these
\* passwords in order, with commas between them and blanks anywhere: no blank,
\* comma or parenthesis makes handle_decrypt's splitting and verify_intents
\* accept anything else.  A password whose parenthesis was left open counts as
\* empty.
ServedOnlyForPasswords ==
  \A q \in Decryptors, p \in Encryptors :
    (Owns(p, q) /\ Sound(p) /\ OnlyPasswords(p) /\ answers[q] \cap Granted # {})
      => Squeeze(dec[q].text)
           = Join([k \in 1..Len(Datas(p)) |-> Squeeze(Datas(p)[k])], <<",">>)

\* Whoever types the passwords, separated by commas, gets past the verification
\* of every node: verify_intents neither refuses the witnesses nor panics on
\* them, unless a password has a comma in it or a blank at its end, which
\* handle_decrypt cannot pass on.  The node may still fail to look up the intent
\* before, or to read the document after, and panic for that.
PasswordsNeverRefused ==
  \A q \in Decryptors, p \in Encryptors :
    (/\ Owns(p, q) /\ Sound(p) /\ OnlyPasswords(p)
     /\ \A k \in 1..Len(Datas(p)) :
          ~ Contains(Datas(p)[k], ",") /\ Trim(Datas(p)[k]) = Datas(p)[k]
     /\ dec[q].text \in {Join(Datas(p), <<",">>), Join(Datas(p), <<",", Blank>>)})
      => answers[q] \cap Denied = {}

\* gadget/README.md: "first sign the latest nonce".  Whoever does so, with the
\* account that decrypts and for a file locked with Sr25519() alone, is not
\* refused.
LatestNonceAccepted ==
  \A q \in Decryptors, p \in Encryptors, w \in DOMAIN SignedBy :
    (/\ Owns(p, q) /\ Sound(p)
     /\ enc[p].meant = <<[type |-> <<"Sr25519">>, data |-> << >>]>>
     /\ dec[q].pc # "type" /\ dec[q].text = <<w>>
     /\ SignedBy[w] = [account |-> Account[q], nonce |-> dec[q].latest])
      => "refused" \notin answers[q]
===============================================================================
