------------------------------- MODULE Intents -------------------------------
(***************************************************************************)
(* What a user types and what the program makes of it: the intent string   *)
(* of an encryption (fangorn/src/gadget/mod.rs), the witness string of a   *)
(* decryption (crypto/cipher.rs), and the gadgets that decide whether the  *)
(* one satisfies the other (gadget/password.rs, psp22.rs, sr25519.rs).     *)
(*                                                                         *)
(* A text is a sequence of tokens: the separators the code looks at        *)
(* ("(", ")", "&&", "," and the blank), the names of the intent types, and *)
(* words.  A word is a string without separators: a part of a password, a  *)
(* number, an address, or a public key followed by a signature.            *)
(***************************************************************************)
EXTENDS Integers, Sequences, SequencesExt

CONSTANTS
  Token,        \* the word that is the address of the PSP22 contract
  Numbers,      \* word -> the u128 it parses to, for those that do
  AccountOf,    \* word -> the account, for those that are an SS58 public key
  SignedBy,     \* word -> the [account, nonce] of the signature it holds, for
                \* those that are 176 bytes of public key and signature
  Garbage,      \* words of 176 bytes that hold no signature
  Zero          \* the account or address of 32 zero bytes

ASSUME IntentConstants ==
  /\ \A w \in DOMAIN Numbers : Numbers[w] \in Nat
  /\ DOMAIN SignedBy \cap Garbage = {}

Blank == " "

\* The tokens the code cuts texts at.
Separators == {"(", ")", "&&", ",", Blank}

IsWord(text, words) == Len(text) = 1 /\ text[1] \in words

(***************************************************************************)
(* Texts put together and taken apart: format!, str::split and str::trim   *)
(***************************************************************************)
Join(texts, sep) ==
  LET join[k \in 0..Len(texts)] ==
        IF k = 0 THEN << >>
        ELSE IF k = 1 THEN texts[k]
        ELSE join[k - 1] \o sep \o texts[k]
  IN join[Len(texts)]

\* A separator starts a piece, and any other token goes to the last one.
Extended(pieces, token, sep) ==
  IF token = sep THEN Append(pieces, << >>)
  ELSE Append(Front(pieces), Append(Last(pieces), token))

\* str::split, from left to right; the empty text is one empty piece.
Split(text, sep) ==
  LET pieces[i \in 0..Len(text)] ==
        IF i = 0 THEN << << >> >> ELSE Extended(pieces[i - 1], text[i], sep)
  IN pieces[Len(text)]

Trim(text) ==
  LET ink == {i \in 1..Len(text) : text[i] # Blank} IN
  IF ink = {} THEN << >> ELSE SubSeq(text, Min(ink), Max(ink))

\* split(sep).map(|s| s.trim())
TrimmedPieces(text, sep) ==
  LET pieces == Split(text, sep) IN [k \in 1..Len(pieces) |-> Trim(pieces[k])]

(***************************************************************************)
(* parse_intent_string                                                     *)
(***************************************************************************)
DepthAfter(depth, token) ==
  CASE token = "(" -> depth + 1
    [] token = ")" -> depth - 1
    [] OTHER -> depth

\* depth after the first i tokens behind the opening parenthesis.
Depth(rest, i) ==
  LET depth[k \in 0..Len(rest)] ==
        IF k = 0 THEN 1 ELSE DepthAfter(depth[k - 1], rest[k])
  IN depth[i]

\* The tokens before the parenthesis that brings depth to 0; none if there is
\* no such parenthesis, where end_pos keeps its initial 0.
UpToClosing(rest) ==
  LET closing == {i \in 1..Len(rest) : Depth(rest, i) = 0} IN
  IF closing = {} THEN << >> ELSE SubSeq(rest, 1, Min(closing) - 1)

Opening(part) == SelectInSeq(part, LAMBDA c : c = "(")

\* Mutant: nested parentheses are not counted.
MutFirstClosing(part) ==
  [type |-> SubSeq(part, 1, Opening(part) - 1),
   data |-> SubSeq(part, Opening(part) + 1,
                   SelectInSeq(part, LAMBDA c : c = ")") - 1)]

\* The (intent_type, data) of one part.
ParsePart(part) ==
  [type |-> SubSeq(part, 1, Opening(part) - 1),
   data |-> UpToClosing(SubSeq(part, Opening(part) + 1, Len(part)))]

\* The parts, cut at every "&&" whether inside parentheses or not.
Parts(text) == TrimmedPieces(text, "&&")

\* The data of an intent that survives parse_intent_string: parentheses match
\* and there is no delimiter in it.
Survives(data) ==
  /\ ~ Contains(data, "&&")
  /\ \A i \in 1..Len(data) : Depth(data, i) >= 1
  /\ Depth(data, Len(data)) = 1

(***************************************************************************)
(* The gadgets' parse_intent_data                                          *)
(***************************************************************************)
Types == {<<"Password">>, <<"Psp22">>, <<"Sr25519">>}

\* Sha2: a hash stands for what was hashed.
Sha256(text) == <<"sha256", text>>

\* The address and the minimum of a Psp22 intent.
Fields(data) == TrimmedPieces(data, ",")

\* utils.rs: what does not decode becomes zeroes.
DecodeContractAddr(text) == IF text = <<Token>> THEN Token ELSE Zero
DecodePublicKey(text) ==
  IF IsWord(text, DOMAIN AccountOf) THEN AccountOf[text[1]] ELSE Zero

\* parse_intent_data returns Ok.
DataParses(intent) ==
  intent.type = <<"Psp22">> =>
    Len(Fields(intent.data)) = 2 /\ IsWord(Fields(intent.data)[2], DOMAIN Numbers)

\* Its statement.
Statement(intent) ==
  CASE intent.type = <<"Password">> -> Sha256(intent.data)
    [] intent.type = <<"Psp22">> ->
         LET fields == Fields(intent.data) IN
         [contract |-> DecodeContractAddr(fields[1]),
          minimum |-> Numbers[fields[2][1]]]
    [] intent.type = <<"Sr25519">> -> << >>

(***************************************************************************)
(* parse_intents: whether it returns Ok, and what                          *)
(***************************************************************************)
ParsesOk(text) ==
  \A k \in 1..Len(Parts(text)) :
    LET part == Parts(text)[k] IN
    /\ Opening(part) # 0
    /\ ParsePart(part).type \in Types
    /\ DataParses(ParsePart(part))

ParseIntents(text) ==
  [k \in 1..Len(Parts(text)) |->
    LET intent == ParsePart(Parts(text)[k]) IN
    [type |-> intent.type, statement |-> Statement(intent)]]

(***************************************************************************)
(* The witnesses of a decryption and verify_intents                        *)
(***************************************************************************)
\* Mutant: blanks around a witness are kept.
MutUntrimmed(text) == Split(text, ",")

\* handle_decrypt cuts the witness string at commas.
Witnesses(text) == TrimmedPieces(Trim(text), ",")

\* The gadgets' verify_witness, on a chain with the nonces of accounts and their
\* balances in the token contract.
PasswordVerdict(witness, statement) ==
  IF Sha256(witness) = statement THEN "true" ELSE "error"

\* A query of no contract is an error.
Psp22Verdict(witness, statement, chain) ==
  IF /\ statement.contract = Token
     /\ chain.balance[DecodePublicKey(witness)] >= statement.minimum
  THEN "true" ELSE "error"

\* The signature is over the statement, empty, and the latest nonce.  hex::decode
\* of 176 bytes that are no signature panics, other lengths are an error.
Sr25519Verdict(witness, chain) ==
  IF IsWord(witness, Garbage) THEN "panic"
  ELSE IF /\ IsWord(witness, DOMAIN SignedBy)
          /\ SignedBy[witness[1]].nonce
               = chain.nonce[SignedBy[witness[1]].account]
       THEN "true" ELSE "error"

\* verify_intent: the gadget of the type.
VerifyIntent(intent, witness, chain) ==
  CASE intent.type = <<"Password">> -> PasswordVerdict(witness, intent.statement)
    [] intent.type = <<"Psp22">> -> Psp22Verdict(witness, intent.statement, chain)
    [] intent.type = <<"Sr25519">> -> Sr25519Verdict(witness, chain)

\* Mutant: one satisfied intent is enough.
MutAnyIntent(intents, witnesses, chain) ==
  IF Len(witnesses) # Len(intents) THEN "panic"
  ELSE IF \E k \in 1..Len(intents) :
            VerifyIntent(intents[k], witnesses[k], chain) = "true"
       THEN "true" ELSE "error"

\* verify_intents, when the chain answers every query: the first gadget that
\* does not say true decides.
VerifyIntents(intents, witnesses, chain) ==
  IF Len(witnesses) # Len(intents) THEN "panic"
  ELSE LET verdicts == [k \in 1..Len(intents) |->
                          VerifyIntent(intents[k], witnesses[k], chain)]
           first == SelectInSeq(verdicts, LAMBDA v : v # "true")
       IN IF first = 0 THEN "true" ELSE verdicts[first]

\* The gadgets that get as far as a query of the chain.
Queries(intent, witness) ==
  \/ intent.type = <<"Psp22">>
  \/ intent.type = <<"Sr25519">> /\ IsWord(witness, DOMAIN SignedBy)

\* The query fails: psp22.rs maps it to an error, sr25519.rs unwraps it.
FailedQuery(intent) == IF intent.type = <<"Psp22">> THEN "error" ELSE "panic"

\* All that verify_intents may come to: its verdict, or the end at the query of
\* a gadget behind others that said true.
Verifications(intents, witnesses, chain) ==
  {VerifyIntents(intents, witnesses, chain)} \cup
  {FailedQuery(intents[k]) : k \in {i \in 1..Len(intents) :
     /\ Len(witnesses) = Len(intents)
     /\ Queries(intents[i], witnesses[i])
     /\ \A j \in 1..(i - 1) :
          VerifyIntent(intents[j], witnesses[j], chain) = "true"}}
===============================================================================
