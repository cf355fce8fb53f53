------------------------------- MODULE Entmoot -------------------------------
(***************************************************************************)
(* entmoot as a client of the registry: the screens (Screens) put an       *)
(* intent string together and register it with a file, and put together    *)
(* the witness string that is to open it again (entmoot/src/menus), and    *)
(* the parser and the gadgets (Intents) make of them what they do.         *)
(***************************************************************************)
EXTENDS Screens, Intents, PredicateRegistry

CONSTANTS
  Cwd,        \* the directory entmoot was started in
  Numeral,    \* sequence of digits typed -> the word they make
  Me,         \* the account of the keystore
  PubKey,     \* its public key, a word
  Signed,     \* its public key followed by its signature of its nonce, a word
  Holding     \* its balance in the token contract

ASSUME EntmootConstants ==
  /\ Files \subseteq [dir : {f.dir : f \in Files}, name : Filenames]
  /\ PubKey \in DOMAIN AccountOf /\ AccountOf[PubKey] = Me
  /\ Signed \in DOMAIN SignedBy /\ SignedBy[Signed].account = Me
  /\ {PubKey, Signed, Token} \cap Separators = {}
  /\ Holding \in Nat

\* A numeral is a word; if it does not start with a zero it is not zero.
ASSUME NumeralConstants ==
  /\ DOMAIN Numeral = BoundedSeq(Digits \cup {ZeroKey}, MaxLen["token_count"])
  /\ \A s \in DOMAIN Numeral :
       /\ Numeral[s] \notin Separators
       /\ (s # << >> /\ s[1] \in Digits /\ Numeral[s] \in DOMAIN Numbers)
            => Numbers[Numeral[s]] > 0

VARIABLES
  locked      \* history: filename -> the rows marked and the texts typed for it

vars == <<screen_vars, registry_vars, locked>>

(***************************************************************************)
(* handle_encrypt_all, _psp22, _password and the SR25519 path              *)
(***************************************************************************)
Between(type, data) == <<type, "(">> \o data \o <<")">>

\* The part of an intent string for each field or mark.
PasswordPart == Between("Password", input["password"])
Psp22Part == Between("Psp22", input["contract_address"]
                     \o <<",", Blank, Numeral[input["token_count"]]>>)
Sr25519Part == Between("Sr25519", << >>)

OnlyIf(condition, part) == IF condition THEN <<part>> ELSE << >>

\* The intent string of the fields on the screen.
IntentText ==
  Join(OnlyIf("password" \in Members(EncInputs), PasswordPart)
       \o OnlyIf("contract_address" \in Members(EncInputs), Psp22Part)
       \o OnlyIf(sr25519_intent, Sr25519Part),
       <<Blank, "&&", Blank>>)

\* handle_encrypt gets the name of the file without its directory, reads it in
\* the current directory and registers the name; all that fails in it panics.
handle_encrypt(text) ==
  LET name == file_path.name
      message == [dir |-> Cwd, name |-> name]
  IN /\ file_path # NoFile
     /\ message \in Files
     /\ ParsesOk(text)
     /\ register_predicate(name,
          [cid |-> message, predicate |-> ParseIntents(text)])
     /\ locked' = Insert(locked, name,
                         [rows |-> intent_list_items, typed |-> input])

EncryptFilled == SubmitEncryption /\ handle_encrypt(IntentText)

EncryptAtOnce == IntentsEnterSr25519 /\ handle_encrypt(Sr25519Part)

\* The connection is lost after the transaction took effect: the expect panics.
EncryptThenPanic ==
  /\ \/ /\ On("EncryptionInputScreen") /\ Filled(EncInputs)
        /\ handle_encrypt(IntentText)
     \/ /\ On("IntentSelection") /\ is_encrypt_path /\ OnlySr25519
        /\ handle_encrypt(Sr25519Part)
  /\ End

(***************************************************************************)
(* prepare_witness_string                                                  *)
(***************************************************************************)
\* Mutant: the signature comes before the token holder's key.
MutWitnessParts ==
  OnlyIf(display_password_input, input["password"])
  \o OnlyIf(sr25519_intent, <<Signed>>)
  \o OnlyIf(display_contract_address_input, <<PubKey>>)

\* One branch for each combination of the flags.
WitnessParts ==
  OnlyIf(display_password_input, input["password"])
  \o OnlyIf(display_contract_address_input, <<PubKey>>)
  \o OnlyIf(sr25519_intent, <<Signed>>)

WitnessText == Join(WitnessParts, <<",">>)

(***************************************************************************)
(* The specification                                                       *)
(***************************************************************************)
Init ==
  /\ ScreensInit
  /\ RegistryInit
  /\ locked = EmptyMapping

Key == (Navigate \/ SubmitDecryption \/ CallPanics)
       /\ UNCHANGED <<registry_vars, locked>>

\* Anybody may remove a file from the registry.
Removed ==
  /\ \E f \in Filenames : remove_predicate(f) /\ locked' = Take(locked, f)
  /\ UNCHANGED screen_vars

Next == Key \/ EncryptFilled \/ EncryptAtOnce \/ EncryptThenPanic \/ Removed

Spec == Init /\ [][Next]_vars

(***************************************************************************)
(* Properties                                                              *)
(***************************************************************************)
\* The intent types of the rows that were marked, in the order of the menu.
TypesOf(rows) ==
  OnlyIf(rows["Password"], <<"Password">>) \o OnlyIf(rows["PSP22"], <<"Psp22">>)
  \o OnlyIf(rows["SR25519"], <<"Sr25519">>)

\* A file that entmoot registered is locked with just the intents that were
\* marked on the intents screen, in their order, the password that was typed,
\* and a minimum balance that is not zero (handle_encrypt_all and its siblings,
\* match_num_chars, parse_intents): no flag, text or selection of another
\* dialogue gets into it.  Left out are a password and an address that do not
\* survive the parser: with the address "0)" an intent ends before its minimum.
RegisteredAsMarked ==
  \A f \in DOMAIN predicate_registry :
    LET predicate == predicate_registry[f].predicate
        rows == locked[f].rows
        typed == locked[f].typed
    IN (/\ rows["Password"] => Survives(typed["password"])
        /\ rows["PSP22"] => Survives(typed["contract_address"])) =>
         /\ [k \in 1..Len(predicate) |-> predicate[k].type] = TypesOf(rows)
         /\ \A k \in 1..Len(predicate) :
              CASE predicate[k].type = <<"Password">> ->
                     predicate[k].statement = Sha256(typed["password"])
                [] predicate[k].type = <<"Psp22">> ->
                     predicate[k].statement.minimum > 0
                [] OTHER -> TRUE

\* A chain on which the account holds enough and has made no transaction since
\* the signature: the signed nonce is still current when a node verifies.
Chain ==
  [nonce |-> [a \in {Me} |-> SignedBy[Signed].nonce],
   balance |-> [a \in {Me, Zero} |-> IF a = Me THEN Holding ELSE 0]]

\* Whoever marks the same intents again and types the same password for a file
\* is given what opens it: prepare_witness_string names the witnesses in the
\* order in which the encryption screens named the intents, in every one of the
\* combinations of the flags, which its cleanup does not reset.  Assumed is a
\* node that gets an answer to every query of the chain, and a signature of the
\* nonce that is current then, see Chain; entmoot itself may outdate it by
\* posting the request (LatestNonceAccepted in Client).  Passwords that cannot be
\* passed on (commas, outer blanks) are left out, as are a token that is not the
\* contract and a balance that is too small.
OpensWhatItLocked ==
  LET name == input["filename"][1]
      rows == locked[name].rows
      typed == locked[name].typed
  IN (/\ On("DecryptScreen") /\ Filled(DecInputs)
      /\ Len(input["filename"]) = 1
      /\ name \in DOMAIN predicate_registry
      /\ intent_list_items = rows
      /\ rows["Password"] =>
           /\ input["password"] = typed["password"]
           /\ Survives(typed["password"])
           /\ ~ Contains(typed["password"], ",")
           /\ Trim(typed["password"]) = typed["password"]
      /\ rows["PSP22"] =>
           /\ typed["contract_address"] = <<Token>>
           /\ Numbers[Numeral[typed["token_count"]]] <= Holding)
     => VerifyIntents(predicate_registry[name].predicate,
                      Witnesses(WitnessText), Chain) = "true"
==============================================================================
