------------------------------- MODULE Screens -------------------------------
(***************************************************************************)
(* The screens of entmoot, the terminal front end (entmoot/src): the main  *)
(* menu, key results, file selection, intent selection, and the two input  *)
(* screens, as one state machine that takes a key at a time.  The loop of  *)
(* run awaits each handler, so a key is handled to the end before the next *)
(* one is read.                                                            *)
(*                                                                         *)
(* main.rs has an unresolved merge in it; both sides have these fields and *)
(* this loop.  The calls into fangorn (handle_encrypt, handle_decrypt, the *)
(* keystore) are those of an earlier version of that crate, and external   *)
(* here: each returns, or panics and so ends the program.                  *)
(***************************************************************************)
EXTENDS Naturals, Sequences

CONSTANTS
  Files,      \* what the file explorer may have under its cursor
  NoFile,     \* None
  Keys,       \* what can be typed: a word or a separator at a time
  Digits,     \* the keys '1' to '9'
  ZeroKey,    \* the key '0'
  MaxLen      \* bound: field -> how much is typed into it

ASSUME ScreensAssumption ==
  /\ NoFile \notin Files
  /\ Digits \cup {ZeroKey} \subseteq Keys
  /\ ZeroKey \notin Digits
  /\ MaxLen \in [{"filename", "password", "contract_address", "token_count"} -> Nat]

VARIABLES
  current_screen,
  menu_state,                      \* the selected row of the main menu
  intent_list_state,               \* the selected row of the intents menu
  intent_list_items,               \* row -> it is chosen
  generated_pubkey,                \* is Some
  file_path,
  input,                           \* field -> its text
  look,                            \* field -> how it is drawn
  encrypt_input_selection,
  decrypt_input_selection,
  display_password_input,
  display_contract_address_input,
  sr25519_intent,
  is_encrypt_path,
  chosen                           \* history: the file chosen since the menu

intent_vars == <<intent_list_state, intent_list_items>>
flag_vars == <<display_password_input, display_contract_address_input,
               sr25519_intent>>
field_vars == <<input, look, encrypt_input_selection, decrypt_input_selection>>
screen_vars == <<current_screen, menu_state, intent_vars, generated_pubkey,
                 file_path, field_vars, flag_vars, is_encrypt_path, chosen>>

Inputs == {"filename", "password", "contract_address", "token_count"}
Rows == {"Password", "PSP22", "SR25519"}
RowAt == <<"Password", "PSP22", "SR25519">>

(***************************************************************************)
(* Helpers of App                                                          *)
(***************************************************************************)
NoInput == [f \in Inputs |-> << >>]

\* initialize_input_field gives a field the colour of an active one.
NewLook == [f \in Inputs |-> "active"]

\* activate one field of those listed, and inactivate the others.
Highlight(f, others) ==
  [g \in Inputs |-> IF g = f THEN "active"
                    ELSE IF g \in others THEN "inactive" ELSE look[g]]

\* indicate_error on the fields that are empty.
Reproach(fields) ==
  [g \in Inputs |-> IF g \in fields /\ input[g] = << >>
                    THEN "error" ELSE look[g]]

\* Mutant: the token count is not emptied.
MutFewerFields == input' = [NoInput EXCEPT !["token_count"] = input["token_count"]]

\* Every text of reset_input_fields.
EmptyFields == input' = NoInput

reset_input_fields == EmptyFields /\ look' = NewLook

reset_intent_list ==
  /\ intent_list_state' = 0
  /\ intent_list_items' = [r \in Rows |-> FALSE]

\* Back to the main menu, where a new dialogue starts.
ToMain ==
  /\ current_screen' = "Main"
  /\ generated_pubkey' = FALSE
  /\ chosen' = NoFile

On(screen) == current_screen = screen
Goto(screen) == current_screen' = screen

(***************************************************************************)
(* The main menu: next, previous, select                                   *)
(***************************************************************************)
\* Mutant: next goes past the last row.
MutTurn(i, n) == {i + 1, (i + n - 1) % n}

\* next and previous, around the ends.
Turn(i, n) == {(i + 1) % n, (i + n - 1) % n}

MainMove ==
  /\ On("Main")
  /\ menu_state' \in Turn(menu_state, 4)
  /\ UNCHANGED <<current_screen, intent_vars, generated_pubkey, file_path,
                 field_vars, flag_vars, is_encrypt_path, chosen>>

\* Rows 0 and 1: generate_keys shows the key it made; inspect_keys shows a key
\* or says there is none, and does nothing if the keystore cannot be listed.
SelectKeys ==
  /\ On("Main")
  /\ menu_state \in {0, 1}
  /\ \/ Goto("KeyResults") /\ generated_pubkey' = TRUE
     \/ menu_state = 1 /\ UNCHANGED <<current_screen, generated_pubkey>>
  /\ UNCHANGED <<menu_state, intent_vars, file_path, field_vars, flag_vars,
                 is_encrypt_path, chosen>>

\* Rows 2 and 3: encrypt and decrypt.
SelectCipher ==
  /\ On("Main")
  /\ menu_state \in {2, 3}
  /\ is_encrypt_path' = (menu_state = 2)
  /\ Goto(IF menu_state = 2 THEN "EncryptFileSelectScreen"
          ELSE "IntentSelection")
  /\ UNCHANGED <<menu_state, intent_vars, generated_pubkey, file_path,
                 field_vars, flag_vars, chosen>>

(***************************************************************************)
(* Key results and file selection                                          *)
(***************************************************************************)
\* Esc or 'c' on either; file_path stays what it was.
Close ==
  /\ On("KeyResults") \/ On("EncryptFileSelectScreen")
  /\ ToMain
  /\ UNCHANGED <<menu_state, intent_vars, file_path, field_vars, flag_vars,
                 is_encrypt_path>>

\* Mutant: a path that is there is kept.
MutPathAfter(file) == IF file_path = NoFile THEN file ELSE file_path

\* app.file_path = Some(selected.path())
PathAfter(file) == file

SelectFile(file) ==
  /\ On("EncryptFileSelectScreen")
  /\ file_path' = PathAfter(file)
  /\ chosen' = file
  /\ Goto("IntentSelection")
  /\ UNCHANGED <<menu_state, intent_vars, generated_pubkey, field_vars,
                 flag_vars, is_encrypt_path>>

(***************************************************************************)
(* Intent selection                                                        *)
(***************************************************************************)
IntentsEsc ==
  /\ On("IntentSelection")
  /\ ToMain
  /\ reset_intent_list
  /\ UNCHANGED <<menu_state, file_path, field_vars, flag_vars, is_encrypt_path>>

IntentsMove ==
  /\ On("IntentSelection")
  /\ intent_list_state' \in Turn(intent_list_state, 3)
  /\ UNCHANGED <<current_screen, menu_state, intent_list_items,
                 generated_pubkey, file_path, field_vars, flag_vars,
                 is_encrypt_path, chosen>>

IntentsToggle ==
  /\ On("IntentSelection")
  /\ intent_list_items' =
       [intent_list_items EXCEPT ![RowAt[intent_list_state + 1]] = ~@]
  /\ UNCHANGED <<current_screen, menu_state, intent_list_state,
                 generated_pubkey, file_path, field_vars, flag_vars,
                 is_encrypt_path, chosen>>

\* Enter copies the choice into the three flags, whatever it does next.
CopyChoice ==
  /\ display_password_input' = intent_list_items["Password"]
  /\ display_contract_address_input' = intent_list_items["PSP22"]
  /\ sr25519_intent' = intent_list_items["SR25519"]

NoneChosen == \A r \in Rows : ~ intent_list_items[r]
OnlySr25519 ==
  intent_list_items = [r \in Rows |-> r = "SR25519"]

IntentsEnterNone ==
  /\ On("IntentSelection")
  /\ NoneChosen
  /\ CopyChoice
  /\ UNCHANGED <<current_screen, menu_state, intent_vars, generated_pubkey,
                 file_path, field_vars, is_encrypt_path, chosen>>

\* On to the fields of the encryption.
IntentsEnterEncrypt ==
  /\ On("IntentSelection")
  /\ is_encrypt_path /\ ~ NoneChosen /\ ~ OnlySr25519
  /\ CopyChoice
  /\ look' = IF intent_list_items["Password"]
             THEN Highlight("password", {"contract_address", "token_count"})
             ELSE Highlight("contract_address", {"token_count"})
  /\ Goto("EncryptionInputScreen")
  /\ UNCHANGED <<menu_state, intent_vars, generated_pubkey, file_path, input,
                 encrypt_input_selection, decrypt_input_selection,
                 is_encrypt_path, chosen>>

\* Only SR25519: nothing more is needed, the file is encrypted at once.
IntentsEnterSr25519 ==
  /\ On("IntentSelection")
  /\ is_encrypt_path /\ OnlySr25519
  /\ file_path # NoFile                      \* unwrap
  /\ display_password_input' = FALSE
  /\ display_contract_address_input' = FALSE
  /\ sr25519_intent' = FALSE
  /\ ToMain
  /\ reset_intent_list
  /\ UNCHANGED <<menu_state, file_path, field_vars, is_encrypt_path>>

\* On to the fields of the decryption.
IntentsEnterDecrypt ==
  /\ On("IntentSelection")
  /\ ~ is_encrypt_path /\ ~ NoneChosen
  /\ CopyChoice
  /\ look' = Highlight("filename",
               IF intent_list_items["Password"] THEN {"password"} ELSE {})
  /\ Goto("DecryptScreen")
  /\ UNCHANGED <<menu_state, intent_vars, generated_pubkey, file_path, input,
                 encrypt_input_selection, decrypt_input_selection,
                 is_encrypt_path, chosen>>

(***************************************************************************)
(* Typing into a field                                                     *)
(***************************************************************************)
\* What TextArea::input (external) makes of a key: a character at the end, or
\* the last one deleted, or nothing to the text.
Edits(text, bound) ==
  {text} \cup {Append(text, k) : k \in {j \in Keys : Len(text) < bound}}
         \cup {SubSeq(text, 1, Len(text) - n) : n \in {1} \cap 1..Len(text)}

\* Mutant: a leading zero is let in.
MutAdmits(text, k) == k \in Digits \cup {ZeroKey}

\* match_num_chars passes on digits, and a zero only behind another digit.
Admits(text, k) == k \in Digits \/ (k = ZeroKey /\ text # << >>)

NumberEdits(text, bound) ==
  {t \in Edits(text, bound) : Len(t) > Len(text) => Admits(text, t[Len(t)])}

\* A key goes to the text area of f, which is activated.
TypeInto(f) ==
  /\ \E text \in IF f = "token_count" THEN NumberEdits(input[f], MaxLen[f])
                 ELSE Edits(input[f], MaxLen[f]) :
       input' = [input EXCEPT ![f] = text]
  /\ look' = [look EXCEPT ![f] = "active"]

(***************************************************************************)
(* The inputs of an encryption                                             *)
(***************************************************************************)
\* The fields in the order of Tab, as the flags tell handle_input.
EncInputs ==
  IF ~ display_contract_address_input THEN <<"password">>
  ELSE IF display_password_input
       THEN <<"password", "contract_address", "token_count">>
       ELSE <<"contract_address", "token_count">>

\* The fields render_encryption_inputs draws.
EncDrawn ==
  {f \in Inputs : \/ f = "password" /\ display_password_input
                 \/ /\ f \in {"contract_address", "token_count"}
                    /\ display_contract_address_input}

\* The field a key goes to; none if the selection is none of them.
EncFocus ==
  IF Len(EncInputs) = 1 THEN {EncInputs[1]}
  ELSE {EncInputs[i] : i \in {encrypt_input_selection + 1} \cap 1..Len(EncInputs)}

Filled(fields) == \A i \in 1..Len(fields) : input[fields[i]] # << >>

Members(fields) == {fields[i] : i \in 1..Len(fields)}

EncTab ==
  /\ On("EncryptionInputScreen")
  /\ Len(EncInputs) > 1
  /\ encrypt_input_selection' = (encrypt_input_selection + 1) % Len(EncInputs)
  /\ look' = Highlight(EncInputs[encrypt_input_selection' + 1], Members(EncInputs))
  /\ UNCHANGED <<current_screen, menu_state, intent_vars, generated_pubkey,
                 file_path, input, decrypt_input_selection, flag_vars,
                 is_encrypt_path, chosen>>

EncType ==
  /\ On("EncryptionInputScreen")
  /\ \E f \in EncFocus : TypeInto(f)
  /\ UNCHANGED <<current_screen, menu_state, intent_vars, generated_pubkey,
                 file_path, encrypt_input_selection, decrypt_input_selection,
                 flag_vars, is_encrypt_path, chosen>>

\* Enter with a field empty.
EncEnterEmpty ==
  /\ On("EncryptionInputScreen")
  /\ ~ Filled(EncInputs)
  /\ look' = Reproach(Members(EncInputs))
  /\ UNCHANGED <<current_screen, menu_state, intent_vars, generated_pubkey,
                 file_path, input, encrypt_input_selection,
                 decrypt_input_selection, flag_vars, is_encrypt_path, chosen>>

\* Mutant: the selection stays where it was.
MutFirstInput == encrypt_input_selection' = encrypt_input_selection

FirstInput == encrypt_input_selection' = 0

\* cleanup of encryption_screen; sr25519_intent stays what it was.
EncCleanup ==
  /\ reset_input_fields
  /\ file_path' = NoFile
  /\ ToMain
  /\ reset_intent_list
  /\ display_contract_address_input' = FALSE
  /\ display_password_input' = FALSE
  /\ FirstInput
  /\ UNCHANGED <<menu_state, decrypt_input_selection, sr25519_intent,
                 is_encrypt_path>>

EncEsc == On("EncryptionInputScreen") /\ EncCleanup

\* Enter with all filled in: handle_encrypt returns, and cleanup.
SubmitEncryption ==
  /\ On("EncryptionInputScreen")
  /\ Filled(EncInputs)
  /\ file_path # NoFile                      \* unwrap
  /\ EncCleanup

(***************************************************************************)
(* The inputs of a decryption                                              *)
(***************************************************************************)
DecInputs ==
  IF display_password_input THEN <<"filename", "password">> ELSE <<"filename">>

DecFocus ==
  IF display_password_input /\ decrypt_input_selection # 0
  THEN "password" ELSE "filename"

DecTab ==
  /\ On("DecryptScreen")
  /\ display_password_input
  /\ decrypt_input_selection' = (decrypt_input_selection + 1) % 2
  /\ look' = Highlight(DecInputs[decrypt_input_selection' + 1], Members(DecInputs))
  /\ UNCHANGED <<current_screen, menu_state, intent_vars, generated_pubkey,
                 file_path, input, encrypt_input_selection, flag_vars,
                 is_encrypt_path, chosen>>

DecType ==
  /\ On("DecryptScreen")
  /\ TypeInto(DecFocus)
  /\ UNCHANGED <<current_screen, menu_state, intent_vars, generated_pubkey,
                 file_path, encrypt_input_selection, decrypt_input_selection,
                 flag_vars, is_encrypt_path, chosen>>

DecEnterEmpty ==
  /\ On("DecryptScreen")
  /\ ~ Filled(DecInputs)
  /\ look' = Reproach(Members(DecInputs))
  /\ UNCHANGED <<current_screen, menu_state, intent_vars, generated_pubkey,
                 file_path, input, encrypt_input_selection,
                 decrypt_input_selection, flag_vars, is_encrypt_path, chosen>>

\* cleanup of decrypt_screen: the three flags stay what they were.
DecCleanup ==
  /\ ToMain
  /\ reset_input_fields
  /\ file_path' = NoFile
  /\ decrypt_input_selection' = 0
  /\ reset_intent_list
  /\ UNCHANGED <<menu_state, encrypt_input_selection, flag_vars,
                 is_encrypt_path>>

DecEsc == On("DecryptScreen") /\ DecCleanup

\* Enter with all filled in: handle_decrypt returns, and cleanup.
SubmitDecryption ==
  /\ On("DecryptScreen")
  /\ Filled(DecInputs)
  /\ DecCleanup

(***************************************************************************)
(* The end of the program                                                  *)
(***************************************************************************)
End ==
  /\ Goto("ended")
  /\ UNCHANGED <<menu_state, intent_vars, generated_pubkey, file_path,
                 field_vars, flag_vars, is_encrypt_path, chosen>>

Quit == On("Main") /\ End

\* A call that a key leads to panics: of the keystore from the main menu, of
\* handle_encrypt and handle_decrypt, or the unwrap of file_path.
CallPanics ==
  /\ \/ On("Main") /\ menu_state \in {0, 1}
     \/ On("IntentSelection") /\ is_encrypt_path /\ OnlySr25519
     \/ On("EncryptionInputScreen") /\ Filled(EncInputs)
     \/ On("DecryptScreen") /\ Filled(DecInputs)
  /\ End

(***************************************************************************)
(* The specification                                                       *)
(***************************************************************************)
ScreensInit ==
  /\ current_screen = "Main"
  /\ menu_state = 0
  /\ intent_list_state = 0
  /\ intent_list_items = [r \in Rows |-> FALSE]
  /\ generated_pubkey = FALSE
  /\ file_path = NoFile
  /\ input = NoInput
  /\ look = NewLook
  /\ encrypt_input_selection = 0
  /\ decrypt_input_selection = 0
  /\ display_password_input = FALSE
  /\ display_contract_address_input = FALSE
  /\ sr25519_intent = FALSE
  /\ is_encrypt_path = TRUE
  /\ chosen = NoFile

\* The keys that move between screens and fields, and those typed.
Navigate ==
  \/ MainMove \/ SelectKeys \/ SelectCipher \/ Close
  \/ \E file \in Files : SelectFile(file)
  \/ IntentsEsc \/ IntentsMove \/ IntentsToggle
  \/ IntentsEnterNone \/ IntentsEnterEncrypt \/ IntentsEnterDecrypt
  \/ EncTab \/ EncType \/ EncEnterEmpty \/ EncEsc
  \/ DecTab \/ DecType \/ DecEnterEmpty \/ DecEsc
  \/ Quit

ScreensNext ==
  \/ Navigate
  \/ IntentsEnterSr25519 \/ SubmitEncryption \/ SubmitDecryption
  \/ CallPanics

ScreensSpec == ScreensInit /\ [][ScreensNext]_screen_vars

(***************************************************************************)
(* Properties                                                              *)
(***************************************************************************)
ScreenNames == {"Main", "KeyResults", "EncryptFileSelectScreen",
                "EncryptionInputScreen", "DecryptScreen", "IntentSelection",
                "ended"}

\* What the fields of App hold: no row or selection goes past its list.
ScreensTypeOK ==
  /\ current_screen \in ScreenNames
  /\ menu_state \in 0..3
  /\ intent_list_state \in 0..2
  /\ intent_list_items \in [Rows -> BOOLEAN]
  /\ generated_pubkey \in BOOLEAN
  /\ file_path \in Files \cup {NoFile}
  /\ chosen \in Files \cup {NoFile}
  /\ input \in [Inputs -> Seq(Keys)]
  /\ look \in [Inputs -> {"active", "inactive", "error"}]
  /\ encrypt_input_selection \in 0..2
  /\ decrypt_input_selection \in 0..1
  /\ display_password_input \in BOOLEAN
  /\ display_contract_address_input \in BOOLEAN
  /\ sr25519_intent \in BOOLEAN
  /\ is_encrypt_path \in BOOLEAN

\* Whatever a dialogue was and wherever it was left (the two cleanups, Esc, a
\* submission), nothing of it is in the next one: no text but on the screen
\* that is being filled in, no intent marked and no selection moved on the main
\* menu, and no key but on the screen that shows it.
NothingLeftBehind ==
  /\ current_screen \in ScreenNames \ {"EncryptionInputScreen", "DecryptScreen", "ended"}
       => /\ input = NoInput
          /\ encrypt_input_selection = 0 /\ decrypt_input_selection = 0
  /\ On("Main") => /\ intent_list_state = 0
                   /\ \A r \in Rows : ~ intent_list_items[r]
  /\ generated_pubkey => current_screen \in {"KeyResults", "ended"}

\* The file that would be encrypted (file_path, unwrapped by the three
\* handle_encrypt_ functions and the SR25519 path) is the one chosen in this
\* dialogue, although Esc on the intents screen and the SR25519 path leave the
\* path of an earlier dialogue behind.
FileJustChosen ==
  (is_encrypt_path /\ current_screen \in {"IntentSelection", "EncryptionInputScreen"})
    => file_path = chosen /\ file_path # NoFile

\* On both input screens the keys go to a field that is drawn, and no other
\* field that is drawn looks active, whichever layout an earlier dialogue had.
FocusShown ==
  /\ On("EncryptionInputScreen") =>
       \E f \in EncFocus \cap EncDrawn :
         \A g \in EncDrawn \ {f} : look[g] # "active"
  /\ On("DecryptScreen") =>
       \A g \in Members(DecInputs) \ {DecFocus} : look[g] # "active"
==============================================================================
