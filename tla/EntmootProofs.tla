---------------------------- MODULE EntmootProofs ----------------------------
(***************************************************************************)
(* Proofs about entmoot: whatever keys are pressed, for any files, keys    *)
(* and lengths of text, the screens keep their four promises, and go on    *)
(* keeping them while they lock and open files.  Every file is locked with *)
(* what was marked and typed for it, and whoever marks and types that      *)
(* again is given what opens it.                                           *)
(***************************************************************************)
EXTENDS Entmoot, IntentsProofs

\* Where no dialogue is going on no intent is marked.
NoMarks ==
  current_screen \in {"Main", "KeyResults", "EncryptFileSelectScreen"} =>
    /\ intent_list_state = 0
    /\ \A r \in Rows : ~ intent_list_items[r]

\* What the way to a screen leaves in the flags and selections on it.
WayHere ==
  /\ On("EncryptFileSelectScreen") => is_encrypt_path
  /\ On("EncryptionInputScreen") =>
       /\ is_encrypt_path
       /\ display_password_input \/ display_contract_address_input
       /\ encrypt_input_selection < Len(EncInputs)
       /\ decrypt_input_selection = 0
  /\ On("DecryptScreen") =>
       /\ encrypt_input_selection = 0
       /\ ~ display_password_input => decrypt_input_selection = 0

ScreensInv ==
  /\ ScreensTypeOK /\ NothingLeftBehind /\ FileJustChosen /\ FocusShown
  /\ NoMarks /\ WayHere

\* reset_input_fields leaves fields of their type.
LEMMA EmptyIsText == NoInput \in [Inputs -> Seq(Keys)]
  BY DEF NoInput

\* A key leaves a text a text.
LEMMA EditsAreTexts ==
  ASSUME NEW text \in Seq(Keys), NEW bound
  PROVE  /\ Edits(text, bound) \subseteq Seq(Keys)
         /\ NumberEdits(text, bound) \subseteq Seq(Keys)
<1>1. ASSUME NEW n \in {1} \cap 1..Len(text)
      PROVE  SubSeq(text, 1, Len(text) - n) \in Seq(Keys)
  OBVIOUS
<1>2. ASSUME NEW k \in Keys
      PROVE  Append(text, k) \in Seq(Keys)
  OBVIOUS
<1> QED BY <1>1, <1>2 DEF Edits, NumberEdits

\* What typing into a field does.
LEMMA TypeIntoField ==
  ASSUME ScreensTypeOK, NEW f \in Inputs, TypeInto(f)
  PROVE  /\ input' \in [Inputs -> Seq(Keys)]
         /\ look' = [look EXCEPT ![f] = "active"]
<1>1. input[f] \in Seq(Keys)
  BY DEF ScreensTypeOK
<1>2. PICK text \in Seq(Keys) : input' = [input EXCEPT ![f] = text]
  BY <1>1, EditsAreTexts DEF TypeInto
<1> QED BY <1>2 DEF TypeInto, ScreensTypeOK

\* Leaving the encryption leads to a clean main menu.
LEMMA EncCleanupInv ==
  ASSUME ScreensInv, EncCleanup,
         decrypt_input_selection = 0
  PROVE  ScreensInv'
<1>1. /\ current_screen' = "Main" /\ file_path' = NoFile /\ chosen' = NoFile
      /\ generated_pubkey' = FALSE
      /\ intent_list_state' = 0 /\ intent_list_items' = [r \in Rows |-> FALSE]
      /\ input' = NoInput /\ look' = NewLook
      /\ display_password_input' = FALSE /\ display_contract_address_input' = FALSE
      /\ encrypt_input_selection' = 0
      /\ UNCHANGED <<menu_state, decrypt_input_selection, sr25519_intent,
                     is_encrypt_path>>
  BY DEF EncCleanup, reset_input_fields, EmptyFields, ToMain, reset_intent_list, FirstInput
<1>2. input' \in [Inputs -> Seq(Keys)]
  BY <1>1, EmptyIsText
<1>3. look' \in [Inputs -> {"active", "inactive", "error"}]
  BY <1>1 DEF NewLook
<1>4. intent_list_items' \in [Rows -> BOOLEAN]
  BY <1>1
<1>5. ScreensTypeOK'
  <2>1. /\ current_screen' \in ScreenNames
        /\ menu_state' \in 0..3 /\ intent_list_state' \in 0..2
        /\ encrypt_input_selection' \in 0..2 /\ decrypt_input_selection' \in 0..1
    BY <1>1 DEF ScreensInv, ScreensTypeOK, ScreenNames
  <2>2. /\ file_path' \in Files \cup {NoFile} /\ chosen' \in Files \cup {NoFile}
        /\ generated_pubkey' \in BOOLEAN
    BY <1>1
  <2>3. /\ display_password_input' \in BOOLEAN
        /\ display_contract_address_input' \in BOOLEAN
        /\ sr25519_intent' \in BOOLEAN /\ is_encrypt_path' \in BOOLEAN
    BY <1>1 DEF ScreensInv, ScreensTypeOK
  <2> QED BY <1>2, <1>3, <1>4, <2>1, <2>2, <2>3 DEF ScreensTypeOK
<1>6. NothingLeftBehind' /\ NoMarks'
  BY <1>1 DEF NothingLeftBehind, NoMarks, On, ScreenNames
<1>7. FileJustChosen' /\ FocusShown' /\ WayHere'
  BY <1>1 DEF FileJustChosen, FocusShown, WayHere, On
<1> QED BY <1>5, <1>6, <1>7 DEF ScreensInv

\* So does leaving the decryption.
LEMMA DecCleanupInv ==
  ASSUME ScreensInv, DecCleanup,
         encrypt_input_selection = 0
  PROVE  ScreensInv'
<1>1. /\ current_screen' = "Main" /\ file_path' = NoFile /\ chosen' = NoFile
      /\ generated_pubkey' = FALSE
      /\ intent_list_state' = 0 /\ intent_list_items' = [r \in Rows |-> FALSE]
      /\ input' = NoInput /\ look' = NewLook
      /\ decrypt_input_selection' = 0
      /\ UNCHANGED <<menu_state, encrypt_input_selection, display_password_input,
           display_contract_address_input, sr25519_intent, is_encrypt_path>>
  BY DEF DecCleanup, reset_input_fields, EmptyFields, ToMain, reset_intent_list, flag_vars
<1>2. input' \in [Inputs -> Seq(Keys)]
  BY <1>1, EmptyIsText
<1>3. look' \in [Inputs -> {"active", "inactive", "error"}]
  BY <1>1 DEF NewLook
<1>4. intent_list_items' \in [Rows -> BOOLEAN]
  BY <1>1
<1>5. ScreensTypeOK'
  <2>1. /\ current_screen' \in ScreenNames
        /\ menu_state' \in 0..3 /\ intent_list_state' \in 0..2
        /\ encrypt_input_selection' \in 0..2 /\ decrypt_input_selection' \in 0..1
    BY <1>1 DEF ScreensInv, ScreensTypeOK, ScreenNames
  <2>2. /\ file_path' \in Files \cup {NoFile} /\ chosen' \in Files \cup {NoFile}
        /\ generated_pubkey' \in BOOLEAN
    BY <1>1
  <2>3. /\ display_password_input' \in BOOLEAN
        /\ display_contract_address_input' \in BOOLEAN
        /\ sr25519_intent' \in BOOLEAN /\ is_encrypt_path' \in BOOLEAN
    BY <1>1 DEF ScreensInv, ScreensTypeOK
  <2> QED BY <1>2, <1>3, <1>4, <2>1, <2>2, <2>3 DEF ScreensTypeOK
<1>6. NothingLeftBehind' /\ NoMarks'
  BY <1>1 DEF NothingLeftBehind, NoMarks, On, ScreenNames
<1>7. FileJustChosen' /\ FocusShown' /\ WayHere'
  BY <1>1 DEF FileJustChosen, FocusShown, WayHere, On
<1> QED BY <1>5, <1>6, <1>7 DEF ScreensInv

\* Typing changes the text and the look of the field in focus only.
LEMMA EncTypeInv ==
  ASSUME ScreensInv, EncType
  PROVE  ScreensInv'
<1>1. PICK f \in EncFocus : TypeInto(f)
  BY DEF EncType
<1>2. f \in Inputs
  BY <1>1 DEF EncFocus, EncInputs, Inputs, ScreensInv, ScreensTypeOK
<1>3. /\ input' \in [Inputs -> Seq(Keys)]
      /\ look' = [look EXCEPT ![f] = "active"]
  BY <1>1, <1>2, TypeIntoField DEF ScreensInv
<1> USE ScreensAssumption DEF ScreensInv, ScreensTypeOK, NothingLeftBehind,
         FileJustChosen, FocusShown, NoMarks, WayHere, DecFocus, DecInputs,
         EncDrawn, EncFocus, EncInputs, Goto, Inputs, Members, On, Rows,
         ScreenNames
<1> QED BY <1>1, <1>2, <1>3 DEF EncType, intent_vars, flag_vars

\* The same for the decryption.
LEMMA DecTypeInv ==
  ASSUME ScreensInv, DecType
  PROVE  ScreensInv'
<1>1. DecFocus \in Inputs
  BY DEF DecFocus, Inputs
<1>2. /\ input' \in [Inputs -> Seq(Keys)]
      /\ look' = [look EXCEPT ![DecFocus] = "active"]
  BY <1>1, TypeIntoField DEF ScreensInv, DecType
<1> USE ScreensAssumption DEF ScreensInv, ScreensTypeOK, NothingLeftBehind,
         FileJustChosen, FocusShown, NoMarks, WayHere, DecFocus, DecInputs,
         EncDrawn, EncFocus, EncInputs, Goto, Inputs, Members, On, Rows,
         ScreenNames
<1> QED BY <1>1, <1>2, SMTT(30) DEF DecType, intent_vars, flag_vars

\* The members of short tuples.
LEMMA MembersOf ==
  ASSUME NEW a, NEW b, NEW c
  PROVE  /\ Members(<<a, b>>) = {a, b}
         /\ Members(<<a, b, c>>) = {a, b, c}
<1>1. Len(<<a, b>>) = 2 /\ Len(<<a, b, c>>) = 3
  OBVIOUS
<1>2. 1..2 = {1, 2} /\ 1..3 = {1, 2, 3}
  OBVIOUS
<1> QED BY <1>1, <1>2 DEF Members

\* Where there is more than one field to fill in, Tab goes round those drawn.
LEMMA TabOrder ==
  ASSUME ScreensTypeOK, Len(EncInputs) > 1
  PROVE  /\ Len(EncInputs) \in {2, 3}
         /\ Members(EncInputs) = EncDrawn
         /\ EncDrawn \subseteq Inputs
<1>1. display_contract_address_input
  BY DEF EncInputs, ScreensTypeOK
<1>2. CASE display_password_input
  <2>1. EncInputs = <<"password", "contract_address", "token_count">>
    BY <1>1, <1>2 DEF EncInputs
  <2>2. EncDrawn = {"password", "contract_address", "token_count"}
    BY <1>1, <1>2 DEF EncDrawn, Inputs
  <2>3. Len(EncInputs) = 3
    BY <2>1
  <2> QED BY <2>1, <2>2, <2>3, MembersOf DEF Inputs
<1>3. CASE ~ display_password_input
  <2>1. EncInputs = <<"contract_address", "token_count">>
    BY <1>1, <1>3 DEF EncInputs
  <2>2. EncDrawn = {"contract_address", "token_count"}
    BY <1>1, <1>3 DEF EncDrawn, Inputs
  <2>3. Len(EncInputs) = 2
    BY <2>1
  <2> QED BY <2>1, <2>2, <2>3, MembersOf DEF Inputs
<1> QED BY <1>2, <1>3

\* Tab moves the focus to another field that is drawn, and its look with it.
LEMMA EncTabInv ==
  ASSUME ScreensInv, EncTab
  PROVE  ScreensInv'
<1> DEFINE i == encrypt_input_selection' + 1
<1>1. UNCHANGED <<EncInputs, EncDrawn, current_screen>>
  BY DEF EncTab, flag_vars, EncInputs, EncDrawn
<1>2. /\ Len(EncInputs) \in {2, 3} /\ EncDrawn \subseteq Inputs
      /\ Members(EncInputs) = EncDrawn
  BY TabOrder DEF EncTab, ScreensInv
<1>3. /\ i \in 1..Len(EncInputs) /\ encrypt_input_selection' \in 0..2
      /\ encrypt_input_selection' < Len(EncInputs)
  <2>1. /\ encrypt_input_selection \in 0..2
        /\ encrypt_input_selection' = (encrypt_input_selection + 1) % Len(EncInputs)
    BY DEF EncTab, ScreensInv, ScreensTypeOK
  <2>2. CASE Len(EncInputs) = 2
    BY <2>1, <2>2
  <2>3. CASE Len(EncInputs) = 3
    BY <2>1, <2>3
  <2> QED BY <1>2, <2>2, <2>3
<1>4. EncInputs[i] \in EncDrawn
  BY <1>2, <1>3 DEF Members
<1>5. EncFocus' = {EncInputs[i]}
  <2>1. Len(EncInputs) # 1
    BY <1>2
  <2>2. \A S : i \in S => {i} \cap S = {i}
    OBVIOUS
  <2>3. EncFocus' = {EncInputs[k] : k \in {i} \cap 1..Len(EncInputs)}
    BY <1>1, <2>1 DEF EncFocus
  <2> QED BY <1>3, <2>2, <2>3
<1>6. /\ look' \in [Inputs -> {"active", "inactive", "error"}]
      /\ \A g \in EncDrawn \ {EncInputs[i]} : look'[g] # "active"
  BY <1>2, <1>4 DEF EncTab, Highlight, ScreensInv, ScreensTypeOK
<1>7. FocusShown'
  BY <1>1, <1>4, <1>5, <1>6 DEF EncTab, FocusShown, On
<1>8. ScreensTypeOK'
  BY <1>3, <1>6 DEF EncTab, ScreensInv, ScreensTypeOK, intent_vars, flag_vars
<1>9. NothingLeftBehind' /\ NoMarks' /\ FileJustChosen'
  BY DEF EncTab, ScreensInv, NothingLeftBehind, NoMarks, FileJustChosen, On,
     ScreenNames, intent_vars, flag_vars
<1>10. WayHere'
  BY <1>1, <1>3 DEF EncTab, ScreensInv, WayHere, On, flag_vars
<1> QED BY <1>7, <1>8, <1>9, <1>10 DEF ScreensInv

\* A key is shown on the screen for it.
LEMMA SelectKeysInv ==
  ASSUME ScreensInv, SelectKeys
  PROVE  ScreensInv'
<1> USE ScreensAssumption DEF ScreensInv, ScreensTypeOK, NothingLeftBehind,
         FileJustChosen, FocusShown, NoMarks, WayHere, DecFocus, DecInputs,
         EncDrawn, EncFocus, EncInputs, Goto, Inputs, Members, On, Rows,
         ScreenNames
<1>1. generated_pubkey' \in BOOLEAN /\ current_screen' \in {"Main", "KeyResults"}
  BY DEF SelectKeys
<1>2. ScreensTypeOK'
  BY <1>1 DEF SelectKeys, intent_vars, flag_vars, field_vars
<1>3. NothingLeftBehind'
  BY DEF SelectKeys, intent_vars, flag_vars, field_vars
<1>4. FileJustChosen' /\ FocusShown' /\ NoMarks' /\ WayHere'
  BY <1>1, SMTT(30) DEF SelectKeys, intent_vars, flag_vars, field_vars
<1> QED BY <1>2, <1>3, <1>4

\* Every key preserves the invariant.
LEMMA NextInv ==
  ASSUME ScreensInv, [ScreensNext]_screen_vars
  PROVE  ScreensInv'
<1> USE ScreensAssumption DEF ScreensInv, ScreensTypeOK, NothingLeftBehind,
         FileJustChosen, FocusShown, NoMarks, WayHere, DecFocus, DecInputs,
         EncDrawn, EncFocus, EncInputs, Goto, Inputs, Members, On, Rows,
         ScreenNames
<1>1. CASE MainMove
  BY <1>1 DEF MainMove, Turn, field_vars, flag_vars, intent_vars
<1>2. CASE SelectKeys
  BY <1>2, SelectKeysInv
<1>3. CASE SelectCipher
  BY <1>3 DEF SelectCipher, field_vars, flag_vars, intent_vars
<1>4. CASE Close
  BY <1>4 DEF Close, ToMain, field_vars, flag_vars, intent_vars
<1>5. ASSUME NEW file \in Files, SelectFile(file) PROVE ScreensInv'
  BY <1>5 DEF SelectFile, PathAfter, intent_vars, flag_vars, field_vars
<1>6. CASE IntentsEsc
  BY <1>6 DEF IntentsEsc, ToMain, field_vars, flag_vars, reset_intent_list
<1>7. CASE IntentsMove
  BY <1>7 DEF IntentsMove, Turn, field_vars, flag_vars
<1>8. CASE IntentsToggle
  BY <1>8 DEF IntentsToggle, RowAt, field_vars, flag_vars
<1>9. CASE IntentsEnterNone
  BY <1>9 DEF IntentsEnterNone, CopyChoice, NoneChosen, field_vars,
      intent_vars
<1>10. CASE IntentsEnterEncrypt
  BY <1>10 DEF IntentsEnterEncrypt, CopyChoice, Highlight, NoneChosen,
      OnlySr25519, intent_vars
<1>11. CASE IntentsEnterDecrypt
  BY <1>11 DEF IntentsEnterDecrypt, CopyChoice, Highlight, NoneChosen,
      intent_vars
<1>12. CASE EncTab
  BY <1>12, EncTabInv
<1>13. CASE EncType
  BY <1>13, EncTypeInv
<1>14. CASE EncEnterEmpty
  BY <1>14, SMTT(30) DEF EncEnterEmpty, Filled, Reproach, flag_vars, intent_vars
<1>15. CASE EncEsc
  BY <1>15, EncCleanupInv DEF EncEsc
<1>16. CASE DecTab
  BY <1>16 DEF DecTab, Highlight, flag_vars, intent_vars
<1>17. CASE DecType
  BY <1>17, DecTypeInv
<1>18. CASE DecEnterEmpty
  BY <1>18 DEF DecEnterEmpty, Filled, Reproach, flag_vars, intent_vars
<1>19. CASE DecEsc
  BY <1>19, DecCleanupInv DEF DecEsc
<1>20. CASE Quit
  BY <1>20 DEF Quit, End, field_vars, flag_vars, intent_vars
<1>21. CASE IntentsEnterSr25519
  BY <1>21 DEF IntentsEnterSr25519, ToMain, field_vars, reset_intent_list
<1>22. CASE SubmitEncryption
  BY <1>22, EncCleanupInv DEF SubmitEncryption
<1>23. CASE SubmitDecryption
  BY <1>23, DecCleanupInv DEF SubmitDecryption
<1>24. CASE CallPanics
  BY <1>24 DEF CallPanics, End, Filled, OnlySr25519, field_vars, flag_vars,
      intent_vars
<1>25. CASE UNCHANGED screen_vars
  BY <1>25 DEF screen_vars, intent_vars, flag_vars, field_vars
<1> QED BY <1>1, <1>2, <1>3, <1>4, <1>5, <1>6, <1>7, <1>8, <1>9, <1>10,
      <1>11, <1>12, <1>13, <1>14, <1>15, <1>16, <1>17, <1>18, <1>19, <1>20,
      <1>21, <1>22, <1>23, <1>24, <1>25 DEF ScreensNext, Navigate

\* The invariant holds in every behaviour.
LEMMA ScreensInvariant == ScreensSpec => []ScreensInv
<1>1. ScreensInit => ScreensInv
  <2> SUFFICES ASSUME ScreensInit PROVE ScreensInv
    OBVIOUS
  <2>1. ScreensTypeOK
    <3>1. input \in [Inputs -> Seq(Keys)]
      BY EmptyIsText DEF ScreensInit
    <3>2. look \in [Inputs -> {"active", "inactive", "error"}]
      BY DEF ScreensInit, NewLook
    <3>3. intent_list_items \in [Rows -> BOOLEAN]
      BY DEF ScreensInit
    <3>4. /\ current_screen \in ScreenNames
          /\ menu_state \in 0..3 /\ intent_list_state \in 0..2
          /\ encrypt_input_selection \in 0..2 /\ decrypt_input_selection \in 0..1
      BY DEF ScreensInit, ScreenNames
    <3>5. /\ file_path \in Files \cup {NoFile} /\ chosen \in Files \cup {NoFile}
          /\ generated_pubkey \in BOOLEAN /\ display_password_input \in BOOLEAN
          /\ display_contract_address_input \in BOOLEAN
          /\ sr25519_intent \in BOOLEAN /\ is_encrypt_path \in BOOLEAN
      BY DEF ScreensInit
    <3> QED BY <3>1, <3>2, <3>3, <3>4, <3>5 DEF ScreensTypeOK
  <2>2. NothingLeftBehind /\ NoMarks
    BY DEF ScreensInit, NothingLeftBehind, NoMarks, On
  <2>3. FileJustChosen /\ FocusShown /\ WayHere
    BY DEF ScreensInit, FileJustChosen, FocusShown, WayHere, On
  <2> QED BY <2>1, <2>2, <2>3 DEF ScreensInv
<1> QED BY <1>1, NextInv, PTL DEF ScreensSpec

\* The fields of App keep their types: no key moves a selection past its list,
\* and texts stay texts.
THEOREM ScreensTypeCorrect == ScreensSpec => []ScreensTypeOK
  BY ScreensInvariant, PTL DEF ScreensInv

\* No text, mark, selection or key of a dialogue is in the next one, whatever
\* keys ended it.
THEOREM ScreensLeaveNothing == ScreensSpec => []NothingLeftBehind
  BY ScreensInvariant, PTL DEF ScreensInv

\* The path an encryption unwraps is there, and is that of the file chosen in
\* this dialogue.
THEOREM ScreensFileChosen == ScreensSpec => []FileJustChosen
  BY ScreensInvariant, PTL DEF ScreensInv

\* Keys go to a field that is drawn, and no other drawn field looks active.
THEOREM ScreensFocus == ScreensSpec => []FocusShown
  BY ScreensInvariant, PTL DEF ScreensInv

(***************************************************************************)
(* The screens while they lock and open files: every behaviour of Entmoot  *)
(* is one of Screens.                                                      *)
(***************************************************************************)
\* Every key that entmoot takes is a key of the screens, whatever it makes of
\* the registry; what others do to the registry leaves the screens alone.
THEOREM EntmootUsesScreens == Spec => ScreensSpec
<1>1. Init => ScreensInit
  BY DEF Init
<1>2. [Next]_vars => [ScreensNext]_screen_vars
  <2>1. EncryptThenPanic => CallPanics
    BY DEF EncryptThenPanic, CallPanics
  <2>2. ASSUME Next PROVE [ScreensNext]_screen_vars
    BY <2>1, <2>2 DEF Next, Key, EncryptFilled, EncryptAtOnce, Removed, ScreensNext
  <2>3. ASSUME UNCHANGED vars PROVE UNCHANGED screen_vars
    BY <2>3 DEF vars
  <2> QED BY <2>2, <2>3
<1> QED BY <1>1, <1>2, PTL DEF Spec, ScreensSpec

\* So the text, the file and the focus are what the screens promise when a file
\* is encrypted or opened.
THEOREM EntmootKeepsScreens ==
  Spec => [](NothingLeftBehind /\ FileJustChosen /\ FocusShown)
  BY EntmootUsesScreens, ScreensInvariant, PTL DEF ScreensInv

(***************************************************************************)
(* The inductive invariant: what is typed for a number, which rows were    *)
(* marked when an input screen was reached, and what each registered file  *)
(* was locked with.                                                        *)
(***************************************************************************)
\* The token counts match_num_chars lets in.
NumberTexts ==
  {s \in Seq(Digits \cup {ZeroKey}) :
     Len(s) <= MaxLen["token_count"] /\ (s # << >> => s[1] \in Digits)}

CountTyped == input["token_count"] \in NumberTexts

FlagsSet ==
  current_screen \in {"EncryptionInputScreen", "DecryptScreen"} =>
    /\ display_password_input = intent_list_items["Password"]
    /\ display_contract_address_input = intent_list_items["PSP22"]
    /\ sr25519_intent = intent_list_items["SR25519"]

Named(type, data) == [type |-> type, data |-> data]

\* The data of the Psp22 intent for what was typed.
Holder(typed) ==
  typed["contract_address"] \o <<",", Blank, Numeral[typed["token_count"]]>>

\* The intents for the rows that were marked.
MeantBy(rows, typed) ==
  OnlyIf(rows["Password"], Named(<<"Password">>, typed["password"]))
  \o OnlyIf(rows["PSP22"], Named(<<"Psp22">>, Holder(typed)))
  \o OnlyIf(rows["SR25519"], Named(<<"Sr25519">>, << >>))

\* Their text, as handle_encrypt is given it.
TextMeant(rows, typed) ==
  Join(OnlyIf(rows["Password"], Between("Password", typed["password"]))
       \o OnlyIf(rows["PSP22"], Between("Psp22", Holder(typed)))
       \o OnlyIf(rows["SR25519"], Between("Sr25519", << >>)),
       <<Blank, "&&", Blank>>)

LockedAs(lock, predicate) ==
  /\ lock.rows \in [Rows -> BOOLEAN] /\ \E r \in Rows : lock.rows[r]
  /\ lock.typed \in [Inputs -> Seq(Keys)]
  /\ lock.typed["token_count"] \in NumberTexts
  /\ lock.rows["PSP22"] => lock.typed["token_count"] # << >>
  /\ ParsesOk(TextMeant(lock.rows, lock.typed))
  /\ predicate = ParseIntents(TextMeant(lock.rows, lock.typed))

Locked ==
  /\ DOMAIN locked = DOMAIN predicate_registry
  /\ \A f \in DOMAIN locked : LockedAs(locked[f], predicate_registry[f].predicate)

EntmootInv == ScreensInv /\ CountTyped /\ FlagsSet /\ Locked

\* An empty token count is one that is let in.
LEMMA NoCount == NoInput["token_count"] \in NumberTexts
<1>1. MaxLen["token_count"] \in Nat
  BY ScreensAssumption
<1>2. << >> \in Seq(Digits \cup {ZeroKey}) /\ Len(<< >>) = 0
  OBVIOUS
<1> QED BY <1>1, <1>2 DEF NumberTexts, NoInput, Inputs

\* Typing into the token count admits no leading zero, nor does deleting.
LEMMA NumberEditsKept ==
  ASSUME NEW text \in NumberTexts,
         NEW t \in NumberEdits(text, MaxLen["token_count"])
  PROVE  t \in NumberTexts
<1> DEFINE D == Digits \cup {ZeroKey}
           max == MaxLen["token_count"]
<1>1. text \in Seq(D) /\ Len(text) <= max /\ (text # << >> => text[1] \in Digits)
  BY DEF NumberTexts
<1>2. max \in Nat /\ Len(text) \in Nat
  BY <1>1, ScreensAssumption, LenProperties
<1>a. ASSUME NEW u \in Seq(D), Len(u) <= max, u # << >> => u[1] \in Digits
      PROVE  u \in NumberTexts
  BY <1>a DEF NumberTexts
<1>3. CASE t = text
  BY <1>3
<1>4. ASSUME NEW k \in Keys, Len(text) < max, t = Append(text, k) PROVE t \in NumberTexts
  <2>1. Len(t) = Len(text) + 1 /\ t[Len(text) + 1] = k
    BY <1>1, <1>4
  <2>2. Admits(text, k)
    <3>1. Len(t) > Len(text) => Admits(text, t[Len(t)])
      BY DEF NumberEdits
    <3> QED BY <1>2, <2>1, <3>1
  <2>3. k \in D
    BY <2>2 DEF Admits
  <2>4. t \in Seq(D)
    BY <1>1, <1>4, <2>3
  <2>5. t[1] \in Digits
    <3>1. CASE text = << >>
      BY <1>1, <2>1, <2>2, <3>1 DEF Admits
    <3>2. CASE text # << >>
      <4>1. Len(text) >= 1
        BY <1>1, <3>2, EmptySeq, LenProperties
      <4>2. t[1] = text[1]
        BY <1>1, <1>4, <4>1
      <4> QED BY <1>1, <3>2, <4>2
    <3> QED BY <3>1, <3>2
  <2>6. Len(t) <= max
    BY <1>2, <1>4, <2>1
  <2> QED BY <1>a, <2>4, <2>5, <2>6
<1>5. ASSUME Len(text) >= 1, t = SubSeq(text, 1, Len(text) - 1) PROVE t \in NumberTexts
  <2>1. t \in Seq(D) /\ Len(t) = Len(text) - 1 /\ \A i \in 1..(Len(text) - 1) : t[i] = text[i]
    <3> DEFINE n == Len(text) - 1
    <3>1. n \in 0..Len(text) /\ 1 + n - 1 = n
      BY <1>2, <1>5
    <3>2. \A i \in 1..n : text[i] \in D
      BY <1>1, <1>2, ElementOfSeq
    <3> HIDE DEF n
    <3>3. SubSeq(text, 1, n) = [i \in 1..n |-> text[i]]
      BY <1>1, <3>1
    <3>4. [i \in 1..n |-> text[i]] \in Seq(D) /\ Len([i \in 1..n |-> text[i]]) = n
      BY <3>1, <3>2, IsASeq
    <3>5. t = SubSeq(text, 1, n)
      BY <1>5 DEF n
    <3> QED BY <3>3, <3>4, <3>5 DEF n
  <2>2. t # << >> => t[1] \in Digits
    <3> SUFFICES ASSUME t # << >> PROVE t[1] \in Digits
      OBVIOUS
    <3>1. Len(t) >= 1
      BY <2>1, EmptySeq, LenProperties
    <3>2. t[1] = text[1]
      BY <1>2, <2>1, <3>1
    <3>3. text # << >>
      BY <1>5
    <3> QED BY <1>1, <3>2, <3>3
  <2> QED BY <1>1, <1>2, <2>1, <2>2 DEF NumberTexts
<1>6. t \in Edits(text, max)
  BY DEF NumberEdits
<1>7. CASE \E k \in Keys : Len(text) < max /\ t = Append(text, k)
  BY <1>4, <1>7
<1>8. CASE \E n \in {1} \cap 1..Len(text) : t = SubSeq(text, 1, Len(text) - n)
  BY <1>2, <1>5, <1>8
<1> QED BY <1>3, <1>6, <1>7, <1>8 DEF Edits

\* No key puts anything else in the token count.
LEMMA CountKept ==
  ASSUME EntmootInv, [Next]_vars
  PROVE  CountTyped'
<1>1. input["token_count"] \in NumberTexts
  BY DEF EntmootInv, CountTyped
<1>2. CASE input' = input
  BY <1>1, <1>2 DEF CountTyped
<1>3. CASE input' = NoInput
  BY <1>3, NoCount DEF CountTyped
<1>4. ASSUME NEW f \in Inputs, TypeInto(f) PROVE CountTyped'
  <2>1. input \in [Inputs -> Seq(Keys)] /\ "token_count" \in Inputs
    BY DEF EntmootInv, ScreensInv, ScreensTypeOK, Inputs
  <2>2. CASE f # "token_count"
    BY <1>1, <1>4, <2>1, <2>2 DEF TypeInto, CountTyped
  <2>3. CASE f = "token_count"
    <3>1. PICK t \in NumberEdits(input[f], MaxLen[f]) : input' = [input EXCEPT ![f] = t]
      BY <1>4, <2>3 DEF TypeInto
    <3>2. t \in NumberTexts
      BY <1>1, <2>3, <3>1, NumberEditsKept
    <3> QED BY <2>1, <2>3, <3>1, <3>2 DEF CountTyped
  <2> QED BY <2>2, <2>3
<1>5. CASE EncType
  <2>1. EncFocus \subseteq Inputs
    BY DEF EncFocus, EncInputs, Inputs
  <2> QED BY <1>4, <1>5, <2>1 DEF EncType
<1>6. CASE DecType
  <2>1. DecFocus \in Inputs
    BY DEF DecFocus, Inputs
  <2> QED BY <1>4, <1>6, <2>1 DEF DecType
<1>7. CASE Removed \/ UNCHANGED vars
  BY <1>2, <1>7 DEF Removed, vars, screen_vars, field_vars
<1>8. CASE EncryptFilled \/ EncryptAtOnce \/ EncryptThenPanic
  BY <1>2, <1>3, <1>8 DEF EncryptFilled, EncryptAtOnce, EncryptThenPanic,
     SubmitEncryption, IntentsEnterSr25519, End, EncCleanup, reset_input_fields,
     EmptyFields, field_vars
<1>9. CASE SubmitDecryption \/ CallPanics
  BY <1>2, <1>3, <1>9 DEF SubmitDecryption, CallPanics, End, DecCleanup,
     reset_input_fields, EmptyFields, field_vars
<1>10. CASE Navigate
  BY <1>2, <1>3, <1>5, <1>6, <1>10 DEF Navigate, MainMove, SelectKeys, SelectCipher,
     Close, SelectFile, IntentsEsc, IntentsMove, IntentsToggle, IntentsEnterNone,
     IntentsEnterEncrypt, IntentsEnterDecrypt, EncTab, EncEnterEmpty, EncEsc,
     DecTab, DecEnterEmpty, DecEsc, Quit, End, EncCleanup, DecCleanup,
     reset_input_fields, EmptyFields, field_vars
<1> QED BY <1>7, <1>8, <1>9, <1>10 DEF Next, Key

\* The flags on the input screens are the marks they were copied from.
LEMMA FlagsKept ==
  ASSUME EntmootInv, [Next]_vars
  PROVE  FlagsSet'
<1> USE DEF FlagsSet, Goto, On
<1>1. FlagsSet
  BY DEF EntmootInv
<1>2. CASE UNCHANGED <<current_screen, intent_vars, flag_vars>>
  BY <1>1, <1>2 DEF intent_vars, flag_vars
<1>3. CASE current_screen' \notin {"EncryptionInputScreen", "DecryptScreen"}
  BY <1>3
<1>4. CASE IntentsEnterEncrypt \/ IntentsEnterDecrypt
  BY <1>4 DEF IntentsEnterEncrypt, IntentsEnterDecrypt, CopyChoice, intent_vars
<1>5. CASE Removed \/ UNCHANGED vars
  BY <1>2, <1>5 DEF Removed, vars, screen_vars
<1>6. CASE EncryptFilled \/ EncryptAtOnce \/ EncryptThenPanic \/ SubmitDecryption \/ CallPanics
  BY <1>3, <1>6 DEF EncryptFilled, EncryptAtOnce, EncryptThenPanic, SubmitDecryption,
     SubmitEncryption, IntentsEnterSr25519, End, EncCleanup, DecCleanup, ToMain, CallPanics
<1>7. CASE Navigate
  <2>1. CASE MainMove \/ IntentsMove \/ IntentsToggle \/ IntentsEnterNone \/ SelectKeys
             \/ SelectCipher \/ Close \/ (\E file \in Files : SelectFile(file))
             \/ IntentsEsc \/ EncEsc \/ DecEsc \/ Quit
    BY <1>3, <2>1 DEF MainMove, IntentsMove, IntentsToggle, IntentsEnterNone, SelectKeys,
       SelectCipher, Close, SelectFile, IntentsEsc, EncEsc, DecEsc, Quit, EncCleanup,
       DecCleanup, ToMain, End
  <2>2. CASE EncTab \/ EncType \/ EncEnterEmpty \/ DecTab \/ DecType \/ DecEnterEmpty
    BY <1>2, <2>2 DEF EncTab, EncType, EncEnterEmpty, DecTab, DecType, DecEnterEmpty
  <2> QED BY <1>4, <1>7, <2>1, <2>2 DEF Navigate
<1> QED BY <1>5, <1>6, <1>7 DEF Next, Key

(***************************************************************************)
(* A registration locks a file with the intents that were marked.          *)
(***************************************************************************)
LEMMA TakeIs ==
  ASSUME NEW m, NEW k
  PROVE  /\ DOMAIN Take(m, k) = DOMAIN m \ {k}
         /\ \A j \in DOMAIN Take(m, k) : Take(m, k)[j] = m[j]
  BY DEF Take

\* handle_encrypt registers what the marks and the texts of this dialogue mean.
LEMMA HandleEncryptLocks ==
  ASSUME Locked, input \in [Inputs -> Seq(Keys)], CountTyped,
         intent_list_items \in [Rows -> BOOLEAN],
         NEW row \in Rows, intent_list_items[row],
         intent_list_items["PSP22"] => input["token_count"] # << >>,
         handle_encrypt(TextMeant(intent_list_items, input))
  PROVE  Locked'
<1> DEFINE text == TextMeant(intent_list_items, input)
           name == file_path.name
           lock == [rows |-> intent_list_items, typed |-> input]
           entry == [cid |-> [dir |-> Cwd, name |-> name], predicate |-> ParseIntents(text)]
<1>1. /\ ParsesOk(text)
      /\ name \notin DOMAIN predicate_registry
      /\ predicate_registry' = Insert(predicate_registry, name, entry)
      /\ locked' = Insert(locked, name, lock)
  BY DEF handle_encrypt, register_predicate, IsFree
<1>2. LockedAs(lock, entry.predicate)
  <2>1. entry.predicate = ParseIntents(text) /\ lock.rows = intent_list_items /\ lock.typed = input
    OBVIOUS
  <2> HIDE DEF lock, entry
  <2> QED BY <1>1, <2>1 DEF LockedAs, CountTyped
<1> HIDE DEF entry, lock, text, name
<1>3. /\ DOMAIN locked' = DOMAIN locked \cup {name}
      /\ locked'[name] = lock
      /\ \A f \in DOMAIN locked : f # name => locked'[f] = locked[f]
  <2> DEFINE n == locked'
  <2>1. n = Insert(locked, name, lock)
    BY <1>1
  <2> HIDE DEF n
  <2>2. DOMAIN n = DOMAIN locked \cup {name}
    BY <2>1 DEF Insert
  <2>3. n[name] = lock
    BY <2>1 DEF Insert
  <2>4. \A f \in DOMAIN locked : f # name => n[f] = locked[f]
    BY <2>1 DEF Insert
  <2> QED BY <2>2, <2>3, <2>4 DEF n
<1>4. /\ DOMAIN predicate_registry' = DOMAIN predicate_registry \cup {name}
      /\ predicate_registry'[name] = entry
      /\ \A f \in DOMAIN predicate_registry :
           f # name => predicate_registry'[f] = predicate_registry[f]
  <2>1. predicate_registry' = Insert(predicate_registry, name, entry)
    BY <1>1
  <2> QED BY <2>1 DEF Insert
<1>5. DOMAIN locked = DOMAIN predicate_registry
  BY DEF Locked
<1>6. ASSUME NEW f \in DOMAIN locked'
      PROVE  LockedAs(locked'[f], predicate_registry'[f].predicate)
  <2>1. CASE f = name
    BY <1>2, <1>3, <1>4, <2>1
  <2>2. CASE f # name
    <3>1. f \in DOMAIN locked /\ locked'[f] = locked[f] /\ predicate_registry'[f] = predicate_registry[f]
      BY <1>3, <1>4, <1>5, <2>2
    <3> QED BY <3>1 DEF Locked
  <2> QED BY <2>1, <2>2
<1> QED BY <1>3, <1>4, <1>5, <1>6 DEF Locked

\* The tokens there are on the screens and in what is made of them.
Tokens ==
  Keys \cup Separators \cup {Numeral[s] : s \in DOMAIN Numeral}
  \cup {"Password", "Psp22", "Sr25519", PubKey, Signed}

\* Each of these is a token.
LEMMA TokensIn ==
  /\ Keys \subseteq Tokens
  /\ "(" \in Tokens /\ ")" \in Tokens /\ "&&" \in Tokens /\ "," \in Tokens
  /\ Blank \in Tokens /\ PubKey \in Tokens /\ Signed \in Tokens
  /\ "Password" \in Tokens /\ "Psp22" \in Tokens /\ "Sr25519" \in Tokens
  /\ \A s \in DOMAIN Numeral : Numeral[s] \in Tokens
  BY DEF Tokens, Separators

\* Three tokens are a text.
LEMMA ThreeTokens ==
  ASSUME NEW A, NEW a \in A, NEW b \in A, NEW c \in A
  PROVE  <<a, b, c>> \in Seq(A)
  OBVIOUS

\* format! of a part is the text of an intent.
LEMMA BetweenIsText ==
  ASSUME NEW A, "(" \in A, NEW name \in A, NEW data
  PROVE  Between(name, data) = TextOf(<<name>>, data)
<1>1. ASSUME NEW p \in A PROVE <<name>> \o <<p>> = <<name, p>>
  <2>1. <<name>> \in Seq(A)
    OBVIOUS
  <2>2. Append(<<name>>, p) = <<name>> \o <<p>>
    BY <2>1, AppendIsConcat
  <2>3. Append(<<name>>, p) = <<name, p>>
    <3> DEFINE L == Append(<<name>>, p)
               R == <<name, p>>
    <3>1. L \in Seq(A) /\ Len(L) = 2
      BY <2>1
    <3>2. R \in Seq(A) /\ Len(R) = 2
      OBVIOUS
    <3>3. L[1] = R[1] /\ L[2] = R[2]
      OBVIOUS
    <3> HIDE DEF L, R
    <3>4. \A i \in 1..2 : L[i] = R[i]
      BY <3>3
    <3>5. L = R
      BY <3>1, <3>2, <3>4, SeqEqual
    <3> QED BY <3>5 DEF L, R
  <2> QED BY <2>2, <2>3
<1>2. <<name>> \o <<"(">> = <<name, "(">>
  BY <1>1
<1> QED BY <1>2, Zenon DEF Between, TextOf

\* The part of SR25519 alone is the whole string.
LEMMA Sr25519Text ==
  ASSUME NEW rows, ~ rows["Password"], ~ rows["PSP22"], rows["SR25519"], NEW typed
  PROVE  TextMeant(rows, typed) = Sr25519Part
<1> DEFINE part == Between("Sr25519", << >>)
           glue == <<Blank, "&&", Blank>>
<1>1. part \in Seq(Tokens)
  <2>1. ASSUME NEW name \in Tokens PROVE Between(name, << >>) \in Seq(Tokens)
    <3>1. << >> \in Seq(Tokens)
      OBVIOUS
    <3>2. IsTextOf(TextOf(<<name>>, << >>), name, << >>, Tokens)
      BY <3>1, TokensIn, TextOfTokens
    <3>3. Between(name, << >>) = TextOf(<<name>>, << >>)
      BY TokensIn, BetweenIsText
    <3> QED BY <3>2, <3>3 DEF IsTextOf
  <2> QED BY <2>1, TokensIn
<1>2. glue \in Seq(Tokens)
  BY TokensIn, ThreeTokens
<1> HIDE DEF part, glue
<1>3. Join(<<part>>, glue) = part
  BY <1>1, <1>2, JoinOne
<1>4. << >> \o << >> \o <<part>> = <<part>>
  OBVIOUS
<1>5. TextMeant(rows, typed) = Join(<< >> \o << >> \o <<part>>, glue)
  BY DEF TextMeant, OnlyIf, part, glue
<1> QED BY <1>3, <1>4, <1>5 DEF part, Sr25519Part

\* The string that is put together on the input screen is of the rows that were
\* marked.
LEMMA FilledText ==
  ASSUME EntmootInv, On("EncryptionInputScreen"), Filled(EncInputs)
  PROVE  /\ IntentText = TextMeant(intent_list_items, input)
         /\ \E r \in Rows : intent_list_items[r]
         /\ intent_list_items["PSP22"] => input["token_count"] # << >>
<1>1. /\ display_password_input = intent_list_items["Password"]
      /\ display_contract_address_input = intent_list_items["PSP22"]
      /\ sr25519_intent = intent_list_items["SR25519"]
      /\ display_password_input \/ display_contract_address_input
      /\ display_password_input \in BOOLEAN /\ display_contract_address_input \in BOOLEAN
  BY DEF EntmootInv, FlagsSet, On, ScreensInv, WayHere, ScreensTypeOK
<1>2. /\ "password" \in Members(EncInputs) <=> intent_list_items["Password"]
      /\ "contract_address" \in Members(EncInputs) <=> intent_list_items["PSP22"]
  BY <1>1 DEF Members, EncInputs
<1>3. intent_list_items["PSP22"] => input["token_count"] # << >>
  BY <1>1 DEF Filled, EncInputs
<1>4. IntentText = TextMeant(intent_list_items, input)
  BY <1>1, <1>2 DEF IntentText, TextMeant, OnlyIf, PasswordPart, Psp22Part, Sr25519Part, Holder
<1>5. \E r \in Rows : intent_list_items[r]
  BY <1>1 DEF Rows
<1> QED BY <1>3, <1>4, <1>5

\* Every entry of the registry stays what entmoot locked a file with.
LEMMA LockedKept ==
  ASSUME EntmootInv, [Next]_vars
  PROVE  Locked'
<1>1. /\ Locked /\ CountTyped
      /\ input \in [Inputs -> Seq(Keys)] /\ intent_list_items \in [Rows -> BOOLEAN]
  BY DEF EntmootInv, ScreensInv, ScreensTypeOK
<1>2. ASSUME On("EncryptionInputScreen"), Filled(EncInputs), handle_encrypt(IntentText)
      PROVE  Locked'
  <2>1. PICK row \in Rows : intent_list_items[row]
    BY <1>2, FilledText
  <2>2. handle_encrypt(TextMeant(intent_list_items, input))
    BY <1>2, FilledText
  <2>3. intent_list_items["PSP22"] => input["token_count"] # << >>
    BY <1>2, FilledText
  <2> QED BY <1>1, <2>1, <2>2, <2>3, HandleEncryptLocks
<1>3. ASSUME OnlySr25519, handle_encrypt(Sr25519Part) PROVE Locked'
  <2>1. /\ ~ intent_list_items["Password"] /\ ~ intent_list_items["PSP22"]
        /\ intent_list_items["SR25519"] /\ "SR25519" \in Rows
    BY <1>3 DEF OnlySr25519, Rows
  <2>2. handle_encrypt(TextMeant(intent_list_items, input))
    BY <1>3, <2>1, Sr25519Text
  <2> QED BY <1>1, <2>1, <2>2, HandleEncryptLocks
<1>4. CASE UNCHANGED <<locked, registry_vars>>
  BY <1>1, <1>4 DEF Locked, registry_vars
<1>5. CASE Key \/ UNCHANGED vars
  BY <1>4, <1>5 DEF Key, vars
<1>6. CASE EncryptFilled
  BY <1>2, <1>6 DEF EncryptFilled, SubmitEncryption
<1>7. CASE EncryptAtOnce
  BY <1>3, <1>7 DEF EncryptAtOnce, IntentsEnterSr25519
<1>8. CASE EncryptThenPanic
  BY <1>2, <1>3, <1>8 DEF EncryptThenPanic
<1>9. CASE Removed
  <2>1. PICK f \in Filenames : remove_predicate(f) /\ locked' = Take(locked, f)
    BY <1>9 DEF Removed
  <2>2. predicate_registry' = Take(predicate_registry, f)
    BY <2>1 DEF remove_predicate
  <2>3. /\ DOMAIN locked' = DOMAIN locked \ {f}
        /\ \A g \in DOMAIN locked' : locked'[g] = locked[g]
    BY <2>1, TakeIs
  <2>4. /\ DOMAIN predicate_registry' = DOMAIN predicate_registry \ {f}
        /\ \A g \in DOMAIN predicate_registry' : predicate_registry'[g] = predicate_registry[g]
    BY <2>2, TakeIs
  <2> QED BY <1>1, <2>3, <2>4 DEF Locked
<1> QED BY <1>5, <1>6, <1>7, <1>8, <1>9 DEF Next

\* The invariant holds in every behaviour.
THEOREM EntmootInvariant == Spec => []EntmootInv
<1>1. Init => CountTyped /\ FlagsSet /\ Locked
  <2> SUFFICES ASSUME Init PROVE CountTyped /\ FlagsSet /\ Locked
    OBVIOUS
  <2>1. CountTyped
    BY NoCount DEF Init, ScreensInit, CountTyped
  <2>2. FlagsSet
    BY DEF Init, ScreensInit, FlagsSet
  <2>3. Locked
    BY DEF Init, RegistryInit, EmptyMapping, Locked
  <2> QED BY <2>1, <2>2, <2>3
<1>2. ScreensInv /\ CountTyped /\ FlagsSet /\ Locked /\ [Next]_vars
        => (CountTyped /\ FlagsSet /\ Locked)'
  BY CountKept, FlagsKept, LockedKept DEF EntmootInv
<1>3. Spec => []ScreensInv
  BY EntmootUsesScreens, ScreensInvariant, PTL
<1> QED BY <1>1, <1>2, <1>3, PTL DEF Spec, EntmootInv

(***************************************************************************)
(* What is chosen for each row that is marked.                             *)
(***************************************************************************)
Chosen(a, b, c, x, y, z) == OnlyIf(a, x) \o OnlyIf(b, y) \o OnlyIf(c, z)

\* Short texts in a row.
LEMMA TuplesConcat ==
  ASSUME NEW A, NEW x \in A, NEW y \in A, NEW z \in A
  PROVE  /\ <<x>> \o <<y>> = <<x, y>>
         /\ <<x, y>> \o <<z>> = <<x, y, z>>
<1>1. <<x>> \in Seq(A) /\ <<y>> \in Seq(A) /\ <<z>> \in Seq(A) /\ <<x, y>> \in Seq(A)
      /\ <<x, y, z>> \in Seq(A)
  OBVIOUS
<1>2. Len(<<x>>) = 1 /\ Len(<<y>>) = 1 /\ Len(<<z>>) = 1 /\ Len(<<x, y>>) = 2
      /\ Len(<<x, y, z>>) = 3
  OBVIOUS
<1>3. <<x>> \o <<y>> = <<x, y>>
  <2> DEFINE L == <<x>> \o <<y>>
             R == <<x, y>>
  <2>1. L \in Seq(A) /\ Len(L) = 2 /\ L[1] = x /\ L[2] = y
    BY <1>1, <1>2, ConcatProperties
  <2>2. R[1] = x /\ R[2] = y /\ R \in Seq(A) /\ Len(R) = 2
    BY <1>1, <1>2
  <2> HIDE DEF L, R
  <2>3. \A i \in 1..2 : L[i] = R[i]
    BY <2>1, <2>2
  <2>4. L = R
    BY <2>1, <2>2, <2>3, SeqEqual
  <2> QED BY <2>4 DEF L, R
<1>4. <<x, y>> \o <<z>> = <<x, y, z>>
  <2> DEFINE L == <<x, y>> \o <<z>>
             R == <<x, y, z>>
  <2>1. L \in Seq(A) /\ Len(L) = 3 /\ L[1] = x /\ L[2] = y /\ L[3] = z
    BY <1>1, <1>2, ConcatProperties
  <2>2. R[1] = x /\ R[2] = y /\ R[3] = z /\ R \in Seq(A) /\ Len(R) = 3
    BY <1>1, <1>2
  <2> HIDE DEF L, R
  <2>3. \A i \in 1..3 : L[i] = R[i]
    BY <2>1, <2>2
  <2>4. L = R
    BY <2>1, <2>2, <2>3, SeqEqual
  <2> QED BY <2>4 DEF L, R
<1> QED BY <1>3, <1>4

\* For every choice, in the order of the rows.
ChosenFor(a, b, c, x, y, z) ==
  CASE a /\ b /\ c -> <<x, y, z>>
    [] a /\ b /\ ~c -> <<x, y>>
    [] a /\ ~b /\ c -> <<x, z>>
    [] a /\ ~b /\ ~c -> <<x>>
    [] ~a /\ b /\ c -> <<y, z>>
    [] ~a /\ b /\ ~c -> <<y>>
    [] ~a /\ ~b /\ c -> <<z>>
    [] ~a /\ ~b /\ ~c -> << >>

\* What is chosen, for each of the eight choices.
LEMMA ChosenIs ==
  ASSUME NEW a \in BOOLEAN, NEW b \in BOOLEAN, NEW c \in BOOLEAN,
         NEW A, NEW x \in A, NEW y \in A, NEW z \in A
  PROVE  Chosen(a, b, c, x, y, z) = ChosenFor(a, b, c, x, y, z)
<1>1. ASSUME NEW s \in Seq(A) PROVE << >> \o s = s /\ s \o << >> = s
  OBVIOUS
<1>2. /\ <<x>> \in Seq(A) /\ <<y>> \in Seq(A) /\ <<z>> \in Seq(A) /\ << >> \in Seq(A)
      /\ <<x, y>> \in Seq(A)
  OBVIOUS
<1>3. /\ <<x>> \o <<y>> = <<x, y>> /\ <<x>> \o <<z>> = <<x, z>>
      /\ <<y>> \o <<z>> = <<y, z>> /\ <<x, y>> \o <<z>> = <<x, y, z>>
  BY TuplesConcat
<1> DEFINE e == << >>
           sx == <<x>>
           sy == <<y>>
           sz == <<z>>
           sxy == <<x, y>>
           sxz == <<x, z>>
           syz == <<y, z>>
           sxyz == <<x, y, z>>
<1>4. /\ sx \o sy = sxy /\ sx \o sz = sxz /\ sy \o sz = syz /\ sxy \o sz = sxyz
      /\ e \o e = e /\ e \o sx = sx /\ e \o sy = sy /\ e \o sz = sz
      /\ sx \o e = sx /\ sy \o e = sy /\ sz \o e = sz /\ sxy \o e = sxy
  BY <1>1, <1>2, <1>3
<1>5. /\ OnlyIf(a, x) = IF a THEN sx ELSE e
      /\ OnlyIf(b, y) = IF b THEN sy ELSE e
      /\ OnlyIf(c, z) = IF c THEN sz ELSE e
  BY DEF OnlyIf
<1>6. ChosenFor(a, b, c, x, y, z) =
        IF a THEN IF b THEN IF c THEN sxyz ELSE sxy ELSE IF c THEN sxz ELSE sx
        ELSE IF b THEN IF c THEN syz ELSE sy ELSE IF c THEN sz ELSE e
  BY DEF ChosenFor
<1> HIDE DEF e, sx, sy, sz, sxy, sxz, syz, sxyz
<1> QED BY <1>4, <1>5, <1>6 DEF Chosen

\* Something is chosen if a row is marked.
LEMMA ChosenType ==
  ASSUME NEW a \in BOOLEAN, NEW b \in BOOLEAN, NEW c \in BOOLEAN,
         NEW A, NEW x \in A, NEW y \in A, NEW z \in A
  PROVE  /\ Chosen(a, b, c, x, y, z) \in Seq(A)
         /\ (a \/ b \/ c) => Chosen(a, b, c, x, y, z) # << >>
<1>1. Chosen(a, b, c, x, y, z) = ChosenFor(a, b, c, x, y, z)
  BY ChosenIs
<1>2. CASE a
  BY <1>1, <1>2 DEF ChosenFor
<1>3. CASE ~a /\ b
  BY <1>1, <1>3 DEF ChosenFor
<1>4. CASE ~a /\ ~b
  BY <1>1, <1>4 DEF ChosenFor
<1> QED BY <1>2, <1>3, <1>4

\* s is chosen of x, y and z as t is of u, v and w.
Paired(a, b, c, s, x, y, z, t, u, v, w) ==
  /\ Len(s) = Len(t)
  /\ \A k \in 1..Len(s) :
       \/ a /\ s[k] = x /\ t[k] = u
       \/ b /\ s[k] = y /\ t[k] = v
       \/ c /\ s[k] = z /\ t[k] = w

\* Two choices by the same marks have the same length, and the same rows at the
\* same places.
LEMMA ChosenPairs ==
  ASSUME NEW a \in BOOLEAN, NEW b \in BOOLEAN, NEW c \in BOOLEAN,
         NEW A, NEW x \in A, NEW y \in A, NEW z \in A,
         NEW B, NEW u \in B, NEW v \in B, NEW w \in B
  PROVE  Paired(a, b, c, Chosen(a, b, c, x, y, z), x, y, z,
                Chosen(a, b, c, u, v, w), u, v, w)
<1> USE DEF Paired
<1>1. /\ Chosen(a, b, c, x, y, z) = ChosenFor(a, b, c, x, y, z)
      /\ Chosen(a, b, c, u, v, w) = ChosenFor(a, b, c, u, v, w)
  BY ChosenIs
<1>2. CASE a /\ b /\ c
  BY <1>1, <1>2 DEF ChosenFor
<1>3. CASE a /\ b /\ ~c
  BY <1>1, <1>3 DEF ChosenFor
<1>4. CASE a /\ ~b /\ c
  BY <1>1, <1>4 DEF ChosenFor
<1>5. CASE a /\ ~b /\ ~c
  BY <1>1, <1>5 DEF ChosenFor
<1>6. CASE ~a /\ b /\ c
  BY <1>1, <1>6 DEF ChosenFor
<1>7. CASE ~a /\ b /\ ~c
  BY <1>1, <1>7 DEF ChosenFor
<1>8. CASE ~a /\ ~b /\ c
  BY <1>1, <1>8 DEF ChosenFor
<1>9. CASE ~a /\ ~b /\ ~c
  BY <1>1, <1>9 DEF ChosenFor
<1> QED BY <1>2, <1>3, <1>4, <1>5, <1>6, <1>7, <1>8, <1>9

(***************************************************************************)
(* The data of a Psp22 intent, an address and a numeral.                   *)
(***************************************************************************)
\* v is y with w behind it.
Concat(v, y, w, A) ==
  /\ v \in Seq(A) /\ Len(v) = Len(y) + Len(w)
  /\ \A i \in 1..Len(y) : v[i] = y[i]
  /\ \A i \in 1..Len(w) : v[Len(y) + i] = w[i]

\* Where the tokens of two texts in a row are.
LEMMA ConcatFacts ==
  ASSUME NEW A, NEW y \in Seq(A), NEW w \in Seq(A)
  PROVE  Concat(y \o w, y, w, A)
BY TwoTexts DEF Concat

Longer(s, a, b, c) == s \o <<a, b, c>>

\* Two other ways to put the same text together.
TokenByToken(s, a, b, c) == Append(Append(Append(s, a), b), c)
OneAndTwo(s, a, b, c) == Append(s, a) \o (<<b>> \o <<c>>)

\* Three tokens behind a text, at once, one by one, and in two parts.
LEMMA ThreeBehind ==
  ASSUME NEW A, NEW s \in Seq(A), NEW a \in A, NEW b \in A, NEW c \in A
  PROVE  /\ Longer(s, a, b, c) = TokenByToken(s, a, b, c)
         /\ Longer(s, a, b, c) = OneAndTwo(s, a, b, c)
         /\ Longer(s, a, b, c) \in Seq(A)
<1> DEFINE n == Len(s)
           T == <<a, b, c>>
           L == s \o T
           R == Append(Append(Append(s, a), b), c)
           V == Append(s, a) \o (<<b>> \o <<c>>)
<1>1. n \in Nat /\ T \in Seq(A) /\ Len(T) = 3 /\ T[1] = a /\ T[2] = b /\ T[3] = c
  OBVIOUS
<1>2. /\ L \in Seq(A) /\ Len(L) = n + 3
      /\ \A i \in 1..n : L[i] = s[i]
      /\ L[n + 1] = a /\ L[n + 2] = b /\ L[n + 3] = c
  <2>a. L = s \o T
    OBVIOUS
  <2> HIDE DEF T, n, L
  <2>2. /\ L \in Seq(A) /\ Len(L) = Len(s) + Len(T)
        /\ \A i \in 1..Len(s) : L[i] = s[i]
        /\ \A i \in 1..Len(T) : L[Len(s) + i] = T[i]
    <3>1. Concat(L, s, T, A)
      BY <1>1, <2>a, ConcatFacts, Zenon
    <3> QED BY <3>1 DEF Concat
  <2>1. L \in Seq(A) /\ Len(L) = n + 3
    BY <1>1, <2>2 DEF n
  <2>3. \A i \in 1..3 : L[n + i] = T[i]
    BY <1>1, <2>2 DEF n
  <2>4. 1 \in 1..3 /\ 2 \in 1..3 /\ 3 \in 1..3
    OBVIOUS
  <2>5. L[n + 1] = T[1] /\ L[n + 2] = T[2] /\ L[n + 3] = T[3]
    BY <2>3, <2>4, Zenon
  <2>6. \A i \in 1..n : L[i] = s[i]
    BY <2>2 DEF n
  <2> QED BY <1>1, <2>1, <2>5, <2>6
<1>3. /\ R \in Seq(A) /\ Len(R) = n + 3
      /\ \A i \in 1..n : R[i] = s[i]
      /\ R[n + 1] = a /\ R[n + 2] = b /\ R[n + 3] = c
  <2> DEFINE R1 == Append(s, a)
             R2 == Append(R1, b)
  <2>1. R1 \in Seq(A) /\ Len(R1) = n + 1 /\ (\A i \in 1..n : R1[i] = s[i]) /\ R1[n + 1] = a
    BY AppendProperties
  <2> HIDE DEF R1
  <2>2. R2 \in Seq(A) /\ Len(R2) = n + 2 /\ (\A i \in 1..(n + 1) : R2[i] = R1[i]) /\ R2[n + 2] = b
    BY <1>1, <2>1, AppendProperties
  <2> HIDE DEF R2
  <2>3. /\ Append(R2, c) \in Seq(A) /\ Len(Append(R2, c)) = n + 3
        /\ \A i \in 1..(n + 2) : Append(R2, c)[i] = R2[i]
        /\ Append(R2, c)[n + 3] = c
    BY <1>1, <2>2, AppendProperties
  <2>4. R = Append(R2, c)
    BY DEF R1, R2
  <2> HIDE DEF R, n
  <2> QED BY <1>1, <2>1, <2>2, <2>3, <2>4
<1>4. L = R
  <2> HIDE DEF L, R, n
  <2>1. \A i \in 1..(n + 3) : L[i] = R[i]
    BY <1>1, <1>2, <1>3
  <2> QED BY <1>2, <1>3, <2>1, SeqEqual
<1>5. /\ V \in Seq(A) /\ Len(V) = n + 3
      /\ \A i \in 1..n : V[i] = s[i]
      /\ V[n + 1] = a /\ V[n + 2] = b /\ V[n + 3] = c
  <2> DEFINE R1 == Append(s, a)
             U == <<b>> \o <<c>>
  <2>1. R1 \in Seq(A) /\ Len(R1) = n + 1 /\ (\A i \in 1..n : R1[i] = s[i]) /\ R1[n + 1] = a
    BY AppendProperties
  <2>2. U = <<b, c>>
    BY TuplesConcat
  <2>3. U \in Seq(A) /\ Len(U) = 2 /\ U[1] = b /\ U[2] = c
    BY <2>2
  <2>4. V = R1 \o U
    OBVIOUS
  <2> HIDE DEF R1, U, V
  <2>5. /\ V \in Seq(A) /\ Len(V) = Len(R1) + Len(U)
        /\ \A i \in 1..Len(R1) : V[i] = R1[i]
        /\ \A i \in 1..Len(U) : V[Len(R1) + i] = U[i]
    <3>1. Concat(V, R1, U, A)
      BY <2>1, <2>3, <2>4, ConcatFacts, Zenon
    <3> QED BY <3>1 DEF Concat
  <2> HIDE DEF n
  <2>6. \A i \in 1..2 : V[n + 1 + i] = U[i]
    BY <2>1, <2>3, <2>5
  <2>7. V[n + 1 + 1] = U[1] /\ V[n + 1 + 2] = U[2]
    BY <2>6
  <2>8. n + 1 + 1 = n + 2 /\ n + 1 + 2 = n + 3
    BY <1>1
  <2> QED BY <1>1, <2>1, <2>3, <2>5, <2>7, <2>8
<1>6. L = V
  <2> HIDE DEF L, V, n
  <2>1. \A i \in 1..(n + 3) : L[i] = V[i]
    BY <1>1, <1>2, <1>5
  <2> QED BY <1>2, <1>5, <2>1, SeqEqual
<1>7. Longer(s, a, b, c) = L /\ TokenByToken(s, a, b, c) = R /\ OneAndTwo(s, a, b, c) = V
  BY DEF Longer, TokenByToken, OneAndTwo
<1> HIDE DEF L, R, V
<1> QED BY <1>2, <1>4, <1>6, <1>7, Zenon

\* Data that survives does so with a token behind it that is no parenthesis.
LEMMA SurvivesAppend ==
  ASSUME NEW A, NEW s \in Seq(A), Survives(s), NEW c \in A, c \notin {"(", ")", "&&"}
  PROVE  Survives(Append(s, c))
<1> DEFINE t == Append(s, c)
           n == Len(s)
<1>1. /\ n \in Nat /\ t \in Seq(A) /\ Len(t) = n + 1
      /\ (\A i \in 1..n : t[i] = s[i]) /\ t[n + 1] = c
  BY AppendProperties
<1>2. /\ \A i \in 0..n : Depth(t, i) = Depth(s, i)
      /\ Depth(t, n + 1) = DepthAfter(Depth(s, n), c)
  BY DepthAppend
<1>3. DepthAfter(Depth(s, n), c) = Depth(s, n)
  BY DEF DepthAfter
<1>4. /\ \A i \in 1..n : s[i] # "&&"
      /\ \A i \in 1..n : Depth(s, i) >= 1
      /\ Depth(s, n) = 1
  BY DEF Survives, Contains
<1> HIDE DEF t, n
<1>5. \A i \in 1..(n + 1) : t[i] # "&&"
  BY <1>1, <1>4
<1>6. \A i \in 1..(n + 1) : Depth(t, i) >= 1
  BY <1>1, <1>2, <1>3, <1>4
<1>7. Depth(t, n + 1) = 1
  BY <1>2, <1>3, <1>4
<1>8. Survives(t)
  BY <1>1, <1>5, <1>6, <1>7 DEF Survives, Contains
<1> QED BY <1>8 DEF t

\* Empty data survives.
LEMMA SurvivesEmpty == Survives(<< >>)
<1>1. << >> \in Seq({1}) /\ Len(<< >>) = 0
  OBVIOUS
<1>2. Depth(<< >>, 0) = 1
  <2>1. 0 \in 0..Len(<< >>)
    BY <1>1
  <2> QED BY <1>1, <2>1, DepthDef, Zenon
<1> QED BY <1>1, <1>2 DEF Survives, Contains

\* The same with three tokens behind it.
LEMMA SurvivesThree ==
  ASSUME NEW A, NEW s \in Seq(A), Survives(s), NEW a \in A, NEW b \in A, NEW c \in A,
         {a, b, c} \cap {"(", ")", "&&"} = {}
  PROVE  Survives(Longer(s, a, b, c))
<1> DEFINE s1 == Append(s, a)
           s2 == Append(s1, b)
           s3 == Append(s2, c)
<1>1. s1 \in Seq(A) /\ Survives(s1)
  BY AppendProperties, SurvivesAppend
<1> HIDE DEF s1
<1>2. s2 \in Seq(A) /\ Survives(s2)
  BY <1>1, AppendProperties, SurvivesAppend
<1> HIDE DEF s2
<1>3. Survives(s3)
  BY <1>2, SurvivesAppend
<1>4. Longer(s, a, b, c) = TokenByToken(s, a, b, c)
  BY ThreeBehind
<1>5. TokenByToken(s, a, b, c) = s3
  BY Zenon DEF TokenByToken, s1, s2
<1> QED BY <1>3, <1>4, <1>5, Zenon

\* The last piece is what is behind the last separator.
EndWith(ps, qs, c) == ps = qs \o << <<c>> >>

\* A word behind a separator and a blank is the last trimmed piece.
LEMMA LastPieceOf ==
  ASSUME NEW A, NEW s \in Seq(A), NEW p \in A, p # Blank, NEW b \in A, b = Blank,
         NEW c \in A, c # p, c # Blank
  PROVE  EndWith(TrimmedPieces(Longer(s, p, b, c), p), TrimmedPieces(s, p), c)
<1> DEFINE t == <<c>>
           u == <<b>>
           v == u \o t
<1>1. t \in Seq(A) /\ u \in Seq(A) /\ v \in Seq(A)
  OBVIOUS
<1>2. Free(t, p) /\ IsBlank(u) /\ Inked(t)
  BY DEF Free, IsBlank, Inked
<1>3. Longer(s, p, b, c) = Append(s, p) \o v
  <2>1. Longer(s, p, b, c) = OneAndTwo(s, p, b, c)
    BY ThreeBehind
  <2> QED BY <2>1, Zenon DEF OneAndTwo
<1> HIDE DEF t, u
<1>4. TrimmedPieces(v, p) = TrimmedPieces(t, p)
  BY <1>1, <1>2, PiecesAround
<1>5. TrimmedPieces(t, p) = <<Trim(t)>>
  BY <1>1, <1>2, PiecesFree
<1>6. Trim(t) = t
  BY <1>1, <1>2, TrimInked
<1> HIDE DEF v
<1>7. TrimmedPieces(Append(s, p) \o v, p) = TrimmedPieces(s, p) \o TrimmedPieces(v, p)
  BY <1>1, PiecesAt
<1> QED BY <1>3, <1>4, <1>5, <1>6, <1>7, Zenon DEF t, EndWith

\* An address with a numeral behind it: its tokens, its parentheses and its
\* fields.
LEMMA HolderData ==
  ASSUME NEW A, "," \in A, Blank \in A, NEW address \in Seq(A),
         NEW num \in A, num \notin Separators
  PROVE  /\ Longer(address, ",", Blank, num) \in Seq(A)
         /\ Survives(address) => Survives(Longer(address, ",", Blank, num))
         /\ EndWith(Fields(Longer(address, ",", Blank, num)), TrimmedPieces(address, ","), num)
<1>1. /\ num # "," /\ num # Blank /\ "," # Blank
      /\ {",", Blank, num} \cap {"(", ")", "&&"} = {}
  BY DEF Separators, Blank
<1>2. ASSUME NEW a \in A, NEW b \in A PROVE Longer(address, a, b, num) \in Seq(A)
  BY ThreeBehind
<1>3. Survives(address) => Survives(Longer(address, ",", Blank, num))
  BY <1>1, SurvivesThree, Zenon
<1>4. EndWith(TrimmedPieces(Longer(address, ",", Blank, num), ","),
              TrimmedPieces(address, ","), num)
  <2>1. ASSUME NEW p \in A, NEW b \in A, p # Blank, b = Blank, num # p
        PROVE  EndWith(TrimmedPieces(Longer(address, p, b, num), p), TrimmedPieces(address, p), num)
    BY <1>1, <2>1, LastPieceOf
  <2> QED BY <1>1, <2>1, Zenon
<1> QED BY <1>2, <1>3, <1>4, Zenon DEF Fields

(***************************************************************************)
(* What a file is locked with.                                             *)
(***************************************************************************)
PasswordOf(typed) == Named(<<"Password">>, typed["password"])
HolderOf(typed) == Named(<<"Psp22">>, Holder(typed))
Signature == Named(<<"Sr25519">>, << >>)

\* The intents that are meant, each next to something else chosen for its row.
LEMMA MeantPairs ==
  ASSUME NEW rows \in [Rows -> BOOLEAN], \E r \in Rows : rows[r], NEW typed,
         NEW u, NEW v, NEW w, NEW other,
         other = Chosen(rows["Password"], rows["PSP22"], rows["SR25519"], u, v, w)
  PROVE  /\ MeantBy(rows, typed) \in Seq({PasswordOf(typed), HolderOf(typed), Signature})
         /\ MeantBy(rows, typed) # << >>
         /\ other \in Seq({u, v, w})
         /\ Paired(rows["Password"], rows["PSP22"], rows["SR25519"],
                   MeantBy(rows, typed), PasswordOf(typed), HolderOf(typed), Signature,
                   other, u, v, w)
<1> DEFINE a == rows["Password"]
           b == rows["PSP22"]
           c == rows["SR25519"]
           x == PasswordOf(typed)
           y == HolderOf(typed)
           z == Signature
           A == {x, y, z}
           B == {u, v, w}
           s == Chosen(a, b, c, x, y, z)
           t == Chosen(a, b, c, u, v, w)
<1>1. a \in BOOLEAN /\ b \in BOOLEAN /\ c \in BOOLEAN /\ (a \/ b \/ c)
  BY DEF Rows
<1>2. MeantBy(rows, typed) = s
  BY DEF MeantBy, Chosen, PasswordOf, HolderOf, Signature
<1>3. x \in A /\ y \in A /\ z \in A /\ u \in B /\ v \in B /\ w \in B
  OBVIOUS
<1>4. other = t
  OBVIOUS
<1> HIDE DEF a, b, c, x, y, z, A, B
<1>5. s \in Seq(A) /\ s # << >> /\ Paired(a, b, c, s, x, y, z, t, u, v, w)
  <2>1. s \in Seq(A) /\ s # << >>
    BY <1>1, <1>3, ChosenType
  <2>2. Paired(a, b, c, s, x, y, z, t, u, v, w)
    BY <1>1, <1>3, ChosenPairs, Zenon
  <2> QED BY <2>1, <2>2
<1>6. t \in Seq(B)
  BY <1>1, <1>3, ChosenType
<1> HIDE DEF s, t
<1> QED BY <1>2, <1>4, <1>5, <1>6 DEF a, b, c, x, y, z, A, B

\* The text that is registered is the text of the intents that are meant.
LEMMA TextMeantIs ==
  ASSUME NEW rows \in [Rows -> BOOLEAN], \E r \in Rows : rows[r], NEW typed
  PROVE  TextMeant(rows, typed) = Join(TextsOf(MeantBy(rows, typed)), <<Blank, "&&", Blank>>)
<1> DEFINE u == Between("Password", typed["password"])
           v == Between("Psp22", Holder(typed))
           w == Between("Sr25519", << >>)
           meant == MeantBy(rows, typed)
           n == Len(meant)
           texts == TextsOf(meant)
           other == Chosen(rows["Password"], rows["PSP22"], rows["SR25519"], u, v, w)
<1>1. /\ u = TextOf(PasswordOf(typed).type, PasswordOf(typed).data)
      /\ v = TextOf(HolderOf(typed).type, HolderOf(typed).data)
      /\ w = TextOf(Signature.type, Signature.data)
  <2>1. /\ PasswordOf(typed).type = <<"Password">> /\ PasswordOf(typed).data = typed["password"]
        /\ HolderOf(typed).type = <<"Psp22">> /\ HolderOf(typed).data = Holder(typed)
        /\ Signature.type = <<"Sr25519">> /\ Signature.data = << >>
    BY DEF PasswordOf, HolderOf, Signature, Named
  <2>2. ASSUME NEW name \in Tokens, NEW data PROVE Between(name, data) = TextOf(<<name>>, data)
    BY TokensIn, BetweenIsText
  <2> QED BY <2>1, <2>2, TokensIn, ZenonT(40)
<1> HIDE DEF u, v, w
<1>2. /\ other \in Seq({u, v, w}) /\ Len(other) = n /\ n \in Nat
      /\ \A k \in 1..n :
           \/ meant[k] = PasswordOf(typed) /\ other[k] = u
           \/ meant[k] = HolderOf(typed) /\ other[k] = v
           \/ meant[k] = Signature /\ other[k] = w
  <2>1. /\ MeantBy(rows, typed) \in Seq({PasswordOf(typed), HolderOf(typed), Signature})
        /\ other \in Seq({u, v, w})
        /\ Paired(rows["Password"], rows["PSP22"], rows["SR25519"],
                  MeantBy(rows, typed), PasswordOf(typed), HolderOf(typed), Signature,
                  other, u, v, w)
    BY MeantPairs
  <2> HIDE DEF other
  <2> QED BY <2>1, LenProperties DEF Paired
<1> HIDE DEF other, meant, n
<1>3. texts = [k \in 1..n |-> TextOf(meant[k].type, meant[k].data)]
  BY DEF TextsOf, n
<1>4. \A k \in 1..n : other[k] = TextOf(meant[k].type, meant[k].data)
  BY <1>1, <1>2
<1>5. other = [k \in 1..n |-> other[k]]
  BY <1>2
<1>6. texts = other
  BY <1>3, <1>4, <1>5
<1>7. TextMeant(rows, typed) = Join(other, <<Blank, "&&", Blank>>)
  BY DEF TextMeant, other, Chosen, u, v, w
<1> QED BY <1>6, <1>7, Zenon DEF meant

\* There is a numeral for every token count that is let in.
LEMMA CountsHaveNumerals == NumberTexts \subseteq DOMAIN Numeral
<1> DEFINE D == Digits \cup {ZeroKey}
           max == MaxLen["token_count"]
<1>1. DOMAIN Numeral = UNION {[1..m -> D] : m \in 0..max}
  BY NumeralConstants DEF BoundedSeq, SeqOf
<1>2. max \in Nat
  BY ScreensAssumption
<1>3. ASSUME NEW s \in NumberTexts PROVE s \in DOMAIN Numeral
  <2>1. s \in Seq(D) /\ Len(s) <= max
    BY DEF NumberTexts
  <2> HIDE DEF D, max
  <2>2. Len(s) \in 0..max /\ s \in [1..Len(s) -> D]
    BY <1>2, <2>1, LenProperties
  <2> QED BY <1>1, <2>2
<1> QED BY <1>3

\* The tokens and the fields of what a Psp22 intent is given.
LEMMA HolderFacts ==
  ASSUME NEW typed \in [Inputs -> Seq(Keys)], typed["token_count"] \in NumberTexts
  PROVE  /\ Holder(typed) \in Seq(Tokens)
         /\ Survives(typed["contract_address"]) => Survives(Holder(typed))
         /\ EndWith(Fields(Holder(typed)), TrimmedPieces(typed["contract_address"], ","),
                    Numeral[typed["token_count"]])
         /\ typed["contract_address"] \in Seq(Tokens)
         /\ typed["password"] \in Seq(Tokens)
<1> DEFINE address == typed["contract_address"]
           num == Numeral[typed["token_count"]]
<1>1. typed["token_count"] \in DOMAIN Numeral
  BY CountsHaveNumerals
<1>2. num \in Tokens /\ num \notin Separators
  BY <1>1, TokensIn, NumeralConstants
<1>3. Seq(Keys) \subseteq Seq(Tokens)
  BY TokensIn, WiderSeq
<1>4. address \in Seq(Keys) /\ typed["password"] \in Seq(Keys)
  BY DEF Inputs
<1>5. address \in Seq(Tokens) /\ typed["password"] \in Seq(Tokens)
  BY <1>3, <1>4
<1>6. Holder(typed) = Longer(address, ",", Blank, num)
  BY Zenon DEF Holder, Longer
<1> HIDE DEF address, num
<1>7. /\ Longer(address, ",", Blank, num) \in Seq(Tokens)
      /\ Survives(address) => Survives(Longer(address, ",", Blank, num))
      /\ EndWith(Fields(Longer(address, ",", Blank, num)), TrimmedPieces(address, ","), num)
  BY <1>2, <1>5, TokensIn, HolderData
<1>8. /\ Holder(typed) \in Seq(Tokens)
      /\ Survives(address) => Survives(Holder(typed))
      /\ EndWith(Fields(Holder(typed)), TrimmedPieces(address, ","), num)
  BY <1>6, <1>7, Zenon
<1> QED BY <1>5, <1>8 DEF address, num

\* A type with data that survives is an intent that may be named.
LEMMA NamedIntended ==
  ASSUME NEW name \in Tokens, name \notin Separators, NEW data \in Seq(Tokens), Survives(data)
  PROVE  Named(<<name>>, data) \in Intended(Tokens)
<1>1. <<name>> \in {<<t>> : t \in Tokens \ Separators}
  OBVIOUS
<1>2. data \in {d \in Seq(Tokens) : Survives(d)}
  OBVIOUS
<1> QED BY <1>1, <1>2 DEF Named, Intended

\* So are those of the rows that were marked.
LEMMA MeantIntended ==
  ASSUME NEW rows \in [Rows -> BOOLEAN], \E r \in Rows : rows[r],
         NEW typed \in [Inputs -> Seq(Keys)], typed["token_count"] \in NumberTexts,
         rows["Password"] => Survives(typed["password"]),
         rows["PSP22"] => Survives(typed["contract_address"])
  PROVE  MeantBy(rows, typed) \in Seq(Intended(Tokens)) /\ MeantBy(rows, typed) # << >>
<1> DEFINE meant == MeantBy(rows, typed)
           other == Chosen(rows["Password"], rows["PSP22"], rows["SR25519"], 1, 1, 1)
<1>1. "Password" \notin Separators /\ "Psp22" \notin Separators /\ "Sr25519" \notin Separators
  BY DEF Separators, Blank
<1>2. rows["Password"] => PasswordOf(typed) \in Intended(Tokens)
  BY <1>1, TokensIn, HolderFacts, NamedIntended DEF PasswordOf
<1>3. rows["PSP22"] => HolderOf(typed) \in Intended(Tokens)
  BY <1>1, TokensIn, HolderFacts, NamedIntended DEF HolderOf
<1>4. Signature \in Intended(Tokens)
  <2>1. << >> \in Seq(Tokens)
    OBVIOUS
  <2> QED BY <1>1, <2>1, TokensIn, SurvivesEmpty, NamedIntended DEF Signature
<1>5. /\ meant \in Seq({PasswordOf(typed), HolderOf(typed), Signature}) /\ meant # << >>
      /\ Paired(rows["Password"], rows["PSP22"], rows["SR25519"],
                meant, PasswordOf(typed), HolderOf(typed), Signature, other, 1, 1, 1)
  BY MeantPairs
<1> HIDE DEF meant, other
<1>6. \A k \in 1..Len(meant) : meant[k] \in Intended(Tokens)
  BY <1>2, <1>3, <1>4, <1>5 DEF Paired
<1>7. meant \in Seq(Intended(Tokens))
  BY <1>5, <1>6
<1> QED BY <1>5, <1>7 DEF meant

\* A file is locked with just the intents that are meant.
LEMMA LockedAsMeant ==
  ASSUME NEW rows \in [Rows -> BOOLEAN], \E r \in Rows : rows[r],
         NEW typed \in [Inputs -> Seq(Keys)], typed["token_count"] \in NumberTexts,
         rows["Password"] => Survives(typed["password"]),
         rows["PSP22"] => Survives(typed["contract_address"]),
         ParsesOk(TextMeant(rows, typed))
  PROVE  /\ ParseIntents(TextMeant(rows, typed)) = Predicate(MeantBy(rows, typed))
         /\ \A k \in 1..Len(MeantBy(rows, typed)) : DataParses(MeantBy(rows, typed)[k])
<1> DEFINE meant == MeantBy(rows, typed)
           glue == <<Blank, "&&", Blank>>
           j == Join(TextsOf(meant), glue)
<1>1. meant \in Seq(Intended(Tokens)) /\ meant # << >>
  BY MeantIntended
<1>2. << >> \in Seq(Tokens) /\ IsBlank(<< >>)
  BY EmptyBlank
<1>3. IsGlue(glue, "&&", Tokens)
  BY TokensIn, Glue, Zenon
<1>4. TextMeant(rows, typed) = j
  BY TextMeantIs
<1> HIDE DEF meant, glue
<1>5. ParseIntents(<< >> \o j) = Predicate(meant)
  BY <1>1, <1>2, <1>3, TokensIn, ParsedAsMeant
<1>6. ParsesOk(<< >> \o j) => \A k \in 1..Len(meant) : DataParses(meant[k])
  BY <1>1, <1>2, <1>3, TokensIn, AcceptedAsMeant
<1>7. << >> \o j = j
  <2>1. TextsOf(meant) \in Seq(Seq(Tokens))
    <3>1. \A k \in 1..Len(meant) : TextOf(meant[k].type, meant[k].data) \in Seq(Tokens)
      <4>1. ASSUME NEW i \in Intended(Tokens) PROVE TextOf(i.type, i.data) \in Seq(Tokens)
        BY TokensIn, IntendedText
      <4> QED BY <1>1, <4>1, ElementOfSeq
    <3>2. Len(meant) \in Nat
      BY <1>1, LenProperties
    <3> QED BY <3>1, <3>2, IsASeq DEF TextsOf
  <2>2. glue \in Seq(Tokens)
    BY <1>3, TokensIn, GlueType
  <2>3. j \in Seq(Tokens)
    BY <2>1, <2>2, JoinType
  <2> HIDE DEF j
  <2> QED BY <2>3
<1> HIDE DEF j
<1> QED BY <1>4, <1>5, <1>6, <1>7, Zenon DEF meant

(***************************************************************************)
(* Locking                                                                 *)
(***************************************************************************)
\* The last of two pieces.
LEMMA SecondPiece ==
  ASSUME NEW A, NEW ps \in Seq(Seq(A)), NEW c \in A, NEW fs, EndWith(fs, ps, c), Len(fs) = 2
  PROVE  fs[2] = <<c>>
<1> DEFINE t == <<c>>
<1>1. t \in Seq(A)
  OBVIOUS
<1>2. fs = ps \o <<t>>
  BY DEF EndWith
<1> HIDE DEF t
<1>3. Len(fs) = Len(ps) + 1 /\ fs[Len(ps) + 1] = t
  BY <1>1, <1>2
<1>4. Len(ps) \in Nat
  OBVIOUS
<1>5. Len(ps) + 1 = 2
  BY <1>3, <1>4
<1>6. fs[2] = t
  BY <1>3, <1>5
<1> QED BY <1>6 DEF t

\* The minimum balance is the number that was typed, and not zero.
LEMMA HolderStatement ==
  ASSUME NEW typed \in [Inputs -> Seq(Keys)], typed["token_count"] \in NumberTexts,
         typed["token_count"] # << >>, DataParses(HolderOf(typed))
  PROVE  /\ Statement(HolderOf(typed)) =
              [contract |-> DecodeContractAddr(Fields(Holder(typed))[1]),
               minimum |-> Numbers[Numeral[typed["token_count"]]]]
         /\ Numbers[Numeral[typed["token_count"]]] \in Nat
         /\ Numbers[Numeral[typed["token_count"]]] > 0
<1> DEFINE num == Numeral[typed["token_count"]]
           fs == Fields(Holder(typed))
           address == typed["contract_address"]
           ps == TrimmedPieces(address, ",")
<1>1. /\ HolderOf(typed).type = <<"Psp22">> /\ HolderOf(typed).data = Holder(typed)
  BY DEF HolderOf, Named
<1>2. Len(fs) = 2 /\ IsWord(fs[2], DOMAIN Numbers)
  BY <1>1 DEF DataParses
<1>3. EndWith(fs, ps, num) /\ address \in Seq(Tokens)
  BY HolderFacts
<1>4. typed["token_count"] \in DOMAIN Numeral
  BY CountsHaveNumerals
<1>5. num \in Tokens
  BY <1>4, TokensIn
<1>6. ps \in Seq(Seq(Tokens))
  <2>1. Split(address, ",") \in Seq(Seq(Tokens))
    BY <1>3, TokensIn, SplitType DEF Pieces
  <2>2. ps = TrimAll(Split(address, ","))
    BY TrimmedIsTrimAll
  <2> QED BY <2>1, <2>2, TrimAllType
<1> HIDE DEF num, fs, ps
<1>7. fs[2] = <<num>>
  BY <1>2, <1>3, <1>5, <1>6, SecondPiece
<1>8. fs[2][1] = num /\ num \in DOMAIN Numbers
  BY <1>2, <1>7 DEF IsWord
<1>9. Statement(HolderOf(typed)) =
        [contract |-> DecodeContractAddr(fs[1]), minimum |-> Numbers[fs[2][1]]]
  BY <1>1 DEF Statement, fs
<1>10. Numbers[num] \in Nat
  BY <1>8, IntentConstants
<1>11. typed["token_count"][1] \in Digits
  BY DEF NumberTexts
<1>12. Numbers[num] > 0
  BY <1>4, <1>8, <1>11, NumeralConstants DEF num
<1> QED BY <1>8, <1>9, <1>10, <1>12 DEF num, fs

\* The types and the statements of a predicate.
LEMMA PredicateParts ==
  ASSUME NEW S, NEW meant \in Seq(S)
  PROVE  /\ Len(Predicate(meant)) = Len(meant)
         /\ \A k \in 1..Len(meant) :
              /\ Predicate(meant)[k].type = meant[k].type
              /\ Predicate(meant)[k].statement = Statement(meant[k])
<1>1. Len(meant) \in Nat
  OBVIOUS
<1> QED BY <1>1 DEF Predicate

\* What the property says of one file, for the rows and texts it was locked with.
AsMarked(predicate, rows, typed) ==
  /\ [k \in 1..Len(predicate) |-> predicate[k].type] = TypesOf(rows)
  /\ \A k \in 1..Len(predicate) :
       CASE predicate[k].type = <<"Password">> ->
              predicate[k].statement = Sha256(typed["password"])
         [] predicate[k].type = <<"Psp22">> ->
              predicate[k].statement.minimum > 0
         [] OTHER -> TRUE

\* Such intents have the types of the rows, the password and a minimum above
\* zero.
LEMMA MeantAsMarked ==
  ASSUME NEW rows \in [Rows -> BOOLEAN], \E r \in Rows : rows[r],
         NEW typed \in [Inputs -> Seq(Keys)], typed["token_count"] \in NumberTexts,
         rows["PSP22"] => typed["token_count"] # << >>,
         \A k \in 1..Len(MeantBy(rows, typed)) : DataParses(MeantBy(rows, typed)[k])
  PROVE  AsMarked(Predicate(MeantBy(rows, typed)), rows, typed)
<1> DEFINE meant == MeantBy(rows, typed)
           n == Len(meant)
           p == PasswordOf(typed)
           h == HolderOf(typed)
           s == Signature
           u == <<"Password">>
           v == <<"Psp22">>
           w == <<"Sr25519">>
           types == TypesOf(rows)
           I == Predicate(meant)
<1>1. /\ p.type = u /\ h.type = v /\ s.type = w /\ p.data = typed["password"]
      /\ u # v /\ u # w /\ v # w
  BY DEF PasswordOf, HolderOf, Signature, Named
<1>2. Statement(p) = Sha256(typed["password"])
  BY <1>1 DEF Statement
<1>3. types = Chosen(rows["Password"], rows["PSP22"], rows["SR25519"], u, v, w)
  BY DEF TypesOf, Chosen
<1>4. (rows["PSP22"] /\ DataParses(h)) => Statement(h).minimum > 0
  BY HolderStatement
<1> HIDE DEF p, h, s, u, v, w, types
<1>5. /\ meant \in Seq({p, h, s}) /\ types \in Seq({u, v, w})
      /\ Paired(rows["Password"], rows["PSP22"], rows["SR25519"], meant, p, h, s, types, u, v, w)
  BY <1>3, MeantPairs DEF p, h, s
<1>6. \A k \in 1..Len(meant) : DataParses(meant[k])
  OBVIOUS
<1> HIDE DEF meant, n
<1>7. n \in Nat /\ Len(I) = n /\ \A k \in 1..n : I[k].type = meant[k].type /\ I[k].statement = Statement(meant[k])
  BY <1>5, PredicateParts, LenProperties DEF n
<1> HIDE DEF I
<1>8. Len(types) = n /\ \A k \in 1..n : I[k].type = types[k]
  BY <1>1, <1>5, <1>7 DEF Paired, n
<1>9. types = [k \in 1..n |-> types[k]]
  BY <1>5, <1>8
<1>10. [k \in 1..Len(I) |-> I[k].type] = types
  BY <1>7, <1>8, <1>9
<1>11. ASSUME NEW k \in 1..n
       PROVE  /\ I[k].type = u => I[k].statement = Sha256(typed["password"])
              /\ I[k].type = v => I[k].statement.minimum > 0
  <2>1. CASE meant[k] = p
    BY <1>1, <1>2, <1>7, <2>1
  <2>2. CASE rows["PSP22"] /\ meant[k] = h
    <3>1. DataParses(h)
      BY <1>6, <2>2 DEF n
    <3> QED BY <1>1, <1>4, <1>7, <2>2, <3>1
  <2>3. CASE meant[k] = s
    BY <1>1, <1>7, <2>3
  <2> QED BY <1>5, <2>1, <2>2, <2>3 DEF Paired, n
<1> USE DEF u, v, types
<1>12. \A k \in 1..Len(I) :
         CASE I[k].type = <<"Password">> -> I[k].statement = Sha256(typed["password"])
           [] I[k].type = <<"Psp22">> -> I[k].statement.minimum > 0
           [] OTHER -> TRUE
  BY <1>7, <1>11
<1>13. AsMarked(I, rows, typed)
  BY <1>10, <1>12, Zenon DEF AsMarked
<1> QED BY <1>13 DEF I, meant

\* The property, for every file that is registered.
LEMMA InvAsMarked == EntmootInv => RegisteredAsMarked
<1> SUFFICES ASSUME EntmootInv, NEW f \in DOMAIN predicate_registry,
                    locked[f].rows["Password"] => Survives(locked[f].typed["password"]),
                    locked[f].rows["PSP22"] => Survives(locked[f].typed["contract_address"])
             PROVE  AsMarked(predicate_registry[f].predicate, locked[f].rows, locked[f].typed)
  BY DEF RegisteredAsMarked, AsMarked
<1> DEFINE rows == locked[f].rows
           typed == locked[f].typed
           predicate == predicate_registry[f].predicate
<1>1. LockedAs(locked[f], predicate)
  BY DEF EntmootInv, Locked
<1>2. /\ rows \in [Rows -> BOOLEAN] /\ \E r \in Rows : rows[r]
      /\ typed \in [Inputs -> Seq(Keys)] /\ typed["token_count"] \in NumberTexts
      /\ rows["PSP22"] => typed["token_count"] # << >>
      /\ ParsesOk(TextMeant(rows, typed)) /\ predicate = ParseIntents(TextMeant(rows, typed))
  BY <1>1 DEF LockedAs
<1>3. /\ rows["Password"] => Survives(typed["password"])
      /\ rows["PSP22"] => Survives(typed["contract_address"])
  OBVIOUS
<1> HIDE DEF rows, typed, predicate
<1>4. /\ predicate = Predicate(MeantBy(rows, typed))
      /\ \A k \in 1..Len(MeantBy(rows, typed)) : DataParses(MeantBy(rows, typed)[k])
  BY <1>2, <1>3, LockedAsMeant
<1>5. AsMarked(Predicate(MeantBy(rows, typed)), rows, typed)
  BY <1>2, <1>4, MeantAsMarked
<1>6. AsMarked(predicate, rows, typed)
  BY <1>4, <1>5, Zenon
<1> QED BY <1>6 DEF rows, typed, predicate

\* Every file is locked with the intents that were marked for it, in their
\* order, with the password that was typed and a minimum that is not zero.
THEOREM EntmootRegisteredAsMarked == Spec => []RegisteredAsMarked
  BY EntmootInvariant, InvAsMarked, PTL

(***************************************************************************)
(* Opening                                                                 *)
(***************************************************************************)
\* A word is a text in which nothing is cut off or closed.
LEMMA WordText ==
  ASSUME NEW A, NEW c \in A, c \notin Separators
  PROVE  /\ <<c>> \in Seq(A) /\ Survives(<<c>>) /\ Free(<<c>>, ",") /\ Trim(<<c>>) = <<c>>
<1>1. c \notin {"(", ")", "&&"} /\ c # "," /\ c # Blank
  BY DEF Separators
<1>2. << >> \in Seq(A) /\ Append(<< >>, c) = <<c>> /\ <<c>> \in Seq(A)
  OBVIOUS
<1>3. Survives(Append(<< >>, c))
  BY <1>1, <1>2, SurvivesEmpty, SurvivesAppend
<1>4. Free(<<c>>, ",") /\ Inked(<<c>>)
  <2>1. Len(<<c>>) = 1 /\ <<c>>[1] = c
    OBVIOUS
  <2> DEFINE t == <<c>>
  <2> HIDE DEF t
  <2>2. Len(t) = 1 /\ t[1] = c
    BY <2>1 DEF t
  <2>3. ASSUME NEW p, c # p PROVE Free(t, p)
    BY <2>2, <2>3 DEF Free
  <2>4. Inked(t)
    BY <1>1, <2>2 DEF Inked
  <2> QED BY <1>1, <2>3, <2>4 DEF t
<1>5. Trim(<<c>>) = <<c>>
  BY <1>2, <1>4, TrimInked
<1> QED BY <1>2, <1>3, <1>4, <1>5

\* The first of two pieces.
LEMMA FirstPiece ==
  ASSUME NEW A, NEW t \in Seq(A), NEW c \in A, NEW fs, EndWith(fs, <<t>>, c)
  PROVE  fs[1] = t
<1> DEFINE d == <<c>>
<1>1. d \in Seq(A)
  OBVIOUS
<1>2. fs = <<t>> \o <<d>>
  BY DEF EndWith
<1> HIDE DEF d
<1> QED BY <1>1, <1>2

\* Whoever is the holder of the key that is given satisfies the token gadget.
LEMMA HolderVerified ==
  ASSUME NEW typed \in [Inputs -> Seq(Keys)], typed["token_count"] \in NumberTexts,
         typed["token_count"] # << >>, DataParses(HolderOf(typed)),
         typed["contract_address"] = <<Token>>, Token \in Tokens,
         Numbers[Numeral[typed["token_count"]]] <= Holding,
         NEW intent, intent.type = <<"Psp22">>, intent.statement = Statement(HolderOf(typed))
  PROVE  VerifyIntent(intent, <<PubKey>>, Chain) = "true"
<1> DEFINE num == Numeral[typed["token_count"]]
           fs == Fields(Holder(typed))
           t == <<Token>>
<1>1. /\ intent.statement = [contract |-> DecodeContractAddr(fs[1]), minimum |-> Numbers[num]]
      /\ Numbers[num] \in Nat
  BY HolderStatement
<1>2. fs[1] = <<Token>>
  <2>1. Token \notin Separators
    BY EntmootConstants
  <2>2. t \in Seq(Tokens) /\ Free(t, ",") /\ Trim(t) = t
    BY <2>1, WordText
  <2>3. EndWith(fs, TrimmedPieces(typed["contract_address"], ","), num)
    BY HolderFacts
  <2>4. num \in Tokens
    BY CountsHaveNumerals, TokensIn
  <2>5. typed["contract_address"] = t
    OBVIOUS
  <2> HIDE DEF t, fs, num
  <2>6. TrimmedPieces(t, ",") = <<Trim(t)>>
    BY <2>2, PiecesFree
  <2>7. EndWith(fs, <<t>>, num)
    BY <2>2, <2>3, <2>5, <2>6, Zenon
  <2>8. fs[1] = t
    BY <2>2, <2>4, <2>7, FirstPiece
  <2> QED BY <2>8 DEF t
<1>3. DecodeContractAddr(fs[1]) = Token
  BY <1>2 DEF DecodeContractAddr
<1>4. DecodePublicKey(<<PubKey>>) = Me
  BY EntmootConstants DEF DecodePublicKey, IsWord
<1>5. Chain.balance[Me] = Holding
  BY DEF Chain
<1> HIDE DEF num, fs
<1>6. intent.statement.contract = Token /\ intent.statement.minimum = Numbers[num]
  BY <1>1, <1>3
<1>7. Holding >= Numbers[num]
  BY <1>1, EntmootConstants DEF num
<1>8. Psp22Verdict(<<PubKey>>, intent.statement, Chain) = "true"
  BY <1>4, <1>5, <1>6, <1>7 DEF Psp22Verdict
<1> QED BY <1>8 DEF VerifyIntent

\* A signature of the latest nonce satisfies the signature gadget.
LEMMA SignatureVerified ==
  ASSUME NEW intent, intent.type = <<"Sr25519">>
  PROVE  VerifyIntent(intent, <<Signed>>, Chain) = "true"
<1>1. Signed \in DOMAIN SignedBy /\ SignedBy[Signed].account = Me /\ Signed \notin Garbage
  BY EntmootConstants, IntentConstants
<1>2. Chain.nonce[Me] = SignedBy[Signed].nonce
  BY DEF Chain
<1>3. Sr25519Verdict(<<Signed>>, Chain) = "true"
  BY <1>1, <1>2 DEF Sr25519Verdict, IsWord
<1> QED BY <1>3 DEF VerifyIntent

\* The witnesses that prepare_witness_string names.
Given(rows, password) ==
  Chosen(rows["Password"], rows["PSP22"], rows["SR25519"], password, <<PubKey>>, <<Signed>>)

\* A sequence is the function of its places.
LEMMA SeqIsFunction ==
  ASSUME NEW S, NEW s \in Seq(S)
  PROVE  s = [k \in 1..Len(s) |-> s[k]]
  OBVIOUS

\* handle_decrypt finds the witnesses that prepare_witness_string names.
LEMMA GivenWitnesses ==
  ASSUME NEW rows \in [Rows -> BOOLEAN], \E r \in Rows : rows[r],
         NEW password \in Seq(Tokens),
         rows["Password"] => Free(password, ",") /\ Trim(password) = password
  PROVE  /\ Witnesses(Join(Given(rows, password), <<",">>)) = Given(rows, password)
         /\ Given(rows, password) \in Seq(Seq(Tokens))
<1> DEFINE x == password
           y == <<PubKey>>
           z == <<Signed>>
           a == rows["Password"]
           b == rows["PSP22"]
           c == rows["SR25519"]
           g == Chosen(a, b, c, x, y, z)
<1>1. PubKey \in Tokens /\ Signed \in Tokens /\ PubKey \notin Separators /\ Signed \notin Separators
  BY TokensIn, EntmootConstants
<1>2. /\ y \in Seq(Tokens) /\ Free(y, ",") /\ Trim(y) = y
      /\ z \in Seq(Tokens) /\ Free(z, ",") /\ Trim(z) = z
  BY <1>1, WordText
<1>3. a \in BOOLEAN /\ b \in BOOLEAN /\ c \in BOOLEAN /\ (a \/ b \/ c)
  BY DEF Rows
<1>4. x \in Seq(Tokens) /\ (a => Free(x, ",") /\ Trim(x) = x)
  OBVIOUS
<1>5. Given(rows, password) = g
  BY Zenon DEF Given
<1> HIDE DEF x, y, z, a, b, c
<1>6. g \in Seq(Seq(Tokens)) /\ g # << >>
  <2> DEFINE A == Seq(Tokens)
  <2>1. x \in A /\ y \in A /\ z \in A
    BY <1>2, <1>4
  <2> HIDE DEF A
  <2>2. g \in Seq(A)
    BY <1>3, <2>1, ChosenType, Zenon
  <2>3. g # << >>
    BY <1>3, <2>1, ChosenType, Zenon
  <2> QED BY <2>2, <2>3 DEF A
<1>7. Paired(a, b, c, g, x, y, z, g, x, y, z)
  BY <1>2, <1>3, <1>4, ChosenPairs, Zenon
<1> HIDE DEF g
<1>8. \A k \in 1..Len(g) : Free(g[k], ",") /\ Trim(g[k]) = g[k]
  BY <1>2, <1>4, <1>7 DEF Paired
<1>9. AllFree(g, ",")
  BY <1>8 DEF AllFree
<1>10. TrimAll(g) = g
  <2>1. TrimAll(g) = [k \in 1..Len(g) |-> g[k]]
    BY <1>8 DEF TrimAll
  <2> DEFINE A == Seq(Tokens)
  <2>a. g \in Seq(A)
    BY <1>6
  <2> HIDE DEF A
  <2>2. g = [k \in 1..Len(g) |-> g[k]]
    BY <2>a, SeqIsFunction
  <2> QED BY <2>1, <2>2, Zenon
<1>11. IsGlue(<<",">>, ",", Tokens)
  BY TokensIn, Glue, Zenon
<1>12. Witnesses(Join(g, <<",">>)) = g
  BY <1>6, <1>9, <1>10, <1>11, TokensIn, WitnessesOfJoin
<1> QED BY <1>5, <1>6, <1>12, Zenon

\* Each of them satisfies the gadget of the intent in its place.
LEMMA GivenVerified ==
  ASSUME NEW rows \in [Rows -> BOOLEAN], \E r \in Rows : rows[r],
         NEW typed \in [Inputs -> Seq(Keys)], typed["token_count"] \in NumberTexts,
         rows["PSP22"] => /\ typed["token_count"] # << >>
                          /\ typed["contract_address"] = <<Token>>
                          /\ Numbers[Numeral[typed["token_count"]]] <= Holding,
         \A k \in 1..Len(MeantBy(rows, typed)) : DataParses(MeantBy(rows, typed)[k]),
         NEW password, rows["Password"] => password = typed["password"]
  PROVE  VerifyIntents(Predicate(MeantBy(rows, typed)), Given(rows, password), Chain) = "true"
<1> DEFINE meant == MeantBy(rows, typed)
           n == Len(meant)
           p == PasswordOf(typed)
           h == HolderOf(typed)
           s == Signature
           y == <<PubKey>>
           z == <<Signed>>
           ws == Given(rows, password)
           I == Predicate(meant)
<1>1. /\ p.type = <<"Password">> /\ p.data = typed["password"]
      /\ h.type = <<"Psp22">> /\ s.type = <<"Sr25519">>
  BY DEF PasswordOf, HolderOf, Signature, Named
<1>2. Statement(p) = Sha256(typed["password"])
  BY <1>1 DEF Statement
<1>3. ASSUME rows["PSP22"], DataParses(h), NEW intent, intent.type = h.type,
             intent.statement = Statement(h)
      PROVE  VerifyIntent(intent, y, Chain) = "true"
  <2>1. Token \in Keys
    <3>1. typed["contract_address"] \in Seq(Keys) /\ typed["contract_address"] = <<Token>>
      BY <1>3 DEF Inputs
    <3> QED BY <3>1
  <2> QED BY <1>1, <1>3, <2>1, TokensIn, HolderVerified
<1>4. ASSUME NEW intent, intent.type = s.type PROVE VerifyIntent(intent, z, Chain) = "true"
  BY <1>1, <1>4, SignatureVerified
<1>5. ASSUME rows["Password"], NEW intent, intent.type = p.type, intent.statement = Statement(p)
      PROVE  VerifyIntent(intent, password, Chain) = "true"
  BY <1>1, <1>2, <1>5, PasswordTaken
<1>6. ws = Chosen(rows["Password"], rows["PSP22"], rows["SR25519"], password, y, z)
  BY DEF Given
<1>7. \A k \in 1..Len(meant) : DataParses(meant[k])
  OBVIOUS
<1> HIDE DEF p, h, s, y, z, ws
<1>8. /\ meant \in Seq({p, h, s}) /\ ws \in Seq({password, y, z})
      /\ Paired(rows["Password"], rows["PSP22"], rows["SR25519"], meant, p, h, s,
                ws, password, y, z)
  BY <1>6, MeantPairs DEF p, h, s
<1> HIDE DEF meant, n
<1>9. /\ n \in Nat /\ Len(I) = n
      /\ \A k \in 1..n : I[k].type = meant[k].type /\ I[k].statement = Statement(meant[k])
  BY <1>8, PredicateParts, LenProperties DEF n
<1> HIDE DEF I
<1>10. ASSUME NEW k \in 1..n PROVE VerifyIntent(I[k], ws[k], Chain) = "true"
  <2>1. CASE rows["Password"] /\ meant[k] = p /\ ws[k] = password
    BY <1>5, <1>9, <2>1
  <2>2. CASE rows["PSP22"] /\ meant[k] = h /\ ws[k] = y
    <3>1. DataParses(h)
      BY <1>7, <2>2 DEF n
    <3> QED BY <1>3, <1>9, <2>2, <3>1
  <2>3. CASE meant[k] = s /\ ws[k] = z
    BY <1>4, <1>9, <2>3
  <2> QED BY <1>8, <2>1, <2>2, <2>3 DEF Paired, n
<1>11. Len(ws) = n
  BY <1>8 DEF Paired, n
<1>12. VerifyIntents(I, ws, Chain) = "true"
  BY <1>9, <1>10, <1>11, VerifiedAll, SMTT(30)
<1> QED BY <1>12 DEF I, meant, ws

\* The property, for the file that is named on the screen.
LEMMA InvOpens == EntmootInv => OpensWhatItLocked
<1> DEFINE name == input["filename"][1]
           rows == locked[name].rows
           typed == locked[name].typed
           predicate == predicate_registry[name].predicate
<1> SUFFICES ASSUME EntmootInv,
                    On("DecryptScreen"), Filled(DecInputs),
                    name \in DOMAIN predicate_registry, intent_list_items = rows,
                    rows["Password"] =>
                      /\ input["password"] = typed["password"]
                      /\ Survives(typed["password"])
                      /\ ~ Contains(typed["password"], ",")
                      /\ Trim(typed["password"]) = typed["password"],
                    rows["PSP22"] =>
                      /\ typed["contract_address"] = <<Token>>
                      /\ Numbers[Numeral[typed["token_count"]]] <= Holding
             PROVE  VerifyIntents(predicate, Witnesses(WitnessText), Chain) = "true"
  BY DEF OpensWhatItLocked
<1>1. LockedAs(locked[name], predicate)
  BY DEF EntmootInv, Locked
<1>2. /\ rows \in [Rows -> BOOLEAN] /\ \E r \in Rows : rows[r]
      /\ typed \in [Inputs -> Seq(Keys)] /\ typed["token_count"] \in NumberTexts
      /\ rows["PSP22"] => typed["token_count"] # << >>
      /\ ParsesOk(TextMeant(rows, typed)) /\ predicate = ParseIntents(TextMeant(rows, typed))
  BY <1>1 DEF LockedAs
<1>3. /\ display_password_input = rows["Password"]
      /\ display_contract_address_input = rows["PSP22"]
      /\ sr25519_intent = rows["SR25519"]
  BY DEF EntmootInv, FlagsSet, On
<1>4. input["password"] \in Seq(Tokens)
  <2>1. input["password"] \in Seq(Keys)
    BY DEF EntmootInv, ScreensInv, ScreensTypeOK, Inputs
  <2> QED BY <2>1, TokensIn, WiderSeq
<1>5. WitnessText = Join(Given(rows, input["password"]), <<",">>)
  BY <1>3 DEF WitnessText, WitnessParts, Given, Chosen
<1>6. /\ rows["Password"] => /\ input["password"] = typed["password"]
                             /\ Survives(typed["password"])
                             /\ ~ Contains(typed["password"], ",")
                             /\ Trim(typed["password"]) = typed["password"]
      /\ rows["PSP22"] => /\ typed["contract_address"] = <<Token>>
                          /\ Numbers[Numeral[typed["token_count"]]] <= Holding
  OBVIOUS
<1> HIDE DEF name, rows, typed, predicate
<1>7. rows["PSP22"] => Survives(typed["contract_address"])
  <2> SUFFICES ASSUME rows["PSP22"] PROVE Survives(<<Token>>)
    BY <1>6
  <2>1. Token \notin Separators /\ Token \in {Token}
    BY EntmootConstants
  <2> QED BY <2>1, WordText
<1>8. /\ predicate = Predicate(MeantBy(rows, typed))
      /\ \A k \in 1..Len(MeantBy(rows, typed)) : DataParses(MeantBy(rows, typed)[k])
  BY <1>2, <1>6, <1>7, LockedAsMeant
<1>9. rows["Password"] => /\ Free(input["password"], ",")
                          /\ Trim(input["password"]) = input["password"]
  BY <1>6 DEF Contains, Free
<1>10. Witnesses(WitnessText) = Given(rows, input["password"])
  BY <1>2, <1>4, <1>5, <1>9, GivenWitnesses
<1>11. VerifyIntents(Predicate(MeantBy(rows, typed)), Given(rows, input["password"]), Chain) = "true"
  BY <1>2, <1>6, <1>8, GivenVerified
<1> QED BY <1>8, <1>10, <1>11, Zenon

\* Whoever marks the same intents again and types the same password is given
\* what opens the file (prepare_witness_string), on a chain where the signed nonce
\* is still current.
THEOREM EntmootOpensWhatItLocked == Spec => []OpensWhatItLocked
  BY EntmootInvariant, InvOpens, PTL
==============================================================================
