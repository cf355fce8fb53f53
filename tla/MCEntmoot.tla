------------------------------ MODULE MCEntmoot ------------------------------
(***************************************************************************)
(* Two files of one name, in the current directory and in another one, and *)
(* four keys, of which "w" is a name, a password and the address of the    *)
(* token.  Ten is the greatest number there is: 11 overflows.              *)
(***************************************************************************)
EXTENDS Entmoot

MCFiles == [dir : {"here", "there"}, name : {"w"}]

MCMaxLen == [f \in Inputs |-> IF f = "token_count" THEN 2 ELSE 1]

MCDigitSeqs == BoundedSeq(Digits \cup {ZeroKey}, 2)
MCNumeral == [s \in MCDigitSeqs |->
  CASE s = <<"1">> -> "1" [] s = <<"1", "0">> -> "10" [] s = <<"1", "1">> -> "11"
    [] s = <<"0">> -> "0" [] s = <<"0", "1">> -> "01" [] OTHER -> "00"]
MCNumbers == [w \in {"0", "00", "01", "1", "10"} |->
  CASE w = "10" -> 10 [] w \in {"1", "01"} -> 1 [] OTHER -> 0]

MCAccountOf == [w \in {"key"} |-> "me"]
MCSignedBy == [w \in {"sig"} |-> [account |-> "me", nonce |-> 0]]
==============================================================================
