------------------------------- MODULE MCClient -------------------------------
(***************************************************************************)
(* Two encrypt commands that use the same filename, and one decrypt        *)
(* command.  The first encryptor's user may mean passwords with blanks,     *)
(* commas, parentheses and delimiters in them, pairs of passwords, and     *)
(* intents of the other types, some of them wrong; the decryptor's may     *)
(* type their witnesses and others.                                        *)
(***************************************************************************)
EXTENDS Client

Intent(type, data) == [type |-> <<type>>, data |-> data]

MCPasswords ==
  {<<Intent("Password", d)>> : d \in
     {<< >>, <<"a">>, <<" ", "a">>, <<"a", " ">>, <<",">>, <<",", "a">>, <<"(">>,
      <<")">>, <<"(", ")">>, <<")", "(">>, <<"(", "a", ")">>, <<"a", "&&", "a">>}}
  \cup {<<Intent("Password", d), Intent("Password", e)>> :
          d \in {<< >>, <<"(", ")">>}, e \in {<< >>, <<"a">>}}

MCOthers ==
  {<<Intent("Sr25519", << >>)>>,
   <<Intent("Psp22", <<"token", ",", " ", "1">>), Intent("Sr25519", << >>)>>,
   <<Intent("Psp22", <<"a", ",", "1">>)>>,
   <<Intent("Psp22", <<"token">>)>>,
   <<Intent("Psp22", <<"token", ",", "a">>)>>,
   <<Intent("Unknown", << >>)>>}

MCMeant == [p \in Encryptors |->
  IF p = "first" THEN MCPasswords \cup MCOthers
  ELSE {<<Intent("Password", <<"a">>)>>}]

MCTyped ==
  {<< >>, <<"a">>, <<"(", ")">>, <<"(", "a", ")">>, <<"a", " ">>, <<",">>,
   <<",", "a">>, <<"(", ")", ",", " ", "a">>, <<" ", "a", ",", " ">>}
  \cup {<<"alice", ",", "sig1">>, <<"sig0">>, <<"sig1">>, <<"noise">>}

MCNumbers == [w \in {"1"} |-> 1]
MCAccountOf == [w \in {"alice"} |-> "alice"]
MCSignedBy == [w \in {"sig0", "sig1"} |->
  [account |-> "alice", nonce |-> IF w = "sig0" THEN 0 ELSE 1]]
MCFileOf == [c \in Encryptors \cup Decryptors |-> "f"]
MCAccount == [c \in Encryptors \cup Decryptors |->
  IF c \in Decryptors THEN "alice" ELSE "bob"]
MCBalance == [a \in {"alice", "bob", "zero"} |-> IF a = "alice" THEN 1 ELSE 0]

\* For the signature alone: a file with Sr25519(), and a signed nonce.
MCSigned == [p \in Encryptors |-> {<<Intent("Sr25519", << >>)>>}]
===============================================================================
