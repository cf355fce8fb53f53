----------------------------- MODULE ServiceDesk -----------------------------
(***************************************************************************)
(* What a node promises those who wait for it, with none of the polling,   *)
(* the seen set, the channel and the calls by which it keeps the promise.  *)
(* Items stand in one line that only grows.  Each clerk goes through the   *)
(* line from its beginning, has one item open at a time, and gives at most *)
(* one answer to it, one that fits.  It does not come back to an item      *)
(* unless its desk is closed and opened anew.                              *)
(***************************************************************************)
EXTENDS Naturals, Sequences

CONSTANTS
  Clerks,
  Items,
  Fits          \* <<clerk, item, answer>>: the answers it may give to an item

VARIABLES
  line,         \* the items, in the order they came
  place,        \* clerk -> how many items it has opened
  desk,         \* clerk -> "free", "open", "answered" or "closed"
  given         \* the answers given

vars == <<line, place, desk, given>>

Init ==
  /\ line = << >>
  /\ place = [c \in Clerks |-> 0]
  /\ desk = [c \in Clerks |-> "free"]
  /\ given = {}

Join(i) ==
  /\ \A k \in 1..Len(line) : line[k] # i
  /\ line' = Append(line, i)
  /\ UNCHANGED <<place, desk, given>>

\* The next item; the clerk may close at the sight of it.
Open(c) ==
  /\ desk[c] = "free"
  /\ place[c] < Len(line)
  /\ place' = [place EXCEPT ![c] = @ + 1]
  /\ \E d \in {"open", "closed"} : desk' = [desk EXCEPT ![c] = d]
  /\ UNCHANGED <<line, given>>

Give(c, answer) ==
  /\ desk[c] = "open"
  /\ <<c, line[place[c]], answer>> \in Fits
  /\ given' = given \cup {answer}
  /\ desk' = [desk EXCEPT ![c] = "answered"]
  /\ UNCHANGED <<line, place>>

\* With or without an answer.
Finish(c) ==
  /\ desk[c] \in {"open", "answered"}
  /\ desk' = [desk EXCEPT ![c] = "free"]
  /\ UNCHANGED <<line, place, given>>

Close(c) ==
  /\ desk' = [desk EXCEPT ![c] = "closed"]
  /\ UNCHANGED <<line, place, given>>

OpenAnew(c) ==
  /\ place' = [place EXCEPT ![c] = 0]
  /\ desk' = [desk EXCEPT ![c] = "free"]
  /\ UNCHANGED <<line, given>>

Next ==
  \/ \E i \in Items : Join(i)
  \/ \E c \in Clerks :
       \/ Open(c) \/ Finish(c) \/ Close(c) \/ OpenAnew(c)
       \/ \E fit \in Fits : Give(c, fit[3])

Spec == Init /\ [][Next]_vars
==============================================================================
