--------------------------- MODULE MCRequestPool ---------------------------
(***************************************************************************)
(* A small request pool for TLC: three requests, two of which get the same *)
(* id because only the border between filename and witness differs.        *)
(***************************************************************************)
EXTENDS RequestPool

MCByte == {"a", "b"}

MCRequests ==
  {[filename |-> <<"a">>, witness_hex |-> <<"b", "b">>, location |-> <<"a">>],
   [filename |-> <<"a", "b">>, witness_hex |-> <<"b">>, location |-> <<"a">>],
   [filename |-> <<"b">>, witness_hex |-> <<"a">>, location |-> <<"a">>]}
============================================================================
