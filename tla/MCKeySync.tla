------------------------------ MODULE MCKeySync ------------------------------
(***************************************************************************)
(* Small networks.                                                         *)
(***************************************************************************)
EXTENDS KeySync

\* start_instances.sh: the bootstrap node has index 0, the next ones 1, 2.
MCNodes == {0, 1, 2}
MCIndex == [n \in MCNodes |-> n]

\* docs/setup.md: the bootstrap node has index 0, "a second peer" index 2.
MCDocNodes == {0, 2}
MCDocIndex == [n \in MCDocNodes |-> n]

\* One bootstrap node and one that joins.
MCPairNodes == {0, 1}
MCPairIndex == [n \in MCPairNodes |-> n]
==============================================================================
