------------------------- MODULE MCPreparedRegistry -------------------------
(* Instances of PreparedRegistry for TLC. *)
EXTENDS PreparedRegistry
=============================================================================
