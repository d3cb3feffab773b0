----------------------------- MODULE MCPlugManager -----------------------------
(* PlugManager for TLC, without subscribers: what the bus is given, not who   *)
(* receives it.  A reading, where there are any, is 2 when a plug is on.     *)
EXTENDS PlugManager

MCLoad == [r \in Readings |-> 2]
==============================================================================
