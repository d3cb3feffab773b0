------------------------------- MODULE MCBridge -------------------------------
(* Bridge for TLC.                                                          *)
EXTENDS Bridge

MCLoad == [r \in Readings |-> 2]
==============================================================================
