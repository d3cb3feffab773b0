------------------------------ MODULE MCWebStream ------------------------------
(* WebStream for TLC.                                                       *)
EXTENDS WebStream
==============================================================================
