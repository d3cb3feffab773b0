----------------------------- MODULE MCStateMerge -----------------------------
(* StateMerge for TLC: one plug with two readings of two values.  The        *)
(* mutants are mistakes the code could have made.                           *)
EXTENDS StateMerge

MCReadings == {"Power", "Voltage"}
MCValues == {0, 230}
==============================================================================
