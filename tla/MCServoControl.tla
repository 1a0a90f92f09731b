--------------------------- MODULE MCServoControl ---------------------------
(* A small instance of ServoControl.                                        *)
EXTENDS ServoControl
=============================================================================
