---------------------------- MODULE MCNpuDevfreq ----------------------------
(* Three operating points, the lowest the one of a suspended SCMI clock.    *)
EXTENDS NpuDevfreq
=============================================================================
