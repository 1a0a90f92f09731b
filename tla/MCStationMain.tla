---------------------------- MODULE MCStationMain ----------------------------
(* A small instance of StationMain.                                         *)
EXTENDS StationMain
=============================================================================
