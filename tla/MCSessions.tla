----------------------------- MODULE MCSessions -----------------------------
(* Three clients that come again and again, and four numbers.               *)
EXTENDS Sessions

CONSTANTS c1, c2, c3

MCClients == {c1, c2, c3}
MCNumbers == 3 .. 6
MCClosed == -1
=============================================================================
