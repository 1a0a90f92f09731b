---------------------------- MODULE MCNpuDevice ----------------------------
(* A small instance of NpuDevice: two ioctls and a reader of the node freq. *)
EXTENDS NpuDevice

CONSTANTS u1, u2, f1

MCUsers == {u1, u2}
MCReaders == {f1}
=============================================================================
