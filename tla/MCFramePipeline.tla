--------------------------- MODULE MCFramePipeline ---------------------------
(* A small instance of FramePipeline: three frames, queues that overflow.   *)
EXTENDS FramePipeline

CONSTANTS w1, w2, v1, r1

MCWorkers == {w1, w2}
MCViewers == {v1}
MCNoViewers == {}
MCRemotes == {r1}
=============================================================================
