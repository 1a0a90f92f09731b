----------------------------- MODULE MCNpuSync -----------------------------
(* Two pieces of cache and two of pages, two lines each.                   *)
EXTENDS NpuSync

MCCacheParts == << 2, 2 >>
MCPageParts == << 2, 1 >>
=============================================================================
