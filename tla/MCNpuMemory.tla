----------------------------- MODULE MCNpuMemory -----------------------------
(* A small instance of NpuMemory: objects of one and two pages of every kind *)
(* in two domains, and an SRAM of four chunks.                              *)
EXTENDS NpuMemory

CONSTANTS o1, o2, o3, d0, d1

MCObjects == {o1, o2, o3}
MCDomains == {d0, d1}

Request(flags, size, sram_size, domain) ==
  [flags |-> flags, size |-> size, sram_size |-> sram_size, domain |-> domain]

\* An object that finds no room in the SRAM gets pages or DMA memory.
MCRequests == {
  Request({"sram"}, 2, 0, d0),
  Request({"sram", "noncontig", "kmap", "unaligned"}, 2, 1, d1),
  Request({"nbuf", "sgt"}, 2, 0, d0),
  Request({"import", "kmap"}, 2, 0, d0)}
MCBuilds == {"gem", "heap"}
MCHolders == {"vma", "dmabuf"}
MCSymmetry == Permutations(MCObjects)
=============================================================================
