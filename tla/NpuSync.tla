------------------------------ MODULE NpuSync ------------------------------
(***************************************************************************)
(* DRM_RKNPU_MEM_SYNC on a cacheable, non-contiguous object whose first    *)
(* lines lie in SRAM or NBUF and the rest in pages (rknpu_gem.c).  The     *)
(* object is a row of cache lines; line[b] says which of the processor's   *)
(* cache and the memory has the last write to line b.  A sync moves        *)
(* offset and length through the parts as the code does.                   *)
(***************************************************************************)
EXTENDS Integers, Sequences, FiniteSets

CONSTANTS
  CacheParts,  \* the lengths of the pieces of the SRAM or NBUF part
  PageParts    \* the lengths of the scatterlist entries of the rest

\* Where the parts end.
Ends(parts) ==
  LET end[n \in 0 .. Len(parts)] == IF n = 0 THEN 0 ELSE end[n - 1] + parts[n]
  IN  end

Sum(parts) == Ends(parts)[Len(parts)]

CacheSize == Sum(CacheParts)
PagesSize == Sum(PageParts)
Lines == 0 .. CacheSize + PagesSize - 1

VARIABLES
  line,            \* "clean", "cpu", "device", or "lost": a write is gone
  cache_with_sgt,  \* the cache part is a table of pieces (rk3576 NBUF)
  call             \* the last sync: the lines asked for and its direction

syncVars == << line, cache_with_sgt, call >>

Directions == {"to_device", "from_device", "both"}
NoCall == [lines |-> {}, dir |-> "none"]

SyncInit ==
  /\ line = [b \in Lines |-> "clean"]
  /\ cache_with_sgt \in BOOLEAN
  /\ call = NoCall

----------------------------------------------------------------------------
\* The lines a cache operation reaches.  A length that went below zero is a
\* huge unsigned number: the end wraps to before the start, and the loop of
\* the operation runs once.
Reach(start, length) ==
  IF length > 0 THEN start .. start + length - 1
  ELSE IF length < 0 THEN {start} ELSE {}

\* rknpu_cache_sync for one piece at base: from its first line, whatever
\* offset is; offset counts only towards the length.
Piece(base, size, at) ==
  IF at.length = 0 THEN at
  ELSE LET fits == at.offset + at.length <= size
           here == IF fits THEN at.length ELSE size - at.offset
       IN  [offset |-> 0,
            length |-> IF fits THEN 0 ELSE at.length - here,
            done   |-> at.done \cup Reach(base, here)]

CacheSync(at) ==
  IF at.offset >= CacheSize THEN [at EXCEPT !.offset = @ - CacheSize]
  ELSE IF ~ cache_with_sgt THEN Piece(0, CacheSize, at)
  ELSE LET after[n \in 0 .. Len(CacheParts)] ==
             IF n = 0 THEN at
             ELSE Piece(Ends(CacheParts)[n - 1], CacheParts[n], after[n - 1])
       IN  after[Len(CacheParts)]

\* One entry of the scatterlist; offset and the entries' end are counted
\* from the start of the pages.
PageSync(i, at) ==
  LET end == Ends(PageParts)[i]
      left == end - at.offset
      size == IF at.length < left THEN at.length ELSE left
  IN  IF at.length = 0 \/ end <= at.offset THEN at
      ELSE [offset |-> at.offset + size,
            length |-> at.length - size,
            done   |-> at.done
                       \cup Reach(CacheSize + end - left, size)]

Synced(offset, length) ==
  LET after[n \in 0 .. Len(PageParts)] ==
        IF n = 0 THEN CacheSync([offset |-> offset, length |-> length, done |-> {}])
        ELSE PageSync(n, after[n - 1])
  IN  after[Len(PageParts)].done

\* Cleaning writes the processor's lines to memory; invalidating drops them,
\* a line written since the last cleaning with its write.
After(state, dir) ==
  CASE state = "cpu" /\ dir \in {"to_device", "both"} -> "clean"
    [] state = "cpu" /\ dir = "from_device" -> "lost"
    [] state = "device" /\ dir \in {"from_device", "both"} -> "clean"
    [] OTHER -> state

\* rknpu_gem_sync_ioctl.
Sync(offset, length, dir) ==
  /\ line' = [b \in Lines |-> IF b \in Synced(offset, length)
                              THEN After(line[b], dir) ELSE line[b]]
  /\ call' = [lines |-> offset .. offset + length - 1, dir |-> dir]
  /\ UNCHANGED cache_with_sgt

\* The program writes into its mapping, a job into the memory.
Write(b, by) ==
  /\ line[b] = "clean"
  /\ line' = [line EXCEPT ![b] = by]
  /\ call' = NoCall
  /\ UNCHANGED cache_with_sgt

SyncNext ==
  \/ \E offset \in Lines, dir \in Directions :
       \E length \in 1 .. Cardinality(Lines) - offset :
         Sync(offset, length, dir)
  \/ \E b \in Lines, by \in {"cpu", "device"} : Write(b, by)

SyncSpec == SyncInit /\ [][SyncNext]_syncVars

----------------------------------------------------------------------------
\* After a sync every line of the region that was asked for, offset bytes
\* from the start of the buffer, is in step as the direction says, and no
\* write outside the region was dropped (rknpu_ioctl.h:196).
SyncCovers ==
  \A b \in Lines :
    /\ (b \in call.lines /\ call.dir \in {"to_device", "both"}) => line[b] # "cpu"
    /\ (b \in call.lines /\ call.dir \in {"from_device", "both"}) => line[b] # "device"
    /\ b \notin call.lines => line[b] # "lost"

\* A sync that begins at the start of the object, or in its pages, reaches the
\* lines that were asked for and no other, whichever pieces and entries they lie
\* in and wherever it ends.
SyncReachesWhatIsAsked ==
  [][ call'.lines # {} /\ (0 \in call'.lines \/ \A b \in call'.lines : b >= CacheSize)
      => line' = [b \in Lines |-> IF b \in call'.lines
                                  THEN After(line[b], call'.dir) ELSE line[b]] ]_syncVars
=============================================================================
