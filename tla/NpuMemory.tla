------------------------------ MODULE NpuMemory ------------------------------
(***************************************************************************)
(* The memory of the NPU driver: GEM objects (pages, DMA memory, SRAM or   *)
(* NPU buffer with pages behind it, imported buffers), the SRAM allocator, *)
(* and the objects of the DMA-heap build.  The questions are who gives     *)
(* back what, on each error path and at the last reference, and in which   *)
(* IOMMU domain.                                                           *)
(*                                                                         *)
(* A resource of an object is counted in "held": 1 when it has been taken  *)
(* and not given back, below 0 when it has been given back once too often. *)
(* The calls that take the resources of one object are one step, because   *)
(* no other process can see them half done; a failure of any of them is a  *)
(* step of its own.  Sizes are pages, one SRAM chunk being a page.  A call *)
(* that fails before it has taken anything is left out.                    *)
(***************************************************************************)
EXTENDS NpuDomain, Sequences, SequencesExt, Functions

CONSTANTS
  Objects,
  Requests,    \* arguments of the create ioctl: [flags, size, sram_size, domain]
  Builds,      \* "gem" or "heap": RKNPU_DRM_GEM or RKNPU_DMA_HEAP
  Holders,     \* who may refer to an object besides its handle
  SramChunks,  \* sram_mm->total_chunks
  NbufSize     \* nbuf_size / num_irqs

Flags == {"sram", "nbuf", "sgt", "noncontig", "kmap", "unaligned", "import"}
Locations == {"chunk", "nbuf", "page"} \X Nat

ASSUME MemoryAssumption ==
  /\ IsFiniteSet(Objects)
  /\ Requests \subseteq [flags : SUBSET Flags, size : Nat \ {0},
                         sram_size : Nat, domain : Domains]
  /\ Builds \subseteq {"gem", "heap"} /\ Builds # {}
  /\ Holders \subseteq {"job", "vma", "dmabuf"}
  /\ SramChunks \in Nat /\ NbufSize \in Nat

Viewers == {"device", "vma", "dmabuf"}

Resources == {"object", "pages", "sgt", "table", "iova", "map", "vmap", "array",
              "dma", "cache", "ddr", "attach", "dmabuf", "fd"}

VARIABLES
  build,        \* how the driver is configured
  obj,          \* the fields of each object
  at,           \* where the call that works on it is
  held,         \* its resources
  mapped,       \* the domain it is mapped in
  refs,         \* who refers to it
  deleting,     \* the destroy ioctl of the object holds its domain
  bitmap, free_chunks,   \* struct rknpu_mm of the SRAM
  views,        \* where the bytes are that each viewer is shown of it
  slip          \* what has gone wrong with it (not a variable of the driver)

sramVars == <<bitmap, free_chunks>>
vars == <<build, obj, at, held, mapped, refs, deleting, sramVars, views, slip, domainVars>>

Blank == [flags |-> {}, size |-> 1, sram_size |-> 0, domain |-> Domain0,
          cache_size |-> 0, chunks |-> {}]

\* Nothing is shown, to one viewer and to all.
Unseen == [x \in {} |-> x]
Hidden == [who \in Viewers |-> Unseen]

Init ==
  /\ build \in Builds
  /\ obj = [o \in Objects |-> Blank]
  /\ at = [o \in Objects |-> "new"]
  /\ held = [o \in Objects |-> [r \in Resources |-> 0]]
  /\ mapped = [o \in Objects |-> NoDomain]
  /\ refs = [o \in Objects |-> {}]
  /\ deleting = {}
  /\ bitmap = {} /\ free_chunks = SramChunks
  /\ views = [o \in Objects |-> Hidden]
  /\ slip = [o \in Objects |-> {}]
  /\ InitDomain

\* What the request r asks for, before it has got any SRAM or NPU buffer.
Fresh(r) == [flags |-> r.flags, size |-> r.size, sram_size |-> r.sram_size,
             domain |-> r.domain, cache_size |-> 0, chunks |-> {}]

Goto(o, place) == at' = [at EXCEPT ![o] = place]

GetDomain(d) == GetSame(d) \/ SwitchDomain(d)
NoDomainGot(d) == SwitchFails(d) \/ SwitchTimesOut(d)

-----------------------------------------------------------------------------
(* The ways to allocate.  Each is a sequence of calls: what a call takes,   *)
(* and what the label it jumps to when it fails gives back.  A call marked  *)
(* partial has taken a part of it by then.                                  *)

Call(takes, undo) == [takes |-> takes, undo |-> undo, partial |-> FALSE]
PartialCall(takes, undo) == [Call(takes, undo) EXCEPT !.partial = TRUE]

\* rknpu_iommu_dma_map_sg takes the addresses itself unless the DMA layer does.
MapSg(flags) ==
  IF "unaligned" \in flags
  THEN << Call({"iova"}, {"sgt", "table", "pages"}),
          Call({"map"}, {"iova", "sgt", "table", "pages"}) >>
  ELSE << Call({"map"}, {"sgt", "table", "pages"}) >>

\* Mutant of GetPages: a failed vmap jumps to put_pages.
GetPagesSkips(flags) ==
  << Call({"pages"}, {}), Call({"sgt", "table"}, {"pages"}) >> \o MapSg(flags) \o
  (IF "kmap" \in flags THEN << Call({"vmap"}, {"pages"}) >> ELSE <<>>)

UnmapSg(flags) == IF "unaligned" \in flags THEN {"map", "iova"} ELSE {"map"}

GetPages(flags) ==
  << Call({"pages"}, {}), Call({"sgt", "table"}, {"pages"}) >> \o MapSg(flags) \o
  (IF "kmap" \in flags
   THEN << Call({"vmap"}, UnmapSg(flags) \cup {"sgt", "table", "pages"}) >>
   ELSE <<>>)

PutPages(flags) ==
  UnmapSg(flags) \cup {"sgt", "table", "pages"}
    \cup (IF "kmap" \in flags THEN {"vmap"} ELSE {})

AllocDma ==
  << Call({"array"}, {}),
     Call({"dma"}, {"array"}),
     Call({"sgt"}, {"dma", "array"}),
     Call({"table"}, {"sgt", "dma", "array"}),
     Call({}, {"table", "sgt", "dma", "array"}) >>

FreeDma == {"table", "sgt", "dma", "array"}

\* SRAM or NPU buffer in front, pages behind it, in one range of addresses.
AllocCache(flags) ==
  << Call({"iova"}, {}),
     IF "sgt" \in flags THEN PartialCall({"cache"}, {"iova"}) ELSE Call({"cache"}, {"iova"}),
     Call({"pages"}, {"cache", "iova"}),
     Call({"sgt", "table"}, {"pages", "cache", "iova"}),
     PartialCall({"ddr"}, {"ddr", "sgt", "table", "pages", "cache", "iova"}) >>

FreeCache == {"cache", "ddr", "iova", "pages", "sgt", "table"}

Import == << Call({"array"}, {}), Call({}, {"array"}) >>

\* rknpu_mem_create_ioctl: the memory is the driver's or comes with a handle.
HeapAlloc(flags) ==
  << Call({"object"}, {}), Call({"dmabuf"}, {"object"}) >> \o
  (IF "import" \in flags THEN <<>> ELSE << Call({"fd"}, {"dmabuf", "object"}) >>) \o
  << Call({"attach"}, {"dmabuf", "object"}),
     Call({"map"}, {"attach", "dmabuf", "object"}) >> \o
  (IF "kmap" \in flags
   THEN << Call({"vmap"}, {"map", "attach", "dmabuf", "object"}) >>
   ELSE <<>>) \o
  << Call({}, {"map", "attach", "dmabuf", "object"}
                \cup (IF "kmap" \in flags THEN {"vmap"} ELSE {})) >>

Taken(calls) == UNION {calls[i].takes : i \in DOMAIN calls}

\* The resources of o after "taken" has been taken and "given" given back.
Net(o, taken, given) ==
  [r \in Resources |-> held[o][r] + (IF r \in taken THEN 1 ELSE 0)
                                  - (IF r \in given THEN 1 ELSE 0)]

\* The i-th call fails.
Failed(o, calls, i, given) ==
  Net(o, Taken(SubSeq(calls, 1, i - 1))
           \cup (IF calls[i].partial THEN calls[i].takes ELSE {}),
      calls[i].undo \cup given)

-----------------------------------------------------------------------------
(* rknpu_mm_alloc and rknpu_mm_free, each under the lock of the allocator.  *)

NextFree(from) == Min({c \in from .. SramChunks - 1 : c \notin bitmap} \cup {SramChunks})

\* Mutant of Search: behind a gap that is too small nothing more is looked for.
SearchOnce(n) ==
  IF NextFree(0) + n <= SramChunks /\ bitmap \cap NextFree(0) .. NextFree(0) + n - 1 = {}
  THEN NextFree(0)
  ELSE SramChunks

\* Mutant of Search: the end of the SRAM is not noticed.
SearchPastEnd(n) ==
  LET search[from \in 0 .. SramChunks] ==
        LET first == NextFree(from)
            ends == {c \in first + 1 .. first + n - 1 : NextFree(c) # c}
        IN IF first = SramChunks \/ ends = {} THEN first
           ELSE IF Min(ends) >= SramChunks THEN SramChunks
           ELSE search[Min(ends)]
  IN search[0]

\* The places that break a row of n free chunks from "first" on: a chunk that is
\* taken, or the end of the SRAM.
Breaks(first, n) == {c \in first + 1 .. first + n - 1 : NextFree(c) # c \/ c = SramChunks}

\* Where n chunks start, or SramChunks.  A gap that is too small ends at the
\* chunk the search starts again from.
Search(n) ==
  LET search[from \in 0 .. SramChunks] ==
        LET first == NextFree(from)
            breaks == Breaks(first, n)
        IN IF first = SramChunks \/ breaks = {} THEN first
           ELSE IF Min(breaks) = SramChunks THEN SramChunks
           ELSE search[Min(breaks)]
  IN search[0]

\* Mutant of FreeChunks: the count of free chunks is not raised.
FreeChunksKeepsCount(o) ==
  /\ bitmap' = bitmap \ obj[o].chunks
  /\ UNCHANGED free_chunks

FreeChunks(o) ==
  /\ bitmap' = bitmap \ obj[o].chunks
  /\ free_chunks' = free_chunks + Cardinality(obj[o].chunks)

-----------------------------------------------------------------------------
(* What is at each page of an object: for the device, for a process that    *)
(* has it mapped, and for an importer of its dma-buf.  An object with a     *)
(* cache has pages for its whole size all the same: the device has them     *)
(* behind the cache, a process only as far as its size goes.                *)

CacheAt(r, x) == IF r.chunks # {} THEN <<"chunk", Min(r.chunks) + x>> ELSE <<"nbuf", x>>

DeviceView(r) ==
  [x \in 0 .. r.cache_size + r.size - 1 |->
     IF x < r.cache_size THEN CacheAt(r, x) ELSE <<"page", x - r.cache_size>>]

\* Mutant of MmapView: behind the cache the pages go on where the cache ended.
MmapViewRunsOn(r) ==
  [x \in 0 .. r.size - 1 |-> IF x < r.cache_size THEN CacheAt(r, x) ELSE <<"page", x>>]

MmapView(r) ==
  [x \in 0 .. r.size - 1 |->
     IF x < r.cache_size THEN CacheAt(r, x) ELSE <<"page", x - r.cache_size>>]

ExportView(r) == [x \in 0 .. r.size - 1 |-> <<"page", x>>]

-----------------------------------------------------------------------------
(* rknpu_gem_create_ioctl, rknpu_gem_dumb_create: rknpu_gem_object_create   *)
(* and the handle.                                                          *)

Begin(o, r) ==
  /\ at[o] = "new" /\ build = "gem"
  /\ obj' = [obj EXCEPT ![o] = Fresh(r)]
  /\ held' = [held EXCEPT ![o] = Net(o, {"object"}, {})]
  /\ Goto(o, "switch")
  /\ UNCHANGED <<build, mapped, refs, deleting, sramVars, views, slip, domainVars>>

Create(o) == \E r \in Requests : "import" \notin r.flags /\ Begin(o, r)

DumbCreate(o) ==
  \E r \in Requests :
    Begin(o, [flags |-> {"noncontig"}, size |-> r.size, sram_size |-> 0, domain |-> Domain0])

CreateGetsDomain(o) ==
  /\ at[o] = "switch"
  /\ GetDomain(obj[o].domain)
  /\ Goto(o, "choose")
  /\ UNCHANGED <<build, obj, held, mapped, refs, deleting, sramVars, views, slip>>

CreateNoDomain(o) ==
  /\ at[o] = "switch"
  /\ NoDomainGot(obj[o].domain)
  /\ held' = [held EXCEPT ![o] = Net(o, {}, {"object"})]
  /\ obj' = [obj EXCEPT ![o] = Blank]
  /\ Goto(o, "gone")
  /\ UNCHANGED <<build, mapped, refs, deleting, sramVars, views, slip>>

\* The free chunks are counted without the lock of the allocator.
SramWanted(r) ==
  LET wanted == IF r.sram_size # 0 /\ r.size > r.sram_size THEN r.sram_size ELSE r.size
  IN Min({wanted, free_chunks})

ChooseMemory(o) ==
  LET r == obj[o]
      size == IF "sram" \in r.flags THEN SramWanted(r)
              ELSE IF "nbuf" \in r.flags THEN Min({r.size, NbufSize}) ELSE 0
  IN /\ at[o] = "choose"
     /\ obj' = [obj EXCEPT ![o].cache_size = size]
     /\ Goto(o, IF size = 0 THEN "buffer" ELSE IF "sram" \in r.flags THEN "sram" ELSE "cache")
     /\ UNCHANGED <<build, held, mapped, refs, deleting, sramVars, views, slip, domainVars>>

SramAlloc(o) ==
  LET n == obj[o].cache_size
      start == Search(n)
  IN /\ at[o] = "sram"
     /\ start # SramChunks
     /\ obj' = [obj EXCEPT ![o].chunks = start .. start + n - 1]
     /\ bitmap' = bitmap \cup start .. start + n - 1
     /\ free_chunks' = free_chunks - n
     /\ Goto(o, "cache")
     /\ UNCHANGED <<build, held, mapped, refs, deleting, views, slip, domainVars>>

\* No room after all: the object gets pages.
SramFull(o) ==
  /\ at[o] = "sram"
  /\ Search(obj[o].cache_size) = SramChunks
  /\ obj' = [obj EXCEPT ![o].cache_size = 0]
  /\ Goto(o, "buffer")
  /\ UNCHANGED <<build, held, mapped, refs, deleting, sramVars, views, slip, domainVars>>

\* How the object gets its memory, here or as the fallback of AllocDma.
Calls(o) ==
  LET flags == obj[o].flags IN
  IF at[o] = "cache" THEN AllocCache(flags)
  ELSE IF "noncontig" \in flags THEN GetPages(flags) ELSE AllocDma

Allocate(o) ==
  /\ at[o] \in {"cache", "buffer"} /\ attached # NoDomain
  /\ held' = [held EXCEPT ![o] = Net(o, Taken(Calls(o)), {})]
  /\ mapped' = [mapped EXCEPT ![o] = attached]
  /\ views' = [views EXCEPT ![o]["device"] = DeviceView(obj[o])]
  /\ DomainPut
  /\ Goto(o, "handle")
  /\ UNCHANGED <<build, refs, deleting, sramVars>>
  /\ \/ UNCHANGED <<obj, slip>>
     \/ \* no contiguous memory: the flag is changed, the kind of memory is not
        /\ at[o] = "buffer" /\ "noncontig" \notin obj[o].flags
        /\ obj' = [obj EXCEPT ![o].flags = @ \cup {"noncontig"}]
        /\ slip' = [slip EXCEPT ![o] = {"fallback"}]

AllocFails(o) ==
  /\ at[o] \in {"cache", "buffer"}
  /\ \E i \in DOMAIN Calls(o) :
       LET partly == Calls(o)[i].partial /\ Calls(o)[i].takes = {"cache"} IN
       /\ held' = [held EXCEPT ![o] = Failed(o, Calls(o), i, {"object"})]
       /\ mapped' = [mapped EXCEPT ![o] = IF partly THEN attached ELSE NoDomain]
       /\ slip' = [slip EXCEPT ![o] = IF partly THEN {"partly"} ELSE {}]
  /\ FreeChunks(o)
  /\ obj' = [obj EXCEPT ![o] = Blank]
  /\ DomainPut
  /\ Goto(o, "gone")
  /\ UNCHANGED <<build, refs, deleting, views>>

\* The reference of the allocation becomes that of the handle.
HandleCreate(o) ==
  /\ at[o] = "handle"
  /\ refs' = [refs EXCEPT ![o] = {"handle"}]
  /\ Goto(o, "live")
  /\ UNCHANGED <<build, obj, held, mapped, deleting, sramVars, views, slip, domainVars>>

HandleFails(o) ==
  /\ at[o] = "handle"
  /\ Goto(o, "destroy")
  /\ UNCHANGED <<build, obj, held, mapped, refs, deleting, sramVars, views, slip, domainVars>>

\* An imported buffer is mapped in the domain that happens to be attached.
ImportBuffer(o) ==
  /\ at[o] = "new" /\ build = "gem"
  /\ \E r \in Requests :
       /\ "import" \in r.flags
       /\ obj' = [obj EXCEPT ![o] = Fresh([r EXCEPT !.domain = Domain0])]
  /\ held' = [held EXCEPT ![o] = Net(o, {"object", "attach", "map"} \cup Taken(Import), {})]
  /\ mapped' = [mapped EXCEPT ![o] = attached]
  /\ refs' = [refs EXCEPT ![o] = {"handle"}]
  /\ slip' = [slip EXCEPT ![o] = IF attached = Domain0 THEN {} ELSE {"import"}]
  /\ Goto(o, "live")
  /\ UNCHANGED <<build, deleting, sramVars, views, domainVars>>

ImportFails(o) ==
  /\ at[o] = "new" /\ build = "gem"
  /\ \E i \in DOMAIN Import :
       held' = [held EXCEPT ![o] = Failed(o, << Call({"object"}, {}) >> \o Import, i + 1, {"object"})]
  /\ Goto(o, "gone")
  /\ UNCHANGED <<build, obj, mapped, refs, deleting, sramVars, views, slip, domainVars>>

-----------------------------------------------------------------------------
(* References, and the end of an object at the last one.                    *)

Refer(o, h) ==
  /\ at[o] = "live" /\ build = "gem" /\ "handle" \in refs[o] /\ h \notin refs[o]
  /\ refs' = [refs EXCEPT ![o] = @ \cup {h}]
  /\ views' = IF "import" \in obj[o].flags \/ h = "job" THEN views
              ELSE [views EXCEPT ![o][h] =
                      IF h = "vma" THEN MmapView(obj[o]) ELSE ExportView(obj[o])]
  /\ UNCHANGED <<build, obj, at, held, mapped, deleting, sramVars, slip, domainVars>>

Drop(o, h) ==
  /\ refs' = [refs EXCEPT ![o] = @ \ {h}]
  /\ IF refs[o] = {h} THEN Goto(o, "destroy") ELSE UNCHANGED at

\* A holder lets go; the handles of a file are closed with it.
Unrefer(o, h) ==
  /\ at[o] = "live" /\ build = "gem" /\ h \in refs[o]
  /\ h = "handle" => o \notin deleting
  /\ Drop(o, h)
  /\ views' = IF h \in Viewers THEN [views EXCEPT ![o][h] = Unseen] ELSE views
  /\ UNCHANGED <<build, obj, held, mapped, deleting, sramVars, slip, domainVars>>

DestroyIoctl(o) ==
  /\ at[o] = "live" /\ build = "gem" /\ "handle" \in refs[o] /\ o \notin deleting
  /\ \/ GetDomain(obj[o].domain) /\ deleting' = deleting \cup {o}
     \/ NoDomainGot(obj[o].domain) /\ UNCHANGED deleting
  /\ UNCHANGED <<build, obj, at, held, mapped, refs, sramVars, views, slip>>

DeleteHandle(o) ==
  /\ at[o] = "live" /\ o \in deleting
  /\ Drop(o, "handle")
  /\ IF refs[o] = {"handle"}
       THEN UNCHANGED <<deleting, domainVars>>
       ELSE deleting' = deleting \ {o} /\ DomainPut
  /\ UNCHANGED <<build, obj, held, mapped, sramVars, views, slip>>

DestroyGetsDomain(o) ==
  /\ at[o] = "destroy"
  /\ GetDomain(obj[o].domain)
  /\ Goto(o, "free")
  /\ UNCHANGED <<build, obj, held, mapped, refs, deleting, sramVars, views, slip>>

\* The third attempt to get the domain has failed: nothing is freed.
DestroyGivesUp(o) ==
  /\ at[o] = "destroy"
  /\ NoDomainGot(obj[o].domain)
  /\ slip' = [slip EXCEPT ![o] = @ \cup {"kept"}]
  /\ Goto(o, "gone")
  /\ UNCHANGED <<build, obj, held, mapped, refs, deleting, sramVars, views>>

\* The chunks are given back before they are unmapped.
FreeSram(o) ==
  /\ at[o] = "free" /\ obj[o].chunks # {}
  /\ FreeChunks(o)
  /\ obj' = [obj EXCEPT ![o].chunks = {}]
  /\ UNCHANGED <<build, at, held, mapped, refs, deleting, views, slip, domainVars>>

Given(r) ==
  IF "import" \in r.flags THEN {"map", "attach"} \cup Taken(Import)
  ELSE IF r.cache_size > 0
       THEN IF attached = NoDomain THEN {"pages", "sgt", "table"} ELSE FreeCache
  ELSE IF "noncontig" \in r.flags THEN PutPages(r.flags) ELSE FreeDma

\* Mutant of FreeObject: the nested call of the destroy ioctl keeps the domain.
FreeObjectKeepsDomain(o) ==
  /\ at[o] = "free" /\ obj[o].chunks = {}
  /\ held' = [held EXCEPT ![o] = Net(o, {}, Given(obj[o]) \cup {"object"})]
  /\ mapped' = [mapped EXCEPT ![o] = IF attached = @ THEN NoDomain ELSE @]
  /\ views' = [views EXCEPT ![o] = Hidden]
  /\ IF o \in deleting THEN UNCHANGED domainVars ELSE DomainPut
  /\ obj' = [obj EXCEPT ![o] = Blank]
  /\ Goto(o, IF o \in deleting THEN "deleted" ELSE "gone")
  /\ UNCHANGED <<build, refs, deleting, sramVars, slip>>

FreeObject(o) ==
  /\ at[o] = "free" /\ obj[o].chunks = {}
  /\ held' = [held EXCEPT ![o] = Net(o, {}, Given(obj[o]) \cup {"object"})]
  /\ mapped' = [mapped EXCEPT ![o] = IF attached = @ THEN NoDomain ELSE @]
  /\ views' = [views EXCEPT ![o] = Hidden]
  /\ DomainPut
  /\ obj' = [obj EXCEPT ![o] = Blank]
  /\ Goto(o, IF o \in deleting THEN "deleted" ELSE "gone")
  /\ UNCHANGED <<build, refs, deleting, sramVars, slip>>

DestroyEnds(o) ==
  /\ at[o] = "deleted"
  /\ deleting' = deleting \ {o}
  /\ DomainPut
  /\ Goto(o, "gone")
  /\ UNCHANGED <<build, obj, held, mapped, refs, sramVars, views, slip>>

-----------------------------------------------------------------------------
(* The objects of the DMA-heap build.  Memory of the driver itself belongs  *)
(* to the descriptor that the create ioctl returns.                         *)

HeapCreate(o) ==
  /\ at[o] = "new" /\ build = "heap"
  /\ \E r \in Requests :
       /\ "noncontig" \notin r.flags
       /\ obj' = [obj EXCEPT ![o] = Fresh(r)]
       /\ held' = [held EXCEPT ![o] = Net(o, Taken(HeapAlloc(r.flags)), {"map", "attach"})]
       /\ refs' = [refs EXCEPT ![o] =
            IF "import" \in r.flags THEN {"handle"} ELSE {"handle", "fd"}]
  /\ Goto(o, "live")
  /\ UNCHANGED <<build, mapped, deleting, sramVars, views, slip, domainVars>>

\* A descriptor that has been installed stays; a failure to copy the answer
\* frees an array that only a kernel mapping has allocated.
HeapFails(o) ==
  /\ at[o] = "new" /\ build = "heap"
  /\ \E r \in Requests :
       LET calls == HeapAlloc(r.flags) IN
       /\ "noncontig" \notin r.flags
       /\ \E i \in 2 .. Len(calls) :
            /\ held' = [held EXCEPT ![o] = Failed(o, calls, i, {})]
            /\ slip' = [slip EXCEPT ![o] =
                 (IF "import" \notin r.flags /\ i > 3 THEN {"descriptor"} ELSE {})
                 \cup (IF i = Len(calls) /\ "kmap" \notin r.flags THEN {"garbage"} ELSE {})]
  /\ Goto(o, "gone")
  /\ UNCHANGED <<build, obj, mapped, refs, deleting, sramVars, views, domainVars>>

HeapGiven(r) ==
  {"object"} \cup (IF "kmap" \in r.flags THEN {"vmap"} ELSE {})
             \cup (IF "import" \in r.flags THEN {"dmabuf"} ELSE {})

\* The objects in S leave the list of the session.
HeapForget(S) ==
  /\ held' = [o \in Objects |-> IF o \in S THEN Net(o, {}, HeapGiven(obj[o])) ELSE held[o]]
  /\ refs' = [o \in Objects |-> IF o \in S THEN refs[o] \ {"handle"} ELSE refs[o]]
  /\ at' = [o \in Objects |-> IF o \in S /\ refs[o] = {"handle"} THEN "gone" ELSE at[o]]
  /\ UNCHANGED <<build, obj, mapped, deleting, sramVars, views, slip, domainVars>>

Listed == {o \in Objects : build = "heap" /\ "handle" \in refs[o]}

HeapDestroy(o) == o \in Listed /\ HeapForget({o})

\* The session is closed.
HeapRelease == Listed # {} /\ HeapForget(Listed)

HeapCloseFd(o) ==
  /\ "fd" \in refs[o]
  /\ held' = [held EXCEPT ![o] = Net(o, {}, {"fd", "dmabuf"})]
  /\ refs' = [refs EXCEPT ![o] = @ \ {"fd"}]
  /\ IF refs[o] = {"fd"} THEN Goto(o, "gone") ELSE UNCHANGED at
  /\ UNCHANGED <<build, obj, mapped, deleting, sramVars, views, slip, domainVars>>

-----------------------------------------------------------------------------
Gem(o) ==
  \/ Create(o) \/ DumbCreate(o) \/ CreateGetsDomain(o) \/ CreateNoDomain(o)
  \/ ChooseMemory(o) \/ SramAlloc(o) \/ SramFull(o) \/ Allocate(o) \/ AllocFails(o)
  \/ HandleCreate(o) \/ HandleFails(o) \/ ImportBuffer(o) \/ ImportFails(o)
  \/ \E h \in Holders : Refer(o, h)
  \/ \E h \in Holders \cup {"handle"} : Unrefer(o, h)
  \/ DestroyIoctl(o) \/ DeleteHandle(o) \/ DestroyGetsDomain(o) \/ DestroyGivesUp(o)
  \/ FreeSram(o) \/ FreeObject(o) \/ DestroyEnds(o)

Heap(o) == HeapCreate(o) \/ HeapFails(o) \/ HeapDestroy(o) \/ HeapCloseFd(o)

Next == (\E o \in Objects : Gem(o) \/ Heap(o)) \/ HeapRelease

Spec == Init /\ [][Next]_vars

-----------------------------------------------------------------------------
Places == {"new", "switch", "choose", "sram", "cache", "buffer", "handle", "live",
           "destroy", "free", "deleted", "gone"}

\* The types of the variables.
TypeOK ==
  /\ build \in Builds
  /\ \A o \in Objects :
       /\ obj[o].flags \subseteq Flags /\ obj[o].domain \in Domains
       /\ obj[o].cache_size \in 0 .. obj[o].size
       /\ obj[o].chunks \subseteq 0 .. SramChunks - 1
       /\ refs[o] \subseteq Holders \cup {"handle", "fd"}
  /\ at \in [Objects -> Places]
  /\ held \in [Objects -> [Resources -> -1 .. 1]]
  /\ mapped \in [Objects -> Domains \cup {NoDomain}]
  /\ deleting \subseteq Objects
  /\ bitmap \subseteq 0 .. SramChunks - 1 /\ free_chunks \in 0 .. SramChunks
  /\ iommu_domain_id \in Domains /\ attached \in Domains \cup {NoDomain}
  /\ iommu_domain_refcount \in 0 .. 2 * Cardinality(Objects)

\* An object that is gone, on whichever error path or at its last reference,
\* has given back exactly what it took, and nothing of it is mapped any more.
\* The slips of the code are left out: a fallback buffer is freed as what it is
\* not, a cache of several pieces stays mapped where a later piece fails, an
\* object whose domain cannot be had is forgotten, an imported buffer is
\* unmapped in the default domain, and a descriptor outlives a failed creation.
NothingLeftBehind ==
  \A o \in Objects :
    (at[o] = "gone" /\ attached # NoDomain
       /\ slip[o] \subseteq {"garbage"})
    => /\ \A r \in Resources : held[o][r] = 0
       /\ mapped[o] = NoDomain
       /\ obj[o].chunks = {}

\* Creation, deletion and the two nested agree about the domains: the reference
\* count is the number of calls that need the domain, on every path, and an
\* object is mapped in its own domain only, whatever domain the device is
\* switched to in between, until it is gone.  Imported buffers are not.
DomainsExact ==
  /\ iommu_domain_refcount =
       Cardinality({o \in Objects : at[o] \in {"choose", "sram", "cache", "buffer", "free"}})
       + Cardinality(deleting)
  /\ \A o \in Objects :
       (mapped[o] # NoDomain /\ at[o] \notin {"deleted", "gone"} /\ "import" \notin obj[o].flags)
       => mapped[o] = obj[o].domain

\* A chunk of SRAM belongs to one object, the bitmap and the count agree with
\* the objects, and an object that is in use has all its chunks.
SramExact ==
  /\ \A o, p \in Objects : o # p => obj[o].chunks \cap obj[p].chunks = {}
  /\ bitmap = UNION {obj[o].chunks : o \in Objects}
  /\ free_chunks = SramChunks - Cardinality(bitmap)
  /\ \A o \in Objects : at[o] = "live" /\ "sram" \in obj[o].flags
       => Cardinality(obj[o].chunks) = obj[o].cache_size

\* The first row of free chunks that is long enough.
FirstFit(n) ==
  LET fits == {c \in 0 .. SramChunks - n : bitmap \cap c .. c + n - 1 = {}}
  IN IF fits = {} THEN {} ELSE Min(fits) .. Min(fits) + n - 1

\* The search with its restarts finds the first row of free chunks that is long
\* enough, at every edge of the SRAM, and gives up only if there is none.
SramFirstFit ==
  [][\A o \in Objects :
       at[o] = "sram" /\ at'[o] # "sram" => obj'[o].chunks = FirstFit(obj[o].cache_size)]_vars

\* A process that has an object mapped is shown what the device works on, page by
\* page, also where the SRAM or NPU buffer ends and the pages begin.  An importer of
\* its dma-buf is shown the pages only, all of them: his first page is the one the
\* device has behind the cache, which is the object's first page only if it has no
\* cache.  Nobody is shown SRAM that is not the object's any more; by SramExact it is
\* then nobody else's either.  The device alone still is between the two halves of
\* its end, as the chunks are given back before they are unmapped (rknpu_gem.c
\* 548-608, 1057-1130, 1405-1417, 856-868).
SameBytes ==
  \A o \in Objects :
    /\ \A x \in DOMAIN views[o]["vma"] :
         x \in DOMAIN views[o]["device"] /\ views[o]["vma"][x] = views[o]["device"][x]
    /\ \A x \in DOMAIN views[o]["dmabuf"] :
         LET behind == obj[o].cache_size + x IN
         /\ behind \in DOMAIN views[o]["device"]
         /\ views[o]["dmabuf"][x] = views[o]["device"][behind]
    /\ \A who \in Viewers : \A x \in DOMAIN views[o][who] :
         LET place == views[o][who][x] IN
         (place[1] = "chunk" /\ ~(who = "device" /\ at[o] = "free"))
           => place[2] \in obj[o].chunks

-----------------------------------------------------------------------------
(* The inductive invariant behind these properties.                         *)

\* What has happened to an object so far.
Early == {"new", "switch", "choose", "sram", "cache", "buffer"}
Whole == {"handle", "live", "destroy", "free"}
Ended == {"deleted", "gone"}

Slips == {"fallback", "partly", "import", "kept", "descriptor", "garbage"}

TypeInv ==
  /\ obj \in [Objects -> [flags : SUBSET Flags, size : Nat \ {0}, sram_size : Nat,
                          domain : Domains, cache_size : Nat,
                          chunks : SUBSET (0 .. SramChunks - 1)]]
  /\ \A o \in Objects : obj[o].cache_size <= obj[o].size
  /\ refs \in [Objects -> SUBSET (Holders \cup {"handle", "fd"})]
  /\ slip \in [Objects -> SUBSET Slips]
  /\ DOMAIN views = Objects

\* An object that is being made has nothing to show yet; its cache is chosen, then
\* taken, and only a live object is referred to.
MadeInv(o) ==
  /\ at[o] \in Early => views[o] = Hidden /\ mapped[o] = NoDomain /\ slip[o] = {}
                          /\ "import" \notin obj[o].flags
  /\ at[o] \in Early \ {"cache"} => obj[o].chunks = {}
  /\ at[o] \in {"new", "switch", "choose", "buffer"} => obj[o].cache_size = 0
  /\ at[o] \in {"sram", "cache"} => obj[o].cache_size > 0
  /\ "import" \in obj[o].flags \/ "fallback" \in slip[o] => obj[o].cache_size = 0
  /\ at[o] # "live" => refs[o] = {}
  /\ at[o] \in Whole /\ "import" \in slip[o] => "import" \in obj[o].flags
  /\ build = "gem" => "fd" \notin refs[o]
  /\ build = "heap" => /\ at[o] \in {"new", "live", "gone"}
                       /\ refs[o] \subseteq {"handle", "fd"}
                       /\ "import" \in obj[o].flags => "fd" \notin refs[o]
                       /\ mapped[o] = NoDomain /\ obj[o].chunks = {}
                       /\ obj[o].cache_size = 0 /\ views[o] = Hidden

\* The resources an object has.
Owned(o) ==
  LET r == obj[o] IN
  IF at[o] = "new" THEN {}
  ELSE IF at[o] \in Early THEN {"object"}
  ELSE IF build = "heap"
       THEN (IF "handle" \in refs[o] THEN HeapGiven(r) ELSE {})
              \cup (IF "fd" \in refs[o] THEN {"fd", "dmabuf"} ELSE {})
  ELSE {"object"} \cup
       (IF "import" \in r.flags THEN {"map", "attach"} \cup Taken(Import)
        ELSE IF r.cache_size > 0 THEN FreeCache
        ELSE IF "noncontig" \in r.flags /\ "fallback" \notin slip[o] THEN PutPages(r.flags)
        ELSE FreeDma)

HeldInv(o) ==
  at[o] \notin Ended => held[o] = [r \in Resources |-> IF r \in Owned(o) THEN 1 ELSE 0]

\* Whoever has a reference to the domain keeps the device in it.
Users == {o \in Objects : at[o] \in {"choose", "sram", "cache", "buffer", "free"}}

DomainInv ==
  /\ attached \in {iommu_domain_id, NoDomain}
  /\ iommu_domain_refcount = Cardinality(Users) + Cardinality(deleting)
  /\ \A o \in Users : iommu_domain_id = obj[o].domain
  /\ \A o \in deleting : \/ at[o] = "deleted"
                         \/ /\ at[o] \in {"live", "destroy", "free"}
                            /\ iommu_domain_id = obj[o].domain
  /\ \A o \in Objects : at[o] = "deleted" => o \in deleting
  /\ build = "heap" => deleting = {}

MappedInv(o) ==
  at[o] \in Whole /\ build = "gem" /\ "import" \notin slip[o] => mapped[o] = obj[o].domain

SramInv ==
  /\ \A o, p \in Objects : o # p => obj[o].chunks \cap obj[p].chunks = {}
  /\ bitmap = UNION {obj[o].chunks : o \in Objects}
  /\ free_chunks = SramChunks - Cardinality(bitmap)
  /\ \A o \in Objects : at[o] \in {"cache", "buffer", "handle", "live", "destroy"}
                            /\ "sram" \in obj[o].flags
       => Cardinality(obj[o].chunks) = obj[o].cache_size

\* The chunks of an object are as many as its cache has pages, one behind the other.
RowInv(o) ==
  obj[o].chunks # {} =>
    \E first \in 0 .. SramChunks :
      obj[o].chunks = first .. first + obj[o].cache_size - 1

\* What is shown is what the fields of the object say now; a process or an importer
\* is shown it only as long as he refers to it, and then the device is as well.
ViewInv(o) ==
  /\ DOMAIN views[o] = Viewers
  /\ at[o] # "free" => views[o]["device"] \in {Unseen, DeviceView(obj[o])}
  /\ views[o]["vma"] # Unseen =>
       "vma" \in refs[o] /\ views[o]["vma"] = MmapView(obj[o])
  /\ views[o]["dmabuf"] # Unseen =>
       "dmabuf" \in refs[o] /\ views[o]["dmabuf"] = ExportView(obj[o])
  /\ at[o] \in {"handle", "live"} /\ build = "gem" /\ "import" \notin obj[o].flags =>
       views[o]["device"] = DeviceView(obj[o])
  /\ "import" \in obj[o].flags => views[o] = Hidden

GoneInv(o) ==
  (at[o] \in Ended /\ attached # NoDomain /\ slip[o] \subseteq {"garbage"})
  => /\ \A r \in Resources : held[o][r] = 0
     /\ mapped[o] = NoDomain
     /\ obj[o].chunks = {}

IInv ==
  /\ TypeOK /\ TypeInv
  /\ \A o \in Objects : MadeInv(o) /\ HeldInv(o) /\ MappedInv(o)
                        /\ RowInv(o) /\ ViewInv(o) /\ GoneInv(o)
  /\ DomainInv /\ SramInv
=============================================================================
