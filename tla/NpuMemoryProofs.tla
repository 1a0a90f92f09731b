--------------------------- MODULE NpuMemoryProofs ---------------------------
(***************************************************************************)
(* Proofs about NpuMemory for any number of objects, any requests, any     *)
(* size of the SRAM and of the NPU buffer, and both builds; and, at the    *)
(* end, about the syncs of such an object, in NpuSync, for any lengths of  *)
(* its pieces and pages.                                                   *)
(***************************************************************************)
EXTENDS NpuMemory, NpuSync, FiniteSetTheorems, WellFoundedInduction, TLAPS

(***************************************************************************)
(* The search for free chunks.                                             *)
(***************************************************************************)

\* A set of natural numbers has a least element.
LEMMA MinOfNats ==
  ASSUME NEW S \in SUBSET Nat, S # {}
  PROVE  Min(S) \in S /\ \A n \in S : Min(S) <= n
<1> DEFINE R == {ss \in Nat \X Nat : ss[1] < ss[2]}
<1>1. PICK m \in S : \A n \in S : <<n, m>> \notin R
  <2>1. IsWellFoundedOn(R, Nat)
    BY NatLessThanWellFounded DEF OpToRel
  <2> HIDE DEF R
  <2> QED BY <2>1, WFMin
<1>2. ASSUME NEW n \in S PROVE m <= n
  <2>1. n \in Nat /\ m \in Nat
    OBVIOUS
  <2>2. <<n, m>> \in R <=> n < m
    BY <2>1
  <2> QED BY <1>1, <2>1, <2>2
<1> QED BY <1>2 DEF Min

\* A set of natural numbers up to N has a greatest element.
LEMMA MaxUpTo ==
  ASSUME NEW N \in Nat, NEW S \in SUBSET (0 .. N), S # {}
  PROVE  \E m \in S : \A n \in S : n <= m
<1> DEFINE T == {k \in 0 .. N : N - k \in S}
<1>1. T \in SUBSET Nat
  OBVIOUS
<1>2. T # {}
  <2>1. PICK n \in S : TRUE
    OBVIOUS
  <2>2. N - n \in 0 .. N /\ N - (N - n) = n
    OBVIOUS
  <2> QED BY <2>1, <2>2
<1>3. Min(T) \in T /\ \A k \in T : Min(T) <= k
  <2> HIDE DEF T
  <2> QED BY <1>1, <1>2, MinOfNats
<1>4. ASSUME NEW n \in S PROVE n <= N - Min(T)
  <2>1. N - n \in T
    BY N - (N - n) = n
  <2>2. Min(T) <= N - n /\ Min(T) \in Nat
    BY <1>1, <1>3, <2>1
  <2> QED BY <2>2
<1> QED BY <1>3, <1>4

\* A function on 0 .. N that calls itself for greater arguments only exists.
LEMMA UpwardRecursion ==
  ASSUME NEW N \in Nat, NEW stop \in [0 .. N -> BOOLEAN],
         NEW val \in [0 .. N -> 0 .. N], NEW next \in [0 .. N -> 0 .. N],
         \A i \in 0 .. N : ~stop[i] => i < next[i]
  PROVE  \E f : f = [i \in 0 .. N |-> IF stop[i] THEN val[i] ELSE f[next[i]]]
<1> DEFINE Solves(f, k) ==
             \A i \in k .. N : f[i] = IF stop[i] THEN val[i] ELSE f[next[i]]
           Solved == {k \in 0 .. N : \E f \in [0 .. N -> 0 .. N] : Solves(f, k)}
<1>1. Solved # {}
  <2> DEFINE f == [i \in 0 .. N |-> val[N]]
  <2>1. f \in [0 .. N -> 0 .. N]
    OBVIOUS
  <2>2. Solves(f, N)
    <3>1. N \in 0 .. N /\ next[N] \in 0 .. N /\ (~stop[N] => N < next[N])
      OBVIOUS
    <3>2. stop[N]
      BY <3>1
    <3> QED BY <3>2
  <2>3. N \in Solved
    <3> HIDE DEF f, Solves
    <3> QED BY <2>1, <2>2, N \in 0 .. N
  <2> QED BY <2>3
<1>2. Solved \in SUBSET Nat
  OBVIOUS
<1>3. PICK m \in Solved : \A k \in Solved : m <= k
  <2> HIDE DEF Solved
  <2> QED BY <1>1, <1>2, MinOfNats
<1>4. PICK f \in [0 .. N -> 0 .. N] : Solves(f, m)
  BY <1>3
<1>5. m = 0
  <2>1. SUFFICES ASSUME m > 0 PROVE FALSE
    BY <1>2, <1>3
  <2> DEFINE j == m - 1
             g == [i \in 0 .. N |-> IF i # j THEN f[i]
                                    ELSE IF stop[j] THEN val[j] ELSE f[next[j]]]
  <2>2. j \in 0 .. N /\ m = j + 1
    BY <2>1
  <2>3. g \in [0 .. N -> 0 .. N]
    BY <2>2
  <2>4. Solves(g, j)
    <3>1. ASSUME NEW i \in j .. N
          PROVE  g[i] = IF stop[i] THEN val[i] ELSE g[next[i]]
      <4>1. i \in 0 .. N /\ j \in Nat /\ j <= i
        <5> HIDE DEF j
        <5> QED BY <2>2
      <4>2. next[i] \in 0 .. N /\ (~stop[i] => i < next[i])
        BY <4>1
      <4>3. ~stop[i] => next[i] # j
        <5> HIDE DEF j
        <5> QED BY <4>1, <4>2
      <4>4. ~stop[i] => g[next[i]] = f[next[i]]
        <5> HIDE DEF j
        <5> QED BY <4>2, <4>3
      <4>5. CASE i = j
        BY <2>2, <4>1, <4>4, <4>5
      <4>6. CASE i # j
        <5>1. i \in m .. N /\ g[i] = f[i]
          BY <2>2, <4>1, <4>6
        <5>2. f[i] = IF stop[i] THEN val[i] ELSE f[next[i]]
          BY <1>4, <5>1
        <5> QED BY <4>4, <5>1, <5>2
      <4> QED BY <4>5, <4>6
    <3> QED BY <3>1
  <2>5. j \in Solved
    <3> HIDE DEF g, Solves
    <3> QED BY <2>2, <2>3, <2>4
  <2>6. m <= j
    <3> HIDE DEF Solved, j
    <3> QED BY <1>3, <2>5
  <2> QED BY <2>2, <2>6
<1>6. f = [i \in 0 .. N |-> IF stop[i] THEN val[i] ELSE f[next[i]]]
  BY <1>4, <1>5
<1> QED BY <1>6

\* The first free chunk from a place on.
LEMMA NextFreeIs ==
  ASSUME SramChunks \in Nat, NEW from \in Nat
  PROVE  /\ NextFree(from) \in 0 .. SramChunks
         /\ from <= SramChunks => from <= NextFree(from)
         /\ \A c \in from .. NextFree(from) - 1 : c \in bitmap
         /\ NextFree(from) # SramChunks => NextFree(from) \notin bitmap
<1> DEFINE S == {c \in from .. SramChunks - 1 : c \notin bitmap} \cup {SramChunks}
<1>1. Min(S) \in S /\ \A n \in S : Min(S) <= n
  BY MinOfNats, S \in SUBSET Nat, S # {}
<1>2. NextFree(from) = Min(S)
  BY DEF NextFree
<1> HIDE DEF NextFree
<1> QED BY <1>1, <1>2

\* A row of n free chunks starts at c.
Row(c, n) == c + n <= SramChunks /\ bitmap \cap c .. c + n - 1 = {}

\* The search finds the first row of n free chunks, or none if there is none.
LEMMA SearchFinds ==
  ASSUME SramChunks \in Nat, NEW n \in Nat \ {0}
  PROVE  /\ Search(n) \in 0 .. SramChunks
         /\ \A c \in 0 .. Search(n) - 1 : ~Row(c, n)
         /\ Search(n) # SramChunks => Row(Search(n), n)
<1> DEFINE N == SramChunks
           first(i) == NextFree(i)
           breaks(i) == Breaks(first(i), n)
           Stops(i) == first(i) = N \/ breaks(i) = {} \/ Min(breaks(i)) = N
           Value(i) == IF first(i) = N \/ breaks(i) = {} THEN first(i) ELSE N
           Body(f, i) == IF first(i) = N \/ breaks(i) = {} THEN first(i)
                         ELSE IF Min(breaks(i)) = N THEN N
                         ELSE f[Min(breaks(i))]
           Eq(f) == f = [i \in 0 .. N |-> Body(f, i)]
<1>1. ASSUME NEW i \in 0 .. N
      PROVE  /\ first(i) \in i .. N
             /\ \A c \in i .. first(i) - 1 : c \in bitmap
             /\ first(i) # N => first(i) \notin bitmap
  BY <1>1, NextFreeIs
<1>2. ASSUME NEW i \in 0 .. N, breaks(i) # {}
      PROVE  /\ Min(breaks(i)) \in first(i) + 1 .. first(i) + n - 1
             /\ Min(breaks(i)) \in breaks(i)
             /\ first(i) # N => Min(breaks(i)) \in i + 1 .. N
  <2>1. first(i) \in i .. N
    BY <1>1
  <2>2. breaks(i) \subseteq first(i) + 1 .. first(i) + n - 1
    BY DEF Breaks
  <2> HIDE DEF first, breaks
  <2>3. breaks(i) \in SUBSET Nat
    BY <2>1, <2>2
  <2>4. Min(breaks(i)) \in breaks(i) /\ \A c \in breaks(i) : Min(breaks(i)) <= c
    BY <1>2, <2>3, MinOfNats
  <2>5. ASSUME first(i) # N, Min(breaks(i)) > N PROVE FALSE
    <3>1. N \in first(i) + 1 .. first(i) + n - 1
      BY <2>1, <2>2, <2>4, <2>5
    <3>2. N \in breaks(i)
      BY <3>1 DEF breaks, Breaks, first
    <3> QED BY <2>3, <2>4, <2>5, <3>2
  <2> QED BY <2>1, <2>2, <2>3, <2>4, <2>5
<1>3. \E f : Eq(f)
  <2> DEFINE stop == [i \in 0 .. N |-> Stops(i)]
             val == [i \in 0 .. N |-> Value(i)]
             next == [i \in 0 .. N |-> IF Stops(i) THEN 0 ELSE Min(breaks(i))]
  <2>1. stop \in [0 .. N -> BOOLEAN]
    OBVIOUS
  <2>2. val \in [0 .. N -> 0 .. N]
    BY <1>1
  <2>3. next \in [0 .. N -> 0 .. N] /\ \A i \in 0 .. N : ~stop[i] => i < next[i]
    <3>1. \A i \in 0 .. N : ~Stops(i) => Min(breaks(i)) \in i + 1 .. N
      BY <1>2
    <3> HIDE DEF Stops, breaks
    <3>2. \A i \in 0 .. N : ~Stops(i) => Min(breaks(i)) \in 0 .. N /\ i < Min(breaks(i))
      BY <3>1
    <3> QED BY <3>2
  <2>4. PICK f : f = [i \in 0 .. N |-> IF stop[i] THEN val[i] ELSE f[next[i]]]
    <3> HIDE DEF stop, val, next
    <3> QED BY ZenonT(60), <2>1, <2>2, <2>3, UpwardRecursion
  <2>5. \A i \in 0 .. N : (IF stop[i] THEN val[i] ELSE f[next[i]]) = Body(f, i)
    <3> HIDE DEF first, breaks
    <3> QED OBVIOUS
  <2>6. Eq(f)
    <3> HIDE DEF stop, val, next, Body
    <3> QED BY <2>4, <2>5
  <2> QED BY <2>6
<1> DEFINE search == CHOOSE f : Eq(f)
<1>4. Eq(search)
  <2> HIDE DEF Eq
  <2> QED BY <1>3
<1>5. Search(n) = search[0]
  BY DEF Search
<1>6. \A i \in 0 .. N : search[i] = Body(search, i)
  <2> HIDE DEF search, Body
  <2> QED BY <1>4
<1> DEFINE Right(i) == /\ search[i] \in 0 .. N
                       /\ \A c \in i .. search[i] - 1 : ~Row(c, n)
                       /\ search[i] # N => Row(search[i], n)
           Wrong == {i \in 0 .. N : ~Right(i)}
<1>7. Wrong = {}
  <2>1. SUFFICES ASSUME Wrong # {} PROVE FALSE
    OBVIOUS
  <2>2. PICK i \in Wrong : \A k \in Wrong : k <= i
    <3>1. Wrong \in SUBSET (0 .. N)
      OBVIOUS
    <3> HIDE DEF Wrong
    <3> QED BY <2>1, <3>1, MaxUpTo
  <2>3. i \in 0 .. N /\ ~Right(i)
    OBVIOUS
  <2> DEFINE m == Min(breaks(i))
  <2>4. /\ first(i) \in i .. N
        /\ \A c \in i .. first(i) - 1 : c \in bitmap
        /\ first(i) # N => first(i) \notin bitmap
    BY <1>1, <2>3
  <2>5. \A c \in i .. first(i) - 1 : ~Row(c, n)
    BY <2>3, <2>4 DEF Row
  <2> HIDE DEF Right, search, Wrong
  <2>6. CASE first(i) = N
    <3>1. search[i] = N
      BY <1>6, <2>3, <2>6
    <3> QED BY <2>3, <2>5, <2>6, <3>1 DEF Right
  <2>7. CASE first(i) # N /\ breaks(i) = {}
    <3>1. search[i] = first(i)
      BY <1>6, <2>3, <2>7
    <3>2. \A c \in first(i) + 1 .. first(i) + n - 1 : NextFree(c) = c /\ c # N
      BY <2>7 DEF Breaks
    <3>3. first(i) + n <= N
      BY <2>4, <2>7, <3>2
    <3>4. \A c \in first(i) .. first(i) + n - 1 : c \notin bitmap
      <4>1. ASSUME NEW c \in first(i) + 1 .. first(i) + n - 1 PROVE c \notin bitmap
        <5>1. NextFree(c) = c /\ c # N
          BY <3>2, <4>1
        <5>2. c \in Nat
          <6> HIDE DEF first
          <6> QED BY <2>3, <2>4
        <5> QED BY <5>1, <5>2, NextFreeIs
      <4> QED BY <2>4, <2>7, <4>1
    <3>5. Row(first(i), n)
      BY <3>3, <3>4 DEF Row
    <3> QED BY <2>3, <2>4, <2>5, <3>1, <3>5 DEF Right
  <2>8. CASE first(i) # N /\ breaks(i) # {}
    <3>1. /\ m \in first(i) + 1 .. first(i) + n - 1
          /\ m \in i + 1 .. N
          /\ m \in breaks(i)
      BY <1>2, <2>3, <2>8
    <3>2. m = N \/ m \in bitmap
      <4>1. m \in Nat
        BY <3>1, <2>3
      <4>2. NextFree(m) # m \/ m = N
        BY <3>1 DEF Breaks
      <4>3. m <= N
        BY <3>1, <2>3
      <4> QED BY <4>1, <4>2, <4>3, NextFreeIs
    <3>3. \A c \in i .. m - 1 : ~Row(c, n)
      BY <2>3, <2>4, <2>5, <3>1, <3>2 DEF Row
    <3>4. CASE m = N
      <4>1. search[i] = N
        BY <1>6, <2>3, <2>8, <3>4
      <4> QED BY <2>3, <3>3, <3>4, <4>1 DEF Right
    <3>5. CASE m # N
      <4>1. search[i] = search[m]
        BY <1>6, <2>3, <2>8, <3>5
      <4>2. m \in 0 .. N /\ ~(m <= i)
        BY <2>3, <3>1
      <4>3. Right(m)
        BY <2>2, <4>2 DEF Wrong
      <4>4. \A c \in m .. search[m] - 1 : ~Row(c, n)
        BY <4>3 DEF Right
      <4>5. \A c \in i .. search[m] - 1 : ~Row(c, n)
        BY <2>3, <3>1, <3>3, <4>3, <4>4 DEF Right
      <4> QED BY <2>3, <4>1, <4>3, <4>5 DEF Right
    <3> QED BY <3>4, <3>5
  <2> QED BY <2>6, <2>7, <2>8
<1>8. Right(0)
  BY <1>7, 0 \in 0 .. N
<1> HIDE DEF search
<1> QED BY <1>5, <1>8

\* What the search finds is the first fit.
LEMMA SearchIsFirstFit ==
  ASSUME SramChunks \in Nat, NEW n \in Nat \ {0}
  PROVE  FirstFit(n) = IF Search(n) = SramChunks THEN {}
                       ELSE Search(n) .. Search(n) + n - 1
<1> DEFINE fits == {c \in 0 .. SramChunks - n : bitmap \cap c .. c + n - 1 = {}}
           s == Search(n)
<1>1. /\ s \in 0 .. SramChunks
      /\ \A c \in 0 .. s - 1 : ~Row(c, n)
      /\ s # SramChunks => Row(s, n)
  BY SearchFinds
<1>2. FirstFit(n) = IF fits = {} THEN {} ELSE Min(fits) .. Min(fits) + n - 1
  BY DEF FirstFit
<1>3. \A c \in fits : c \in Nat /\ Row(c, n) /\ c < SramChunks
  BY DEF Row
<1>4. CASE s = SramChunks
  <2>1. fits = {}
    <3> HIDE DEF fits, s
    <3> QED BY <1>1, <1>3, <1>4
  <2> QED BY <1>2, <1>4, <2>1
<1>5. CASE s # SramChunks
  <2>1. s \in fits
    BY <1>1, <1>5 DEF Row
  <2>2. fits \in SUBSET Nat
    OBVIOUS
  <2> HIDE DEF fits, s
  <2>3. Min(fits) \in fits /\ Min(fits) <= s
    BY <2>1, <2>2, MinOfNats
  <2>4. Min(fits) \in Nat /\ Row(Min(fits), n) /\ s \in Nat
    BY <1>1, <1>3, <2>3
  <2>5. Min(fits) \notin 0 .. s - 1
    BY <1>1, <2>4
  <2>6. Min(fits) = s
    BY <2>3, <2>4, <2>5
  <2> QED BY <1>2, <1>5, <2>1, <2>6 DEF s
<1> QED BY <1>4, <1>5

(***************************************************************************)
(* Types.                                                                  *)
(***************************************************************************)

Record == [flags : SUBSET Flags, size : Nat \ {0}, sram_size : Nat, domain : Domains,
           cache_size : Nat, chunks : SUBSET (0 .. SramChunks - 1)]

\* The part of the types that follows from the types alone.
Basic ==
  /\ build \in Builds
  /\ at \in [Objects -> Places]
  /\ mapped \in [Objects -> Domains \cup {NoDomain}]
  /\ deleting \subseteq Objects
  /\ bitmap \subseteq 0 .. SramChunks - 1
  /\ iommu_domain_id \in Domains /\ attached \in Domains \cup {NoDomain}

\* A request, and nothing besides, is a new object.
LEMMA FreshIsRecord ==
  ASSUME NEW r \in [flags : SUBSET Flags, size : Nat \ {0}, sram_size : Nat,
                    domain : Domains]
  PROVE  /\ Fresh(r) \in Record
         /\ Fresh([r EXCEPT !.domain = Domain0]) \in Record
         /\ Fresh(r).flags = r.flags
         /\ Fresh([r EXCEPT !.domain = Domain0]).flags = r.flags
BY DomainAssumption DEF Fresh, Record

LEMMA BlankIsRecord == Blank \in Record
BY DomainAssumption DEF Blank, Record, Flags

LEMMA InitTypes == Init => Basic /\ TypeInv
<1> SUFFICES ASSUME Init PROVE Basic /\ TypeInv
  OBVIOUS
<1>1. Basic
  BY DomainAssumption DEF Init, InitDomain, Basic, Places
<1>2. obj \in [Objects -> Record]
  BY BlankIsRecord DEF Init
<1>3. \A o \in Objects : obj[o].cache_size <= obj[o].size
  BY DEF Init, Blank
<1> QED BY <1>1, <1>2, <1>3 DEF Init, TypeInv, Record

\* What a state tells about an object that an action works on.
LEMMA Known ==
  ASSUME IInv
  PROVE  /\ Basic
         /\ obj \in [Objects -> Record]
         /\ refs \in [Objects -> SUBSET (Holders \cup {"handle", "fd"})]
         /\ slip \in [Objects -> SUBSET Slips]
         /\ DOMAIN views = Objects
         /\ held \in [Objects -> [Resources -> -1 .. 1]]
         /\ free_chunks \in Nat /\ iommu_domain_refcount \in Nat
         /\ \A o \in Objects : obj[o].cache_size <= obj[o].size
BY DEF IInv, Basic, TypeOK, TypeInv, Record

\* The cache that is chosen fits into the object.
LEMMA ChosenSize ==
  ASSUME NEW r \in Record, free_chunks \in Nat
  PROVE  /\ SramWanted(r) \in Nat /\ SramWanted(r) <= r.size
         /\ Min({r.size, NbufSize}) \in Nat /\ Min({r.size, NbufSize}) <= r.size
<1>1. \A a, b \in Nat : Min({a, b}) \in {a, b} /\ Min({a, b}) <= a /\ Min({a, b}) <= b
  <2> TAKE a, b \in Nat
  <2> QED BY MinOfNats, {a, b} \in SUBSET Nat
<1>2. r.size \in Nat /\ r.sram_size \in Nat /\ NbufSize \in Nat
  BY MemoryAssumption DEF Record
<1> QED BY <1>1, <1>2 DEF SramWanted

\* The fields of a record, and a record with another cache.
LEMMA ChangedRecord ==
  ASSUME NEW r \in Record
  PROVE  /\ \A n \in Nat : /\ [r EXCEPT !.cache_size = n] \in Record
                           /\ [r EXCEPT !.cache_size = n].cache_size = n
                           /\ [r EXCEPT !.cache_size = n].size = r.size
         /\ r.flags \in SUBSET Flags /\ r.size \in Nat \ {0}
BY DEF Record

\* An object with another record keeps the types.
LEMMA ChangedObject ==
  ASSUME NEW f \in [Objects -> Record], NEW o \in Objects, NEW r \in Record,
         \A p \in Objects : f[p].cache_size <= f[p].size, r.cache_size <= r.size,
         NEW g, g = [f EXCEPT ![o] = r]
  PROVE  g \in [Objects -> Record] /\ \A p \in Objects : g[p].cache_size <= g[p].size
OBVIOUS

LEMMA NextTypes == IInv /\ [Next]_vars => Basic' /\ TypeInv'
<1> SUFFICES ASSUME IInv, [Next]_vars PROVE Basic' /\ TypeInv'
  OBVIOUS
<1> DEFINE Fits == /\ obj' \in [Objects -> Record]
                   /\ \A o \in Objects : obj'[o].cache_size <= obj'[o].size
                   /\ refs' \in [Objects -> SUBSET (Holders \cup {"handle", "fd"})]
                   /\ slip' \in [Objects -> SUBSET Slips]
                   /\ DOMAIN views' = Objects
<1>0. SUFFICES Basic' /\ Fits
  BY DEF TypeInv, Record
<1>k. /\ Basic
      /\ obj \in [Objects -> Record]
      /\ refs \in [Objects -> SUBSET (Holders \cup {"handle", "fd"})]
      /\ slip \in [Objects -> SUBSET Slips]
      /\ DOMAIN views = Objects
      /\ \A o \in Objects : obj[o].cache_size <= obj[o].size
  BY Known
<1> USE DEF Basic, Goto, Places
<1>1. ASSUME NEW o \in Objects, Create(o) \/ DumbCreate(o) \/ ImportBuffer(o)
      PROVE  Basic' /\ Fits
  <2>1. PICK r \in Record : obj' = [obj EXCEPT ![o] = r] /\ r.cache_size = 0 /\ r.size \in Nat
    <3>1. ASSUME NEW r \in [flags : SUBSET Flags, size : Nat \ {0}, sram_size : Nat,
                            domain : Domains]
          PROVE  Fresh(r).cache_size = 0 /\ Fresh([r EXCEPT !.domain = Domain0]).cache_size = 0
      BY DEF Fresh
    <3>2. \A r \in Record : r.size \in Nat
      BY DEF Record
    <3>3. CASE Create(o)
      BY <3>1, <3>2, <3>3, FreshIsRecord, MemoryAssumption DEF Create, Begin
    <3>4. CASE DumbCreate(o)
      <4>1. PICK r \in Requests : Begin(o, [flags |-> {"noncontig"}, size |-> r.size,
                                            sram_size |-> 0, domain |-> Domain0])
        BY <3>4 DEF DumbCreate
      <4> DEFINE q == [flags |-> {"noncontig"}, size |-> r.size, sram_size |-> 0,
                       domain |-> Domain0]
      <4>2. q \in [flags : SUBSET Flags, size : Nat \ {0}, sram_size : Nat, domain : Domains]
        BY MemoryAssumption, DomainAssumption DEF Flags
      <4> HIDE DEF q
      <4> QED BY <3>1, <3>2, <4>1, <4>2, FreshIsRecord DEF Begin, q
    <3>5. CASE ImportBuffer(o)
      BY <3>1, <3>2, <3>5, FreshIsRecord, MemoryAssumption DEF ImportBuffer
    <3> QED BY <1>1, <3>3, <3>4, <3>5
  <2>2. obj' \in [Objects -> Record] /\ \A p \in Objects : obj'[p].cache_size <= obj'[p].size
    BY <1>k, <2>1
  <2>3. CASE Create(o) \/ DumbCreate(o)
    BY <1>k, <2>2, <2>3 DEF Create, DumbCreate, Begin, domainVars, sramVars
  <2>4. CASE ImportBuffer(o)
    BY <1>k, <2>2, <2>4 DEF ImportBuffer, domainVars, sramVars, Slips
  <2> QED BY <1>1, <2>3, <2>4
<1>2. ASSUME NEW o \in Objects, CreateGetsDomain(o) \/ DestroyGetsDomain(o) \/ DestroyIoctl(o)
      PROVE  Basic' /\ Fits
  <2>1. obj[o].domain \in Domains
    BY <1>k DEF Record
  <2>2. iommu_domain_id' \in Domains /\ attached' \in Domains \cup {NoDomain}
    BY <1>k, <1>2, <2>1 DEF CreateGetsDomain, DestroyGetsDomain, DestroyIoctl, GetDomain,
       NoDomainGot, GetSame, SwitchDomain, SwitchFails, SwitchTimesOut, domainVars
  <2> QED BY <1>k, <1>2, <2>2 DEF CreateGetsDomain, DestroyGetsDomain, DestroyIoctl, sramVars
<1>3. ASSUME NEW o \in Objects, CreateNoDomain(o) \/ DestroyGivesUp(o)
      PROVE  Basic' /\ Fits
  <2>1. iommu_domain_id' \in Domains /\ attached' \in Domains \cup {NoDomain}
    BY <1>k, <1>3 DEF CreateNoDomain, DestroyGivesUp,
       NoDomainGot, SwitchFails, SwitchTimesOut, domainVars
  <2>2. \A p \in Objects : Blank.cache_size <= Blank.size
    BY DEF Blank
  <2>3. obj' \in [Objects -> Record] /\ \A p \in Objects : obj'[p].cache_size <= obj'[p].size
    BY <1>k, <1>3, <2>2, BlankIsRecord DEF CreateNoDomain, DestroyGivesUp
  <2>4. slip' \in [Objects -> SUBSET Slips]
    BY <1>k, <1>3 DEF CreateNoDomain, DestroyGivesUp, Slips
  <2> QED BY <1>k, <1>3, <2>1, <2>3, <2>4 DEF CreateNoDomain, DestroyGivesUp, sramVars
<1>4. ASSUME NEW o \in Objects, ChooseMemory(o) \/ SramFull(o) \/ FreeSram(o)
      PROVE  Basic' /\ Fits
  <2>1. obj[o] \in Record /\ free_chunks \in Nat
    BY <1>k, Known
  <2>2. CASE ChooseMemory(o)
    <3>1. PICK n \in Nat : n <= obj[o].size /\ obj' = [obj EXCEPT ![o].cache_size = n]
      <4> DEFINE r == obj[o]
                 n == IF "sram" \in r.flags THEN SramWanted(r)
                      ELSE IF "nbuf" \in r.flags THEN Min({r.size, NbufSize}) ELSE 0
      <4>1. obj' = [obj EXCEPT ![o].cache_size = n]
        BY <2>2 DEF ChooseMemory
      <4>2. r.size \in Nat
        BY <2>1, ChangedRecord
      <4>3. n \in Nat /\ n <= r.size
        BY <2>1, <4>2, ChosenSize
      <4> HIDE DEF n
      <4> QED BY <4>1, <4>3
    <3>2. obj' \in [Objects -> Record] /\ \A p \in Objects : obj'[p].cache_size <= obj'[p].size
      BY <1>k, <2>1, <3>1, ChangedRecord
    <3> QED BY <1>k, <2>2, <3>2 DEF ChooseMemory, domainVars, sramVars
  <2>3. CASE SramFull(o)
    <3>1. obj' \in [Objects -> Record] /\ \A p \in Objects : obj'[p].cache_size <= obj'[p].size
      <4> DEFINE r == [obj[o] EXCEPT !.cache_size = 0]
      <4>1. r \in Record /\ r.cache_size = 0 /\ r.size \in Nat
        BY <2>1, ChangedRecord
      <4>2. obj' = [obj EXCEPT ![o] = r]
        BY <2>3 DEF SramFull
      <4> HIDE DEF r
      <4> QED BY <1>k, <4>1, <4>2, ChangedObject
    <3> QED BY <1>k, <2>3, <3>1 DEF SramFull, domainVars, sramVars
  <2>4. CASE FreeSram(o)
    <3>1. obj' \in [Objects -> Record] /\ \A p \in Objects : obj'[p].cache_size <= obj'[p].size
      <4> DEFINE r == [obj[o] EXCEPT !.chunks = {}]
      <4>1. r \in Record /\ r.cache_size <= r.size
        BY <1>k, <2>1 DEF Record
      <4>2. obj' = [obj EXCEPT ![o] = r]
        BY <2>4 DEF FreeSram
      <4> HIDE DEF r
      <4> QED BY <1>k, <4>1, <4>2, ChangedObject
    <3> QED BY <1>k, <2>4, <3>1 DEF FreeSram, FreeChunks, domainVars
  <2> QED BY <1>4, <2>2, <2>3, <2>4
<1>5. ASSUME NEW o \in Objects, SramAlloc(o) PROVE Basic' /\ Fits
  <2> DEFINE n == obj[o].cache_size
             found == Search(n) .. Search(n) + n - 1
  <2>1. n \in Nat \ {0} /\ SramChunks \in Nat
    BY <1>k, <1>5, MemoryAssumption DEF IInv, MadeInv, SramAlloc, Record
  <2>2. found \in SUBSET (0 .. SramChunks - 1)
    BY <1>5, <2>1, SearchFinds DEF SramAlloc, Row
  <2>3. obj' = [obj EXCEPT ![o].chunks = found] /\ bitmap' = bitmap \cup found
    BY <1>5 DEF SramAlloc
  <2> HIDE DEF found
  <2>4. obj' \in [Objects -> Record] /\ \A p \in Objects : obj'[p].cache_size <= obj'[p].size
    <3> DEFINE r == [obj[o] EXCEPT !.chunks = found]
    <3>1. r \in Record /\ r.cache_size <= r.size
      BY <1>k, <2>2 DEF Record
    <3>2. obj' = [obj EXCEPT ![o] = r]
      BY <2>3
    <3> HIDE DEF r
    <3> QED BY <1>k, <3>1, <3>2, ChangedObject
  <2> QED BY <1>k, <1>5, <2>2, <2>3, <2>4 DEF SramAlloc, domainVars
<1>6. ASSUME NEW o \in Objects, Allocate(o) PROVE Basic' /\ Fits
  <2>1. obj' \in [Objects -> Record] /\ \A p \in Objects : obj'[p].cache_size <= obj'[p].size
    <3>1. obj[o] \in Record /\ obj[o].flags \cup {"noncontig"} \in SUBSET Flags
      BY <1>k, ChangedRecord DEF Flags
    <3>2. \/ obj' = obj
          \/ obj' = [obj EXCEPT ![o].flags = @ \cup {"noncontig"}]
      BY <1>6 DEF Allocate
    <3> DEFINE r == [obj[o] EXCEPT !.flags = @ \cup {"noncontig"}]
    <3>3. r \in Record /\ r.cache_size <= r.size
      BY <1>k, <3>1 DEF Record
    <3>4. obj' = obj \/ obj' = [obj EXCEPT ![o] = r]
      BY <3>2
    <3> HIDE DEF r
    <3> QED BY <1>k, <3>3, <3>4, ChangedObject
  <2>2. slip' \in [Objects -> SUBSET Slips]
    BY <1>k, <1>6 DEF Allocate, Slips
  <2> QED BY <1>k, <1>6, <2>1, <2>2 DEF Allocate, DomainPut, sramVars
<1>7. ASSUME NEW o \in Objects, AllocFails(o) PROVE Basic' /\ Fits
  <2>1. Blank.cache_size <= Blank.size
    BY DEF Blank
  <2>2. obj' \in [Objects -> Record] /\ \A p \in Objects : obj'[p].cache_size <= obj'[p].size
    BY <1>k, <1>7, <2>1, BlankIsRecord DEF AllocFails
  <2>3. slip' \in [Objects -> SUBSET Slips] /\ mapped' \in [Objects -> Domains \cup {NoDomain}]
    BY <1>k, <1>7 DEF AllocFails, Slips
  <2> QED BY <1>k, <1>7, <2>2, <2>3 DEF AllocFails, DomainPut, FreeChunks
<1>8. ASSUME NEW o \in Objects, HandleCreate(o) \/ HandleFails(o) \/ ImportFails(o)
      PROVE  Basic' /\ Fits
  BY ZenonT(60), <1>k, <1>8 DEF HandleCreate, HandleFails, ImportFails, domainVars, sramVars
<1>9. ASSUME NEW o \in Objects, NEW h \in Holders, Refer(o, h) PROVE Basic' /\ Fits
  BY <1>k, <1>9 DEF Refer, domainVars, sramVars, Slips
<1>10. ASSUME NEW o \in Objects, NEW h \in Holders \cup {"handle"}, Unrefer(o, h)
       PROVE  Basic' /\ Fits
  BY <1>k, <1>10 DEF Unrefer, Drop, domainVars, sramVars
<1>11. ASSUME NEW o \in Objects, DeleteHandle(o) \/ DestroyEnds(o) PROVE Basic' /\ Fits
  BY ZenonT(60), <1>k, <1>11 DEF DeleteHandle, Drop, DestroyEnds, DomainPut, domainVars, sramVars
<1>12. ASSUME NEW o \in Objects, FreeObject(o) PROVE Basic' /\ Fits
  <2>1. Blank.cache_size <= Blank.size
    BY DEF Blank
  <2>2. obj' \in [Objects -> Record] /\ \A p \in Objects : obj'[p].cache_size <= obj'[p].size
    BY <1>k, <1>12, <2>1, BlankIsRecord DEF FreeObject
  <2> QED BY <1>k, <1>12, <2>2 DEF FreeObject, DomainPut, sramVars
<1>13. ASSUME NEW o \in Objects, HeapCreate(o) PROVE Basic' /\ Fits
  <2>1. PICK r \in Requests :
          /\ obj' = [obj EXCEPT ![o] = Fresh(r)]
          /\ refs' = [refs EXCEPT ![o] =
               IF "import" \in r.flags THEN {"handle"} ELSE {"handle", "fd"}]
    BY <1>13 DEF HeapCreate
  <2>2. Fresh(r) \in Record /\ Fresh(r).cache_size <= Fresh(r).size
    <3>1. r \in [flags : SUBSET Flags, size : Nat \ {0}, sram_size : Nat, domain : Domains]
      BY MemoryAssumption
    <3>2. Fresh(r) \in Record
      BY <3>1, FreshIsRecord
    <3> QED BY <3>1, <3>2 DEF Fresh
  <2>3. obj' \in [Objects -> Record] /\ \A p \in Objects : obj'[p].cache_size <= obj'[p].size
    BY <1>k, <2>1, <2>2
  <2> QED BY <1>k, <1>13, <2>1, <2>3 DEF HeapCreate, domainVars, sramVars
<1>14. ASSUME NEW o \in Objects, HeapFails(o) PROVE Basic' /\ Fits
  BY <1>k, <1>14 DEF HeapFails, domainVars, sramVars, Slips
<1>15. ASSUME NEW S \in SUBSET Objects, HeapForget(S) PROVE Basic' /\ Fits
  BY <1>k, <1>15 DEF HeapForget, domainVars, sramVars
<1>16. ASSUME NEW o \in Objects, HeapCloseFd(o) PROVE Basic' /\ Fits
  BY <1>k, <1>16 DEF HeapCloseFd, domainVars, sramVars
<1>17. CASE UNCHANGED vars
  BY <1>k, <1>17 DEF vars, domainVars, sramVars
<1>18. CASE HeapRelease
  BY <1>15, <1>18 DEF HeapRelease, Listed
<1>19. ASSUME NEW o \in Objects, Heap(o) PROVE Basic' /\ Fits
  <2>1. CASE HeapDestroy(o)
    BY <1>15, <2>1 DEF HeapDestroy
  <2> HIDE DEF Fits, Basic
  <2> QED BY <1>13, <1>14, <1>16, <1>19, <2>1 DEF Heap
<1>20. ASSUME NEW o \in Objects, Gem(o) PROVE Basic' /\ Fits
  <2> HIDE DEF Fits, Basic
  <2> QED BY <1>1, <1>2, <1>3, <1>4, <1>5, <1>6, <1>7, <1>8, <1>9, <1>10, <1>11, <1>12, <1>20
        DEF Gem
<1> HIDE DEF Fits, Basic
<1> QED BY <1>17, <1>18, <1>19, <1>20 DEF Next

(***************************************************************************)
(* The course of an object.                                                *)
(***************************************************************************)

LEMMA InitMade == Init => \A o \in Objects : MadeInv(o)
BY DEF Init, MadeInv, Blank

LEMMA NextMade == IInv /\ [Next]_vars => \A p \in Objects : MadeInv(p)'
<1> SUFFICES ASSUME IInv, [Next]_vars, NEW p \in Objects PROVE MadeInv(p)'
  OBVIOUS
<1>k. /\ Basic
      /\ obj \in [Objects -> Record]
      /\ refs \in [Objects -> SUBSET (Holders \cup {"handle", "fd"})]
      /\ slip \in [Objects -> SUBSET Slips]
      /\ DOMAIN views = Objects
      /\ MadeInv(p)
  BY Known DEF IInv
<1>h. Holders \subseteq {"job", "vma", "dmabuf"}
  BY MemoryAssumption
<1> USE DEF Basic, Goto, MadeInv, Early, Whole, Places
<1>1. ASSUME NEW o \in Objects, Create(o) \/ DumbCreate(o) PROVE MadeInv(p)'
  <2>1. PICK r : /\ obj' = [obj EXCEPT ![o] = Fresh(r)]
                 /\ "import" \notin r.flags
                 /\ at' = [at EXCEPT ![o] = "switch"]
                 /\ at[o] = "new" /\ build = "gem"
                 /\ UNCHANGED <<build, mapped, refs, views, slip>>
    <3>1. CASE Create(o)
      BY <3>1 DEF Create, Begin
    <3>2. CASE DumbCreate(o)
      <4>1. PICK r \in Requests : Begin(o, [flags |-> {"noncontig"}, size |-> r.size,
                                            sram_size |-> 0, domain |-> Domain0])
        BY <3>2 DEF DumbCreate
      <4> DEFINE q == [flags |-> {"noncontig"}, size |-> r.size, sram_size |-> 0,
                       domain |-> Domain0]
      <4>2. "import" \notin q.flags
        OBVIOUS
      <4> HIDE DEF q
      <4> QED BY <4>1, <4>2 DEF Begin, q
    <3> QED BY <1>1, <3>1, <3>2
  <2>2. Fresh(r).flags = r.flags /\ Fresh(r).cache_size = 0 /\ Fresh(r).chunks = {}
    BY DEF Fresh
  <2> QED BY <1>k, <2>1, <2>2
<1>2. ASSUME NEW o \in Objects, ImportBuffer(o) PROVE MadeInv(p)'
  <2>1. PICK r : /\ obj' = [obj EXCEPT ![o] = Fresh(r)] /\ "import" \in r.flags
                 /\ UNCHANGED <<build, views>>
                 /\ at' = [at EXCEPT ![o] = "live"]
                 /\ at[o] = "new" /\ build = "gem"
                 /\ refs' = [refs EXCEPT ![o] = {"handle"}]
                 /\ slip'[o] \subseteq {"import"}
                 /\ \A q \in Objects \ {o} : slip'[q] = slip[q] /\ mapped'[q] = mapped[q]
    <3>1. PICK r \in Requests : /\ "import" \in r.flags
                               /\ obj' = [obj EXCEPT ![o] = Fresh([r EXCEPT !.domain = Domain0])]
      BY <1>2 DEF ImportBuffer
    <3>2. [r EXCEPT !.domain = Domain0].flags = r.flags
      BY <3>1, MemoryAssumption
    <3> QED BY <1>k, <1>2, <3>1, <3>2 DEF ImportBuffer
  <2>2. Fresh(r).flags = r.flags /\ Fresh(r).cache_size = 0 /\ Fresh(r).chunks = {}
    BY DEF Fresh
  <2>3. CASE p = o
    BY <1>k, <2>1, <2>2, <2>3
  <2>4. CASE p # o
    BY <1>k, <2>1, <2>2, <2>4
  <2> QED BY <2>3, <2>4
<1>3. ASSUME NEW o \in Objects,
             CreateGetsDomain(o) \/ DestroyGetsDomain(o) \/ DestroyIoctl(o) \/ DestroyGivesUp(o)
      PROVE  MadeInv(p)'
  BY <1>k, <1>3 DEF CreateGetsDomain, DestroyGetsDomain, DestroyIoctl, DestroyGivesUp, sramVars
<1>4. ASSUME NEW o \in Objects, CreateNoDomain(o) PROVE MadeInv(p)'
  BY <1>k, <1>4 DEF CreateNoDomain, Blank
<1>5. ASSUME NEW o \in Objects, ChooseMemory(o) PROVE MadeInv(p)'
  <2> DEFINE r == obj[o]
             n == IF "sram" \in r.flags THEN SramWanted(r)
                  ELSE IF "nbuf" \in r.flags THEN Min({r.size, NbufSize}) ELSE 0
  <2>1. n \in Nat
    BY <1>k, Known, ChosenSize DEF Record
  <2>2. /\ obj' = [obj EXCEPT ![o].cache_size = n]
        /\ at[o] = "choose"
        /\ Goto(o, IF n = 0 THEN "buffer" ELSE IF "sram" \in obj[o].flags THEN "sram" ELSE "cache")
        /\ UNCHANGED <<build, mapped, refs, views, slip>>
    BY <1>5 DEF ChooseMemory
  <2> HIDE DEF n
  <2> QED BY <1>k, <2>1, <2>2 DEF Record
<1>6. ASSUME NEW o \in Objects, SramAlloc(o) PROVE MadeInv(p)'
  <2>1. \E S : obj' = [obj EXCEPT ![o].chunks = S]
    BY <1>6 DEF SramAlloc
  <2> QED BY <1>k, <1>6, <2>1 DEF SramAlloc, Record
<1>7. ASSUME NEW o \in Objects, SramFull(o) \/ FreeSram(o) PROVE MadeInv(p)'
  BY SMTT(30), <1>k, <1>7 DEF SramFull, FreeSram, Record
<1>8. ASSUME NEW o \in Objects, Allocate(o) PROVE MadeInv(p)'
  <2>1. \/ obj' = obj /\ slip' = slip
        \/ /\ at[o] = "buffer" /\ "import" \notin obj[o].flags
           /\ obj' = [obj EXCEPT ![o].flags = @ \cup {"noncontig"}]
           /\ slip' = [slip EXCEPT ![o] = {"fallback"}]
    BY <1>8, MadeInv(o) DEF Allocate, IInv
  <2> QED BY <1>k, <1>8, <2>1 DEF Allocate, Record
<1>9. ASSUME NEW o \in Objects, AllocFails(o) PROVE MadeInv(p)'
  BY <1>k, <1>9 DEF AllocFails, Blank
<1>10. ASSUME NEW o \in Objects, HandleCreate(o) \/ HandleFails(o) \/ ImportFails(o)
       PROVE  MadeInv(p)'
  BY <1>k, <1>10 DEF HandleCreate, HandleFails, ImportFails
<1>11. ASSUME NEW o \in Objects, NEW h \in Holders, Refer(o, h) PROVE MadeInv(p)'
  BY <1>k, <1>h, <1>11 DEF Refer
<1>12. ASSUME NEW o \in Objects, NEW h \in Holders \cup {"handle"}, Unrefer(o, h)
       PROVE  MadeInv(p)'
  BY <1>k, <1>12 DEF Unrefer, Drop
<1>13. ASSUME NEW o \in Objects, DeleteHandle(o) \/ DestroyEnds(o) PROVE MadeInv(p)'
  BY <1>k, <1>13 DEF DeleteHandle, Drop, DestroyEnds, IInv, DomainInv
<1>14. ASSUME NEW o \in Objects, FreeObject(o) PROVE MadeInv(p)'
  BY <1>k, <1>14 DEF FreeObject, Blank
<1>15. ASSUME NEW o \in Objects, HeapCreate(o) PROVE MadeInv(p)'
  <2>1. PICK r : /\ obj' = [obj EXCEPT ![o] = Fresh(r)]
                 /\ refs' = [refs EXCEPT ![o] =
                      IF "import" \in r.flags THEN {"handle"} ELSE {"handle", "fd"}]
    BY <1>15 DEF HeapCreate
  <2>2. Fresh(r).flags = r.flags /\ Fresh(r).cache_size = 0 /\ Fresh(r).chunks = {}
    BY DEF Fresh
  <2> QED BY <1>k, <1>15, <2>1, <2>2 DEF HeapCreate
<1>16. ASSUME NEW o \in Objects, HeapFails(o) PROVE MadeInv(p)'
  BY <1>k, <1>16 DEF HeapFails
<1>17. ASSUME NEW S \in SUBSET Objects, HeapForget(S), S \subseteq Listed PROVE MadeInv(p)'
  BY <1>k, <1>17 DEF HeapForget, Listed
<1>18. ASSUME NEW o \in Objects, HeapCloseFd(o) PROVE MadeInv(p)'
  BY <1>k, <1>h, <1>18 DEF HeapCloseFd
<1>19. CASE UNCHANGED vars
  BY <1>k, <1>19 DEF vars
<1>20. ASSUME NEW o \in Objects, Heap(o) PROVE MadeInv(p)'
  <2>1. CASE HeapDestroy(o)
    BY <1>17, <2>1 DEF HeapDestroy
  <2> HIDE DEF MadeInv
  <2> QED BY <1>15, <1>16, <1>18, <1>20, <2>1 DEF Heap
<1>21. ASSUME NEW o \in Objects, Gem(o) PROVE MadeInv(p)'
  <2> HIDE DEF MadeInv
  <2> QED BY <1>1, <1>2, <1>3, <1>4, <1>5, <1>6, <1>7, <1>8, <1>9, <1>10, <1>11, <1>12, <1>13,
             <1>14, <1>21 DEF Gem
<1>22. CASE HeapRelease
  BY <1>17, <1>22 DEF HeapRelease, Listed
<1> HIDE DEF MadeInv
<1> QED BY <1>19, <1>20, <1>21, <1>22 DEF Next

(***************************************************************************)
(* The domains.                                                            *)
(***************************************************************************)

UserPlaces == {"choose", "sram", "cache", "buffer", "free"}

\* An object comes to a place where it needs its domain, leaves it, or neither.
LEMMA UsersMove ==
  ASSUME at \in [Objects -> Places], NEW o \in Objects, NEW place,
         at' = [at EXCEPT ![o] = place]
  PROVE  /\ IsFiniteSet(Users) /\ Cardinality(Users) \in Nat
         /\ at[o] \notin UserPlaces /\ place \in UserPlaces
              => Users' = Users \cup {o} /\ Cardinality(Users') = Cardinality(Users) + 1
         /\ at[o] \in UserPlaces /\ place \notin UserPlaces
              => Users' = Users \ {o} /\ Cardinality(Users') = Cardinality(Users) - 1
         /\ (at[o] \in UserPlaces <=> place \in UserPlaces) => Users' = Users
<1>1. IsFiniteSet(Users) /\ Cardinality(Users) \in Nat
  BY MemoryAssumption, FS_Subset, FS_CardinalityType DEF Users
<1>2. /\ at[o] \notin UserPlaces => o \notin Users
      /\ at[o] \in UserPlaces => o \in Users
      /\ place \in UserPlaces => Users' = Users \cup {o}
      /\ place \notin UserPlaces => Users' = Users \ {o}
  BY DEF Users, UserPlaces
<1>3. o \notin Users => Cardinality(Users \cup {o}) = Cardinality(Users) + 1
  BY <1>1, FS_AddElement
<1>4. o \in Users => Cardinality(Users \ {o}) = Cardinality(Users) - 1
  BY <1>1, FS_RemoveElement
<1>5. (at[o] \in UserPlaces <=> place \in UserPlaces) => Users' = Users
  BY <1>2
<1> QED BY <1>1, <1>2, <1>3, <1>4, <1>5

\* As long as somebody has a reference the domain stays.
LEMMA Referred ==
  ASSUME IInv
  PROVE  /\ IsFiniteSet(deleting) /\ Cardinality(deleting) \in Nat
         /\ iommu_domain_refcount = 0 => Users = {} /\ deleting = {}
<1>1. IsFiniteSet(deleting) /\ Cardinality(deleting) \in Nat
  BY MemoryAssumption, Known, FS_Subset, FS_CardinalityType DEF Basic
<1>2. IsFiniteSet(Users) /\ Cardinality(Users) \in Nat
  BY MemoryAssumption, FS_Subset, FS_CardinalityType DEF Users
<1>3. iommu_domain_refcount = Cardinality(Users) + Cardinality(deleting)
  BY DEF IInv, DomainInv
<1>4. iommu_domain_refcount = 0 => Cardinality(Users) = 0 /\ Cardinality(deleting) = 0
  BY <1>1, <1>2, <1>3
<1> QED BY <1>1, <1>2, <1>4, FS_EmptySet

\* Who gets the domain d finds the device in it; who had a reference keeps it.
LEMMA Got ==
  ASSUME IInv, NEW d \in Domains, GetDomain(d)
  PROVE  /\ iommu_domain_id' = d
         /\ attached' \in {iommu_domain_id', NoDomain}
         /\ attached' # NoDomain => attached # NoDomain
         /\ iommu_domain_refcount' = iommu_domain_refcount + 1
         /\ \A u \in Users : obj[u].domain = d
         /\ \A u \in deleting : at[u] # "deleted" => obj[u].domain = d
BY Referred, DomainAssumption, Known
   DEF GetDomain, GetSame, SwitchDomain, IInv, DomainInv, Basic

\* Who does not get the domain d changes nothing but that the device may be
\* detached, and had no reference to d.
LEMMA NotGot ==
  ASSUME IInv, NEW d \in Domains, NoDomainGot(d)
  PROVE  /\ iommu_domain_id' = iommu_domain_id /\ iommu_domain_id # d
         /\ attached' \in {iommu_domain_id', NoDomain}
         /\ attached' # NoDomain => attached # NoDomain
         /\ iommu_domain_refcount' = iommu_domain_refcount
BY DomainAssumption, Known
   DEF NoDomainGot, SwitchFails, SwitchTimesOut, domainVars, IInv, DomainInv, Basic

LEMMA InitDomainInv == Init => DomainInv
<1> SUFFICES ASSUME Init PROVE DomainInv
  OBVIOUS
<1>1. Users = {} /\ deleting = {}
  BY DEF Init, Users
<1>2. Cardinality(Users) = 0 /\ Cardinality(deleting) = 0
  BY <1>1, FS_EmptySet
<1> QED BY <1>1, <1>2 DEF Init, InitDomain, DomainInv

LEMMA NextDomain == IInv /\ [Next]_vars => DomainInv'
<1> SUFFICES ASSUME IInv, [Next]_vars PROVE DomainInv'
  OBVIOUS
<1>k. /\ at \in [Objects -> Places] /\ deleting \subseteq Objects
      /\ obj \in [Objects -> Record]
      /\ attached \in {iommu_domain_id, NoDomain}
      /\ iommu_domain_refcount = Cardinality(Users) + Cardinality(deleting)
      /\ \A u \in Users : iommu_domain_id = obj[u].domain
      /\ \A u \in deleting : \/ at[u] = "deleted"
                             \/ /\ at[u] \in {"live", "destroy", "free"}
                                /\ iommu_domain_id = obj[u].domain
      /\ \A u \in Objects : at[u] = "deleted" => u \in deleting
      /\ build = "heap" => deleting = {}
  BY Known DEF IInv, DomainInv, Basic
<1>d. \A o \in Objects : obj[o].domain \in Domains
  BY <1>k DEF Record
<1>f. /\ IsFiniteSet(deleting) /\ Cardinality(deleting) \in Nat
      /\ IsFiniteSet(Users) /\ Cardinality(Users) \in Nat
  BY MemoryAssumption, FS_Subset, FS_CardinalityType, Referred DEF Users
\* Nothing about the domains but the place of one object changes.
<1>m. ASSUME NEW o \in Objects, NEW place \in Places \ {"deleted"}, Goto(o, place),
             at[o] \in UserPlaces <=> place \in UserPlaces,
             \/ at[o] = "deleted" /\ place = "deleted"
             \/ o \notin deleting
             \/ at[o] # "deleted" /\ place \in {"live", "destroy", "free"},
             \A u \in Users \cup deleting : obj'[u].domain = obj[u].domain,
             UNCHANGED <<build, deleting, domainVars>>
      PROVE  DomainInv'
  <2>1. Users' = Users
    BY <1>k, <1>m, UsersMove DEF Goto
  <2>2. Cardinality(Users') = Cardinality(Users)
    BY <2>1
  <2>3. \A u \in deleting : \/ at'[u] = "deleted"
                            \/ /\ at'[u] \in {"live", "destroy", "free"}
                               /\ iommu_domain_id' = obj'[u].domain
    BY <1>k, <1>m DEF Goto, domainVars
  <2>4. \A u \in Objects : at'[u] = "deleted" => u \in deleting
    BY <1>k, <1>m DEF Goto
  <2> QED BY <1>k, <1>m, <2>1, <2>2, <2>3, <2>4 DEF DomainInv, domainVars
\* A call gets the domain of its object.
<1>g. ASSUME NEW o \in Objects, GetDomain(obj[o].domain), UNCHANGED <<build, obj>>,
             \/ /\ at[o] \in {"switch", "destroy"} /\ UNCHANGED deleting
                /\ \E place \in {"choose", "free"} :
                      Goto(o, place) /\ (o \in deleting => place = "free")
             \/ /\ at[o] = "live" /\ UNCHANGED at /\ o \notin deleting /\ build # "heap"
                /\ deleting' = deleting \cup {o}
      PROVE  DomainInv'
  <2> DEFINE d == obj[o].domain
  <2>1. /\ iommu_domain_id' = d
        /\ attached' \in {iommu_domain_id', NoDomain}
        /\ iommu_domain_refcount' = iommu_domain_refcount + 1
        /\ \A u \in Users : obj[u].domain = d
        /\ \A u \in deleting : at[u] # "deleted" => obj[u].domain = d
    BY <1>d, <1>g, Got
  <2>2. CASE at[o] \in {"switch", "destroy"} /\ UNCHANGED deleting
    <3>1. PICK place \in {"choose", "free"} : Goto(o, place) /\ (o \in deleting => place = "free")
      BY <1>g, <2>2
    <3>2. Users' = Users \cup {o} /\ Cardinality(Users') = Cardinality(Users) + 1
      BY <1>k, <2>2, <3>1, UsersMove DEF Goto, UserPlaces
    <3>3. iommu_domain_refcount' = Cardinality(Users') + Cardinality(deleting')
      BY <1>k, <1>f, <2>1, <2>2, <3>2
    <3>4. \A u \in Users' : iommu_domain_id' = obj'[u].domain
      BY <1>g, <2>1, <3>2
    <3>5. \A u \in deleting' : \/ at'[u] = "deleted"
                               \/ /\ at'[u] \in {"live", "destroy", "free"}
                                  /\ iommu_domain_id' = obj'[u].domain
      BY <1>k, <1>g, <2>1, <2>2, <3>1 DEF Goto
    <3>6. \A u \in Objects : at'[u] = "deleted" => u \in deleting'
      BY <1>k, <2>2, <3>1 DEF Goto
    <3> QED BY <1>k, <1>g, <2>1, <2>2, <3>3, <3>4, <3>5, <3>6 DEF DomainInv
  <2>3. CASE /\ at[o] = "live" /\ UNCHANGED at /\ o \notin deleting /\ build # "heap"
             /\ deleting' = deleting \cup {o}
    <3>1. Users' = Users /\ Cardinality(Users') = Cardinality(Users)
      BY <2>3 DEF Users
    <3>2. Cardinality(deleting') = Cardinality(deleting) + 1
      BY <1>f, <2>3, FS_AddElement
    <3>3. iommu_domain_refcount' = Cardinality(Users') + Cardinality(deleting')
      BY <1>k, <1>f, <2>1, <3>1, <3>2
    <3>4. \A u \in deleting' : \/ at'[u] = "deleted"
                               \/ /\ at'[u] \in {"live", "destroy", "free"}
                                  /\ iommu_domain_id' = obj'[u].domain
      BY <1>k, <1>g, <2>1, <2>3
    <3> QED BY <1>k, <1>g, <2>1, <2>3, <3>1, <3>3, <3>4 DEF DomainInv
  <2> QED BY <1>g, <2>2, <2>3
\* A call does not get the domain: it had no reference to it.
<1>n. ASSUME NEW o \in Objects, NoDomainGot(obj[o].domain), UNCHANGED <<build, deleting>>,
             \/ UNCHANGED <<at, obj>>
             \/ /\ at[o] \in {"switch", "destroy"} /\ Goto(o, "gone")
                /\ \A u \in Objects \ {o} : obj'[u] = obj[u]
      PROVE  DomainInv'
  <2>1. /\ iommu_domain_id' = iommu_domain_id /\ iommu_domain_id # obj[o].domain
        /\ attached' \in {iommu_domain_id', NoDomain}
        /\ iommu_domain_refcount' = iommu_domain_refcount
    BY <1>d, <1>n, NotGot
  <2>2. CASE UNCHANGED <<at, obj>>
    <3>1. Users' = Users /\ Cardinality(Users') = Cardinality(Users)
      BY <2>2 DEF Users
    <3> QED BY <1>k, <1>n, <2>1, <2>2, <3>1 DEF DomainInv
  <2>3. CASE /\ at[o] \in {"switch", "destroy"} /\ Goto(o, "gone")
             /\ \A u \in Objects \ {o} : obj'[u] = obj[u]
    <3>1. Users' = Users
      <4>1. at[o] \notin UserPlaces /\ "gone" \notin UserPlaces
        BY <2>3 DEF UserPlaces
      <4>2. at' = [at EXCEPT ![o] = "gone"]
        BY <2>3 DEF Goto
      <4> QED BY <1>k, <4>1, <4>2, UsersMove
    <3>2. Cardinality(Users') = Cardinality(Users) /\ o \notin Users
      BY <2>3, <3>1 DEF Users
    <3>3. o \notin deleting
      BY <1>k, <2>1, <2>3
    <3>4. \A u \in Users : u \in Objects
      BY DEF Users
    <3> QED BY <1>k, <1>n, <2>1, <2>3, <3>1, <3>2, <3>3, <3>4 DEF DomainInv, Goto
  <2> QED BY <1>n, <2>2, <2>3
\* A call is done with the domain.
<1>p. ASSUME NEW o \in Objects, DomainPut, UNCHANGED build,
             at[o] \in UserPlaces /\ UNCHANGED deleting,
             \/ \E place \in {"handle", "gone"} : Goto(o, place) /\ o \notin deleting
             \/ Goto(o, "deleted") /\ o \in deleting,
             \A u \in Objects \ {o} : obj'[u] = obj[u]
      PROVE  DomainInv'
  <2>1. PICK place \in {"handle", "gone", "deleted"} :
          Goto(o, place) /\ (o \in deleting <=> place = "deleted")
    BY <1>p
  <2>2. Users' = Users \ {o} /\ Cardinality(Users') = Cardinality(Users) - 1
    BY <1>k, <1>p, <2>1, UsersMove DEF Goto, UserPlaces
  <2>3. iommu_domain_refcount' = Cardinality(Users') + Cardinality(deleting')
    BY <1>k, <1>f, <1>p, <2>2 DEF DomainPut
  <2>4. \A u \in Users : u \in Objects
    BY DEF Users
  <2>5. \A u \in Users' : iommu_domain_id' = obj'[u].domain
    BY <1>k, <1>p, <2>2, <2>4 DEF DomainPut
  <2>6. \A u \in deleting' : \/ at'[u] = "deleted"
                             \/ /\ at'[u] \in {"live", "destroy", "free"}
                                /\ iommu_domain_id' = obj'[u].domain
    BY <1>k, <1>p, <2>1 DEF Goto, DomainPut
  <2>7. \A u \in Objects : at'[u] = "deleted" => u \in deleting'
    BY <1>k, <1>p, <2>1 DEF Goto
  <2> QED BY <1>k, <1>p, <2>3, <2>5, <2>6, <2>7 DEF DomainInv, DomainPut
<1> USE DEF UserPlaces, Places
<1>1. ASSUME NEW o \in Objects, Create(o) \/ DumbCreate(o) PROVE DomainInv'
  <2>1. at[o] = "new" /\ Goto(o, "switch") /\ UNCHANGED <<build, deleting, domainVars>>
        /\ \A u \in Objects \ {o} : obj'[u] = obj[u]
    BY <1>1, <1>k DEF Create, DumbCreate, Begin
  <2>2. o \notin Users \cup deleting /\ Users \cup deleting \subseteq Objects
    BY <1>k, <2>1 DEF Users
  <2> QED BY <1>k, <1>m, <2>1, <2>2
<1>2. ASSUME NEW o \in Objects, ImportBuffer(o) \/ ImportFails(o) \/ HeapCreate(o) \/ HeapFails(o)
      PROVE  DomainInv'
  <2>1. /\ at[o] = "new" /\ (Goto(o, "live") \/ Goto(o, "gone"))
        /\ UNCHANGED <<build, deleting, domainVars>>
        /\ \A u \in Objects \ {o} : obj'[u] = obj[u]
    BY <1>2, <1>k DEF ImportBuffer, ImportFails, HeapCreate, HeapFails
  <2>2. o \notin Users \cup deleting /\ Users \cup deleting \subseteq Objects
    BY <1>k, <2>1 DEF Users
  <2> QED BY <1>k, <1>m, <2>1, <2>2
<1>3. ASSUME NEW o \in Objects, CreateGetsDomain(o) \/ DestroyGetsDomain(o) PROVE DomainInv'
  BY <1>g, <1>k, <1>3 DEF CreateGetsDomain, DestroyGetsDomain
<1>4. ASSUME NEW o \in Objects, CreateNoDomain(o) \/ DestroyGivesUp(o) PROVE DomainInv'
  BY <1>n, <1>k, <1>4 DEF CreateNoDomain, DestroyGivesUp
<1>5. ASSUME NEW o \in Objects, DestroyIoctl(o) PROVE DomainInv'
  BY <1>g, <1>n, <1>5 DEF DestroyIoctl
<1>6. ASSUME NEW o \in Objects, ChooseMemory(o) \/ SramAlloc(o) \/ SramFull(o) PROVE DomainInv'
  <2>1. /\ at[o] \in {"choose", "sram"}
        /\ \E place \in {"buffer", "sram", "cache"} : Goto(o, place)
        /\ UNCHANGED <<build, deleting, domainVars>>
    BY <1>6 DEF ChooseMemory, SramAlloc, SramFull
  <2>2. o \notin deleting
    BY <1>k, <2>1
  <2>3. \A u \in Objects : obj'[u].domain = obj[u].domain
    <3>1. CASE ChooseMemory(o)
      <4>1. \E n : obj' = [obj EXCEPT ![o].cache_size = n]
        BY <3>1 DEF ChooseMemory
      <4> QED BY <1>k, <4>1 DEF Record
    <3>2. CASE SramAlloc(o)
      <4>1. \E S : obj' = [obj EXCEPT ![o].chunks = S]
        BY <3>2 DEF SramAlloc
      <4> QED BY <1>k, <4>1 DEF Record
    <3>3. CASE SramFull(o)
      BY <1>k, <3>3 DEF SramFull, Record
    <3> QED BY <1>6, <3>1, <3>2, <3>3
  <2>4. Users \cup deleting \subseteq Objects
    BY <1>k DEF Users
  <2> QED BY <1>m, <2>1, <2>2, <2>3, <2>4
<1>7. ASSUME NEW o \in Objects, FreeSram(o) PROVE DomainInv'
  <2>1. \A u \in Objects : obj'[u].domain = obj[u].domain
    BY <1>k, <1>7 DEF FreeSram, Record
  <2>2. Users' = Users /\ Cardinality(Users') = Cardinality(Users)
    BY <1>7 DEF FreeSram, Users
  <2>3. Users \cup deleting \subseteq Objects
    BY <1>k DEF Users
  <2> QED BY <1>k, <1>7, <2>1, <2>2, <2>3 DEF FreeSram, DomainInv, domainVars
<1>8. ASSUME NEW o \in Objects, Allocate(o) \/ AllocFails(o) \/ FreeObject(o) PROVE DomainInv'
  <2>1. \A u \in Objects \ {o} : obj'[u] = obj[u]
    <3>1. CASE Allocate(o)
      <4>1. obj' = obj \/ \E q : obj' = [obj EXCEPT ![o] = q]
        BY <3>1 DEF Allocate
      <4> QED BY <1>k, <4>1
    <3>2. CASE AllocFails(o) \/ FreeObject(o)
      BY <1>k, <3>2 DEF AllocFails, FreeObject
    <3> QED BY <1>8, <3>1, <3>2
  <2>2. CASE Allocate(o) \/ AllocFails(o)
    <3>1. /\ at[o] \in {"cache", "buffer"} /\ DomainPut /\ UNCHANGED <<build, deleting>>
          /\ \E place \in {"handle", "gone"} : Goto(o, place)
      BY <2>2 DEF Allocate, AllocFails
    <3>2. o \notin deleting
      BY <1>k, <3>1
    <3> QED BY <1>p, <2>1, <3>1, <3>2
  <2>3. CASE FreeObject(o)
    BY <1>p, <2>1, <2>3 DEF FreeObject
  <2> QED BY <1>8, <2>2, <2>3
<1>9. ASSUME NEW o \in Objects, HandleCreate(o) \/ HandleFails(o) PROVE DomainInv'
  BY <1>k, <1>m, <1>9 DEF HandleCreate, HandleFails
<1>10. ASSUME NEW o \in Objects, NEW h \in Holders \cup {"handle"}, Refer(o, h) \/ Unrefer(o, h)
       PROVE  DomainInv'
  <2>1. CASE Refer(o, h)
    <3>1. UNCHANGED <<build, obj, at, deleting, domainVars>>
      BY <2>1 DEF Refer
    <3>2. Users' = Users
      BY <3>1 DEF Users
    <3> QED BY <1>k, <3>1, <3>2 DEF DomainInv, domainVars
  <2>2. CASE Unrefer(o, h)
    <3>1. /\ at[o] = "live" /\ (Goto(o, "destroy") \/ UNCHANGED at)
          /\ UNCHANGED <<build, obj, deleting, domainVars>>
      BY <2>2 DEF Unrefer, Drop
    <3>2. CASE Goto(o, "destroy")
      BY <1>k, <1>m, <3>1, <3>2
    <3>3. CASE UNCHANGED at
      <4>1. Users' = Users
        BY <3>3 DEF Users
      <4> QED BY <1>k, <3>1, <3>3, <4>1 DEF DomainInv, domainVars
    <3> QED BY <3>1, <3>2, <3>3
  <2> QED BY <1>10, <2>1, <2>2
<1>11. ASSUME NEW o \in Objects, DeleteHandle(o) PROVE DomainInv'
  <2>1. at[o] = "live" /\ o \in deleting /\ UNCHANGED <<build, obj>>
    BY <1>11 DEF DeleteHandle
  <2>2. CASE refs[o] = {"handle"}
    <3>1. Goto(o, "destroy") /\ UNCHANGED <<deleting, domainVars>>
      BY <1>11, <2>2 DEF DeleteHandle, Drop
    <3> QED BY <1>k, <1>m, <2>1, <3>1
  <2>3. CASE refs[o] # {"handle"}
    <3>1. UNCHANGED at /\ deleting' = deleting \ {o} /\ DomainPut
      BY <1>11, <2>3 DEF DeleteHandle, Drop
    <3>2. Cardinality(deleting') = Cardinality(deleting) - 1
      BY <1>f, <2>1, <3>1, FS_RemoveElement
    <3>3. Users' = Users /\ Cardinality(Users') = Cardinality(Users)
      BY <3>1 DEF Users
    <3>4. iommu_domain_refcount' = Cardinality(Users') + Cardinality(deleting')
      BY <1>k, <1>f, <3>1, <3>2, <3>3 DEF DomainPut
    <3> QED BY <1>k, <2>1, <3>1, <3>3, <3>4 DEF DomainInv, DomainPut
  <2> QED BY <2>2, <2>3
<1>12. ASSUME NEW o \in Objects, DestroyEnds(o) PROVE DomainInv'
  <2>1. /\ at[o] = "deleted" /\ o \in deleting /\ UNCHANGED <<build, obj>>
        /\ Goto(o, "gone") /\ deleting' = deleting \ {o} /\ DomainPut
    BY <1>k, <1>12 DEF DestroyEnds
  <2>2. Cardinality(deleting') = Cardinality(deleting) - 1
    BY <1>f, <2>1, FS_RemoveElement
  <2>3. Users' = Users
    BY <1>k, <2>1, UsersMove DEF Goto
  <2>4. iommu_domain_refcount' = Cardinality(Users') + Cardinality(deleting')
    BY <1>k, <1>f, <2>1, <2>2, <2>3 DEF DomainPut
  <2>5. \A u \in Objects : at'[u] = "deleted" => u \in deleting'
    BY <1>k, <2>1 DEF Goto
  <2>6. \A u \in deleting' : \/ at'[u] = "deleted"
                             \/ /\ at'[u] \in {"live", "destroy", "free"}
                                /\ iommu_domain_id' = obj'[u].domain
    BY <1>k, <2>1 DEF Goto, DomainPut
  <2> QED BY <1>k, <2>1, <2>3, <2>4, <2>5, <2>6 DEF DomainInv, DomainPut
\* The DMA-heap build has nothing to do with the domains.
<1>13. ASSUME build = "heap", UNCHANGED <<build, obj, deleting, domainVars>>,
              \A u \in Objects : at'[u] \in {at[u], "gone"},
              \A u \in Objects : at[u] \in {"new", "live", "gone"}
       PROVE  DomainInv'
  <2>1. Users' = Users /\ deleting = {}
    BY <1>k, <1>13 DEF Users
  <2> QED BY <1>k, <1>13, <2>1 DEF DomainInv, domainVars
<1>14. ASSUME NEW S \in SUBSET Objects, HeapForget(S), S \subseteq Listed PROVE DomainInv'
  <2>1. CASE S = {}
    <3>1. UNCHANGED <<build, obj, deleting, domainVars>> /\ \A u \in Objects : at'[u] = at[u]
      BY <1>14, <2>1 DEF HeapForget
    <3>2. Users' = Users
      BY <3>1 DEF Users
    <3> QED BY <1>k, <3>1, <3>2 DEF DomainInv, domainVars
  <2>2. CASE S # {}
    <3>1. build = "heap"
      BY <1>14, <2>2 DEF Listed
    <3>2. \A u \in Objects : at[u] \in {"new", "live", "gone"}
      BY <3>1 DEF IInv, MadeInv
    <3> QED BY <1>13, <1>14, <3>1, <3>2 DEF HeapForget
  <2> QED BY <2>1, <2>2
<1>15. ASSUME NEW o \in Objects, HeapCloseFd(o) PROVE DomainInv'
  <2>1. build = "heap"
    <3>1. build \in {"gem", "heap"}
      BY MemoryAssumption, Known DEF Basic
    <3> QED BY <1>15, <3>1 DEF HeapCloseFd, IInv, MadeInv
  <2>2. \A u \in Objects : at[u] \in {"new", "live", "gone"}
    BY <2>1 DEF IInv, MadeInv
  <2> QED BY <1>k, <1>13, <1>15, <2>1, <2>2 DEF HeapCloseFd, Goto
<1>16. CASE UNCHANGED vars
  <2>1. Users' = Users
    BY <1>16 DEF vars, Users
  <2> QED BY <1>k, <1>16, <2>1 DEF vars, domainVars, DomainInv
<1>17. ASSUME NEW o \in Objects, Gem(o) \/ Heap(o) PROVE DomainInv'
  <2>1. CASE HeapDestroy(o)
    BY <1>14, <2>1 DEF HeapDestroy
  <2> QED BY <1>1, <1>2, <1>3, <1>4, <1>5, <1>6, <1>7, <1>8, <1>9, <1>10, <1>11, <1>12,
             <1>15, <1>17, <2>1 DEF Gem, Heap
<1>18. CASE HeapRelease
  BY <1>14, <1>18 DEF HeapRelease, Listed
<1> QED BY <1>16, <1>17, <1>18 DEF Next

(***************************************************************************)
(* Where an object is mapped.                                              *)
(***************************************************************************)

LEMMA InitMapped == Init => \A o \in Objects : MappedInv(o)
BY DEF Init, MappedInv, Whole

LEMMA NextMapped == IInv /\ [Next]_vars => \A p \in Objects : MappedInv(p)'
<1> SUFFICES ASSUME IInv, [Next]_vars, NEW p \in Objects PROVE MappedInv(p)'
  OBVIOUS
<1>k. /\ at \in [Objects -> Places]
      /\ obj \in [Objects -> Record]
      /\ slip \in [Objects -> SUBSET Slips]
      /\ mapped \in [Objects -> Domains \cup {NoDomain}]
      /\ MappedInv(p)
  BY Known DEF IInv, Basic
<1> USE DEF Goto, MappedInv, Whole
<1>1. ASSUME NEW o \in Objects, Create(o) \/ DumbCreate(o) \/ CreateNoDomain(o) \/ ImportFails(o)
      PROVE  MappedInv(p)'
  BY <1>k, <1>1 DEF Create, DumbCreate, Begin, CreateNoDomain, ImportFails
<1>2. ASSUME NEW o \in Objects, ImportBuffer(o) PROVE MappedInv(p)'
  <2>1. PICK r : /\ obj' = [obj EXCEPT ![o] = Fresh([r EXCEPT !.domain = Domain0])]
                 /\ r \in Requests
    BY <1>2 DEF ImportBuffer
  <2>2. Fresh([r EXCEPT !.domain = Domain0]).domain = Domain0
    BY <2>1, MemoryAssumption DEF Fresh
  <2>3. CASE p = o
    BY <1>k, <1>2, <2>1, <2>2, <2>3 DEF ImportBuffer
  <2>4. CASE p # o
    BY <1>k, <1>2, <2>4 DEF ImportBuffer
  <2> QED BY <2>3, <2>4
<1>3. ASSUME NEW o \in Objects, CreateGetsDomain(o) \/ DestroyGetsDomain(o) \/ DestroyIoctl(o)
      PROVE  MappedInv(p)'
  BY <1>k, <1>3 DEF CreateGetsDomain, DestroyGetsDomain, DestroyIoctl
<1>4. ASSUME NEW o \in Objects, ChooseMemory(o) \/ SramFull(o) \/ SramAlloc(o)
      PROVE  MappedInv(p)'
  <2>1. /\ \A u \in Objects \ {o} : obj'[u] = obj[u]
        /\ \E place \in {"buffer", "sram", "cache"} : Goto(o, place)
        /\ UNCHANGED <<build, mapped, slip>>
    <3>1. \E r : obj' = [obj EXCEPT ![o] = r]
      <4>1. CASE ChooseMemory(o)
        BY <4>1 DEF ChooseMemory
      <4>2. CASE SramFull(o)
        BY <4>2 DEF SramFull
      <4>3. CASE SramAlloc(o)
        BY <4>3 DEF SramAlloc
      <4> QED BY <1>4, <4>1, <4>2, <4>3
    <3>2. \A u \in Objects \ {o} : obj'[u] = obj[u]
      BY <1>k, <3>1
    <3> QED BY <1>4, <3>2 DEF ChooseMemory, SramFull, SramAlloc
  <2> QED BY <1>k, <2>1
<1>5. ASSUME NEW o \in Objects, FreeSram(o) PROVE MappedInv(p)'
  <2>1. obj'[p].domain = obj[p].domain
    BY <1>k, <1>5 DEF FreeSram, Record
  <2> QED BY <1>k, <1>5, <2>1 DEF FreeSram
<1>6. ASSUME NEW o \in Objects, Allocate(o) PROVE MappedInv(p)'
  <2>1. attached = obj[o].domain
    <3>1. o \in Users
      BY <1>6 DEF Allocate, Users
    <3> QED BY <1>6, <3>1 DEF Allocate, IInv, DomainInv
  <2>2. obj' = obj \/ obj' = [obj EXCEPT ![o].flags = @ \cup {"noncontig"}]
    BY <1>6 DEF Allocate
  <2>3. \A u \in Objects : obj'[u].domain = obj[u].domain
    BY <1>k, <2>2 DEF Record
  <2>4. CASE p = o
    BY <1>k, <1>6, <2>1, <2>3, <2>4 DEF Allocate
  <2>5. CASE p # o
    BY <1>k, <1>6, <2>3, <2>5 DEF Allocate
  <2> QED BY <2>4, <2>5
<1>7. ASSUME NEW o \in Objects, AllocFails(o) \/ FreeObject(o) PROVE MappedInv(p)'
  BY <1>k, <1>7 DEF AllocFails, FreeObject
<1>8. ASSUME NEW o \in Objects, HandleCreate(o) \/ HandleFails(o) \/ DestroyEnds(o)
      PROVE  MappedInv(p)'
  BY <1>k, <1>8 DEF HandleCreate, HandleFails, DestroyEnds
<1>9. ASSUME NEW o \in Objects, NEW h \in Holders \cup {"handle"}, Refer(o, h) \/ Unrefer(o, h)
      PROVE  MappedInv(p)'
  BY <1>k, <1>9 DEF Refer, Unrefer, Drop
<1>10. ASSUME NEW o \in Objects, DeleteHandle(o) \/ DestroyGivesUp(o) PROVE MappedInv(p)'
  BY <1>k, <1>10 DEF DeleteHandle, Drop, DestroyGivesUp
<1>11. ASSUME build = "heap", UNCHANGED build PROVE MappedInv(p)'
  BY <1>11
<1>12. ASSUME NEW o \in Objects, HeapCreate(o) \/ HeapFails(o) \/ HeapDestroy(o) \/ HeapCloseFd(o)
       PROVE  MappedInv(p)'
  <2>1. build \in {"gem", "heap"}
    BY MemoryAssumption, Known DEF Basic
  <2> QED BY <1>11, <1>12, <2>1 DEF HeapCreate, HeapFails, HeapDestroy, HeapForget, HeapCloseFd,
             Listed, IInv, MadeInv
<1>13. CASE HeapRelease
  BY <1>11, <1>13 DEF HeapRelease, HeapForget, Listed
<1>14. CASE UNCHANGED vars
  BY <1>k, <1>14 DEF vars
<1> QED BY <1>1, <1>2, <1>3, <1>4, <1>5, <1>6, <1>7, <1>8, <1>9, <1>10, <1>12, <1>13, <1>14
        DEF Next, Gem, Heap

(***************************************************************************)
(* What the calls take and give back.                                      *)
(***************************************************************************)

\* What has been taken before the i-th call.
Before(calls, i) == Taken(SubSeq(calls, 1, i - 1))

LEMMA TakenBefore ==
  ASSUME NEW S, NEW calls \in Seq(S)
  PROVE  /\ Before(calls, 1) = {}
         /\ \A i, j \in 1 .. Len(calls) + 1 :
              j = i + 1 => Before(calls, j) = Before(calls, i) \cup calls[i].takes
         /\ Taken(calls) = Before(calls, Len(calls) + 1)
         /\ DOMAIN calls = 1 .. Len(calls)
<1>1. ASSUME NEW i \in 1 .. Len(calls) + 1
      PROVE  Before(calls, i) = UNION {calls[k].takes : k \in 1 .. i - 1}
  <2>1. DOMAIN SubSeq(calls, 1, i - 1) = 1 .. i - 1
    OBVIOUS
  <2>2. \A k \in 1 .. i - 1 : SubSeq(calls, 1, i - 1)[k] = calls[k]
    OBVIOUS
  <2> QED BY <2>1, <2>2 DEF Taken, Before
<1>2. Len(calls) \in Nat /\ DOMAIN calls = 1 .. Len(calls)
  OBVIOUS
<1>3. Before(calls, 1) = {}
  BY <1>1, <1>2
<1>4. ASSUME NEW i \in 1 .. Len(calls) + 1, NEW j \in 1 .. Len(calls) + 1, j = i + 1
      PROVE  Before(calls, j) = Before(calls, i) \cup calls[i].takes
  <2>1. \A k : k \in 1 .. j - 1 <=> k \in 1 .. i - 1 \/ k = i
    BY <1>2, <1>4
  <2>2. Before(calls, j) = UNION {calls[k].takes : k \in 1 .. j - 1}
    BY <1>1
  <2>3. Before(calls, i) = UNION {calls[k].takes : k \in 1 .. i - 1}
    BY <1>1
  <2> QED BY <2>1, <2>2, <2>3
<1>5. Taken(calls) = Before(calls, Len(calls) + 1)
  <2>1. Len(calls) + 1 \in 1 .. Len(calls) + 1 /\ (Len(calls) + 1) - 1 = Len(calls)
    BY <1>2
  <2> QED BY <1>1, <1>2, <2>1 DEF Taken
<1> QED BY <1>2, <1>3, <1>4, <1>5

\* Calls, and sequences of a few of them.
CallSet == [takes : SUBSET Resources, undo : SUBSET Resources, partial : BOOLEAN]

LEMMA CallIs ==
  ASSUME NEW t, NEW u
  PROVE  /\ Call(t, u).takes = t /\ Call(t, u).undo = u /\ ~Call(t, u).partial
         /\ PartialCall(t, u).takes = t /\ PartialCall(t, u).undo = u
         /\ PartialCall(t, u).partial
         /\ t \in SUBSET Resources /\ u \in SUBSET Resources
              => Call(t, u) \in CallSet /\ PartialCall(t, u) \in CallSet
BY DEF Call, PartialCall, CallSet

LEMMA Tuples ==
  ASSUME NEW S, NEW a \in S, NEW b \in S, NEW c \in S, NEW d \in S, NEW e \in S
  PROVE  /\ <<>> \in Seq(S) /\ Len(<<>>) = 0
         /\ <<a>> \in Seq(S) /\ Len(<<a>>) = 1 /\ <<a>>[1] = a
         /\ <<a, b>> \in Seq(S) /\ Len(<<a, b>>) = 2 /\ <<a, b>>[1] = a /\ <<a, b>>[2] = b
         /\ <<a, b, c, d, e>> \in Seq(S) /\ Len(<<a, b, c, d, e>>) = 5
         /\ <<a, b, c, d, e>>[1] = a /\ <<a, b, c, d, e>>[2] = b
         /\ <<a, b, c, d, e>>[3] = c /\ <<a, b, c, d, e>>[4] = d
         /\ <<a, b, c, d, e>>[5] = e
OBVIOUS

\* When a call fails, what it gives back is what has been taken: "owed" before
\* the calls began, and what they have taken since.  A cache of which only some
\* pieces are mapped is left out.
Gap(c) == c.partial /\ c.takes = {"cache"}
Clears(calls, owed) ==
  \A i \in 1 .. Len(calls) :
    Gap(calls[i]) \/ owed \cup Before(calls, i) \cup (IF calls[i].partial THEN calls[i].takes ELSE {})
                       = calls[i].undo

\* No call that fails has taken a part of what it takes.
Entire(calls) == \A i \in 1 .. Len(calls) : ~calls[i].partial

LEMMA NoCalls == Taken(<<>>) = {} /\ (\A owed : Clears(<<>>, owed)) /\ Entire(<<>>)
BY DEF Taken, Clears, Entire

LEMMA OneCall ==
  ASSUME NEW c \in CallSet, NEW owed
  PROVE  /\ Taken(<<c>>) = c.takes
         /\ ~c.partial => Entire(<<c>>)
         /\ ~c.partial /\ c.undo = owed => Clears(<<c>>, owed)
<1>1. <<c>> \in Seq(CallSet) /\ Len(<<c>>) = 1 /\ <<c>>[1] = c
  OBVIOUS
<1> DEFINE s == <<c>>
<1> HIDE DEF s
<1>2. Before(s, 1) = {} /\ Taken(s) = Before(s, 2)
      /\ \A i, j \in 1 .. 2 : j = i + 1 => Before(s, j) = Before(s, i) \cup s[i].takes
  <2>1. Len(s) + 1 = 2
    BY <1>1 DEF s
  <2> QED BY <1>1, <2>1, TakenBefore DEF s
<1>3. Before(s, 2) = {} \cup c.takes
  BY <1>1, <1>2 DEF s
<1> QED BY <1>1, <1>2, <1>3 DEF Clears, Entire, s

LEMMA TwoCalls ==
  ASSUME NEW c \in CallSet, NEW d \in CallSet, NEW owed
  PROVE  /\ Taken(<<c, d>>) = c.takes \cup d.takes
         /\ ~c.partial /\ c.undo = owed /\ ~d.partial /\ d.undo = owed \cup c.takes
              => Clears(<<c, d>>, owed)
         /\ ~c.partial /\ ~d.partial => Entire(<<c, d>>)
<1> DEFINE s == <<c, d>>
<1>1. s \in Seq(CallSet) /\ Len(s) = 2 /\ s[1] = c /\ s[2] = d
  OBVIOUS
<1> HIDE DEF s
<1>2. Before(s, 1) = {} /\ Taken(s) = Before(s, 3)
      /\ \A i, j \in 1 .. 3 : j = i + 1 => Before(s, j) = Before(s, i) \cup s[i].takes
  <2>1. Len(s) + 1 = 3
    BY <1>1
  <2> QED BY <1>1, <2>1, TakenBefore
<1>3. Before(s, 2) = {} \cup c.takes
  <2>1. 1 \in 1 .. 3 /\ 2 \in 1 .. 3 /\ 2 = 1 + 1
    OBVIOUS
  <2>2. Before(s, 2) = Before(s, 1) \cup s[1].takes
    BY <1>2, <2>1
  <2> QED BY <1>1, <1>2, <2>2
<1>4. Before(s, 3) = c.takes \cup d.takes
  BY <1>1, <1>2, <1>3
<1>5. \A i \in 1 .. Len(s) : i = 1 \/ i = 2
  BY <1>1
<1> QED BY <1>1, <1>2, <1>3, <1>4, <1>5 DEF Clears, Entire, s

LEMMA FiveCalls ==
  ASSUME NEW a \in CallSet, NEW b \in CallSet, NEW c \in CallSet, NEW d \in CallSet,
         NEW e \in CallSet, NEW s, s = <<a, b, c, d, e>>
  PROVE  /\ Taken(s) = a.takes \cup b.takes \cup c.takes \cup d.takes \cup e.takes
         /\ Len(s) = 5 /\ DOMAIN s = 1 .. 5
         /\ Before(s, 1) = {}
         /\ Before(s, 2) = a.takes
         /\ Before(s, 3) = a.takes \cup b.takes
         /\ Before(s, 4) = a.takes \cup b.takes \cup c.takes
         /\ Before(s, 5) = a.takes \cup b.takes \cup c.takes \cup d.takes
         /\ \A i \in 1 .. Len(s) : i = 1 \/ i = 2 \/ i = 3 \/ i = 4 \/ i = 5
<1>1. s \in Seq(CallSet) /\ Len(s) = 5
      /\ s[1] = a /\ s[2] = b /\ s[3] = c /\ s[4] = d /\ s[5] = e
  BY Tuples
<1>2. /\ Before(s, 1) = {} /\ Taken(s) = Before(s, 6) /\ DOMAIN s = 1 .. 5
      /\ \A i, j \in 1 .. 6 : j = i + 1 => Before(s, j) = Before(s, i) \cup s[i].takes
  <2>1. Len(s) + 1 = 6
    BY <1>1
  <2> QED BY ZenonT(60), <1>1, <2>1, TakenBefore
<1>3. Before(s, 2) = {} \cup a.takes
  <2>1. 1 \in 1 .. 6 /\ 2 \in 1 .. 6 /\ 2 = 1 + 1
    OBVIOUS
  <2>2. Before(s, 2) = Before(s, 1) \cup s[1].takes
    BY <1>2, <2>1
  <2> QED BY <1>1, <1>2, <2>2
<1>4. Before(s, 3) = a.takes \cup b.takes
  BY <1>1, <1>2, <1>3
<1>5. Before(s, 4) = a.takes \cup b.takes \cup c.takes
  BY <1>1, <1>2, <1>4
<1>6. Before(s, 5) = a.takes \cup b.takes \cup c.takes \cup d.takes
  BY <1>1, <1>2, <1>5
<1>7. Before(s, 6) = a.takes \cup b.takes \cup c.takes \cup d.takes \cup e.takes
  BY <1>1, <1>2, <1>6
<1>8. \A i \in 1 .. Len(s) : i = 1 \/ i = 2 \/ i = 3 \/ i = 4 \/ i = 5
  BY <1>1
<1> QED BY <1>1, <1>2, <1>3, <1>4, <1>5, <1>6, <1>7, <1>8

LEMMA JoinedCalls ==
  ASSUME NEW s \in Seq(CallSet), NEW t \in Seq(CallSet), NEW owed
  PROVE  /\ s \o t \in Seq(CallSet)
         /\ Taken(s \o t) = Taken(s) \cup Taken(t)
         /\ Clears(s, owed) /\ Clears(t, owed \cup Taken(s)) => Clears(s \o t, owed)
         /\ Entire(s) /\ Entire(t) => Entire(s \o t)
         /\ Len(s \o t) = Len(s) + Len(t)
         /\ \A i \in 1 .. Len(s) : (s \o t)[i] = s[i] /\ Before(s \o t, i) = Before(s, i)
<1> DEFINE q == s \o t
<1>1. Len(s) \in Nat /\ Len(t) \in Nat /\ q \in Seq(CallSet) /\ Len(q) = Len(s) + Len(t)
  OBVIOUS
<1>2. \A k \in 1 .. Len(s) : q[k] = s[k]
  OBVIOUS
<1>3. \A k \in 1 .. Len(t) : q[Len(s) + k] = t[k]
  OBVIOUS
<1> HIDE DEF q
<1>4. Taken(q) = Taken(s) \cup Taken(t)
  <2>1. DOMAIN q = 1 .. Len(s) + Len(t) /\ DOMAIN s = 1 .. Len(s) /\ DOMAIN t = 1 .. Len(t)
    BY <1>1, TakenBefore
  <2>2. \A k \in DOMAIN q : k \in 1 .. Len(s) \/ \E n \in 1 .. Len(t) : k = Len(s) + n
    <3>1. ASSUME NEW k \in DOMAIN q, k \notin 1 .. Len(s)
          PROVE  k - Len(s) \in 1 .. Len(t) /\ k = Len(s) + (k - Len(s))
      BY <1>1, <2>1, <3>1
    <3> QED BY <3>1
  <2>3. \A n \in 1 .. Len(t) : Len(s) + n \in DOMAIN q
    BY <1>1, <2>1
  <2>4. \A k \in 1 .. Len(s) : k \in DOMAIN q
    BY <1>1, <2>1
  <2>5. ASSUME NEW x PROVE x \in Taken(q) <=> x \in Taken(s) \/ x \in Taken(t)
    <3>1. x \in Taken(q) <=> \E k \in DOMAIN q : x \in q[k].takes
      BY DEF Taken
    <3>2. x \in Taken(s) <=> \E k \in 1 .. Len(s) : x \in s[k].takes
      BY <2>1 DEF Taken
    <3>3. x \in Taken(t) <=> \E k \in 1 .. Len(t) : x \in t[k].takes
      BY <2>1 DEF Taken
    <3> QED BY <1>2, <1>3, <2>2, <2>3, <2>4, <3>1, <3>2, <3>3
  <2> QED BY <2>5
<1>5. \A i \in 1 .. Len(s) : Before(q, i) = Before(s, i)
  <2> TAKE i \in 1 .. Len(s)
  <2>1. DOMAIN SubSeq(q, 1, i - 1) = 1 .. i - 1 /\ DOMAIN SubSeq(s, 1, i - 1) = 1 .. i - 1
    BY <1>1
  <2>2. \A k \in 1 .. i - 1 : SubSeq(q, 1, i - 1)[k] = q[k] /\ SubSeq(s, 1, i - 1)[k] = s[k]
    BY <1>1
  <2>3. \A k \in 1 .. i - 1 : q[k] = s[k]
    BY <1>1, <1>2
  <2> QED BY <2>1, <2>2, <2>3 DEF Before, Taken
<1>6. \A i \in 1 .. Len(t) : Before(q, Len(s) + i) = Taken(s) \cup Before(t, i)
  <2> TAKE i \in 1 .. Len(t)
  <2> DEFINE n == Len(s) + i - 1
  <2>1. /\ DOMAIN SubSeq(q, 1, n) = 1 .. n /\ DOMAIN SubSeq(t, 1, i - 1) = 1 .. i - 1
        /\ DOMAIN s = 1 .. Len(s)
    BY <1>1
  <2>2. /\ \A k \in 1 .. n : SubSeq(q, 1, n)[k] = q[k]
        /\ \A k \in 1 .. i - 1 : SubSeq(t, 1, i - 1)[k] = t[k]
    BY <1>1
  <2>3. \A k \in 1 .. n : k \in 1 .. Len(s) \/ \E m \in 1 .. i - 1 : k = Len(s) + m
    <3>1. ASSUME NEW k \in 1 .. n, k \notin 1 .. Len(s)
          PROVE  k - Len(s) \in 1 .. i - 1 /\ k = Len(s) + (k - Len(s))
      BY <1>1, <3>1
    <3> QED BY <3>1
  <2>4. /\ \A m \in 1 .. i - 1 : Len(s) + m \in 1 .. n /\ m \in 1 .. Len(t)
        /\ \A k \in 1 .. Len(s) : k \in 1 .. n
    BY <1>1
  <2>5. ASSUME NEW x PROVE x \in Taken(SubSeq(q, 1, n)) <=> x \in Taken(s) \/ x \in Before(t, i)
    <3>1. x \in Taken(SubSeq(q, 1, n)) <=> \E k \in 1 .. n : x \in q[k].takes
      BY <2>1, <2>2 DEF Taken
    <3>2. x \in Taken(s) <=> \E k \in 1 .. Len(s) : x \in s[k].takes
      BY <2>1 DEF Taken
    <3>3. x \in Before(t, i) <=> \E k \in 1 .. i - 1 : x \in t[k].takes
      BY <2>1, <2>2 DEF Before, Taken
    <3> HIDE DEF n
    <3> QED BY <1>2, <1>3, <2>3, <2>4, <3>1, <3>2, <3>3
  <2>6. Before(q, Len(s) + i) = Taken(SubSeq(q, 1, n))
    BY DEF Before
  <2> QED BY <2>5, <2>6
<1>7. ASSUME Clears(s, owed), Clears(t, owed \cup Taken(s)) PROVE Clears(q, owed)
  <2>1. ASSUME NEW i \in 1 .. Len(q), ~Gap(q[i])
        PROVE  owed \cup Before(q, i) \cup (IF q[i].partial THEN q[i].takes ELSE {}) = q[i].undo
    <3>1. CASE i \in 1 .. Len(s)
      BY <1>2, <1>5, <1>7, <2>1, <3>1 DEF Clears
    <3>2. CASE i \notin 1 .. Len(s)
      <4>1. PICK m \in 1 .. Len(t) : i = Len(s) + m
        <5>1. i - Len(s) \in 1 .. Len(t) /\ i = Len(s) + (i - Len(s))
          BY <1>1, <3>2
        <5> QED BY <5>1
      <4>2. q[i] = t[m] /\ Before(q, i) = Taken(s) \cup Before(t, m)
        BY <1>3, <1>6, <4>1
      <4>3. (owed \cup Taken(s)) \cup Before(t, m) \cup (IF t[m].partial THEN t[m].takes ELSE {})
              = t[m].undo
        BY <1>7, <2>1, <4>2 DEF Clears
      <4> QED BY <4>2, <4>3
    <3> QED BY <3>1, <3>2
  <2> QED BY <2>1 DEF Clears
<1>8. ASSUME Entire(s), Entire(t), NEW i \in 1 .. Len(q) PROVE ~q[i].partial
  <2>1. CASE i \in 1 .. Len(s)
    BY <1>2, <1>8, <2>1 DEF Entire
  <2>2. CASE i \notin 1 .. Len(s)
    <3>1. i - Len(s) \in 1 .. Len(t) /\ i = Len(s) + (i - Len(s))
      BY <1>1, <2>2
    <3> QED BY <1>3, <1>8, <3>1 DEF Entire
  <2> QED BY <2>1, <2>2
<1>9. Entire(s) /\ Entire(t) => Entire(q)
  BY <1>8 DEF Entire
<1> QED BY <1>1, <1>2, <1>4, <1>5, <1>7, <1>9 DEF q

LEMMA DmaCalls ==
  AllocDma \in Seq(CallSet) /\ Taken(AllocDma) = FreeDma /\ Clears(AllocDma, {})
<1> DEFINE a == Call({"array"}, {})
           b == Call({"dma"}, {"array"})
           c == Call({"sgt"}, {"dma", "array"})
           d == Call({"table"}, {"sgt", "dma", "array"})
           e == Call({}, {"table", "sgt", "dma", "array"})
           s == <<a, b, c, d, e>>
<1>1. AllocDma = s
  BY DEF AllocDma
<1>2. a \in CallSet /\ b \in CallSet /\ c \in CallSet /\ d \in CallSet /\ e \in CallSet
  BY CallIs DEF Resources
<1>3. s \in Seq(CallSet) /\ s[1] = a /\ s[2] = b /\ s[3] = c /\ s[4] = d /\ s[5] = e
  <2> HIDE DEF a, b, c, d, e
  <2> QED BY <1>2, Tuples
<1>4. /\ Taken(s) = a.takes \cup b.takes \cup c.takes \cup d.takes \cup e.takes
      /\ Before(s, 1) = {}
      /\ Before(s, 2) = a.takes
      /\ Before(s, 3) = a.takes \cup b.takes
      /\ Before(s, 4) = a.takes \cup b.takes \cup c.takes
      /\ Before(s, 5) = a.takes \cup b.takes \cup c.takes \cup d.takes
      /\ \A i \in 1 .. Len(s) : i = 1 \/ i = 2 \/ i = 3 \/ i = 4 \/ i = 5
  <2> HIDE DEF a, b, c, d, e
  <2>1. s = <<a, b, c, d, e>>
    OBVIOUS
  <2> HIDE DEF s
  <2> QED BY SMTT(30), <1>2, <2>1, FiveCalls
<1>5. /\ a.takes = {"array"} /\ a.undo = {} /\ ~a.partial
      /\ b.takes = {"dma"} /\ b.undo = {"array"} /\ ~b.partial
      /\ c.takes = {"sgt"} /\ c.undo = {"dma", "array"} /\ ~c.partial
      /\ d.takes = {"table"} /\ d.undo = {"sgt", "dma", "array"} /\ ~d.partial
      /\ e.takes = {} /\ e.undo = {"table", "sgt", "dma", "array"} /\ ~e.partial
  BY CallIs
<1> HIDE DEF a, b, c, d, e, s
<1>6. Taken(s) = FreeDma
  BY <1>4, <1>5 DEF FreeDma
<1>7. ASSUME NEW i \in 1 .. Len(s)
      PROVE  Before(s, i) = s[i].undo /\ ~s[i].partial
  <2>1. CASE i = 1
    BY <1>3, <1>4, <1>5, <2>1
  <2>2. CASE i = 2
    BY <1>3, <1>4, <1>5, <2>2
  <2>3. CASE i = 3
    BY <1>3, <1>4, <1>5, <2>3
  <2>4. CASE i = 4
    BY <1>3, <1>4, <1>5, <2>4
  <2>5. CASE i = 5
    BY ZenonT(60), <1>3, <1>4, <1>5, <2>5
  <2> QED BY <1>4, <2>1, <2>2, <2>3, <2>4, <2>5
<1>8. Clears(s, {})
  BY <1>7 DEF Clears
<1> QED BY <1>1, <1>3, <1>6, <1>8

LEMMA CacheCalls ==
  ASSUME NEW f
  PROVE  /\ AllocCache(f) \in Seq(CallSet) /\ Taken(AllocCache(f)) = FreeCache
         /\ Clears(AllocCache(f), {})
<1> DEFINE a == Call({"iova"}, {})
           b == IF "sgt" \in f THEN PartialCall({"cache"}, {"iova"}) ELSE Call({"cache"}, {"iova"})
           c == Call({"pages"}, {"cache", "iova"})
           d == Call({"sgt", "table"}, {"pages", "cache", "iova"})
           e == PartialCall({"ddr"}, {"ddr", "sgt", "table", "pages", "cache", "iova"})
           s == <<a, b, c, d, e>>
<1>1. AllocCache(f) = s
  BY DEF AllocCache
<1>2. a \in CallSet /\ b \in CallSet /\ c \in CallSet /\ d \in CallSet /\ e \in CallSet
  BY CallIs DEF Resources
<1>3. s \in Seq(CallSet) /\ s[1] = a /\ s[2] = b /\ s[3] = c /\ s[4] = d /\ s[5] = e
  <2> HIDE DEF a, b, c, d, e
  <2> QED BY <1>2, Tuples
<1>4. /\ Taken(s) = a.takes \cup b.takes \cup c.takes \cup d.takes \cup e.takes
      /\ Before(s, 1) = {}
      /\ Before(s, 2) = a.takes
      /\ Before(s, 3) = a.takes \cup b.takes
      /\ Before(s, 4) = a.takes \cup b.takes \cup c.takes
      /\ Before(s, 5) = a.takes \cup b.takes \cup c.takes \cup d.takes
      /\ \A i \in 1 .. Len(s) : i = 1 \/ i = 2 \/ i = 3 \/ i = 4 \/ i = 5
  <2> HIDE DEF a, b, c, d, e
  <2>1. s = <<a, b, c, d, e>>
    OBVIOUS
  <2> HIDE DEF s
  <2> QED BY SMTT(30), <1>2, <2>1, FiveCalls
<1>5. /\ a.takes = {"iova"} /\ a.undo = {} /\ ~a.partial
      /\ b.takes = {"cache"} /\ b.undo = {"iova"} /\ (b.partial => Gap(b))
      /\ c.takes = {"pages"} /\ c.undo = {"cache", "iova"} /\ ~c.partial
      /\ d.takes = {"sgt", "table"} /\ d.undo = {"pages", "cache", "iova"} /\ ~d.partial
      /\ e.takes = {"ddr"} /\ e.undo = {"ddr", "sgt", "table", "pages", "cache", "iova"}
      /\ e.partial
  BY CallIs DEF Gap
<1> HIDE DEF a, b, c, d, e, s
<1>6. Taken(s) = FreeCache
  BY <1>4, <1>5 DEF FreeCache
<1>7. ASSUME NEW i \in 1 .. Len(s), ~Gap(s[i])
      PROVE  {} \cup Before(s, i) \cup (IF s[i].partial THEN s[i].takes ELSE {}) = s[i].undo
  <2>1. CASE i = 1
    BY <1>3, <1>4, <1>5, <2>1
  <2>2. CASE i = 2
    BY <1>3, <1>4, <1>5, <1>7, <2>2
  <2>3. CASE i = 3
    BY <1>3, <1>4, <1>5, <2>3
  <2>4. CASE i = 4
    BY <1>3, <1>4, <1>5, <2>4
  <2>5. CASE i = 5
    BY <1>3, <1>4, <1>5, <2>5
  <2> QED BY <1>4, <2>1, <2>2, <2>3, <2>4, <2>5
<1>8. Clears(s, {})
  BY <1>7 DEF Clears
<1> QED BY <1>1, <1>3, <1>6, <1>8

LEMMA PagesCalls ==
  ASSUME NEW f
  PROVE  /\ GetPages(f) \in Seq(CallSet) /\ Taken(GetPages(f)) = PutPages(f)
         /\ Clears(GetPages(f), {})
<1> DEFINE a == << Call({"pages"}, {}), Call({"sgt", "table"}, {"pages"}) >>
           b == MapSg(f)
           c == IF "kmap" \in f
                THEN << Call({"vmap"}, UnmapSg(f) \cup {"sgt", "table", "pages"}) >>
                ELSE <<>>
           pages == {"sgt", "table", "pages"}
<1>1. a \in Seq(CallSet) /\ Taken(a) = pages /\ Clears(a, {})
  <2> DEFINE k == Call({"pages"}, {})
             l == Call({"sgt", "table"}, {"pages"})
  <2>1. k \in CallSet /\ l \in CallSet
    BY CallIs DEF Resources
  <2>2. /\ k.takes = {"pages"} /\ k.undo = {} /\ ~k.partial
        /\ l.takes = {"sgt", "table"} /\ l.undo = {"pages"} /\ ~l.partial
    BY CallIs
  <2> HIDE DEF k, l
  <2>3. <<k, l>> \in Seq(CallSet) /\ Taken(<<k, l>>) = k.takes \cup l.takes
        /\ Clears(<<k, l>>, {})
    <3>1. l.undo = {} \cup k.takes
      BY <2>2
    <3>2. <<k, l>> \in Seq(CallSet)
      BY <2>1, Tuples
    <3> QED BY <2>1, <2>2, <3>1, <3>2, TwoCalls
  <2> QED BY <2>2, <2>3 DEF k, l
<1>2. b \in Seq(CallSet) /\ Taken(b) = UnmapSg(f) /\ Clears(b, pages)
  <2>1. CASE "unaligned" \in f
    <3> DEFINE k == Call({"iova"}, {"sgt", "table", "pages"})
               l == Call({"map"}, {"iova", "sgt", "table", "pages"})
    <3>1. k \in CallSet /\ l \in CallSet
      BY CallIs DEF Resources
    <3>2. /\ k.takes = {"iova"} /\ k.undo = pages /\ ~k.partial
          /\ l.takes = {"map"} /\ l.undo = pages \cup k.takes /\ ~l.partial
      BY CallIs
    <3>3. b = <<k, l>>
      BY <2>1 DEF MapSg
    <3> HIDE DEF k, l, b, pages
    <3>4. b \in Seq(CallSet) /\ Taken(b) = k.takes \cup l.takes /\ Clears(b, pages)
      BY <3>1, <3>2, <3>3, Tuples, TwoCalls
    <3> QED BY <2>1, <3>2, <3>4 DEF UnmapSg
  <2>2. CASE "unaligned" \notin f
    <3> DEFINE k == Call({"map"}, {"sgt", "table", "pages"})
    <3>1. k \in CallSet
      BY CallIs DEF Resources
    <3>2. k.takes = {"map"} /\ k.undo = pages /\ ~k.partial
      BY CallIs
    <3>3. b = <<k>>
      BY <2>2 DEF MapSg
    <3> HIDE DEF k, b, pages
    <3>4. b \in Seq(CallSet) /\ Taken(b) = k.takes /\ Clears(b, pages)
      BY <3>1, <3>2, <3>3, Tuples, OneCall
    <3> QED BY <2>2, <3>2, <3>4 DEF UnmapSg
  <2> QED BY <2>1, <2>2
<1>3. /\ c \in Seq(CallSet) /\ Taken(c) = (IF "kmap" \in f THEN {"vmap"} ELSE {})
      /\ Clears(c, pages \cup UnmapSg(f))
  <2>1. CASE "kmap" \in f
    <3> DEFINE k == Call({"vmap"}, UnmapSg(f) \cup {"sgt", "table", "pages"})
    <3>1. k \in CallSet
      BY CallIs DEF Resources, UnmapSg
    <3>2. k.takes = {"vmap"} /\ k.undo = pages \cup UnmapSg(f) /\ ~k.partial
      BY CallIs
    <3>3. c = <<k>>
      BY <2>1
    <3> HIDE DEF k, c, pages
    <3> QED BY <2>1, <3>1, <3>2, <3>3, Tuples, OneCall
  <2>2. CASE "kmap" \notin f
    <3>1. c = <<>> /\ c \in Seq(CallSet)
      BY <2>2
    <3> QED BY <2>2, <3>1, NoCalls
  <2> QED BY <2>1, <2>2
<1>4. GetPages(f) = a \o b \o c
  BY DEF GetPages
<1> HIDE DEF a, b, c
<1>5. a \o b \in Seq(CallSet) /\ Taken(a \o b) = pages \cup UnmapSg(f) /\ Clears(a \o b, {})
  <2>1. {} \cup Taken(a) = pages
    BY <1>1
  <2> QED BY <1>1, <1>2, <2>1, JoinedCalls
<1>6. /\ a \o b \o c \in Seq(CallSet)
      /\ Taken(a \o b \o c) = Taken(a \o b) \cup Taken(c)
      /\ Clears(a \o b \o c, {})
  <2>1. {} \cup Taken(a \o b) = pages \cup UnmapSg(f)
    BY <1>5
  <2> QED BY <1>3, <1>5, <2>1, JoinedCalls
<1>7. Taken(GetPages(f)) = PutPages(f)
  BY <1>3, <1>4, <1>5, <1>6 DEF PutPages
<1> QED BY <1>4, <1>6, <1>7

\* An imported buffer: its array, and a call that takes nothing.
LEMMA ImportCalls ==
  LET calls == << Call({"object"}, {}) >> \o Import IN
  /\ Taken(Import) = {"array"} /\ DOMAIN Import = 1 .. 2
  /\ \A i \in 1 .. 2 : /\ ~calls[i + 1].partial
                       /\ Before(calls, i + 1) = calls[i + 1].undo \cup {"object"}
<1> DEFINE k == Call({"object"}, {})
           a == Call({"array"}, {})
           b == Call({}, {"array"})
           s == << k >> \o Import
<1>1. k \in CallSet /\ a \in CallSet /\ b \in CallSet
  BY CallIs DEF Resources
<1>2. /\ k.takes = {"object"} /\ a.takes = {"array"} /\ a.undo = {} /\ ~a.partial
      /\ b.takes = {} /\ b.undo = {"array"} /\ ~b.partial
  BY CallIs
<1>3. Import = << a, b >>
  BY DEF Import
<1> HIDE DEF k, a, b
<1>4. Import \in Seq(CallSet) /\ Len(Import) = 2 /\ Import[1] = a /\ Import[2] = b
      /\ Taken(Import) = a.takes \cup b.takes
  BY <1>1, <1>3, Tuples, TwoCalls
<1>5. <<k>> \in Seq(CallSet) /\ Len(<<k>>) = 1 /\ <<k>>[1] = k
  BY <1>1
<1>6. s \in Seq(CallSet) /\ Len(s) = 3 /\ s[1] = k /\ s[2] = a /\ s[3] = b
  <2>1. s \in Seq(CallSet) /\ Len(s) = 3
    BY <1>4, <1>5
  <2>2. s[1] = <<k>>[1] /\ s[2] = Import[1] /\ s[3] = Import[2]
    BY <1>4, <1>5
  <2> HIDE DEF s
  <2> QED BY <1>4, <1>5, <2>1, <2>2
<1> HIDE DEF s
<1>7. Before(s, 1) = {} /\ \A i, j \in 1 .. 4 : j = i + 1 => Before(s, j) = Before(s, i) \cup s[i].takes
  <2>1. Len(s) + 1 = 4
    BY <1>6
  <2> QED BY <1>6, <2>1, TakenBefore
<1>8. 1 \in 1 .. 4 /\ 2 \in 1 .. 4 /\ 3 \in 1 .. 4 /\ 2 = 1 + 1 /\ 3 = 2 + 1
  OBVIOUS
<1>9. Before(s, 2) = {"object"} /\ Before(s, 3) = {"object", "array"}
  <2>1. Before(s, 2) = Before(s, 1) \cup s[1].takes
    BY <1>7, <1>8
  <2>2. Before(s, 3) = Before(s, 2) \cup s[2].takes
    BY <1>7, <1>8
  <2> QED BY <1>2, <1>6, <1>7, <2>1, <2>2
<1>10. ASSUME NEW i \in 1 .. 2
       PROVE  ~s[i + 1].partial /\ Before(s, i + 1) = s[i + 1].undo \cup {"object"}
  <2>1. CASE i = 1
    <3>1. i + 1 = 2
      BY <2>1
    <3> QED BY <1>2, <1>6, <1>9, <3>1
  <2>2. CASE i = 2
    <3>1. i + 1 = 3
      BY <2>2
    <3> QED BY <1>2, <1>6, <1>9, <3>1
  <2> QED BY <2>1, <2>2
<1>11. Taken(Import) = {"array"} /\ DOMAIN Import = 1 .. 2
  <2>1. DOMAIN Import = 1 .. 2
    BY <1>4
  <2> QED BY <1>2, <1>4, <2>1
<1> QED BY <1>10, <1>11 DEF s, k

\* The create ioctl of the DMA-heap build: what an object of it holds; and a call
\* that fails leaves nothing behind as long as no descriptor has been installed.
LEMMA HeapCalls ==
  ASSUME NEW f
  PROVE  LET calls == HeapAlloc(f) IN
         /\ calls \in Seq(CallSet)
         /\ Taken(calls) = {"object", "dmabuf", "attach", "map"}
                             \cup (IF "import" \in f THEN {} ELSE {"fd"})
                             \cup (IF "kmap" \in f THEN {"vmap"} ELSE {})
         /\ \A i \in 1 .. Len(calls) :
              "import" \in f \/ i <= 3
              => {} \cup Before(calls, i) \cup (IF calls[i].partial THEN calls[i].takes ELSE {})
                   = calls[i].undo
<1> DEFINE ka == Call({"object"}, {})
           kb == Call({"dmabuf"}, {"object"})
           kc == Call({"fd"}, {"dmabuf", "object"})
           kd == Call({"attach"}, {"dmabuf", "object"})
           ke == Call({"map"}, {"attach", "dmabuf", "object"})
           kf == Call({"vmap"}, {"map", "attach", "dmabuf", "object"})
           kernel == IF "kmap" \in f THEN {"vmap"} ELSE {}
           kg == Call({}, {"map", "attach", "dmabuf", "object"} \cup kernel)
           a == <<ka, kb>>
           b == IF "import" \in f THEN <<>> ELSE <<kc>>
           c == <<kd, ke>>
           d == IF "kmap" \in f THEN <<kf>> ELSE <<>>
           e == <<kg>>
           base == {"object", "dmabuf"}
<1>1. HeapAlloc(f) = a \o b \o c \o d \o e
  BY DEF HeapAlloc
<1>2. /\ ka \in CallSet /\ kb \in CallSet /\ kc \in CallSet /\ kd \in CallSet
      /\ ke \in CallSet /\ kf \in CallSet /\ kg \in CallSet
  BY CallIs DEF Resources
<1>3. /\ ka.takes = {"object"} /\ ka.undo = {} /\ ~ka.partial
      /\ kb.takes = {"dmabuf"} /\ kb.undo = {"object"} /\ ~kb.partial
      /\ kc.takes = {"fd"} /\ kc.undo = base /\ ~kc.partial
      /\ kd.takes = {"attach"} /\ kd.undo = base /\ ~kd.partial
      /\ ke.takes = {"map"} /\ ke.undo = base \cup {"attach"} /\ ~ke.partial
      /\ kf.takes = {"vmap"} /\ kf.undo = base \cup {"attach", "map"} /\ ~kf.partial
      /\ kg.takes = {} /\ kg.undo = base \cup {"attach", "map"} \cup kernel /\ ~kg.partial
  <2> HIDE DEF kernel
  <2> QED BY CallIs
<1> HIDE DEF ka, kb, kc, kd, ke, kf, kg
<1>4. a \in Seq(CallSet) /\ Len(a) = 2 /\ Taken(a) = base /\ Clears(a, {})
      /\ Entire(a)
  <2> DEFINE none == {}
  <2>1. /\ a = <<ka, kb>> /\ base = ka.takes \cup kb.takes
        /\ ka.undo = none /\ kb.undo = none \cup ka.takes
    BY <1>3
  <2> HIDE DEF a, base, none
  <2>2. a \in Seq(CallSet) /\ Len(a) = 2
    BY <1>2, <2>1, Tuples
  <2>3. Taken(a) = ka.takes \cup kb.takes /\ Clears(a, none)
        /\ Entire(a)
    BY <1>2, <1>3, <2>1, TwoCalls
  <2> QED BY <2>1, <2>2, <2>3 DEF none
<1>5. /\ b \in Seq(CallSet) /\ Taken(b) = (IF "import" \in f THEN {} ELSE {"fd"})
      /\ Clears(b, base) /\ Entire(b)
      /\ "import" \notin f => Len(b) = 1
  <2>1. CASE "import" \in f
    BY <1>2, <2>1, Tuples, NoCalls
  <2>2. CASE "import" \notin f
    <3>1. b = <<kc>> /\ kc.undo = base
      BY <1>3, <2>2
    <3> HIDE DEF b, base
    <3>2. b \in Seq(CallSet) /\ Len(b) = 1
      BY <1>2, <3>1, Tuples
    <3>3. Taken(b) = kc.takes /\ Clears(b, base) /\ Entire(b)
      BY <1>2, <1>3, <3>1, OneCall
    <3> QED BY <1>3, <2>2, <3>2, <3>3
  <2> QED BY <2>1, <2>2
<1>6. c \in Seq(CallSet) /\ Taken(c) = {"attach", "map"} /\ Clears(c, base) /\ Entire(c)
  <2>1. c = <<kd, ke>> /\ kd.undo = base /\ ke.undo = base \cup kd.takes
    BY <1>3
  <2> HIDE DEF c, base
  <2>2. c \in Seq(CallSet)
    BY <1>2, <2>1, Tuples
  <2>3. Taken(c) = kd.takes \cup ke.takes /\ Clears(c, base) /\ Entire(c)
    BY <1>2, <1>3, <2>1, TwoCalls
  <2>4. kd.takes \cup ke.takes = {"attach", "map"}
    BY <1>3
  <2> QED BY <2>2, <2>3, <2>4
<1>7. d \in Seq(CallSet) /\ Taken(d) = kernel /\ Clears(d, base \cup {"attach", "map"})
      /\ Entire(d)
  <2>1. CASE "kmap" \in f
    <3> DEFINE owed == base \cup {"attach", "map"}
    <3>1. d = <<kf>> /\ kf.undo = owed /\ kernel = kf.takes
      BY <1>3, <2>1
    <3> HIDE DEF d, owed, kernel
    <3>2. d \in Seq(CallSet)
      BY <1>2, <3>1, Tuples
    <3>3. Taken(d) = kf.takes /\ Clears(d, owed) /\ Entire(d)
      BY <1>2, <1>3, <3>1, OneCall
    <3> QED BY <3>1, <3>2, <3>3 DEF owed
  <2>2. CASE "kmap" \notin f
    BY <1>2, <2>2, Tuples, NoCalls
  <2> QED BY <2>1, <2>2
<1>8. e \in Seq(CallSet) /\ Taken(e) = {} /\ Clears(e, base \cup {"attach", "map"} \cup kernel)
      /\ Entire(e)
  <2> DEFINE owed == base \cup {"attach", "map"} \cup kernel
  <2>1. e = <<kg>> /\ kg.undo = owed
    BY <1>3
  <2> HIDE DEF e, owed
  <2>2. e \in Seq(CallSet)
    BY <1>2, <2>1, Tuples
  <2>3. Taken(e) = kg.takes /\ Clears(e, owed) /\ Entire(e)
    BY <1>2, <1>3, <2>1, OneCall
  <2> QED BY <1>3, <2>2, <2>3 DEF owed
<1> HIDE DEF a, b, c, d, e, kernel
<1>9. /\ a \o b \in Seq(CallSet)
      /\ Taken(a \o b) = Taken(a) \cup Taken(b)
      /\ Clears(a \o b, {}) /\ Entire(a \o b)
      /\ Len(a \o b) = Len(a) + Len(b)
  <2>1. {} \cup Taken(a) = base
    BY <1>4
  <2> QED BY <1>4, <1>5, <2>1, JoinedCalls
<1>10. /\ a \o b \o c \in Seq(CallSet)
       /\ Taken(a \o b \o c) = Taken(a \o b) \cup Taken(c)
       /\ "import" \in f => Clears(a \o b \o c, {})
       /\ Entire(a \o b \o c)
       /\ \A i \in 1 .. Len(a \o b) : (a \o b \o c)[i] = (a \o b)[i]
                                    /\ Before(a \o b \o c, i) = Before(a \o b, i)
       /\ Len(a \o b \o c) = Len(a \o b) + Len(c)
  <2>1. "import" \in f => {} \cup Taken(a \o b) = base
    BY <1>4, <1>5, <1>9
  <2> QED BY <1>6, <1>9, <2>1, JoinedCalls
<1>11. /\ a \o b \o c \o d \in Seq(CallSet)
       /\ Taken(a \o b \o c \o d) = Taken(a \o b \o c) \cup Taken(d)
       /\ "import" \in f => Clears(a \o b \o c \o d, {})
       /\ Entire(a \o b \o c \o d)
       /\ \A i \in 1 .. Len(a \o b \o c) :
            /\ (a \o b \o c \o d)[i] = (a \o b \o c)[i]
            /\ Before(a \o b \o c \o d, i) = Before(a \o b \o c, i)
       /\ Len(a \o b \o c \o d) = Len(a \o b \o c) + Len(d)
  <2>1. "import" \in f => {} \cup Taken(a \o b \o c) = base \cup {"attach", "map"}
    BY <1>4, <1>5, <1>6, <1>9, <1>10
  <2> QED BY <1>7, <1>10, <2>1, JoinedCalls
<1> DEFINE q == a \o b \o c \o d \o e
<1>12. /\ q \in Seq(CallSet)
       /\ Taken(q) = Taken(a \o b \o c \o d) \cup Taken(e)
       /\ "import" \in f => Clears(q, {})
       /\ Entire(q)
       /\ \A i \in 1 .. Len(a \o b \o c \o d) :
            /\ q[i] = (a \o b \o c \o d)[i]
            /\ Before(q, i) = Before(a \o b \o c \o d, i)
  <2>1. "import" \in f =>
          {} \cup Taken(a \o b \o c \o d) = base \cup {"attach", "map"} \cup kernel
    BY <1>4, <1>5, <1>6, <1>7, <1>9, <1>10, <1>11
  <2> QED BY <1>8, <1>11, <2>1, JoinedCalls
<1>13. Taken(q) = {"object", "dmabuf", "attach", "map"}
                    \cup (IF "import" \in f THEN {} ELSE {"fd"})
                    \cup kernel
  BY <1>4, <1>5, <1>6, <1>7, <1>8, <1>9, <1>10, <1>11, <1>12
<1>14. ASSUME NEW i \in 1 .. Len(q), "import" \in f \/ i <= 3
       PROVE  {} \cup Before(q, i) \cup (IF q[i].partial THEN q[i].takes ELSE {}) = q[i].undo
  <2>0. ~Gap(q[i])
    BY <1>12 DEF Entire, Gap
  <2>1. CASE "import" \in f
    BY <1>12, <2>0, <2>1 DEF Clears
  <2>2. CASE "import" \notin f
    <3>1. Len(a \o b) = 3 /\ Len(c) \in Nat /\ Len(d) \in Nat
      <4>1. Len(c) \in Nat /\ Len(d) \in Nat
        BY <1>6, <1>7
      <4>2. Len(a) = 2 /\ Len(b) = 1 /\ Len(a \o b) = Len(a) + Len(b)
        BY <1>4, <1>5, <1>9, <2>2
      <4>3. Len(a \o b) = 2 + 1
        BY ONLY <4>2
      <4> QED BY <4>1, <4>3
    <3>2. /\ i \in 1 .. Len(a \o b) /\ i \in 1 .. Len(a \o b \o c)
          /\ i \in 1 .. Len(a \o b \o c \o d)
      <4>1. i \in 1 .. 3
        BY <1>12, <1>14, <2>2
      <4> QED BY <1>10, <1>11, <3>1, <4>1
    <3>3. q[i] = (a \o b)[i] /\ Before(q, i) = Before(a \o b, i)
      BY <1>10, <1>11, <1>12, <3>2
    <3> HIDE DEF q
    <3> QED BY <1>9, <2>0, <3>2, <3>3 DEF Clears
  <2> QED BY <2>1, <2>2
<1> QED BY <1>1, <1>12, <1>13, <1>14 DEF kernel

(***************************************************************************)
(* What an object holds, and what is left of it when it is gone.           *)
(***************************************************************************)

\* Each resource in S once, and no other.
Exactly(S) == [r \in Resources |-> IF r \in S THEN 1 ELSE 0]

\* What is taken and given back of an object that holds the resources in A.
LEMMA MovedBy ==
  ASSUME NEW o, NEW A, held[o] = Exactly(A), NEW T, NEW G,
         \A r \in Resources : r \in A /\ r \in T => r \in G
  PROVE  Net(o, T, G) \in [Resources -> -1 .. 1]
<1>1. \A r \in Resources :
        Net(o, T, G)[r] = (IF r \in A THEN 1 ELSE 0) + (IF r \in T THEN 1 ELSE 0)
                            - (IF r \in G THEN 1 ELSE 0)
  BY DEF Net, Exactly
<1>2. Net(o, T, G) = [r \in Resources |-> Net(o, T, G)[r]]
  BY DEF Net
<1>3. \A r \in Resources : Net(o, T, G)[r] \in -1 .. 1
  BY <1>1
<1> QED BY <1>2, <1>3

\* Nothing is taken twice, and B is left when what is in G has been given back.
Leaves(A, T, G, B) ==
  \A r \in Resources : /\ ~(r \in A /\ r \in T)
                       /\ r \in G => r \in A \/ r \in T
                       /\ r \in B <=> (r \in A \/ r \in T) /\ r \notin G

LEMMA MovedTo ==
  ASSUME NEW o, NEW A, held[o] = Exactly(A), NEW T, NEW G, NEW B, Leaves(A, T, G, B)
  PROVE  Net(o, T, G) = Exactly(B)
<1>1. \A r \in Resources :
        Net(o, T, G)[r] = (IF r \in A THEN 1 ELSE 0) + (IF r \in T THEN 1 ELSE 0)
                            - (IF r \in G THEN 1 ELSE 0)
  BY DEF Net, Exactly
<1>2. Net(o, T, G) = [r \in Resources |-> Net(o, T, G)[r]]
  BY DEF Net
<1>3. \A r \in Resources : Net(o, T, G)[r] = IF r \in B THEN 1 ELSE 0
  BY <1>1 DEF Leaves
<1> QED BY <1>2, <1>3 DEF Exactly

LEMMA ExactlyIs ==
  /\ \A S : Exactly(S) \in [Resources -> -1 .. 1]
  /\ \A r \in Resources : Exactly({})[r] = 0
BY DEF Exactly

\* A call that fails and clears what has been taken.
LEMMA ClearedCall ==
  ASSUME NEW o, NEW calls \in Seq(CallSet), NEW i \in 1 .. Len(calls), NEW A, NEW G,
         held[o] = Exactly(A)
  PROVE  /\ (\A r \in Resources : r \in A => r \in G)
              => Failed(o, calls, i, G) \in [Resources -> -1 .. 1]
         /\ /\ {} \cup Before(calls, i) \cup (IF calls[i].partial THEN calls[i].takes ELSE {})
                 = calls[i].undo
            /\ \A r \in Resources : r \in A <=> r \in G
            /\ \A r \in Resources : r \in A => r \notin calls[i].undo
            => Failed(o, calls, i, G) = Exactly({})
<1> DEFINE T == Before(calls, i) \cup (IF calls[i].partial THEN calls[i].takes ELSE {})
           U == calls[i].undo \cup G
<1>1. Failed(o, calls, i, G) = Net(o, T, U)
  BY DEF Failed, Before
<1> HIDE DEF T
<1>2. ASSUME \A r \in Resources : r \in A => r \in G
      PROVE  Net(o, T, U) \in [Resources -> -1 .. 1]
  <2>1. \A r \in Resources : r \in A /\ r \in T => r \in U
    BY <1>2
  <2> HIDE DEF U
  <2> QED BY <2>1, MovedBy
<1>3. ASSUME {} \cup T = calls[i].undo, \A r \in Resources : r \in A <=> r \in G,
             \A r \in Resources : r \in A => r \notin calls[i].undo
      PROVE  Net(o, T, U) = Exactly({})
  <2>1. Leaves(A, T, U, {})
    BY <1>3 DEF Leaves
  <2>2. held[o] = Exactly(A)
    OBVIOUS
  <2> HIDE DEF U
  <2> QED BY <2>1, <2>2, MovedTo
<1>4. {} \cup Before(calls, i) \cup (IF calls[i].partial THEN calls[i].takes ELSE {}) = {} \cup T
  BY DEF T
<1> HIDE DEF U
<1> QED BY <1>1, <1>2, <1>3, <1>4

\* A device that has lost its domain does not get it back.
LEMMA StaysDetached ==
  IInv /\ [Next]_vars => UNCHANGED build /\ (attached' # NoDomain => attached # NoDomain)
<1> SUFFICES ASSUME IInv, [Next]_vars
             PROVE  UNCHANGED build /\ (attached' # NoDomain => attached # NoDomain)
  OBVIOUS
<1>1. \A o \in Objects : obj[o].domain \in Domains
  BY Known DEF Record
<1>2. \A o \in Objects : GetDomain(obj[o].domain) \/ NoDomainGot(obj[o].domain)
                           => (attached' # NoDomain => attached # NoDomain)
  BY <1>1, Got, NotGot
<1>3. ASSUME NEW o \in Objects, Gem(o)
      PROVE  UNCHANGED build /\ (attached' # NoDomain => attached # NoDomain)
  BY <1>2, <1>3 DEF Gem, Create, DumbCreate, Begin, CreateGetsDomain, CreateNoDomain,
     ChooseMemory, SramAlloc, SramFull, Allocate, AllocFails, HandleCreate, HandleFails,
     ImportBuffer, ImportFails, Refer, Unrefer, DestroyIoctl, DeleteHandle, DestroyGetsDomain,
     DestroyGivesUp, FreeSram, FreeObject, DestroyEnds, DomainPut, domainVars
<1>4. ASSUME NEW o \in Objects, Heap(o)
      PROVE  UNCHANGED build /\ (attached' # NoDomain => attached # NoDomain)
  BY <1>4 DEF Heap, HeapCreate, HeapFails, HeapDestroy, HeapForget, HeapCloseFd, domainVars
<1>5. CASE HeapRelease
  BY <1>5 DEF HeapRelease, HeapForget, domainVars
<1>6. CASE UNCHANGED vars
  BY <1>6 DEF vars, domainVars
<1> QED BY <1>3, <1>4, <1>5, <1>6 DEF Next

\* What the calls of an allocation hold when they are done, and what they leave when
\* one of them fails.
LEMMA CallsOf ==
  ASSUME NEW o
  PROVE  /\ Calls(o) \in Seq(CallSet) /\ Clears(Calls(o), {})
         /\ Taken(Calls(o)) = IF at[o] = "cache" THEN FreeCache
                              ELSE IF "noncontig" \in obj[o].flags THEN PutPages(obj[o].flags)
                              ELSE FreeDma
BY DmaCalls, CacheCalls, PagesCalls DEF Calls

\* What the invariant says of the object that a step works on.
LEMMA Holds ==
  ASSUME IInv, NEW o \in Objects
  PROVE  /\ at[o] \in Early \cup Whole => held[o] = Exactly(Owned(o))
         /\ at[o] \in Early \ {"new"} => Owned(o) = {"object"}
         /\ at[o] = "new" => Owned(o) = {}
         /\ at[o] \in Early => mapped[o] = NoDomain /\ slip[o] = {}
                                 /\ "import" \notin obj[o].flags
         /\ at[o] = "cache" => obj[o].cache_size > 0
         /\ at[o] = "buffer" => obj[o].cache_size = 0
         /\ at[o] \in {"new", "switch", "choose"} => obj[o].chunks = {}
         /\ at[o] \notin {"new", "live", "gone"} => build = "gem"
         /\ build \in {"gem", "heap"}
<1>1. build \in {"gem", "heap"}
  BY MemoryAssumption, Known DEF Basic
<1>2. at[o] \in Early \cup Whole => at[o] \notin Ended
  BY DEF Early, Whole, Ended
<1>3. HeldInv(o) /\ MadeInv(o)
  BY DEF IInv
<1>4. at[o] \in Early \cup Whole => held[o] = Exactly(Owned(o))
  BY <1>2, <1>3 DEF HeldInv, Exactly
<1>5. /\ at[o] \in Early \ {"new"} => Owned(o) = {"object"}
      /\ at[o] = "new" => Owned(o) = {}
  BY DEF Owned
<1> QED BY <1>1, <1>3, <1>4, <1>5 DEF MadeInv, Early

\* What is taken before a call, and by it, is taken.
LEMMA TakenWithin ==
  ASSUME NEW calls \in Seq(CallSet), NEW i \in 1 .. Len(calls)
  PROVE  Before(calls, i) \subseteq Taken(calls) /\ calls[i].takes \subseteq Taken(calls)
<1>1. DOMAIN calls = 1 .. Len(calls) /\ 1 .. i - 1 \subseteq 1 .. Len(calls)
  OBVIOUS
<1>2. DOMAIN SubSeq(calls, 1, i - 1) = 1 .. i - 1
  OBVIOUS
<1>3. \A k \in 1 .. i - 1 : SubSeq(calls, 1, i - 1)[k] = calls[k]
  OBVIOUS
<1> QED BY <1>1, <1>2, <1>3 DEF Taken, Before

LEMMA InitHeld == Init => \A o \in Objects : HeldInv(o) /\ GoneInv(o)
BY DEF Init, HeldInv, GoneInv, Owned, Ended

LEMMA NextHeld ==
  IInv /\ [Next]_vars
    => /\ held' \in [Objects -> [Resources -> -1 .. 1]]
       /\ \A p \in Objects : HeldInv(p)' /\ GoneInv(p)'
<1> DEFINE Good(p) == held'[p] \in [Resources -> -1 .. 1] /\ HeldInv(p)' /\ GoneInv(p)'
<1> SUFFICES ASSUME IInv, [Next]_vars
             PROVE  held' = [q \in Objects |-> held'[q]] /\ \A p \in Objects : Good(p)
  <2>1. ASSUME held' = [q \in Objects |-> held'[q]],
               \A p \in Objects : held'[p] \in [Resources -> -1 .. 1]
        PROVE  held' \in [Objects -> [Resources -> -1 .. 1]]
    BY <2>1
  <2> QED BY <2>1
<1>k. /\ at \in [Objects -> Places] /\ obj \in [Objects -> Record]
      /\ refs \in [Objects -> SUBSET (Holders \cup {"handle", "fd"})]
      /\ slip \in [Objects -> SUBSET Slips]
      /\ mapped \in [Objects -> Domains \cup {NoDomain}]
      /\ held \in [Objects -> [Resources -> -1 .. 1]]
      /\ \A p \in Objects : HeldInv(p) /\ GoneInv(p)
  BY Known DEF Basic, IInv
<1>s. UNCHANGED build /\ (attached' # NoDomain => attached # NoDomain)
  BY StaysDetached
\* Nothing happens to the object.
<1>u. ASSUME NEW p \in Objects, at'[p] = at[p], held'[p] = held[p], mapped'[p] = mapped[p],
             obj'[p] = obj[p], refs'[p] = refs[p], slip'[p] = slip[p]
      PROVE  Good(p)
  <2>1. HeldInv(p) /\ GoneInv(p) /\ held[p] \in [Resources -> -1 .. 1]
    BY <1>k
  <2>2. Owned(p)' = Owned(p)
    BY <1>s, <1>u DEF Owned, HeapGiven
  <2>3. HeldInv(p)'
    BY <1>u, <2>1, <2>2 DEF HeldInv
  <2>4. GoneInv(p)'
    BY <1>s, <1>u, <2>1 DEF GoneInv
  <2> QED BY <1>u, <2>1, <2>3, <2>4
\* An object that is being made goes on.
<1>e. ASSUME NEW p \in Objects, at[p] \in Early \ {"new"}, at'[p] \in Early \ {"new"},
             held'[p] = held[p]
      PROVE  Good(p)
  <2>1. held[p] = Exactly({"object"})
    BY <1>e, Holds
  <2>2. Owned(p)' = {"object"}
    BY <1>e DEF Owned
  <2>3. at'[p] \notin Ended
    BY <1>e DEF Early, Ended
  <2> QED BY <1>e, <2>1, <2>2, <2>3, ExactlyIs DEF HeldInv, GoneInv, Exactly
\* A whole object goes on.
<1>w. ASSUME NEW p \in Objects, build = "gem", at[p] \in Whole, at'[p] \in Whole,
             held'[p] = held[p], obj'[p].flags = obj[p].flags,
             obj'[p].cache_size = obj[p].cache_size,
             "fallback" \in slip'[p] <=> "fallback" \in slip[p]
      PROVE  Good(p)
  <2>1. held[p] = Exactly(Owned(p))
    BY <1>w, Holds
  <2>2. at[p] \notin Early \cup Ended /\ at'[p] \notin Early \cup Ended
        /\ at[p] # "new" /\ at'[p] # "new"
    BY <1>w DEF Early, Whole, Ended
  <2>3. Owned(p)' = Owned(p)
    BY <1>s, <1>w, <2>2 DEF Owned
  <2> QED BY <1>w, <2>1, <2>2, <2>3, ExactlyIs DEF HeldInv, GoneInv, Exactly
\* An object holds what it should after the step.
<1>x. ASSUME NEW p \in Objects, at'[p] \notin Ended, held'[p] = Exactly(Owned(p)')
      PROVE  Good(p)
  BY <1>x, ExactlyIs DEF HeldInv, GoneInv, Exactly
\* An object ends.
<1>z. ASSUME NEW p \in Objects, at'[p] \in Ended, held'[p] \in [Resources -> -1 .. 1],
             attached' # NoDomain /\ slip'[p] \subseteq {"garbage"}
               => held'[p] = Exactly({}) /\ mapped'[p] = NoDomain /\ obj'[p].chunks = {}
      PROVE  Good(p)
  BY <1>z, ExactlyIs DEF HeldInv, GoneInv
<1> DEFINE Others(o) == \A q \in Objects \ {o} :
                          /\ at'[q] = at[q] /\ held'[q] = held[q] /\ mapped'[q] = mapped[q]
                          /\ obj'[q] = obj[q] /\ refs'[q] = refs[q] /\ slip'[q] = slip[q]
           Fun == held' = [q \in Objects |-> held'[q]]
           Goal == Fun /\ \A p \in Objects : Good(p)
<1>o. ASSUME NEW o \in Objects, Others(o), Good(o) PROVE \A p \in Objects : Good(p)
  <2> HIDE DEF Good
  <2> QED BY <1>o, <1>u
<1> HIDE DEF Good
<1>1. ASSUME NEW o \in Objects, Create(o) \/ DumbCreate(o) PROVE Goal
  <2>1. PICK r : /\ obj' = [obj EXCEPT ![o] = r] /\ at[o] = "new"
                 /\ held' = [held EXCEPT ![o] = Net(o, {"object"}, {})]
                 /\ Goto(o, "switch")
                 /\ UNCHANGED <<mapped, refs, slip>>
    BY <1>1 DEF Create, DumbCreate, Begin
  <2>2. Others(o) /\ Fun /\ at'[o] = "switch" /\ held'[o] = Net(o, {"object"}, {})
    BY <1>k, <2>1 DEF Goto
  <2>3. held[o] = Exactly({})
    BY <2>1, Holds DEF Early
  <2>4. Net(o, {"object"}, {}) = Exactly({"object"})
    <3>1. Leaves({}, {"object"}, {}, {"object"})
      BY DEF Leaves
    <3> QED BY <2>3, <3>1, MovedTo
  <2>5. Owned(o)' = {"object"} /\ at'[o] \notin Ended
    BY <2>2 DEF Owned, Early, Ended
  <2>6. held'[o] = Exactly(Owned(o)')
    BY <2>2, <2>4, <2>5
  <2>7. Good(o)
    BY <1>x, <2>5, <2>6
  <2> QED BY <1>o, <2>2, <2>7
<1>2. ASSUME NEW o \in Objects,
             CreateGetsDomain(o) \/ ChooseMemory(o) \/ SramAlloc(o) \/ SramFull(o)
      PROVE  Goal
  <2>1. \E r : obj' = [obj EXCEPT ![o] = r]
    <3>1. CASE CreateGetsDomain(o)
      BY <1>k, <3>1 DEF CreateGetsDomain
    <3>2. CASE ChooseMemory(o)
      BY <3>2 DEF ChooseMemory
    <3>3. CASE SramAlloc(o)
      BY <3>3 DEF SramAlloc
    <3>4. CASE SramFull(o)
      BY <3>4 DEF SramFull
    <3> QED BY <1>2, <3>1, <3>2, <3>3, <3>4
  <2>2. /\ at[o] \in {"switch", "choose", "sram"}
        /\ \E place \in {"choose", "sram", "cache", "buffer"} : Goto(o, place)
        /\ UNCHANGED <<held, mapped, refs, slip>>
    BY <1>2 DEF CreateGetsDomain, ChooseMemory, SramAlloc, SramFull
  <2>3. Others(o) /\ Fun
    BY <1>k, <2>1, <2>2 DEF Goto
  <2>4. at[o] \in Early \ {"new"} /\ at'[o] \in Early \ {"new"} /\ held'[o] = held[o]
    BY <1>k, <2>2 DEF Goto, Early
  <2>5. Good(o)
    BY <1>e, <2>4
  <2> QED BY <1>o, <2>3, <2>5
<1>3. ASSUME NEW o \in Objects, CreateNoDomain(o) PROVE Goal
  <2>1. Others(o) /\ Fun /\ at'[o] = "gone" /\ held'[o] = Net(o, {}, {"object"})
        /\ mapped'[o] = mapped[o] /\ obj'[o] = Blank
    BY <1>k, <1>3 DEF CreateNoDomain, Goto
  <2>2. held[o] = Exactly({"object"}) /\ mapped[o] = NoDomain
    BY <1>3, Holds DEF CreateNoDomain, Early
  <2>3. Net(o, {}, {"object"}) = Exactly({})
    <3>1. Leaves({"object"}, {}, {"object"}, {})
      BY DEF Leaves
    <3> QED BY <2>2, <3>1, MovedTo
  <2>4. Good(o)
    BY <1>z, <2>1, <2>2, <2>3, ExactlyIs DEF Ended, Blank
  <2> QED BY <1>o, <2>1, <2>4
<1>4. ASSUME NEW o \in Objects, Allocate(o) PROVE Goal
  <2>1. /\ at[o] \in {"cache", "buffer"} /\ Goto(o, "handle")
        /\ held' = [held EXCEPT ![o] = Net(o, Taken(Calls(o)), {})]
        /\ mapped' = [mapped EXCEPT ![o] = attached]
        /\ UNCHANGED refs
        /\ \/ UNCHANGED <<obj, slip>>
           \/ /\ at[o] = "buffer" /\ "noncontig" \notin obj[o].flags
              /\ obj' = [obj EXCEPT ![o].flags = @ \cup {"noncontig"}]
              /\ slip' = [slip EXCEPT ![o] = {"fallback"}]
    BY <1>4 DEF Allocate
  <2>2. Others(o) /\ Fun /\ at'[o] = "handle" /\ held'[o] = Net(o, Taken(Calls(o)), {})
    BY <1>k, <2>1 DEF Goto
  <2>3. /\ held[o] = Exactly({"object"}) /\ "import" \notin obj[o].flags /\ slip[o] = {}
        /\ (at[o] = "cache" => obj[o].cache_size > 0) /\ (at[o] = "buffer" => obj[o].cache_size = 0)
        /\ build = "gem"
    BY <2>1, Holds DEF Early
  <2> DEFINE T == Taken(Calls(o))
  <2>4. T = IF at[o] = "cache" THEN FreeCache
            ELSE IF "noncontig" \in obj[o].flags THEN PutPages(obj[o].flags)
            ELSE FreeDma
    BY CallsOf
  <2>5. "object" \notin T
    BY <2>4 DEF FreeCache, PutPages, FreeDma, UnmapSg
  <2> DEFINE B == {"object"} \cup T
  <2>6. Net(o, T, {}) = Exactly(B)
    <3>1. Leaves({"object"}, T, {}, B)
      BY <2>5 DEF Leaves
    <3> HIDE DEF T, B
    <3> QED BY <2>3, <3>1, MovedTo
  <2>7. Owned(o)' = B
    <3>1. /\ obj'[o].cache_size = obj[o].cache_size
          /\ "import" \notin obj'[o].flags
          /\ \/ obj'[o].flags = obj[o].flags /\ slip'[o] = {}
             \/ /\ at[o] = "buffer" /\ "noncontig" \notin obj[o].flags
                /\ "noncontig" \in obj'[o].flags /\ "fallback" \in slip'[o]
      BY <1>k, <2>1, <2>3 DEF Record
    <3>2. at'[o] \notin Early /\ at'[o] # "new" /\ build' = "gem"
      BY <1>s, <2>2, <2>3 DEF Early
    <3> HIDE DEF T
    <3> QED BY <2>1, <2>3, <2>4, <3>1, <3>2 DEF Owned
  <2>8. at'[o] \notin Ended /\ held'[o] = Exactly(Owned(o)')
    <3> HIDE DEF B
    <3> QED BY <2>2, <2>6, <2>7 DEF Ended
  <2>9. Good(o)
    BY <1>x, <2>8
  <2> QED BY <1>o, <2>2, <2>9
<1>5. ASSUME NEW o \in Objects, AllocFails(o) PROVE Goal
  <2>1. PICK i \in DOMAIN Calls(o) :
          /\ held' = [held EXCEPT ![o] = Failed(o, Calls(o), i, {"object"})]
          /\ mapped' = [mapped EXCEPT ![o] = IF Gap(Calls(o)[i]) THEN attached ELSE NoDomain]
          /\ slip' = [slip EXCEPT ![o] = IF Gap(Calls(o)[i]) THEN {"partly"} ELSE {}]
    BY <1>5 DEF AllocFails, Gap
  <2>2. /\ at[o] \in {"cache", "buffer"} /\ Goto(o, "gone")
        /\ obj' = [obj EXCEPT ![o] = Blank]
        /\ UNCHANGED refs
    BY <1>5 DEF AllocFails
  <2>3. Others(o) /\ Fun /\ at'[o] = "gone" /\ obj'[o].chunks = {}
        /\ held'[o] = Failed(o, Calls(o), i, {"object"})
        /\ (Gap(Calls(o)[i]) => slip'[o] = {"partly"})
        /\ (~Gap(Calls(o)[i]) => mapped'[o] = NoDomain)
    BY <1>k, <2>1, <2>2 DEF Goto, Blank
  <2>4. held[o] = Exactly({"object"})
    BY <2>2, Holds DEF Early
  <2>5. /\ Calls(o) \in Seq(CallSet) /\ i \in 1 .. Len(Calls(o))
        /\ Clears(Calls(o), {})
    <3>1. Calls(o) \in Seq(CallSet) /\ Clears(Calls(o), {})
      BY CallsOf
    <3>2. DOMAIN Calls(o) = 1 .. Len(Calls(o))
      BY <3>1, TakenBefore
    <3> QED BY <3>1, <3>2
  <2>6. held'[o] \in [Resources -> -1 .. 1]
    BY <2>3, <2>4, <2>5, ClearedCall
  <2>7. ASSUME ~Gap(Calls(o)[i]) PROVE held'[o] = Exactly({})
    <3>1. {} \cup Before(Calls(o), i)
             \cup (IF Calls(o)[i].partial THEN Calls(o)[i].takes ELSE {}) = Calls(o)[i].undo
      BY <2>5, <2>7 DEF Clears
    <3>2. "object" \notin Calls(o)[i].undo
      <4>1. "object" \notin Taken(Calls(o))
        BY CallsOf DEF FreeCache, PutPages, FreeDma, UnmapSg
      <4>2. /\ Before(Calls(o), i) \subseteq Taken(Calls(o))
            /\ Calls(o)[i].takes \subseteq Taken(Calls(o))
        BY <2>5, TakenWithin
      <4> QED BY <3>1, <4>1, <4>2
    <3> QED BY <2>3, <2>4, <2>5, <3>1, <3>2, ClearedCall
  <2>8. Good(o)
    BY <1>z, <2>3, <2>6, <2>7 DEF Ended
  <2> QED BY <1>o, <2>3, <2>8
\* A whole object of the DRM build goes on.
<1>6. ASSUME NEW o \in Objects,
             HandleCreate(o) \/ HandleFails(o) \/ DestroyGetsDomain(o) \/ DeleteHandle(o)
               \/ DestroyIoctl(o)
               \/ \E h \in Holders \cup {"handle"} : Unrefer(o, h)
      PROVE  Goal
  <2>1. /\ at[o] \in {"handle", "live", "destroy"}
        /\ UNCHANGED at \/ \E place \in {"live", "destroy", "free"} : Goto(o, place)
        /\ UNCHANGED <<obj, held, mapped, slip>>
        /\ UNCHANGED refs \/ \E S : refs' = [refs EXCEPT ![o] = S]
    BY <1>6 DEF HandleCreate, HandleFails, DestroyGetsDomain, DeleteHandle, DestroyIoctl, Unrefer,
       Drop
  <2>2. build = "gem"
    <3>1. at[o] = "live" => o \in deleting \/ build = "gem"
      BY <1>6 DEF HandleCreate, HandleFails, DestroyGetsDomain, DeleteHandle, DestroyIoctl, Unrefer
    <3>2. build = "heap" => deleting = {}
      BY DEF IInv, DomainInv
    <3> QED BY <2>1, <3>1, <3>2, Holds
  <2>3. Others(o) /\ Fun
    BY <1>k, <2>1 DEF Goto
  <2>4. at[o] \in Whole /\ at'[o] \in Whole
    BY <1>k, <2>1 DEF Goto, Whole
  <2>5. Good(o)
    BY <1>w, <2>1, <2>2, <2>4
  <2> QED BY <1>o, <2>3, <2>5
<1>7. ASSUME NEW o \in Objects, FreeSram(o) PROVE Goal
  <2>1. /\ at[o] = "free" /\ obj' = [obj EXCEPT ![o].chunks = {}]
        /\ UNCHANGED <<at, held, mapped, refs, slip>>
    BY <1>7 DEF FreeSram
  <2>2. Others(o) /\ Fun /\ build = "gem"
    BY <1>k, <2>1, Holds
  <2>3. obj'[o].flags = obj[o].flags /\ obj'[o].cache_size = obj[o].cache_size
    BY <1>k, <2>1 DEF Record
  <2>4. Good(o)
    BY <1>w, <2>1, <2>2, <2>3 DEF Whole
  <2> QED BY <1>o, <2>2, <2>4
<1>8. ASSUME NEW o \in Objects, NEW h \in Holders, Refer(o, h) PROVE Goal
  <2>1. /\ at[o] = "live" /\ build = "gem" /\ UNCHANGED <<at, held, mapped, obj>>
        /\ refs' = [refs EXCEPT ![o] = @ \cup {h}] /\ UNCHANGED slip
    BY <1>8 DEF Refer
  <2>2. Others(o) /\ Fun
    BY <1>k, <2>1
  <2>3. "fallback" \in slip'[o] <=> "fallback" \in slip[o]
    BY <1>k, <2>1
  <2>4. Good(o)
    BY <1>w, <2>1, <2>3 DEF Whole
  <2> QED BY <1>o, <2>2, <2>4
<1>9. ASSUME NEW o \in Objects, ImportBuffer(o) PROVE Goal
  <2> DEFINE T == {"object", "attach", "map"} \cup Taken(Import)
  <2>1. PICK r \in Requests :
          /\ "import" \in r.flags
          /\ obj' = [obj EXCEPT ![o] = Fresh([r EXCEPT !.domain = Domain0])]
    BY <1>9 DEF ImportBuffer
  <2>2. /\ at[o] = "new" /\ build = "gem" /\ Goto(o, "live")
        /\ held' = [held EXCEPT ![o] = Net(o, T, {})]
        /\ mapped' = [mapped EXCEPT ![o] = attached]
        /\ refs' = [refs EXCEPT ![o] = {"handle"}]
        /\ slip' = [slip EXCEPT ![o] = IF attached = Domain0 THEN {} ELSE {"import"}]
    BY <1>9 DEF ImportBuffer
  <2>3. Others(o) /\ Fun /\ at'[o] = "live" /\ held'[o] = Net(o, T, {})
        /\ obj'[o].flags = r.flags
    <3>1. Fresh([r EXCEPT !.domain = Domain0]).flags = r.flags
      BY FreshIsRecord, MemoryAssumption
    <3> HIDE DEF T
    <3> QED BY <1>k, <2>1, <2>2, <3>1 DEF Goto
  <2>4. held[o] = Exactly({})
    BY <2>2, Holds DEF Early
  <2>5. Net(o, T, {}) = Exactly(T)
    <3>1. Leaves({}, T, {}, T)
      BY DEF Leaves
    <3> HIDE DEF T
    <3> QED BY <2>4, <3>1, MovedTo
  <2>6. Owned(o)' = T
    BY <1>s, <2>1, <2>2, <2>3 DEF Owned, Early
  <2>7. at'[o] \notin Ended /\ held'[o] = Exactly(Owned(o)')
    <3> HIDE DEF T
    <3> QED BY <2>3, <2>5, <2>6 DEF Ended
  <2>8. Good(o)
    BY <1>x, <2>7
  <2> QED BY <1>o, <2>3, <2>8
<1>10. ASSUME NEW o \in Objects, ImportFails(o) PROVE Goal
  <2> DEFINE calls == << Call({"object"}, {}) >> \o Import
  <2>1. PICK i \in DOMAIN Import :
          held' = [held EXCEPT ![o] = Failed(o, calls, i + 1, {"object"})]
    BY <1>10 DEF ImportFails
  <2>2. at[o] = "new" /\ Goto(o, "gone") /\ UNCHANGED <<obj, mapped, refs, slip>>
    BY <1>10 DEF ImportFails
  <2>3. /\ Others(o) /\ Fun /\ at'[o] = "gone" /\ held'[o] = Failed(o, calls, i + 1, {"object"})
        /\ mapped'[o] = mapped[o] /\ obj'[o] = obj[o]
    <3> HIDE DEF calls
    <3> QED BY <1>k, <2>1, <2>2 DEF Goto
  <2>4. held[o] = Exactly({}) /\ mapped[o] = NoDomain /\ obj[o].chunks = {}
    BY <2>2, Holds DEF Early
  <2>5. ~calls[i + 1].partial /\ Before(calls, i + 1) = calls[i + 1].undo \cup {"object"}
    BY ImportCalls
  <2> DEFINE T == Before(calls, i + 1) \cup {}
             U == calls[i + 1].undo \cup {"object"}
  <2>6. Failed(o, calls, i + 1, {"object"}) = Net(o, T, U) /\ T = U
    <3>1. T = Taken(SubSeq(calls, 1, (i + 1) - 1))
                \cup (IF calls[i + 1].partial THEN calls[i + 1].takes ELSE {})
      BY <2>5 DEF Before
    <3> QED BY <2>5, <3>1 DEF Failed
  <2>7. Net(o, T, U) = Exactly({})
    <3>1. Leaves({}, T, U, {})
      BY <2>6 DEF Leaves
    <3> HIDE DEF T, U
    <3> QED BY <2>4, <3>1, MovedTo
  <2> HIDE DEF calls, T, U
  <2>8. held'[o] = Exactly({})
    BY <2>3, <2>6, <2>7
  <2>9. Good(o)
    BY <1>z, <2>3, <2>4, <2>8, ExactlyIs DEF Ended
  <2> QED BY <1>o, <2>3, <2>9
<1>11. ASSUME NEW o \in Objects, DestroyGivesUp(o) PROVE Goal
  <2>1. /\ at[o] = "destroy" /\ Goto(o, "gone") /\ UNCHANGED <<obj, held, mapped, refs>>
        /\ slip' = [slip EXCEPT ![o] = @ \cup {"kept"}]
    BY <1>11 DEF DestroyGivesUp
  <2>2. Others(o) /\ Fun /\ at'[o] = "gone" /\ "kept" \in slip'[o]
    BY <1>k, <2>1 DEF Goto
  <2>3. Good(o)
    BY <1>k, <1>z, <2>1, <2>2 DEF Ended
  <2> QED BY <1>o, <2>2, <2>3
<1>12. ASSUME NEW o \in Objects, FreeObject(o) PROVE Goal
  <2> DEFINE G == Given(obj[o]) \cup {"object"}
  <2>1. /\ at[o] = "free" /\ held' = [held EXCEPT ![o] = Net(o, {}, G)]
        /\ mapped' = [mapped EXCEPT ![o] = IF attached = @ THEN NoDomain ELSE @]
        /\ UNCHANGED <<refs, slip, attached>>
        /\ obj' = [obj EXCEPT ![o] = Blank]
        /\ \E place \in Ended : Goto(o, place)
    BY <1>12 DEF FreeObject, Ended, DomainPut
  <2>2. /\ Others(o) /\ Fun /\ held'[o] = Net(o, {}, G) /\ at'[o] \in Ended
        /\ obj'[o].chunks = {} /\ slip'[o] = slip[o]
        /\ mapped'[o] = IF attached = mapped[o] THEN NoDomain ELSE mapped[o]
    <3> HIDE DEF G
    <3> QED BY <1>k, <2>1 DEF Goto, Blank
  <2>3. build = "gem" /\ held[o] = Exactly(Owned(o))
    BY <2>1, Holds DEF Whole
  <2>4. Net(o, {}, G) \in [Resources -> -1 .. 1]
    <3>1. \A r \in Resources : r \in Owned(o) /\ r \in {} => r \in G
      OBVIOUS
    <3> HIDE DEF G
    <3> QED BY <2>3, <3>1, MovedBy
  <2>5. ASSUME attached' # NoDomain, slip'[o] \subseteq {"garbage"}
        PROVE  held'[o] = Exactly({}) /\ mapped'[o] = NoDomain
    <3>1. attached = obj[o].domain
      <4>1. o \in Users
        BY <2>1 DEF Users
      <4> QED BY <2>1, <2>5, <4>1 DEF IInv, DomainInv
    <3>2. mapped[o] = obj[o].domain
      <4>1. MappedInv(o)
        BY DEF IInv
      <4> QED BY <2>1, <2>2, <2>3, <2>5, <4>1 DEF MappedInv, Whole
    <3>3. Owned(o) = G
      BY <2>1, <2>2, <2>3, <2>5 DEF Owned, Given, Early
    <3>4. Leaves(G, {}, G, {})
      BY DEF Leaves
    <3> HIDE DEF G
    <3> QED BY <2>2, <2>3, <3>1, <3>2, <3>3, <3>4, MovedTo
  <2> HIDE DEF G
  <2>6. Good(o)
    BY <1>z, <2>2, <2>4, <2>5
  <2> QED BY <1>o, <2>2, <2>6
<1>13. ASSUME NEW o \in Objects, DestroyEnds(o) PROVE Goal
  <2>1. /\ at[o] = "deleted" /\ Goto(o, "gone") /\ UNCHANGED <<obj, held, mapped, refs, slip>>
    BY <1>13 DEF DestroyEnds
  <2>2. Others(o) /\ Fun /\ at'[o] = "gone"
    BY <1>k, <2>1 DEF Goto
  <2>3. GoneInv(o)' /\ HeldInv(o)' /\ held'[o] \in [Resources -> -1 .. 1]
    BY <1>k, <1>s, <2>1, <2>2 DEF GoneInv, HeldInv, Ended
  <2>4. Good(o)
    BY <2>3 DEF Good
  <2> QED BY <1>o, <2>2, <2>4
<1>14. ASSUME NEW o \in Objects, HeapCreate(o) PROVE Goal
  <2>1. PICK r \in Requests :
          /\ obj' = [obj EXCEPT ![o] = Fresh(r)]
          /\ held' = [held EXCEPT ![o] = Net(o, Taken(HeapAlloc(r.flags)), {"map", "attach"})]
          /\ refs' = [refs EXCEPT ![o] =
               IF "import" \in r.flags THEN {"handle"} ELSE {"handle", "fd"}]
    BY <1>14 DEF HeapCreate
  <2>2. at[o] = "new" /\ build = "heap" /\ Goto(o, "live") /\ UNCHANGED <<mapped, slip>>
    BY <1>14 DEF HeapCreate
  <2> DEFINE T == Taken(HeapAlloc(r.flags))
  <2>3. /\ Others(o) /\ Fun /\ at'[o] = "live" /\ held'[o] = Net(o, T, {"map", "attach"})
        /\ obj'[o].flags = r.flags
        /\ refs'[o] = IF "import" \in r.flags THEN {"handle"} ELSE {"handle", "fd"}
    <3>1. Fresh(r).flags = r.flags
      BY DEF Fresh
    <3>2. held' = [held EXCEPT ![o] = Net(o, T, {"map", "attach"})]
      BY <2>1
    <3>3. Fun /\ held'[o] = Net(o, T, {"map", "attach"})
          /\ \A q \in Objects \ {o} : held'[q] = held[q]
      <4> HIDE DEF T
      <4> QED BY <1>k, <3>2
    <3> HIDE DEF T, Fun
    <3> QED BY <1>k, <2>1, <2>2, <3>1, <3>3 DEF Goto
  <2>4. held[o] = Exactly({})
    BY <2>2, Holds DEF Early
  <2>5. T = {"object", "dmabuf", "attach", "map"}
              \cup (IF "import" \in r.flags THEN {} ELSE {"fd"})
              \cup (IF "kmap" \in r.flags THEN {"vmap"} ELSE {})
    BY HeapCalls
  <2>6. Owned(o)' = HeapGiven(obj'[o]) \cup (IF "fd" \in refs'[o] THEN {"fd", "dmabuf"} ELSE {})
    BY <1>s, <2>2, <2>3 DEF Owned, Early
  <2> HIDE DEF T
  <2>7. Leaves({}, T, {"map", "attach"}, Owned(o)')
    BY <2>3, <2>5, <2>6 DEF Leaves, HeapGiven
  <2>8. Net(o, T, {"map", "attach"}) = Exactly(Owned(o)')
    BY <2>4, <2>7, MovedTo
  <2>9. Good(o)
    BY <1>x, <2>3, <2>8 DEF Ended
  <2> QED BY <1>o, <2>3, <2>9
<1>15. ASSUME NEW o \in Objects, HeapFails(o) PROVE Goal
  <2>1. PICK r \in Requests : \E i \in 2 .. Len(HeapAlloc(r.flags)) :
          /\ held' = [held EXCEPT ![o] = Failed(o, HeapAlloc(r.flags), i, {})]
          /\ slip' = [slip EXCEPT ![o] =
               (IF "import" \notin r.flags /\ i > 3 THEN {"descriptor"} ELSE {})
               \cup (IF i = Len(HeapAlloc(r.flags)) /\ "kmap" \notin r.flags
                     THEN {"garbage"} ELSE {})]
    BY <1>15 DEF HeapFails
  <2> DEFINE calls == HeapAlloc(r.flags)
  <2>2. PICK i \in 2 .. Len(calls) :
          /\ held' = [held EXCEPT ![o] = Failed(o, calls, i, {})]
          /\ \E S : /\ slip' = [slip EXCEPT ![o] = S]
                    /\ "import" \notin r.flags /\ i > 3 => "descriptor" \in S
    BY ZenonT(60), <2>1
  <2>3. /\ at[o] = "new" /\ build = "heap" /\ Goto(o, "gone")
        /\ UNCHANGED <<obj, mapped, refs>>
    BY <1>15 DEF HeapFails
  <2>4. /\ Others(o) /\ Fun /\ at'[o] = "gone" /\ held'[o] = Failed(o, calls, i, {})
        /\ mapped'[o] = mapped[o] /\ obj'[o] = obj[o]
        /\ "import" \notin r.flags /\ i > 3 => "descriptor" \in slip'[o]
    <3> HIDE DEF calls
    <3> QED BY <1>k, <2>2, <2>3 DEF Goto
  <2>5. held[o] = Exactly({}) /\ mapped[o] = NoDomain /\ obj[o].chunks = {}
    BY <2>3, Holds DEF Early
  <2>6. calls \in Seq(CallSet) /\ i \in 1 .. Len(calls)
    <3>1. calls \in Seq(CallSet)
      BY HeapCalls
    <3> HIDE DEF calls
    <3> QED BY <3>1
  <2>7. "import" \in r.flags \/ i <= 3
          => {} \cup Before(calls, i) \cup (IF calls[i].partial THEN calls[i].takes ELSE {})
               = calls[i].undo
    BY <2>6, HeapCalls
  <2> HIDE DEF calls
  <2>9. held'[o] \in [Resources -> -1 .. 1]
    <3>1. \A q \in Resources : q \in {} => q \in {}
      OBVIOUS
    <3> QED BY <2>4, <2>5, <2>6, <3>1, ClearedCall
  <2>10. ASSUME slip'[o] \subseteq {"garbage"} PROVE held'[o] = Exactly({})
    <3>1. "import" \in r.flags \/ i <= 3
      BY <2>4, <2>10
    <3>2. {} \cup Before(calls, i) \cup (IF calls[i].partial THEN calls[i].takes ELSE {})
             = calls[i].undo
      BY <2>7, <3>1
    <3>3. /\ \A q \in Resources : q \in {} <=> q \in {}
          /\ \A q \in Resources : q \in {} => q \notin calls[i].undo
      OBVIOUS
    <3> QED BY <2>4, <2>5, <2>6, <3>2, <3>3, ClearedCall
  <2>11. Good(o)
    BY <1>z, <2>4, <2>5, <2>9, <2>10 DEF Ended
  <2> QED BY <1>o, <2>4, <2>11
<1>16. ASSUME NEW o \in Objects, HeapCloseFd(o) PROVE Goal
  <2>1. /\ "fd" \in refs[o]
        /\ held' = [held EXCEPT ![o] = Net(o, {}, {"fd", "dmabuf"})]
        /\ refs' = [refs EXCEPT ![o] = @ \ {"fd"}]
        /\ IF refs[o] = {"fd"} THEN Goto(o, "gone") ELSE UNCHANGED at
        /\ UNCHANGED <<obj, mapped, slip>>
    BY <1>16 DEF HeapCloseFd
  <2>2. /\ Others(o) /\ Fun /\ held'[o] = Net(o, {}, {"fd", "dmabuf"})
        /\ refs'[o] = refs[o] \ {"fd"} /\ obj'[o] = obj[o] /\ mapped'[o] = mapped[o]
        /\ at'[o] = IF refs[o] = {"fd"} THEN "gone" ELSE at[o]
    BY <1>k, <2>1 DEF Goto
  <2>3. /\ build = "heap" /\ at[o] = "live" /\ mapped[o] = NoDomain /\ obj[o].chunks = {}
        /\ "import" \notin obj[o].flags /\ refs[o] \subseteq {"handle", "fd"}
    <3>1. build \in {"gem", "heap"} /\ MadeInv(o)
      BY Holds DEF IInv
    <3> QED BY <2>1, <3>1 DEF MadeInv
  <2>4. held[o] = Exactly(Owned(o))
    BY <2>3, Holds DEF Whole
  <2>5. Owned(o) = (IF "handle" \in refs[o] THEN HeapGiven(obj[o]) ELSE {})
                     \cup {"fd", "dmabuf"}
    BY <2>1, <2>3 DEF Owned, Early
  <2> DEFINE B == IF "handle" \in refs[o] THEN HeapGiven(obj[o]) ELSE {}
  <2>6. Net(o, {}, {"fd", "dmabuf"}) = Exactly(B)
    <3>1. Leaves(Owned(o), {}, {"fd", "dmabuf"}, B)
      BY <2>3, <2>5 DEF Leaves, HeapGiven
    <3> HIDE DEF B
    <3> QED BY <2>4, <3>1, MovedTo
  <2>7. CASE refs[o] = {"fd"}
    <3>1. B = {}
      BY <2>7
    <3> HIDE DEF B
    <3> QED BY <1>o, <1>z, <2>2, <2>3, <2>6, <2>7, <3>1, ExactlyIs DEF Ended
  <2>8. CASE refs[o] # {"fd"}
    <3>1. at'[o] = "live" /\ "fd" \notin refs'[o]
          /\ ("handle" \in refs'[o] <=> "handle" \in refs[o])
      BY <1>k, <2>2, <2>3, <2>8
    <3>2. Owned(o)' = B
      BY <1>s, <2>2, <2>3, <3>1 DEF Owned, Early, HeapGiven
    <3>3. at'[o] \notin Ended /\ held'[o] = Exactly(Owned(o)')
      <4> HIDE DEF B
      <4> QED BY <2>2, <2>6, <3>1, <3>2 DEF Ended
    <3>4. Good(o)
      BY <1>x, <3>3
    <3> QED BY <1>o, <2>2, <3>4
  <2> QED BY <2>7, <2>8
<1>17. ASSUME NEW S \in SUBSET Objects, HeapForget(S), S \subseteq Listed PROVE Goal
  <2>1. /\ held' = [q \in Objects |-> IF q \in S THEN Net(q, {}, HeapGiven(obj[q])) ELSE held[q]]
        /\ refs' = [q \in Objects |-> IF q \in S THEN refs[q] \ {"handle"} ELSE refs[q]]
        /\ at' = [q \in Objects |-> IF q \in S /\ refs[q] = {"handle"} THEN "gone" ELSE at[q]]
        /\ UNCHANGED <<obj, mapped, slip>>
    BY <1>17 DEF HeapForget
  <2>2. Fun
    BY <2>1
  <2>3. ASSUME NEW q \in Objects \ S PROVE Good(q)
    BY <1>u, <2>1
  <2>4. ASSUME NEW q \in S PROVE Good(q)
    <3>1. build = "heap" /\ "handle" \in refs[q] /\ q \in Objects
      BY <1>17 DEF Listed
    <3>2. /\ at[q] = "live" /\ mapped[q] = NoDomain /\ obj[q].chunks = {}
          /\ ("import" \in obj[q].flags => "fd" \notin refs[q])
          /\ refs[q] \subseteq {"handle", "fd"}
      BY <3>1 DEF IInv, MadeInv
    <3> DEFINE G == HeapGiven(obj[q])
               B == IF "fd" \in refs[q] THEN {"fd", "dmabuf"} ELSE {}
    <3>3. /\ held'[q] = Net(q, {}, G) /\ refs'[q] = refs[q] \ {"handle"}
          /\ at'[q] = IF refs[q] = {"handle"} THEN "gone" ELSE at[q]
          /\ obj'[q] = obj[q] /\ mapped'[q] = mapped[q]
      BY <2>1, <3>1
    <3>4. held[q] = Exactly(Owned(q))
      BY <3>1, <3>2, Holds DEF Whole
    <3>5. Owned(q) = G \cup B
      BY <3>1, <3>2 DEF Owned, Early
    <3>6. Net(q, {}, G) = Exactly(B)
      <4>1. Leaves(Owned(q), {}, G, B)
        BY <3>2, <3>5 DEF Leaves, HeapGiven
      <4> HIDE DEF B, G
      <4> QED BY <3>1, <3>4, <4>1, MovedTo
    <3>7. CASE refs[q] = {"handle"}
      <4>1. B = {}
        BY <3>7
      <4> HIDE DEF B, G
      <4> QED BY <1>z, <3>1, <3>2, <3>3, <3>6, <3>7, <4>1, ExactlyIs DEF Ended
    <3>8. CASE refs[q] # {"handle"}
      <4>1. at'[q] = "live" /\ "handle" \notin refs'[q]
            /\ ("fd" \in refs'[q] <=> "fd" \in refs[q])
        BY <3>2, <3>3, <3>8
      <4>2. Owned(q)' = B
        BY <1>s, <3>1, <3>3, <4>1 DEF Owned, Early
      <4>3. at'[q] \notin Ended /\ held'[q] = Exactly(Owned(q)')
        <5> HIDE DEF B, G
        <5> QED BY <3>3, <3>6, <4>1, <4>2 DEF Ended
      <4> QED BY <1>x, <3>1, <4>3
    <3> QED BY <3>7, <3>8
  <2> QED BY <2>2, <2>3, <2>4
<1>18. ASSUME HeapRelease PROVE Goal
  BY <1>17, <1>18 DEF HeapRelease, Listed
<1>19. ASSUME UNCHANGED vars PROVE Goal
  <2>1. UNCHANGED <<at, held, mapped, obj, refs, slip>>
    BY <1>19 DEF vars
  <2> QED BY <1>k, <1>u, <2>1
<1>20. ASSUME NEW o \in Objects, Gem(o) PROVE Goal
  <2> HIDE DEF Goal
  <2> QED BY <1>1, <1>2, <1>3, <1>4, <1>5, <1>6, <1>7, <1>8, <1>9, <1>10, <1>11, <1>12, <1>13,
             <1>20 DEF Gem
<1>21. ASSUME NEW o \in Objects, Heap(o) PROVE Goal
  <2>1. CASE HeapDestroy(o)
    BY <1>17, <2>1 DEF HeapDestroy
  <2> HIDE DEF Goal
  <2> QED BY <1>14, <1>15, <1>16, <1>21, <2>1 DEF Heap
<1>22. Goal
  <2> HIDE DEF Goal, Fun, Others
  <2> QED BY <1>18, <1>19, <1>20, <1>21 DEF Next
<1> QED BY <1>22

(***************************************************************************)
(* What is shown of an object.                                             *)
(***************************************************************************)

LEMMA InitView == Init => \A o \in Objects : RowInv(o) /\ ViewInv(o)
<1> SUFFICES ASSUME Init, NEW o \in Objects PROVE RowInv(o) /\ ViewInv(o)
  OBVIOUS
<1>1. /\ views[o] = Hidden /\ at[o] = "new" /\ obj[o] = Blank
  BY DEF Init
<1>2. obj[o].chunks = {} /\ obj[o].flags = {}
  BY <1>1 DEF Blank
<1>3. DOMAIN Hidden = Viewers /\ \A who \in Viewers : Hidden[who] = Unseen
  BY DEF Hidden
<1>4. "device" \in Viewers /\ "vma" \in Viewers /\ "dmabuf" \in Viewers
  BY DEF Viewers
<1> QED BY <1>1, <1>2, <1>3, <1>4 DEF RowInv, ViewInv

\* The chunks of an object change only where it gets a row of them, or none any more,
\* and the size of its cache only where it has none.
LEMMA NextRow == IInv /\ [Next]_vars => \A p \in Objects : RowInv(p)'
<1> SUFFICES ASSUME IInv, [Next]_vars, NEW p \in Objects PROVE RowInv(p)'
  OBVIOUS
<1>k. obj \in [Objects -> Record] /\ MadeInv(p) /\ RowInv(p)
  BY Known DEF IInv
<1>a. ASSUME obj'[p].chunks = {} PROVE RowInv(p)'
  BY <1>a DEF RowInv
<1>b. ASSUME obj'[p].chunks = obj[p].chunks, obj'[p].cache_size = obj[p].cache_size
      PROVE  RowInv(p)'
  BY <1>b, <1>k DEF RowInv
<1>1. ASSUME NEW o \in Objects, NEW r, obj' = [obj EXCEPT ![o] = r], r.chunks = {}
      PROVE  RowInv(p)'
  BY <1>1, <1>a, <1>b, <1>k
<1>2. ASSUME NEW o \in Objects, NEW n, at[o] \in Early \ {"cache"},
             obj' = [obj EXCEPT ![o].cache_size = n]
      PROVE  RowInv(p)'
  <2>1. CASE o = p
    BY <1>2, <1>a, <1>k, <2>1 DEF MadeInv, Record
  <2>2. CASE o # p
    BY <1>2, <1>b, <1>k, <2>2
  <2> QED BY <2>1, <2>2
<1>3. ASSUME NEW o \in Objects, SramAlloc(o) PROVE RowInv(p)'
  <2> DEFINE n == obj[o].cache_size
             row == Search(n) .. Search(n) + n - 1
  <2>1. at[o] = "sram" /\ obj' = [obj EXCEPT ![o].chunks = row]
    BY <1>3 DEF SramAlloc
  <2>2. CASE o = p
    <3>1. n \in Nat \ {0} /\ SramChunks \in Nat
      BY <1>k, <2>1, <2>2, MemoryAssumption DEF MadeInv, Record
    <3>2. Search(n) \in 0 .. SramChunks
      BY <3>1, SearchFinds
    <3>3. obj'[p].cache_size = n /\ obj'[p].chunks = row
      <4> HIDE DEF row
      <4> QED BY <1>k, <2>1, <2>2 DEF Record
    <3> QED BY <3>2, <3>3 DEF RowInv
  <2>3. CASE o # p
    <3> HIDE DEF row
    <3> QED BY <1>b, <1>k, <2>1, <2>3
  <2> QED BY <2>2, <2>3
<1>4. ASSUME NEW o \in Objects, Allocate(o) PROVE RowInv(p)'
  <2>1. UNCHANGED obj \/ obj' = [obj EXCEPT ![o].flags = @ \cup {"noncontig"}]
    BY <1>4 DEF Allocate
  <2>2. obj'[p].chunks = obj[p].chunks /\ obj'[p].cache_size = obj[p].cache_size
    BY <1>k, <2>1 DEF Record
  <2> QED BY <1>b, <2>2
<1>5. ASSUME NEW o \in Objects, FreeSram(o) PROVE RowInv(p)'
  <2>1. obj' = [obj EXCEPT ![o].chunks = {}]
    BY <1>5 DEF FreeSram
  <2> QED BY <1>a, <1>b, <1>k, <2>1 DEF Record
<1>6. ASSUME NEW o \in Objects,
             Create(o) \/ DumbCreate(o) \/ CreateNoDomain(o) \/ AllocFails(o) \/ FreeObject(o)
               \/ ImportBuffer(o) \/ HeapCreate(o)
      PROVE  RowInv(p)'
  <2>1. \E r : obj' = [obj EXCEPT ![o] = Fresh(r)] \/ obj' = [obj EXCEPT ![o] = Blank]
    BY <1>6 DEF Create, DumbCreate, Begin, CreateNoDomain, AllocFails, FreeObject, ImportBuffer,
       HeapCreate
  <2>2. Blank.chunks = {} /\ \A r : Fresh(r).chunks = {}
    BY DEF Blank, Fresh
  <2> QED BY <1>1, <2>1, <2>2
<1>7. ASSUME NEW o \in Objects, ChooseMemory(o) \/ SramFull(o) PROVE RowInv(p)'
  <2>1. \E n : obj' = [obj EXCEPT ![o].cache_size = n]
    BY <1>7 DEF ChooseMemory, SramFull
  <2>2. at[o] \in Early \ {"cache"}
    BY <1>7 DEF ChooseMemory, SramFull, Early
  <2> QED BY <1>2, <2>1, <2>2
<1>8. ASSUME UNCHANGED obj PROVE RowInv(p)'
  BY <1>8, <1>b
<1>9. ASSUME NEW o \in Objects, Gem(o) \/ Heap(o) PROVE RowInv(p)'
  BY <1>3, <1>4, <1>5, <1>6, <1>7, <1>8, <1>9 DEF Gem, Heap, CreateGetsDomain, HandleCreate,
     HandleFails, ImportFails, Refer, Unrefer, DestroyIoctl, DeleteHandle, DestroyGetsDomain,
     DestroyGivesUp, DestroyEnds, HeapFails, HeapDestroy, HeapForget, HeapCloseFd
<1> QED BY <1>8, <1>9 DEF Next, HeapRelease, HeapForget, vars

LEMMA NextView == IInv /\ [Next]_vars => \A p \in Objects : ViewInv(p)'
<1> SUFFICES ASSUME IInv, [Next]_vars, NEW p \in Objects PROVE ViewInv(p)'
  OBVIOUS
<1> DEFINE Shown == {"handle", "live"}
           r == obj[p]
<1>k. /\ at \in [Objects -> Places] /\ obj \in [Objects -> Record]
      /\ refs \in [Objects -> SUBSET (Holders \cup {"handle", "fd"})]
      /\ DOMAIN views = Objects
      /\ MadeInv(p)' /\ ViewInv(p) /\ MadeInv(p)
      /\ Holders \subseteq {"job", "vma", "dmabuf"}
  BY Known, NextMade, MemoryAssumption DEF Basic, IInv
<1>h. DOMAIN Hidden = Viewers /\ \A who \in Viewers : Hidden[who] = Unseen
  BY DEF Hidden
<1>v. "device" \in Viewers /\ "vma" \in Viewers /\ "dmabuf" \in Viewers
  BY DEF Viewers
\* Nothing is shown.
<1>a. ASSUME views'[p] = Hidden,
             at'[p] \in Shown /\ build' = "gem" => "import" \in obj'[p].flags
      PROVE  ViewInv(p)'
  BY <1>a, <1>h, <1>v DEF ViewInv
<1>b. ASSUME at[p] \in Early, views'[p] = views[p],
             at'[p] \in Shown /\ build' = "gem" => "import" \in obj'[p].flags
      PROVE  ViewInv(p)'
  <2>1. views[p] = Hidden
    BY <1>b, <1>k DEF MadeInv
  <2> QED BY <1>a, <1>b, <2>1
\* What the fields say does not depend on where the object is.
<1>s. ASSUME obj'[p].size = r.size, obj'[p].cache_size = r.cache_size, obj'[p].chunks = r.chunks
      PROVE  /\ DeviceView(obj[p])' = DeviceView(r)
             /\ MmapView(obj[p])' = MmapView(r)
             /\ ExportView(obj[p])' = ExportView(r)
  BY <1>s DEF DeviceView, MmapView, ExportView, CacheAt
\* What is shown, and of what, stays.
<1>c. ASSUME views'[p] = views[p], obj'[p] = obj[p], build' = build,
             at'[p] # "free" => at[p] # "free", at'[p] \in Shown => at[p] \in Shown,
             \A h \in {"vma", "dmabuf"} : h \in refs[p] => h \in refs'[p]
      PROVE  ViewInv(p)'
  <2>1. /\ DeviceView(obj[p])' = DeviceView(r)
        /\ MmapView(obj[p])' = MmapView(r)
        /\ ExportView(obj[p])' = ExportView(r)
    BY <1>c, <1>s
  <2> QED BY <1>c, <1>k, <2>1 DEF ViewInv
\* Another object is worked on.
<1>d. ASSUME views'[p] = views[p], obj'[p] = obj[p], build' = build, at'[p] = at[p],
             refs'[p] = refs[p]
      PROVE  ViewInv(p)'
  BY <1>c, <1>d
<1>1. ASSUME NEW o \in Objects,
             Create(o) \/ DumbCreate(o) \/ CreateGetsDomain(o) \/ CreateNoDomain(o)
               \/ ChooseMemory(o) \/ SramAlloc(o) \/ SramFull(o) \/ AllocFails(o)
               \/ ImportBuffer(o) \/ ImportFails(o)
      PROVE  ViewInv(p)'
  <2>1. /\ at[o] \in Early /\ UNCHANGED <<build, views>>
        /\ UNCHANGED refs \/ \E S : refs' = [refs EXCEPT ![o] = S]
        /\ \/ \E place \in Places \ Shown : Goto(o, place)
           \/ ImportBuffer(o) /\ Goto(o, "live")
    <3>1. CASE Create(o) \/ DumbCreate(o) \/ CreateGetsDomain(o) \/ CreateNoDomain(o)
      BY <3>1 DEF Create, DumbCreate, Begin, CreateGetsDomain, CreateNoDomain, Early, Places
    <3>2. CASE ChooseMemory(o) \/ SramAlloc(o) \/ SramFull(o)
      BY <3>2 DEF ChooseMemory, SramAlloc, SramFull, Early, Places
    <3>3. CASE AllocFails(o)
      BY <3>3 DEF AllocFails, Early, Places
    <3>4. CASE ImportBuffer(o) \/ ImportFails(o)
      BY <3>4 DEF ImportBuffer, ImportFails, Early, Places
    <3> QED BY <1>1, <3>1, <3>2, <3>3, <3>4
  <2>2. CASE o = p
    <3>1. CASE ImportBuffer(o)
      <4>1. PICK q \in Requests :
              /\ "import" \in q.flags
              /\ obj' = [obj EXCEPT ![o] = Fresh([q EXCEPT !.domain = Domain0])]
        BY <3>1 DEF ImportBuffer
      <4>2. obj'[p] = Fresh([q EXCEPT !.domain = Domain0])
        BY <1>k, <2>2, <4>1
      <4>3. obj'[p].flags = q.flags
        BY <4>2, MemoryAssumption, FreshIsRecord
      <4> QED BY <1>b, <2>1, <2>2, <4>1, <4>3
    <3>2. CASE ~ImportBuffer(o)
      BY <1>b, <1>k, <2>1, <2>2, <3>2 DEF Goto
    <3> QED BY <3>1, <3>2
  <2>3. CASE o # p
    <3>1. obj'[p] = obj[p]
      <4>1. CASE ChooseMemory(o)
        <5>1. \E n : obj' = [obj EXCEPT ![o].cache_size = n]
          BY <4>1 DEF ChooseMemory
        <5> QED BY <1>k, <2>3, <5>1
      <4>2. CASE SramAlloc(o)
        <5>1. \E S : obj' = [obj EXCEPT ![o].chunks = S]
          BY <4>2 DEF SramAlloc
        <5> QED BY <1>k, <2>3, <5>1
      <4>3. CASE Create(o) \/ DumbCreate(o)
        <5>1. \E s : obj' = [obj EXCEPT ![o] = s]
          BY <4>3 DEF Create, DumbCreate, Begin
        <5> QED BY <1>k, <2>3, <5>1
      <4> QED BY <1>1, <1>k, <2>3, <4>1, <4>2, <4>3 DEF CreateGetsDomain, CreateNoDomain,
           SramFull, AllocFails, ImportBuffer, ImportFails
    <3>2. at'[p] = at[p] /\ refs'[p] = refs[p]
      BY <1>k, <2>1, <2>3 DEF Goto
    <3> QED BY <1>d, <2>1, <3>1, <3>2
  <2> QED BY <2>2, <2>3
<1>2. ASSUME NEW o \in Objects, Allocate(o) PROVE ViewInv(p)'
  <2>1. /\ views' = [views EXCEPT ![o]["device"] = DeviceView(obj[o])] /\ Goto(o, "handle")
        /\ UNCHANGED obj \/ obj' = [obj EXCEPT ![o].flags = @ \cup {"noncontig"}]
        /\ UNCHANGED <<build, refs>> /\ at[o] \in Early
    BY <1>2 DEF Allocate, Early
  <2>2. CASE o = p
    <3>1. /\ obj'[p].size = r.size /\ obj'[p].cache_size = r.cache_size
          /\ obj'[p].chunks = r.chunks
          /\ "import" \in obj'[p].flags => "import" \in r.flags
      BY <1>k, <2>1, <2>2 DEF Record
    <3>2. DeviceView(obj[p])' = DeviceView(r)
      BY <1>s, <3>1
    <3>3. views[p] = Hidden /\ "import" \notin r.flags
      BY <1>k, <2>1, <2>2 DEF MadeInv
    <3>4. views'[p] = [Hidden EXCEPT !["device"] = DeviceView(r)]
      BY <1>k, <2>1, <2>2, <3>3
    <3>5. /\ DOMAIN views'[p] = Viewers /\ views'[p]["device"] = DeviceView(r)
          /\ views'[p]["vma"] = Unseen /\ views'[p]["dmabuf"] = Unseen
      <4> HIDE DEF r
      <4> QED BY <1>h, <1>v, <3>4
    <3> QED BY <3>1, <3>2, <3>3, <3>5 DEF ViewInv
  <2>3. CASE o # p
    BY <1>d, <1>k, <2>1, <2>3 DEF Goto
  <2> QED BY <2>2, <2>3
<1>3. ASSUME NEW o \in Objects,
             HandleCreate(o) \/ HandleFails(o) \/ DestroyIoctl(o) \/ DeleteHandle(o)
               \/ DestroyGetsDomain(o) \/ DestroyGivesUp(o) \/ DestroyEnds(o)
      PROVE  ViewInv(p)'
  <2>1. /\ UNCHANGED <<build, views, obj>>
        /\ \/ UNCHANGED at
           \/ at[o] # "free" /\ \E place \in Places \ Shown : Goto(o, place)
           \/ at[o] = "handle" /\ Goto(o, "live")
        /\ \/ UNCHANGED refs
           \/ refs' = [refs EXCEPT ![o] = @ \ {"handle"}]
           \/ at[o] = "handle" /\ refs' = [refs EXCEPT ![o] = {"handle"}]
    BY <1>3 DEF HandleCreate, HandleFails, DestroyIoctl, DeleteHandle, DestroyGetsDomain,
       DestroyGivesUp, DestroyEnds, Drop, Places
  <2>2. /\ at'[p] # "free" => at[p] # "free"
        /\ at'[p] \in Shown => at[p] \in Shown
    BY <1>k, <2>1 DEF Goto
  <2>3. \A h \in {"vma", "dmabuf"} : h \in refs[p] => h \in refs'[p]
    BY <1>k, <2>1 DEF MadeInv
  <2> QED BY <1>c, <2>1, <2>2, <2>3
<1>4. ASSUME NEW o \in Objects, FreeSram(o) PROVE ViewInv(p)'
  <2>1. /\ UNCHANGED <<build, views, at, refs>> /\ at[o] = "free"
        /\ obj' = [obj EXCEPT ![o].chunks = {}]
    BY <1>4 DEF FreeSram
  <2>2. CASE o = p
    <3>1. refs[p] = {} /\ obj'[p].flags = r.flags /\ at'[p] = "free"
      BY <1>k, <2>1, <2>2 DEF MadeInv, Record
    <3>2. views[p]["vma"] = Unseen /\ views[p]["dmabuf"] = Unseen
      BY <1>k, <3>1 DEF ViewInv
    <3> QED BY <1>k, <2>1, <3>1, <3>2 DEF ViewInv
  <2>3. CASE o # p
    BY <1>d, <1>k, <2>1, <2>3
  <2> QED BY <2>2, <2>3
<1>5. ASSUME NEW o \in Objects, FreeObject(o) PROVE ViewInv(p)'
  <2>1. /\ views' = [views EXCEPT ![o] = Hidden] /\ obj' = [obj EXCEPT ![o] = Blank]
        /\ UNCHANGED <<build, refs>> /\ \E place \in Places \ Shown : Goto(o, place)
    BY <1>5 DEF FreeObject, Places
  <2> QED BY <1>a, <1>d, <1>k, <2>1 DEF Goto
<1>6. ASSUME NEW o \in Objects, NEW h \in Holders, Refer(o, h) PROVE ViewInv(p)'
  <2>1. /\ UNCHANGED <<build, at, obj>> /\ refs' = [refs EXCEPT ![o] = @ \cup {h}]
        /\ views' = IF "import" \in obj[o].flags \/ h = "job" THEN views
                    ELSE [views EXCEPT ![o][h] =
                            IF h = "vma" THEN MmapView(obj[o]) ELSE ExportView(obj[o])]
    BY <1>6 DEF Refer
  <2>2. CASE o # p
    BY <1>d, <1>k, <2>1, <2>2
  <2>3. CASE o = p /\ ("import" \in obj[o].flags \/ h = "job")
    BY <1>c, <1>k, <2>1, <2>3
  <2>4. CASE o = p /\ ~("import" \in obj[o].flags \/ h = "job")
    <3> DEFINE view == IF h = "vma" THEN MmapView(r) ELSE ExportView(r)
    <3>1. /\ DeviceView(obj[p])' = DeviceView(r)
          /\ MmapView(obj[p])' = MmapView(r)
          /\ ExportView(obj[p])' = ExportView(r)
      BY <1>s, <2>1
    <3>2. views'[p] = [views[p] EXCEPT ![h] = view] /\ refs'[p] = refs[p] \cup {h}
      BY <1>k, <2>1, <2>4
    <3>3. DOMAIN views[p] = Viewers /\ h \in {"vma", "dmabuf"}
      BY <1>k, <2>4 DEF ViewInv
    <3>4. /\ DOMAIN views'[p] = Viewers /\ views'[p]["device"] = views[p]["device"]
          /\ views'[p][h] = view
          /\ \A who \in Viewers : who # h => views'[p][who] = views[p][who]
      <4> HIDE DEF view
      <4> QED BY <1>v, <3>2, <3>3
    <3> QED BY <1>k, <1>v, <2>1, <2>4, <3>1, <3>2, <3>3, <3>4 DEF ViewInv
  <2> QED BY <2>2, <2>3, <2>4
<1>7. ASSUME NEW o \in Objects, NEW h \in Holders \cup {"handle"}, Unrefer(o, h)
      PROVE  ViewInv(p)'
  <2>1. /\ UNCHANGED <<build, obj>> /\ refs' = [refs EXCEPT ![o] = @ \ {h}]
        /\ UNCHANGED at \/ Goto(o, "destroy")
        /\ at[o] = "live"
        /\ views' = IF h \in Viewers THEN [views EXCEPT ![o][h] = Unseen] ELSE views
    BY <1>7 DEF Unrefer, Drop
  <2>2. /\ at'[p] # "free" => at[p] # "free"
        /\ at'[p] \in Shown => at[p] \in Shown
    BY <1>k, <2>1 DEF Goto
  <2>3. CASE o # p
    BY <1>d, <1>k, <2>1, <2>3 DEF Goto
  <2>4. CASE o = p /\ h \notin Viewers
    BY <1>c, <1>k, <1>v, <2>1, <2>2, <2>4
  <2>5. CASE o = p /\ h \in Viewers
    <3>1. /\ DeviceView(obj[p])' = DeviceView(r)
          /\ MmapView(obj[p])' = MmapView(r)
          /\ ExportView(obj[p])' = ExportView(r)
      BY <1>s, <2>1
    <3>2. views'[p] = [views[p] EXCEPT ![h] = Unseen] /\ refs'[p] = refs[p] \ {h}
      BY <1>k, <2>1, <2>5
    <3>3. DOMAIN views[p] = Viewers /\ h \in {"vma", "dmabuf"}
      BY <1>k, <2>5 DEF ViewInv, Viewers
    <3>4. /\ DOMAIN views'[p] = Viewers /\ views'[p]["device"] = views[p]["device"]
          /\ views'[p][h] = Unseen
          /\ \A who \in Viewers : who # h => views'[p][who] = views[p][who]
      BY <1>v, <3>2, <3>3
    <3>5. views[p] = Hidden => views'[p] = Hidden
      BY <3>2 DEF Hidden
    <3>6. at[p] \in Shown /\ at[p] # "free"
      BY <2>1, <2>5
    <3> QED BY <1>k, <1>v, <2>1, <2>2, <3>1, <3>2, <3>3, <3>4, <3>5, <3>6 DEF ViewInv
  <2> QED BY <2>3, <2>4, <2>5
\* The DMA-heap build shows nothing.
<1>8. ASSUME build = "heap", UNCHANGED <<build, views>> PROVE ViewInv(p)'
  BY <1>8, <1>a, <1>k DEF MadeInv
<1>9. ASSUME NEW o \in Objects, HeapCreate(o) \/ HeapFails(o) \/ HeapDestroy(o) \/ HeapCloseFd(o)
      PROVE  ViewInv(p)'
  <2>1. build \in {"gem", "heap"}
    BY MemoryAssumption, Known DEF Basic
  <2> QED BY <1>8, <1>9, <2>1 DEF HeapCreate, HeapFails, HeapDestroy, HeapForget, HeapCloseFd,
             Listed, IInv, MadeInv
<1>10. CASE HeapRelease
  BY <1>8, <1>10 DEF HeapRelease, HeapForget, Listed
<1>11. CASE UNCHANGED vars
  BY <1>d, <1>11 DEF vars
<1> QED BY <1>1, <1>2, <1>3, <1>4, <1>5, <1>6, <1>7, <1>9, <1>10, <1>11 DEF Next, Gem, Heap

(***************************************************************************)
(* The chunks of the SRAM.                                                 *)
(***************************************************************************)

\* Where an object has got its chunks, if it is to have any.
Chosen == {"cache", "buffer", "handle", "live", "destroy"}

LEMMA InitSram == Init => SramInv
<1> SUFFICES ASSUME Init PROVE SramInv
  OBVIOUS
<1>1. \A o \in Objects : obj[o].chunks = {} /\ at[o] = "new"
  BY DEF Init, Blank
<1>2. bitmap = {} /\ free_chunks = SramChunks /\ UNION {obj[o].chunks : o \in Objects} = {}
  BY <1>1 DEF Init
<1>3. Cardinality(bitmap) = 0
  BY <1>2, FS_EmptySet
<1> QED BY <1>1, <1>2, <1>3, MemoryAssumption DEF SramInv

LEMMA NextSram == IInv /\ [Next]_vars => SramInv'
<1> SUFFICES ASSUME IInv, [Next]_vars PROVE SramInv'
  OBVIOUS
<1> DEFINE Sized(p) == at[p] \in Chosen /\ "sram" \in obj[p].flags
                         => Cardinality(obj[p].chunks) = obj[p].cache_size
<1>k. /\ at \in [Objects -> Places] /\ obj \in [Objects -> Record]
      /\ refs \in [Objects -> SUBSET (Holders \cup {"handle", "fd"})]
      /\ bitmap \subseteq 0 .. SramChunks - 1
      /\ \A p \in Objects : MadeInv(p)
      /\ SramChunks \in Nat
  BY Known, MemoryAssumption DEF Basic, IInv
<1>i. /\ \A o, p \in Objects : o # p => obj[o].chunks \cap obj[p].chunks = {}
      /\ bitmap = UNION {obj[o].chunks : o \in Objects}
      /\ free_chunks = SramChunks - Cardinality(bitmap)
      /\ \A p \in Objects : Sized(p)
  BY DEF IInv, SramInv, Chosen
<1>f. IsFiniteSet(bitmap) /\ Cardinality(bitmap) \in Nat
  <2>1. IsFiniteSet(0 .. SramChunks - 1)
    BY <1>k, FS_Interval
  <2> QED BY <1>k, <2>1, FS_Subset, FS_CardinalityType
<1>e. Cardinality({}) = 0
  BY FS_EmptySet
\* The chunks stay where they are.
<1>m. ASSUME \A p \in Objects : obj'[p].chunks = obj[p].chunks,
             UNCHANGED sramVars, \A p \in Objects : Sized(p)'
      PROVE  SramInv'
  <2>1. {obj'[p].chunks : p \in Objects} = {obj[p].chunks : p \in Objects}
    BY <1>m
  <2>2. bitmap' = UNION {obj'[p].chunks : p \in Objects}
    BY <1>i, <1>m, <2>1 DEF sramVars
  <2>3. free_chunks' = SramChunks - Cardinality(bitmap')
    BY <1>i, <1>m DEF sramVars
  <2>4. \A o, p \in Objects : o # p => obj'[o].chunks \cap obj'[p].chunks = {}
    BY <1>i, <1>m
  <2> QED BY <1>m, <2>2, <2>3, <2>4 DEF SramInv, Chosen
\* The object gives its chunks back.
<1>g. ASSUME NEW o \in Objects, FreeChunks(o), obj'[o].chunks = {},
             \A p \in Objects \ {o} : obj'[p] = obj[p],
             \A p \in Objects : Sized(p)'
      PROVE  SramInv'
  <2> DEFINE C == obj[o].chunks
  <2>1. bitmap' = bitmap \ C /\ free_chunks' = free_chunks + Cardinality(C)
    BY <1>g DEF FreeChunks
  <2>2. \A q, p \in Objects : q # p => obj'[q].chunks \cap obj'[p].chunks = {}
    BY <1>g, <1>i
  <2>3. bitmap' = UNION {obj'[p].chunks : p \in Objects}
    <3>1. ASSUME NEW x PROVE x \in bitmap' <=> \E p \in Objects : x \in obj'[p].chunks
      <4>1. x \in bitmap <=> \E p \in Objects : x \in obj[p].chunks
        BY <1>i
      <4>2. \A p \in Objects \ {o} : x \in obj[p].chunks => x \notin C
        BY <1>i
      <4>3. x \in bitmap' <=> \E p \in Objects \ {o} : x \in obj[p].chunks
        BY <2>1, <4>1, <4>2
      <4> QED BY <1>g, <4>3
    <3> QED BY <3>1
  <2>4. C \subseteq bitmap
    BY <1>i
  <2>5. Cardinality(bitmap \ C) = Cardinality(bitmap) - Cardinality(C)
        /\ Cardinality(C) \in Nat
    <3>1. IsFiniteSet(C) /\ Cardinality(C) \in Nat
      BY <1>f, <2>4, FS_Subset, FS_CardinalityType
    <3>2. IsFiniteSet(bitmap \ C) /\ Cardinality(bitmap \ C) \in Nat
      <4>1. bitmap \ C \in SUBSET bitmap
        OBVIOUS
      <4> QED BY <1>f, <4>1, FS_Subset, FS_CardinalityType
    <3>3. Cardinality((bitmap \ C) \cup C)
             = Cardinality(bitmap \ C) + Cardinality(C) - Cardinality((bitmap \ C) \cap C)
      BY <3>1, <3>2, FS_Union
    <3>4. (bitmap \ C) \cup C = bitmap /\ (bitmap \ C) \cap C = {}
      BY <2>4
    <3> HIDE DEF C
    <3> QED BY <1>e, <3>1, <3>2, <3>3, <3>4
  <2>6. free_chunks' = SramChunks - Cardinality(bitmap')
    <3> HIDE DEF C
    <3> QED BY <1>f, <1>i, <1>k, <2>1, <2>5
  <2> QED BY <1>g, <2>2, <2>3, <2>6 DEF SramInv, Chosen
\* The record of the object is not touched, and it is not only now that it gets to
\* where it must have its chunks.
<1>s. ASSUME NEW p \in Objects, obj'[p] = obj[p], at'[p] \in Chosen => at[p] \in Chosen
      PROVE  Sized(p)'
  BY <1>i, <1>s
<1>z. ASSUME NEW p \in Objects, at'[p] \notin Chosen \/ (obj'[p].chunks = {} /\ obj'[p].cache_size = 0)
      PROVE  Sized(p)'
  BY <1>e, <1>z
<1>b. Blank.chunks = {} /\ Blank.cache_size = 0
  BY DEF Blank
<1> HIDE DEF Sized
<1>1. ASSUME NEW o \in Objects,
             Create(o) \/ DumbCreate(o) \/ ImportBuffer(o) \/ HeapCreate(o)
      PROVE  SramInv'
  <2>1. PICK r : /\ obj' = [obj EXCEPT ![o] = r] /\ r.chunks = {} /\ r.cache_size = 0
                 /\ at[o] = "new" /\ UNCHANGED sramVars
                 /\ \E place \in Places : Goto(o, place)
    <3>1. \A r : Fresh(r).chunks = {} /\ Fresh(r).cache_size = 0
      BY DEF Fresh
    <3>2. CASE Create(o) \/ DumbCreate(o)
      BY <3>1, <3>2 DEF Create, DumbCreate, Begin, Places
    <3>3. CASE ImportBuffer(o)
      <4>1. PICK r \in Requests : obj' = [obj EXCEPT ![o] = Fresh([r EXCEPT !.domain = Domain0])]
        BY <3>3 DEF ImportBuffer
      <4>2. at[o] = "new" /\ UNCHANGED sramVars /\ Goto(o, "live")
        BY <3>3 DEF ImportBuffer
      <4> QED BY <3>1, <4>1, <4>2 DEF Places
    <3>4. CASE HeapCreate(o)
      BY <3>1, <3>4 DEF HeapCreate, Places
    <3> QED BY <1>1, <3>2, <3>3, <3>4
  <2>2. \A p \in Objects \ {o} : obj'[p] = obj[p] /\ at'[p] = at[p]
    BY <1>k, <2>1 DEF Goto
  <2>3. obj'[o] = r /\ obj[o].chunks = {}
    BY <1>k, <2>1 DEF MadeInv, Early
  <2>4. \A p \in Objects : Sized(p)'
    BY <1>s, <1>z, <2>1, <2>2, <2>3
  <2> QED BY <1>m, <2>1, <2>2, <2>3, <2>4
<1>2. ASSUME NEW o \in Objects, CreateNoDomain(o) PROVE SramInv'
  <2>1. /\ obj' = [obj EXCEPT ![o] = Blank] /\ at[o] = "switch" /\ UNCHANGED sramVars
        /\ Goto(o, "gone")
    BY <1>2 DEF CreateNoDomain
  <2>2. \A p \in Objects \ {o} : obj'[p] = obj[p] /\ at'[p] = at[p]
    BY <1>k, <2>1 DEF Goto
  <2>3. obj'[o] = Blank /\ obj[o].chunks = {}
    BY <1>k, <2>1 DEF MadeInv, Early
  <2>4. \A p \in Objects : Sized(p)'
    BY <1>b, <1>s, <1>z, <2>2, <2>3
  <2> QED BY <1>b, <1>m, <2>1, <2>2, <2>3, <2>4
<1>3. ASSUME NEW o \in Objects, ChooseMemory(o) \/ SramFull(o) PROVE SramInv'
  <2>1. /\ \E n : /\ obj' = [obj EXCEPT ![o].cache_size = n]
                  /\ \/ n = 0
                     \/ \E place \in {"sram", "cache"} :
                          Goto(o, place) /\ (place = "cache" => "sram" \notin obj[o].flags)
        /\ at[o] \in {"choose", "sram"} /\ UNCHANGED sramVars
        /\ \A p \in Objects \ {o} : at'[p] = at[p]
    <3>1. CASE ChooseMemory(o)
      <4> DEFINE r == obj[o]
                 n == IF "sram" \in r.flags THEN SramWanted(r)
                      ELSE IF "nbuf" \in r.flags THEN Min({r.size, NbufSize}) ELSE 0
      <4>1. /\ obj' = [obj EXCEPT ![o].cache_size = n]
            /\ Goto(o, IF n = 0 THEN "buffer"
                       ELSE IF "sram" \in obj[o].flags THEN "sram" ELSE "cache")
            /\ at[o] = "choose" /\ UNCHANGED sramVars
        BY <3>1 DEF ChooseMemory
      <4> HIDE DEF n
      <4>2. n = 0 \/ \E place \in {"sram", "cache"} :
                       Goto(o, place) /\ (place = "cache" => "sram" \notin obj[o].flags)
        BY <4>1
      <4> QED BY <1>k, <4>1, <4>2 DEF Goto
    <3>2. CASE SramFull(o)
      BY <1>k, <3>2 DEF SramFull, Goto
    <3> QED BY <1>3, <3>1, <3>2
  <2>2. /\ \A p \in Objects \ {o} : obj'[p] = obj[p]
        /\ obj[o].chunks = {} /\ obj'[o].chunks = obj[o].chunks
        /\ obj'[o].flags = obj[o].flags
    BY <1>k, <2>1 DEF MadeInv, Early, Record
  <2>3. Sized(o)'
    <3>1. PICK n : /\ obj' = [obj EXCEPT ![o].cache_size = n]
                   /\ \/ n = 0
                      \/ \E place \in {"sram", "cache"} :
                           Goto(o, place) /\ (place = "cache" => "sram" \notin obj[o].flags)
      BY <2>1
    <3>2. CASE n = 0
      <4>1. obj'[o].cache_size = 0
        BY <1>k, <3>1, <3>2 DEF Record
      <4> QED BY <1>z, <2>2, <4>1
    <3>3. CASE n # 0
      BY <1>k, <2>2, <3>1, <3>3 DEF Goto, Sized, Chosen
    <3> QED BY <3>2, <3>3
  <2>4. \A p \in Objects : Sized(p)'
    BY <1>s, <2>1, <2>2, <2>3
  <2> QED BY <1>m, <2>1, <2>2, <2>4
<1>4. ASSUME NEW o \in Objects, SramAlloc(o) PROVE SramInv'
  <2> DEFINE n == obj[o].cache_size
             C == Search(n) .. Search(n) + n - 1
  <2>1. /\ at[o] = "sram" /\ Goto(o, "cache") /\ Search(n) # SramChunks
        /\ obj' = [obj EXCEPT ![o].chunks = C]
        /\ bitmap' = bitmap \cup C /\ free_chunks' = free_chunks - n
    BY <1>4 DEF SramAlloc
  <2>2. n \in Nat \ {0} /\ obj[o].chunks = {}
    <3>1. at[o] = "sram" /\ MadeInv(o) /\ obj[o] \in Record
      BY <1>4, <1>k DEF SramAlloc
    <3> QED BY <3>1 DEF MadeInv, Early, Record
  <2>3. /\ C \cap bitmap = {} /\ IsFiniteSet(C) /\ Cardinality(C) = n
    <3>1. Search(n) \in Nat /\ Row(Search(n), n)
      BY <1>k, <2>1, <2>2, SearchFinds
    <3>2. Search(n) \in Int /\ Search(n) + n - 1 \in Int
          /\ ~(Search(n) > Search(n) + n - 1)
          /\ (Search(n) + n - 1) - Search(n) + 1 = n
      <4> HIDE DEF n
      <4> QED BY <2>2, <3>1
    <3>3. IsFiniteSet(C) /\ Cardinality(C) = n
      <4> HIDE DEF n
      <4> QED BY <3>2, FS_Interval
    <3> QED BY <3>1, <3>3 DEF Row
  <2> HIDE DEF n, C
  <2>4. Cardinality(bitmap') = Cardinality(bitmap) + n
    <3>1. Cardinality(bitmap \cup C) = Cardinality(bitmap) + Cardinality(C) - Cardinality(bitmap \cap C)
      BY <1>f, <2>3, FS_Union
    <3>2. bitmap \cap C = {}
      BY <2>3
    <3>3. Cardinality(bitmap \cap C) = 0
      BY <1>e, <3>2
    <3>4. Cardinality(bitmap \cup C) = Cardinality(bitmap) + n
      BY <1>f, <2>2, <2>3, <3>1, <3>3
    <3> QED BY <2>1, <3>4
  <2>5. free_chunks' = SramChunks - Cardinality(bitmap')
    BY <1>f, <1>i, <1>k, <2>1, <2>2, <2>4
  <2>6. /\ obj'[o].chunks = C /\ obj'[o].cache_size = n
        /\ \A p \in Objects \ {o} : obj'[p] = obj[p] /\ at'[p] = at[p]
    BY <1>k, <2>1 DEF Record, Goto, n
  <2>7. \A q, p \in Objects : q # p => obj'[q].chunks \cap obj'[p].chunks = {}
    <3>1. \A p \in Objects : obj[p].chunks \cap C = {}
      BY <1>i, <2>3
    <3> QED BY <1>i, <2>6, <3>1
  <2>8. bitmap' = UNION {obj'[p].chunks : p \in Objects}
    <3>1. ASSUME NEW x PROVE x \in bitmap' <=> \E p \in Objects : x \in obj'[p].chunks
      <4>1. x \in bitmap <=> \E p \in Objects : x \in obj[p].chunks
        BY <1>i
      <4>2. x \in bitmap <=> \E p \in Objects \ {o} : x \in obj[p].chunks
        BY <2>2, <4>1
      <4> QED BY <2>1, <2>6, <4>2
    <3> QED BY <3>1
  <2>9. \A p \in Objects : Sized(p)'
    <3>1. Sized(o)'
      BY <2>3, <2>6 DEF Sized
    <3> QED BY <1>s, <2>6, <3>1
  <2> QED BY <2>5, <2>7, <2>8, <2>9 DEF SramInv, Sized, Chosen
<1>5. ASSUME NEW o \in Objects, Allocate(o) PROVE SramInv'
  <2>1. /\ UNCHANGED obj \/ obj' = [obj EXCEPT ![o].flags = @ \cup {"noncontig"}]
        /\ at[o] \in {"cache", "buffer"} /\ Goto(o, "handle") /\ UNCHANGED sramVars
    BY <1>5 DEF Allocate
  <2>2. \A p \in Objects : /\ obj'[p].chunks = obj[p].chunks
                           /\ obj'[p].cache_size = obj[p].cache_size
                           /\ "sram" \in obj'[p].flags => "sram" \in obj[p].flags
                           /\ at'[p] \in Chosen => at[p] \in Chosen
    BY <1>k, <2>1 DEF Record, Goto, Chosen
  <2>3. \A p \in Objects : Sized(p)'
    BY <1>i, <2>2 DEF Sized
  <2> QED BY <1>m, <2>1, <2>2, <2>3
<1>6. ASSUME NEW o \in Objects, AllocFails(o) PROVE SramInv'
  <2>1. FreeChunks(o) /\ obj' = [obj EXCEPT ![o] = Blank] /\ Goto(o, "gone")
    BY <1>6 DEF AllocFails
  <2>2. /\ obj'[o] = Blank
        /\ \A p \in Objects \ {o} : obj'[p] = obj[p] /\ at'[p] = at[p]
    BY <1>k, <2>1 DEF Goto
  <2>3. \A p \in Objects : Sized(p)'
    BY <1>b, <1>s, <1>z, <2>2
  <2> QED BY <1>b, <1>g, <2>1, <2>2, <2>3
<1>7. ASSUME NEW o \in Objects, FreeSram(o) PROVE SramInv'
  <2>1. FreeChunks(o) /\ obj' = [obj EXCEPT ![o].chunks = {}] /\ UNCHANGED at /\ at[o] = "free"
    BY <1>7 DEF FreeSram
  <2>2. /\ obj'[o].chunks = {} /\ at'[o] \notin Chosen
        /\ \A p \in Objects \ {o} : obj'[p] = obj[p] /\ at'[p] = at[p]
    BY <1>k, <2>1 DEF Record, Chosen
  <2>3. \A p \in Objects : Sized(p)'
    BY <1>s, <1>z, <2>2
  <2> QED BY <1>g, <2>1, <2>2, <2>3
<1>8. ASSUME NEW o \in Objects, FreeObject(o) PROVE SramInv'
  <2>1. /\ obj' = [obj EXCEPT ![o] = Blank] /\ \E place \in Ended : Goto(o, place)
        /\ UNCHANGED sramVars /\ obj[o].chunks = {}
    BY <1>8 DEF FreeObject, Ended
  <2>2. /\ obj'[o] = Blank
        /\ \A p \in Objects \ {o} : obj'[p] = obj[p] /\ at'[p] = at[p]
    BY <1>k, <2>1 DEF Goto
  <2>3. \A p \in Objects : Sized(p)'
    BY <1>b, <1>s, <1>z, <2>2
  <2> QED BY <1>b, <1>m, <2>1, <2>2, <2>3
\* The rest leaves the records of all the objects alone.
<1>9. ASSUME UNCHANGED <<obj, sramVars>>,
             \A p \in Objects : at'[p] \in Chosen => at[p] \in Chosen
      PROVE  SramInv'
  BY <1>9, <1>m, <1>s
<1>10. ASSUME NEW o \in Objects,
              CreateGetsDomain(o) \/ HandleCreate(o) \/ HandleFails(o) \/ ImportFails(o)
                \/ DestroyIoctl(o) \/ DeleteHandle(o) \/ DestroyGetsDomain(o)
                \/ DestroyGivesUp(o) \/ DestroyEnds(o) \/ HeapFails(o)
                \/ (\E h \in Holders : Refer(o, h))
                \/ \E h \in Holders \cup {"handle"} : Unrefer(o, h)
       PROVE  SramInv'
  <2>1. /\ UNCHANGED <<obj, sramVars>>
        /\ \/ UNCHANGED at
           \/ \E place \in {"choose", "free", "gone"} : Goto(o, place)
           \/ at[o] \in Chosen /\ \E place \in Places : Goto(o, place)
    BY <1>10 DEF CreateGetsDomain, HandleCreate, HandleFails, ImportFails, DestroyIoctl,
       DeleteHandle, DestroyGetsDomain, DestroyGivesUp, DestroyEnds, HeapFails, Refer, Unrefer,
       Drop, Chosen, Places
  <2>2. \A p \in Objects : at'[p] \in Chosen => at[p] \in Chosen
    BY <1>k, <2>1 DEF Goto, Chosen
  <2> QED BY <1>9, <2>1, <2>2
<1>11. ASSUME NEW S, HeapForget(S) PROVE SramInv'
  BY <1>9, <1>11 DEF HeapForget, Chosen
<1>12. ASSUME NEW o \in Objects, HeapCloseFd(o) PROVE SramInv'
  BY <1>9, <1>12, <1>k DEF HeapCloseFd, Goto, Chosen
<1>13. CASE UNCHANGED vars
  BY <1>9, <1>13 DEF vars
<1>14. ASSUME NEW o \in Objects, Gem(o) \/ Heap(o) PROVE SramInv'
  <2>1. CASE HeapDestroy(o)
    BY <1>11, <2>1 DEF HeapDestroy
  <2> QED BY <1>1, <1>2, <1>3, <1>4, <1>5, <1>6, <1>7, <1>8, <1>10, <1>12, <1>14, <2>1
        DEF Gem, Heap
<1>15. CASE HeapRelease
  BY <1>11, <1>15 DEF HeapRelease
<1> QED BY <1>13, <1>14, <1>15 DEF Next

(***************************************************************************)
(* The invariant, and what follows from it.                                *)
(***************************************************************************)

LEMMA TypesFollow ==
  ASSUME Basic, TypeInv, held \in [Objects -> [Resources -> -1 .. 1]], DomainInv, SramInv
  PROVE  TypeOK
<1>1. free_chunks \in 0 .. SramChunks
  <2>1. SramChunks \in Nat /\ bitmap \in SUBSET (0 .. SramChunks - 1)
    BY MemoryAssumption DEF Basic
  <2>2. IsFiniteSet(0 .. SramChunks - 1) /\ Cardinality(0 .. SramChunks - 1) = SramChunks
    BY <2>1, FS_Interval
  <2>3. IsFiniteSet(bitmap) /\ Cardinality(bitmap) <= Cardinality(0 .. SramChunks - 1)
    BY <2>1, <2>2, FS_Subset
  <2>4. Cardinality(bitmap) \in Nat
    BY <2>3, FS_CardinalityType
  <2> QED BY <2>1, <2>2, <2>3, <2>4 DEF SramInv
<1>2. iommu_domain_refcount \in 0 .. 2 * Cardinality(Objects)
  <2>1. IsFiniteSet(Objects) /\ Cardinality(Objects) \in Nat
    BY MemoryAssumption, FS_CardinalityType
  <2>2. Users \in SUBSET Objects /\ deleting \in SUBSET Objects
    BY DEF Users, Basic
  <2>3. /\ IsFiniteSet(Users) /\ Cardinality(Users) <= Cardinality(Objects)
        /\ IsFiniteSet(deleting) /\ Cardinality(deleting) <= Cardinality(Objects)
    BY <2>1, <2>2, FS_Subset
  <2>4. Cardinality(Users) \in Nat /\ Cardinality(deleting) \in Nat
    BY <2>3, FS_CardinalityType
  <2> QED BY <2>1, <2>3, <2>4 DEF DomainInv
<1>3. ASSUME NEW o \in Objects
      PROVE  /\ obj[o].flags \subseteq Flags /\ obj[o].domain \in Domains
             /\ obj[o].cache_size \in 0 .. obj[o].size
             /\ obj[o].chunks \subseteq 0 .. SramChunks - 1
             /\ refs[o] \subseteq Holders \cup {"handle", "fd"}
  BY DEF TypeInv
<1> QED BY <1>1, <1>2, <1>3 DEF TypeOK, Basic

LEMMA InitInvariant == Init => IInv
<1> SUFFICES ASSUME Init PROVE IInv
  OBVIOUS
<1>1. held \in [Objects -> [Resources -> -1 .. 1]]
  BY DEF Init
<1>2. TypeOK
  BY <1>1, InitTypes, InitDomainInv, InitSram, TypesFollow
<1> QED BY <1>2, InitTypes, InitMade, InitHeld, InitMapped, InitView, InitDomainInv, InitSram
        DEF IInv

LEMMA NextInvariant == IInv /\ [Next]_vars => IInv'
<1> DEFINE Parts == Basic /\ TypeInv /\ held \in [Objects -> [Resources -> -1 .. 1]]
                    /\ DomainInv /\ SramInv
<1>1. Parts => TypeOK
  BY TypesFollow
<1>2. Parts' => TypeOK'
  BY <1>1, PTL
<1>3. IInv /\ [Next]_vars
        => /\ Parts'
           /\ \A o \in Objects :
                /\ MadeInv(o)' /\ HeldInv(o)' /\ MappedInv(o)'
                /\ RowInv(o)' /\ ViewInv(o)' /\ GoneInv(o)'
  BY NextTypes, NextMade, NextHeld, NextMapped, NextRow, NextView, NextDomain, NextSram
<1> QED BY <1>2, <1>3 DEF IInv

\* The inductive invariant holds in every state of the memory of the driver.
THEOREM Invariant == Spec => []IInv
<1>1. Init => IInv
  BY InitInvariant
<1>2. IInv /\ [Next]_vars => IInv'
  BY NextInvariant
<1> QED BY <1>1, <1>2, PTL DEF Spec

\* The variables keep their types: no resource of an object is given back twice, no
\* count leaves its range, for any number of objects, domains and SRAM chunks.
THEOREM TypeCorrect == Spec => []TypeOK
<1>1. IInv => TypeOK
  BY DEF IInv
<1> QED BY <1>1, Invariant, PTL

\* An object that is gone has given back what it took (rknpu_gem_object_create,
\* rknpu_gem_object_destroy and the error paths of the create ioctls).
THEOREM NothingIsLeft == Spec => []NothingLeftBehind
<1>1. IInv => NothingLeftBehind
  BY DEF IInv, GoneInv, NothingLeftBehind, Ended
<1> QED BY <1>1, Invariant, PTL

\* The references to the domain are those of the calls that need it, and an object is
\* mapped in its own domain (rknpu_iommu_domain_get_and_switch and _put in rknpu_gem.c).
THEOREM DomainsCorrect == Spec => []DomainsExact
<1>1. ASSUME IInv PROVE DomainsExact
  <2>1. iommu_domain_refcount = Cardinality(Users) + Cardinality(deleting)
    BY <1>1 DEF IInv, DomainInv
  <2>2. ASSUME NEW o \in Objects, mapped[o] # NoDomain, at[o] \notin {"deleted", "gone"},
               "import" \notin obj[o].flags
        PROVE  mapped[o] = obj[o].domain
    <3>1. MadeInv(o) /\ MappedInv(o) /\ at[o] \in Places /\ build \in {"gem", "heap"}
      BY <1>1, Holds, Known DEF IInv, Basic
    <3>2. at[o] \notin Early /\ build = "gem"
      BY <2>2, <3>1 DEF MadeInv
    <3>3. at[o] \in Whole
      BY <2>2, <3>1, <3>2 DEF Early, Whole, Places
    <3> QED BY <2>2, <3>1, <3>2, <3>3 DEF MadeInv, MappedInv
  <2> QED BY <2>1, <2>2 DEF DomainsExact, Users
<1> QED BY <1>1, Invariant, PTL

\* No chunk of the SRAM belongs to two objects or to none (rknpu_mm_alloc and _free).
THEOREM SramCorrect == Spec => []SramExact
<1>1. IInv => SramExact
  BY DEF IInv, SramInv, SramExact
<1> QED BY <1>1, Invariant, PTL

\* For any sizes, chunks and holders, a mapping agrees with the device page by page, an
\* importer is shown exactly the pages behind the cache, and no viewer but the device
\* at the end of an object is shown SRAM that is not the object's
\* (rknpu_gem_alloc_buf_with_cache, rknpu_gem_mmap_cache, rknpu_gem_prime_get_sg_table).
THEOREM ViewsAgree == Spec => []SameBytes
<1>1. ASSUME IInv, NEW o \in Objects
      PROVE  /\ \A x \in DOMAIN views[o]["vma"] :
                  x \in DOMAIN views[o]["device"] /\ views[o]["vma"][x] = views[o]["device"][x]
             /\ \A x \in DOMAIN views[o]["dmabuf"] :
                  LET behind == obj[o].cache_size + x IN
                  /\ behind \in DOMAIN views[o]["device"]
                  /\ views[o]["dmabuf"][x] = views[o]["device"][behind]
             /\ \A who \in Viewers : \A x \in DOMAIN views[o][who] :
                  LET place == views[o][who][x] IN
                  (place[1] = "chunk" /\ ~(who = "device" /\ at[o] = "free"))
                    => place[2] \in obj[o].chunks
  <2> DEFINE r == obj[o]
  <2>1. /\ ViewInv(o) /\ MadeInv(o) /\ RowInv(o) /\ build \in {"gem", "heap"}
        /\ r \in Record /\ r.cache_size \in Nat /\ r.size \in Nat /\ r.cache_size <= r.size
    BY <1>1, Known, Holds DEF IInv, Record
  <2>2. DOMAIN Unseen = {}
    BY DEF Unseen
  \* A process or an importer is shown something of a live object only.
  <2>3. ASSUME views[o]["vma"] # Unseen \/ views[o]["dmabuf"] # Unseen
        PROVE  views[o]["device"] = DeviceView(r)
    <3>1. refs[o] # {}
      BY <2>1, <2>3 DEF ViewInv
    <3>2. at[o] = "live" /\ views[o] # Hidden
      BY <2>1, <2>3, <3>1 DEF MadeInv, Hidden, Viewers
    <3> QED BY <2>1, <3>2 DEF ViewInv, MadeInv
  <2>4. ASSUME NEW x \in DOMAIN views[o]["vma"]
        PROVE  x \in DOMAIN views[o]["device"] /\ views[o]["vma"][x] = views[o]["device"][x]
    <3>1. views[o]["vma"] = MmapView(r) /\ views[o]["device"] = DeviceView(r)
      BY <2>1, <2>2, <2>3, <2>4 DEF ViewInv
    <3>2. x \in 0 .. r.size - 1
      BY <2>4, <3>1 DEF MmapView
    <3>3. x \in 0 .. r.cache_size + r.size - 1
      BY <2>1, <3>2
    <3> HIDE DEF r
    <3> QED BY <3>1, <3>2, <3>3 DEF MmapView, DeviceView
  <2>5. ASSUME NEW x \in DOMAIN views[o]["dmabuf"]
        PROVE  /\ r.cache_size + x \in DOMAIN views[o]["device"]
               /\ views[o]["dmabuf"][x] = views[o]["device"][r.cache_size + x]
    <3>1. views[o]["dmabuf"] = ExportView(r) /\ views[o]["device"] = DeviceView(r)
      BY <2>1, <2>2, <2>3, <2>5 DEF ViewInv
    <3>2. x \in 0 .. r.size - 1
      BY <2>5, <3>1 DEF ExportView
    <3>3. /\ r.cache_size + x \in 0 .. r.cache_size + r.size - 1
          /\ ~(r.cache_size + x < r.cache_size) /\ (r.cache_size + x) - r.cache_size = x
      BY <2>1, <3>2
    <3> HIDE DEF r
    <3> QED BY <3>1, <3>2, <3>3 DEF ExportView, DeviceView
  \* The cache of an object with chunks is in them, as they are a row.
  <2>6. ASSUME NEW x \in Nat, x < r.cache_size, CacheAt(r, x)[1] = "chunk"
        PROVE  CacheAt(r, x)[2] \in r.chunks
    <3>1. r.chunks # {} /\ CacheAt(r, x)[2] = Min(r.chunks) + x
      BY <2>6 DEF CacheAt
    <3>2. PICK first \in 0 .. SramChunks : r.chunks = first .. first + r.cache_size - 1
      BY <2>1, <3>1 DEF RowInv
    <3>3. r.chunks \in SUBSET Nat
      BY <3>2
    <3> HIDE DEF r
    <3>4. Min(r.chunks) \in r.chunks /\ \A n \in r.chunks : Min(r.chunks) <= n
      BY <3>1, <3>3, MinOfNats
    <3>5. first \in r.chunks
      BY <2>1, <2>6, <3>2
    <3>6. Min(r.chunks) = first
      BY <3>2, <3>4, <3>5
    <3> QED BY <2>1, <2>6, <3>1, <3>2, <3>6
  <2>7. ASSUME NEW who \in Viewers, NEW x \in DOMAIN views[o][who],
               views[o][who][x][1] = "chunk", ~(who = "device" /\ at[o] = "free")
        PROVE  views[o][who][x][2] \in r.chunks
    <3>1. views[o][who] # Unseen
      BY <2>2, <2>7
    <3>2. views[o][who] \in {DeviceView(r), MmapView(r), ExportView(r)}
      BY <2>1, <2>7, <3>1 DEF ViewInv, Viewers
    <3>3. x \in Nat
      BY <2>1, <2>7, <3>2 DEF DeviceView, MmapView, ExportView
    <3>4. x < r.cache_size /\ views[o][who][x] = CacheAt(r, x)
      <4> HIDE DEF r
      <4>1. CASE views[o][who] = DeviceView(r)
        BY <2>7, <4>1 DEF DeviceView
      <4>2. CASE views[o][who] = MmapView(r)
        BY <2>7, <4>2 DEF MmapView
      <4>3. CASE views[o][who] = ExportView(r)
        BY <2>7, <4>3 DEF ExportView
      <4> QED BY <3>2, <4>1, <4>2, <4>3
    <3> QED BY <2>6, <2>7, <3>3, <3>4
  <2> QED BY <2>4, <2>5, <2>7
<1>2. IInv => SameBytes
  BY <1>1 DEF SameBytes
<1> QED BY <1>2, Invariant, PTL

\* An object that leaves the search for chunks has the first row that is long enough,
\* or none because there is none.
LEMMA StepFirstFit ==
  IInv /\ [Next]_vars
    => \A o \in Objects :
         at[o] = "sram" /\ at'[o] # "sram" => obj'[o].chunks = FirstFit(obj[o].cache_size)
<1> SUFFICES ASSUME IInv, [Next]_vars, NEW p \in Objects, at[p] = "sram", at'[p] # "sram"
             PROVE  obj'[p].chunks = FirstFit(obj[p].cache_size)
  OBVIOUS
<1> DEFINE n == obj[p].cache_size
<1>k. at \in [Objects -> Places] /\ obj \in [Objects -> Record] /\ SramChunks \in Nat
      /\ build \in {"gem", "heap"}
  BY Known, Holds, MemoryAssumption DEF Basic
<1>1. n \in Nat \ {0} /\ obj[p].chunks = {}
  <2>1. MadeInv(p) /\ obj[p] \in Record
    BY <1>k DEF IInv
  <2> QED BY <2>1 DEF MadeInv, Early, Record
<1>2. FirstFit(n) = IF Search(n) = SramChunks THEN {} ELSE Search(n) .. Search(n) + n - 1
  BY <1>1, <1>k, SearchIsFirstFit
<1>3. CASE SramAlloc(p)
  <2> DEFINE C == Search(n) .. Search(n) + n - 1
  <2>1. obj' = [obj EXCEPT ![p].chunks = C] /\ Search(n) # SramChunks
    BY <1>3 DEF SramAlloc
  <2>2. FirstFit(n) = C
    BY <1>2, <2>1
  <2> HIDE DEF C
  <2> QED BY <1>k, <2>1, <2>2 DEF Record
<1>4. CASE SramFull(p)
  <2>1. obj' = [obj EXCEPT ![p].cache_size = 0] /\ Search(n) = SramChunks
    BY <1>4 DEF SramFull
  <2>2. obj'[p].chunks = {}
    BY <1>1, <1>k, <2>1 DEF Record
  <2> QED BY <1>2, <2>1, <2>2
\* No other action takes an object away from the search.
<1>5. ASSUME NEW o \in Objects, Gem(o), ~SramAlloc(o), ~SramFull(o), o = p PROVE FALSE
  BY <1>5 DEF Gem, Create, DumbCreate, Begin, CreateGetsDomain, CreateNoDomain, ChooseMemory,
     Allocate, AllocFails, HandleCreate, HandleFails, ImportBuffer, ImportFails, Refer, Unrefer,
     DestroyIoctl, DeleteHandle, DestroyGetsDomain, DestroyGivesUp, FreeSram, FreeObject,
     DestroyEnds
<1>6. ASSUME NEW o \in Objects, Gem(o) PROVE \/ UNCHANGED at
                                           \/ \E place : at' = [at EXCEPT ![o] = place]
  BY <1>6 DEF Gem, Create, DumbCreate, Begin, CreateGetsDomain, CreateNoDomain, ChooseMemory,
     Allocate, AllocFails, HandleCreate, HandleFails, ImportBuffer, ImportFails, Refer, Unrefer,
     DestroyIoctl, DeleteHandle, DestroyGetsDomain, DestroyGivesUp, FreeSram, FreeObject,
     DestroyEnds, SramAlloc, SramFull, Drop, Goto
<1>7. build = "gem"
  <2>1. MadeInv(p)
    BY DEF IInv
  <2> QED BY <1>k, <2>1 DEF MadeInv
<1>8. ASSUME NEW o \in Objects, Heap(o) PROVE FALSE
  <2>1. ~HeapCloseFd(o)
    <3>1. MadeInv(o)
      BY DEF IInv
    <3> QED BY <1>7, <3>1 DEF HeapCloseFd, MadeInv
  <2> QED BY <1>7, <1>8, <2>1 DEF Heap, HeapCreate, HeapFails, HeapDestroy, Listed
<1>9. ~HeapRelease
  BY <1>7 DEF HeapRelease, Listed
<1>10. ~UNCHANGED vars
  BY DEF vars
<1>11. PICK o \in Objects : Gem(o)
  BY <1>8, <1>9, <1>10 DEF Next
<1>12. o = p
  BY <1>k, <1>6, <1>11
<1> QED BY <1>3, <1>4, <1>5, <1>11, <1>12

\* For every number of chunks the search that restarts behind each gap returns
\* the first row of free chunks that is long enough, or none if there is none.
THEOREM FirstFitFound == Spec => SramFirstFit
<1>1. IInv /\ [Next]_vars
        => [\A o \in Objects :
              at[o] = "sram" /\ at'[o] # "sram" => obj'[o].chunks = FirstFit(obj[o].cache_size)]_vars
  BY StepFirstFit
<1> QED BY <1>1, Invariant, PTL DEF Spec, SramFirstFit

-----------------------------------------------------------------------------
(* NpuSync.                                                                  *)

\* Induction, for the numbers with a property as a set.
LEMMA AllNumbers ==
  ASSUME NEW S \in SUBSET Nat, 0 \in S, \A n \in S : n + 1 \in S
  PROVE  S = Nat
<1> DEFINE R == {ss \in Nat \X Nat : ss[1] < ss[2]}
           T == Nat \ S
<1>1. SUFFICES ASSUME T # {} PROVE FALSE
  OBVIOUS
<1>2. IsWellFoundedOn(R, Nat)
  BY NatLessThanWellFounded DEF OpToRel
<1>3. PICK m \in T : \A n \in T : <<n, m>> \notin R
  <2> HIDE DEF R
  <2> QED BY <1>1, <1>2, WFMin
<1>4. m - 1 \in Nat /\ m = (m - 1) + 1
  OBVIOUS
<1>5. <<m - 1, m>> \in R
  BY <1>4
<1>6. m - 1 \in S
  <2> HIDE DEF R
  <2> QED BY <1>3, <1>4, <1>5
<1> QED BY <1>4, <1>6

(***************************************************************************)
(* The arithmetic of a sync.                                               *)
(***************************************************************************)

\* The ends of the parts of an object.
IsEnds(parts, e) ==
  /\ e \in [0 .. Len(parts) -> Nat]
  /\ e[0] = 0 /\ \A n \in 1 .. Len(parts) : e[n] = e[n - 1] + parts[n]

LEMMA EndsExist ==
  ASSUME NEW parts \in Seq(Nat)
  PROVE  \E e : IsEnds(parts, e)
<1> DEFINE Solves(e, k) == e[0] = 0 /\ \A n \in 1 .. k : e[n] = e[n - 1] + parts[n]
           S == {k \in Nat : k <= Len(parts) => \E e \in [0 .. k -> Nat] : Solves(e, k)}
<1>0. Len(parts) \in Nat /\ \A n \in 1 .. Len(parts) : parts[n] \in Nat
  OBVIOUS
<1>1. 0 \in S
  <2> DEFINE e == [n \in 0 .. 0 |-> 0]
  <2>1. e \in [0 .. 0 -> Nat] /\ e[0] = 0
    OBVIOUS
  <2>2. Solves(e, 0)
    <3> HIDE DEF e
    <3> QED BY <2>1
  <2> HIDE DEF e, Solves
  <2> QED BY <2>1, <2>2
<1>2. ASSUME NEW k \in S PROVE k + 1 \in S
  <2>1. SUFFICES ASSUME k + 1 <= Len(parts)
                 PROVE  \E e \in [0 .. k + 1 -> Nat] : Solves(e, k + 1)
    <3>1. k \in Nat /\ k + 1 \in Nat
      OBVIOUS
    <3> HIDE DEF Solves
    <3> QED BY <3>1
  <2>2. PICK e \in [0 .. k -> Nat] : Solves(e, k)
    <3>1. k \in Nat /\ k <= Len(parts)
      BY <1>0, <2>1
    <3> HIDE DEF Solves
    <3> QED BY <3>1
  <2> DEFINE g == [n \in 0 .. k + 1 |-> IF n = k + 1 THEN e[k] + parts[k + 1] ELSE e[n]]
  <2>3. k \in Nat /\ e[k] \in Nat /\ parts[k + 1] \in Nat
    BY <1>0, <2>1
  <2>4. g \in [0 .. k + 1 -> Nat] /\ g[0] = 0
    <3>1. 0 \in 0 .. k + 1 /\ 0 # k + 1 /\ k + 1 \in 0 .. k + 1
      BY <2>3
    <3> QED BY <2>2, <2>3, <3>1
  <2>5. ASSUME NEW n \in 1 .. k + 1 PROVE g[n] = g[n - 1] + parts[n]
    <3>1. n - 1 \in 0 .. k + 1 /\ n - 1 # k + 1
      BY <2>3
    <3>2. CASE n = k + 1
      BY <2>3, <3>1, <3>2
    <3>3. CASE n # k + 1
      <4>1. n \in 1 .. k
        BY <2>3, <3>3
      <4> QED BY <2>2, <3>1, <3>3, <4>1
    <3> QED BY <3>2, <3>3
  <2>6. Solves(g, k + 1)
    <3> HIDE DEF g
    <3> QED BY <2>4, <2>5
  <2> HIDE DEF g, Solves
  <2> QED BY <2>4, <2>6
<1>3. S = Nat
  <2>1. S \in SUBSET Nat
    OBVIOUS
  <2> HIDE DEF S
  <2> QED BY <1>1, <1>2, <2>1, AllNumbers
<1>4. Len(parts) \in S
  <2> HIDE DEF S
  <2> QED BY <1>0, <1>3
<1>5. \E e \in [0 .. Len(parts) -> Nat] : Solves(e, Len(parts))
  <2> HIDE DEF Solves
  <2> QED BY <1>0, <1>4
<1> QED BY <1>5 DEF IsEnds

LEMMA EndsAre ==
  ASSUME NEW parts \in Seq(Nat)
  PROVE  IsEnds(parts, Ends(parts))
<1> DEFINE Solution(h) == h = [n \in 0 .. Len(parts) |-> IF n = 0 THEN 0 ELSE h[n - 1] + parts[n]]
           ends == CHOOSE h : Solution(h)
<1>1. PICK e : IsEnds(parts, e)
  BY EndsExist
<1>2. Solution(e)
  <2>1. e = [n \in 0 .. Len(parts) |-> e[n]]
    BY <1>1 DEF IsEnds
  <2>2. \A n \in 0 .. Len(parts) : e[n] = IF n = 0 THEN 0 ELSE e[n - 1] + parts[n]
    BY <1>1 DEF IsEnds
  <2> QED BY <2>1, <2>2
<1>3. ASSUME NEW h, Solution(h) PROVE h = e
  <2>0. Len(parts) \in Nat
    OBVIOUS
  <2>1. /\ DOMAIN h = 0 .. Len(parts) /\ h = [n \in DOMAIN h |-> h[n]]
        /\ \A n \in 0 .. Len(parts) : h[n] = IF n = 0 THEN 0 ELSE h[n - 1] + parts[n]
    BY <1>3
  <2> DEFINE S == {k \in Nat : k <= Len(parts) => h[k] = e[k]}
  <2>2. 0 \in S
    BY <1>1, <2>0, <2>1 DEF IsEnds
  <2>3. ASSUME NEW k \in S PROVE k + 1 \in S
    <3>1. SUFFICES ASSUME k + 1 <= Len(parts) PROVE h[k + 1] = e[k + 1]
      OBVIOUS
    <3>2. /\ k + 1 \in 0 .. Len(parts) /\ k + 1 \in 1 .. Len(parts)
          /\ k + 1 # 0 /\ (k + 1) - 1 = k /\ h[k] = e[k]
      BY <2>0, <3>1
    <3> QED BY <1>1, <2>1, <3>2 DEF IsEnds
  <2>4. S = Nat
    <3>1. S \in SUBSET Nat
      OBVIOUS
    <3> HIDE DEF S
    <3> QED BY <2>2, <2>3, <3>1, AllNumbers
  <2>5. \A n \in 0 .. Len(parts) : h[n] = e[n]
    BY <2>4
  <2> QED BY <1>1, <2>1, <2>5 DEF IsEnds
<1>4. ends = e
  <2> HIDE DEF Solution
  <2> QED BY <1>2, <1>3
<1>5. Ends(parts) = ends
  BY DEF Ends
<1> HIDE DEF ends
<1> QED BY <1>1, <1>4, <1>5

\* No part ends behind the last one.
LEMMA EndsGrow ==
  ASSUME NEW parts \in Seq(Nat)
  PROVE  /\ Len(parts) \in Nat /\ Ends(parts)[0] = 0 /\ Sum(parts) \in Nat
         /\ \A n \in 0 .. Len(parts) : Ends(parts)[n] \in Nat /\ Ends(parts)[n] <= Sum(parts)
         /\ \A n \in 1 .. Len(parts) :
              parts[n] \in Nat /\ Ends(parts)[n] = Ends(parts)[n - 1] + parts[n]
<1> DEFINE m == Len(parts)
<1>1. m \in Nat /\ \A n \in 1 .. m : parts[n] \in Nat
  OBVIOUS
<1>2. PICK e : IsEnds(parts, e) /\ Ends(parts) = e
  BY EndsAre
<1> HIDE DEF m
<1>3. /\ \A n \in 0 .. m : e[n] \in Nat
      /\ e[0] = 0 /\ \A n \in 1 .. m : e[n] = e[n - 1] + parts[n]
  BY <1>2 DEF IsEnds, m
<1> DEFINE S == {k \in Nat : k <= m => e[m - k] <= e[m]}
<1>4. 0 \in S
  BY <1>1, <1>3
<1>5. ASSUME NEW k \in S PROVE k + 1 \in S
  <2>1. SUFFICES ASSUME k + 1 <= m PROVE e[m - (k + 1)] <= e[m]
    OBVIOUS
  <2>2. /\ m - k \in 1 .. m /\ m - k \in 0 .. m /\ m \in 0 .. m
        /\ (m - k) - 1 = m - (k + 1) /\ m - (k + 1) \in 0 .. m
        /\ e[m - k] <= e[m]
    BY <1>1, <2>1
  <2>3. e[m - k] = e[m - (k + 1)] + parts[m - k] /\ parts[m - k] \in Nat
    BY <1>1, <1>3, <2>2
  <2>4. e[m - k] \in Nat /\ e[m - (k + 1)] \in Nat /\ e[m] \in Nat
    BY <1>3, <2>2
  <2> QED BY <2>2, <2>3, <2>4
<1>6. S = Nat
  <2>1. S \in SUBSET Nat
    OBVIOUS
  <2> HIDE DEF S
  <2> QED BY <1>4, <1>5, <2>1, AllNumbers
<1>7. ASSUME NEW n \in 0 .. m PROVE e[n] <= e[m]
  <2>1. m - n \in Nat /\ m - n <= m /\ m - (m - n) = n
    BY <1>1
  <2>2. m - n \in S
    <3> HIDE DEF S
    <3> QED BY <1>6, <2>1
  <2> QED BY <2>1, <2>2
<1>8. m \in 0 .. m
  BY <1>1
<1> QED BY <1>1, <1>2, <1>3, <1>7, <1>8 DEF Sum, m

\* How far a sync of the lines offset to end - 1 of the pages has come when it has
\* been through the entries that end at line reach.
Reached(offset, end, reach) ==
  IF reach <= offset THEN offset ELSE IF reach <= end THEN reach ELSE end

Progress(offset, end, done, reach) ==
  [offset |-> Reached(offset, end, reach),
   length |-> end - Reached(offset, end, reach),
   done   |-> done \cup (CacheSize + offset .. CacheSize + Reached(offset, end, reach) - 1)]

LEMMA EntryEnds ==
  ASSUME NEW r \in Nat, NEW s \in Nat, NEW end \in Nat, NEW reach \in Nat, NEW size,
         r < reach, r < end, s = IF reach <= end THEN reach ELSE end,
         size = IF end - r < reach - r THEN end - r ELSE reach - r
  PROVE  size \in Nat \ {0} /\ r + size = s /\ (end - r) - size = end - s
<1>1. CASE reach <= end
  <2>1. s = reach /\ size = reach - r
    BY <1>1
  <2> QED BY <2>1
<1>2. CASE ~(reach <= end)
  <2>1. s = end /\ size = end - r
    BY <1>2
  <2> QED BY <2>1
<1> QED BY <1>1, <1>2

\* One entry more.
LEMMA OneEntry ==
  ASSUME PageParts \in Seq(Nat), CacheSize \in Nat,
         NEW offset \in Nat, NEW end \in Nat, offset <= end, NEW done,
         NEW n \in 1 .. Len(PageParts)
  PROVE  PageSync(n, Progress(offset, end, done, Ends(PageParts)[n - 1]))
           = Progress(offset, end, done, Ends(PageParts)[n])
<1> DEFINE e == Ends(PageParts)
           r == Reached(offset, end, e[n - 1])
           s == Reached(offset, end, e[n])
           begun == Progress(offset, end, done, e[n - 1])
           C == CacheSize
<1>1. e[n - 1] \in Nat /\ e[n] \in Nat /\ e[n - 1] <= e[n] /\ C \in Nat
  <2>1. n - 1 \in 0 .. Len(PageParts) /\ n \in 0 .. Len(PageParts)
    BY EndsGrow
  <2> QED BY <2>1, EndsGrow
<1>0. SUFFICES PageSync(n, begun) = Progress(offset, end, done, e[n])
  OBVIOUS
<1> HIDE DEF e
<1>2. r \in Nat /\ s \in Nat /\ offset <= r /\ r <= s /\ s <= end
  BY <1>1 DEF Reached
<1>3. /\ begun.offset = r /\ begun.length = end - r
      /\ begun.done = done \cup (C + offset .. C + r - 1)
      /\ begun = [offset |-> r, length |-> end - r, done |-> done \cup (C + offset .. C + r - 1)]
  BY DEF Progress
<1>4. CASE end - r = 0 \/ e[n] <= r
  <2>1. s = r
    BY <1>1, <1>2, <1>4 DEF Reached
  <2>2. PageSync(n, begun) = begun
    BY <1>3, <1>4 DEF PageSync, e
  <2> QED BY <2>1, <2>2 DEF Progress, e
<1>5. CASE end - r # 0 /\ ~(e[n] <= r)
  <2> DEFINE left == e[n] - r
             size == IF end - r < left THEN end - r ELSE left
  <2>1. left \in Nat /\ size \in Nat \ {0} /\ r + size = s /\ (end - r) - size = end - s
    <3>1. s = IF e[n] <= end THEN e[n] ELSE end
      BY <1>1, <1>2, <1>5 DEF Reached
    <3>2. r < e[n] /\ r < end
      BY <1>1, <1>2, <1>5
    <3>3. left \in Nat /\ r \in Nat /\ s \in Nat /\ e[n] \in Nat
      BY <1>1, <1>2, <3>2
    <3> HIDE DEF r, s
    <3> QED BY SMTT(30), <3>1, <3>2, <3>3, EntryEnds
  <2>2. Reach(C + e[n] - left, size) = C + r .. C + s - 1
    <3>1. C + e[n] - left = C + r /\ (C + r) + size - 1 = C + s - 1
      <4> HIDE DEF r, s, C, size
      <4> QED BY <1>1, <1>2, <2>1
    <3> QED BY <2>1, <3>1 DEF Reach
  <2>3. PageSync(n, begun) = [offset |-> r + size, length |-> (end - r) - size,
                           done |-> begun.done \cup Reach(C + e[n] - left, size)]
    BY <1>3, <1>5 DEF PageSync, e
  <2>4. (C + offset .. C + r - 1) \cup (C + r .. C + s - 1) = C + offset .. C + s - 1
    BY SMTT(30), <1>2
  <2>5. begun.done \cup (C + r .. C + s - 1) = done \cup (C + offset .. C + s - 1)
    <3> HIDE DEF r, s, C, begun
    <3> QED BY <1>3, <2>4
  <2> HIDE DEF left, size
  <2>6. PageSync(n, begun) = [offset |-> s, length |-> end - s,
                           done |-> done \cup (C + offset .. C + s - 1)]
    BY <2>1, <2>2, <2>3, <2>5
  <2> QED BY <2>6 DEF Progress, e
<1> QED BY <1>4, <1>5

\* The entries of the scatterlist, wherever the sync begins and ends in them.
LEMMA AllEntries ==
  ASSUME PageParts \in Seq(Nat), CacheSize \in Nat,
         NEW first, NEW length,
         NEW offset \in Nat, NEW end \in Nat, offset <= end, end <= PagesSize, NEW done,
         CacheSync([offset |-> first, length |-> length, done |-> {}])
           = Progress(offset, end, done, 0)
  PROVE  Synced(first, length) = done \cup (CacheSize + offset .. CacheSize + end - 1)
<1> DEFINE m == Len(PageParts)
           begun == CacheSync([offset |-> first, length |-> length, done |-> {}])
           Solution(h) == h = [n \in 0 .. m |-> IF n = 0 THEN begun ELSE PageSync(n, h[n - 1])]
           after == CHOOSE h : Solution(h)
           F == [n \in 0 .. m |-> Progress(offset, end, done, Ends(PageParts)[n])]
<1>1. m \in Nat /\ Ends(PageParts)[0] = 0 /\ Ends(PageParts)[m] = PagesSize
  BY EndsGrow DEF PagesSize, Sum
<1>2. F[0] = begun /\ \A n \in 1 .. m : F[n] = PageSync(n, F[n - 1])
  <2>1. 0 \in 0 .. m /\ \A n \in 1 .. m : n \in 0 .. m /\ n - 1 \in 0 .. m
    BY <1>1
  <2> QED BY <1>1, <2>1, OneEntry
<1> HIDE DEF m, begun
<1>3. Solution(F)
  <2>1. F = [n \in 0 .. m |-> F[n]] /\ DOMAIN F = 0 .. m
    OBVIOUS
  <2>2. \A n \in 0 .. m : n = 0 \/ n \in 1 .. m
    BY <1>1
  <2> HIDE DEF F
  <2>3. \A n \in 0 .. m : F[n] = IF n = 0 THEN begun ELSE PageSync(n, F[n - 1])
    BY <1>2, <2>2
  <2> QED BY <2>1, <2>3
<1>4. ASSUME NEW h, Solution(h) PROVE h[m] = F[m]
  <2>1. \A n \in 0 .. m : h[n] = IF n = 0 THEN begun ELSE PageSync(n, h[n - 1])
    BY <1>4
  <2> HIDE DEF F
  <2> DEFINE S == {k \in Nat : k <= m => h[k] = F[k]}
  <2>2. 0 \in S
    BY <1>1, <1>2, <2>1
  <2>3. ASSUME NEW k \in S PROVE k + 1 \in S
    <3>1. SUFFICES ASSUME k + 1 <= m PROVE h[k + 1] = F[k + 1]
      OBVIOUS
    <3>2. /\ k + 1 \in 0 .. m /\ k + 1 \in 1 .. m /\ k + 1 # 0 /\ (k + 1) - 1 = k
          /\ h[k] = F[k]
      BY <1>1, <3>1
    <3> QED BY <1>2, <2>1, <3>2
  <2>4. S = Nat
    <3>1. S \in SUBSET Nat
      OBVIOUS
    <3> HIDE DEF S
    <3> QED BY <2>2, <2>3, <3>1, AllNumbers
  <2> QED BY <1>1, <2>4
<1>5. after[m] = F[m]
  <2>1. Solution(after)
    <3> HIDE DEF Solution, F
    <3> QED BY <1>3
  <2> HIDE DEF after, Solution, F
  <2> QED BY <1>4, <2>1
<1>6. Reached(offset, end, PagesSize) = end
  <2>1. PagesSize \in Nat
    BY EndsGrow DEF PagesSize
  <2> QED BY <2>1 DEF Reached
<1>7. F[m].done = done \cup (CacheSize + offset .. CacheSize + end - 1)
  BY <1>1, <1>6 DEF Progress
<1> HIDE DEF after, F
<1>8. after[m].done = done \cup (CacheSize + offset .. CacheSize + end - 1)
  BY <1>5, <1>7
<1> QED BY <1>8 DEF after, m, begun, Synced

\* What a sync of the first length lines has done when it is through with the
\* pieces of the cache part that end at line reach.
Upto(length, reach) == IF length <= reach THEN length ELSE reach

Done(length, reach) ==
  [offset |-> 0, length |-> length - Upto(length, reach), done |-> 0 .. Upto(length, reach) - 1]

\* One piece more.
LEMMA OnePiece ==
  ASSUME NEW length \in Nat, NEW start \in Nat, NEW size \in Nat
  PROVE  Piece(start, size, Done(length, start)) = Done(length, start + size)
<1> DEFINE begun == Done(length, start)
           r == Upto(length, start)
<1>1. /\ begun.offset = 0 /\ begun.length = length - r /\ begun.done = 0 .. r - 1
      /\ begun = [offset |-> 0, length |-> length - r, done |-> 0 .. r - 1]
  BY DEF Done
<1>2. r \in Nat /\ r <= length
  BY DEF Upto
<1>3. CASE length <= start
  <2>1. r = length /\ Upto(length, start + size) = r
    BY <1>3 DEF Upto
  <2>2. Piece(start, size, begun) = begun
    <3>1. begun.length = 0
      BY <1>1, <2>1
    <3> HIDE DEF begun
    <3> QED BY <3>1 DEF Piece
  <2> QED BY <1>1, <2>1, <2>2 DEF Done
<1>4. CASE ~(length <= start)
  <2> DEFINE here == IF length - start <= size THEN length - start ELSE size
             s == Upto(length, start + size)
  <2>1. r = start /\ begun.length # 0 /\ begun.length = length - start
    BY <1>1, <1>2, <1>4 DEF Upto
  <2>2. here \in Nat /\ start + here = s /\ s \in Nat /\ start <= s
    BY <1>4 DEF Upto
  <2>3. Reach(start, here) = start .. s - 1
    <3> HIDE DEF here, s
    <3> QED BY <2>2 DEF Reach
  <2>4. Piece(start, size, begun) =
          [offset |-> 0, length |-> IF length - start <= size THEN 0 ELSE length - start - here,
           done |-> begun.done \cup Reach(start, here)]
    <3>1. begun.offset + begun.length = length - start /\ size - begun.offset = size
      BY <1>1, <1>4, <2>1
    <3> HIDE DEF begun
    <3> QED BY <2>1, <3>1 DEF Piece
  <2>5. (IF length - start <= size THEN 0 ELSE length - start - here) = length - s
    BY <1>4 DEF Upto
  <2>6. (0 .. start - 1) \cup (start .. s - 1) = 0 .. s - 1
    <3> HIDE DEF s
    <3> QED BY <2>2
  <2>7. begun.done \cup Reach(start, here) = 0 .. s - 1
    BY <1>1, <2>1, <2>3, <2>6
  <2> QED BY <2>4, <2>5, <2>7 DEF Done
<1> QED BY <1>3, <1>4

\* The cache part, from its start.
LEMMA CacheFromStart ==
  ASSUME CacheParts \in Seq(Nat), cache_with_sgt \in BOOLEAN, NEW length \in Nat \ {0}
  PROVE  CacheSync([offset |-> 0, length |-> length, done |-> {}]) = Done(length, CacheSize)
<1> DEFINE begun == [offset |-> 0, length |-> length, done |-> {}]
           m == Len(CacheParts)
           Solution(h) == h = [n \in 0 .. m |->
             IF n = 0 THEN begun ELSE Piece(Ends(CacheParts)[n - 1], CacheParts[n], h[n - 1])]
           after == CHOOSE h : Solution(h)
           F == [n \in 0 .. m |-> Done(length, Ends(CacheParts)[n])]
<1>1. m \in Nat /\ Ends(CacheParts)[0] = 0 /\ Ends(CacheParts)[m] = CacheSize /\ CacheSize \in Nat
  BY EndsGrow DEF CacheSize, Sum
<1>2. begun = Done(length, 0)
  <2>1. Upto(length, 0) = 0 /\ length - 0 = length /\ 0 .. 0 - 1 = {}
    BY DEF Upto
  <2> QED BY <2>1 DEF Done
<1>3. F[0] = begun
  <2>1. 0 \in 0 .. m
    BY <1>1
  <2> HIDE DEF begun
  <2> QED BY <1>1, <1>2, <2>1
<1>4. ASSUME NEW n \in 1 .. m
      PROVE  F[n] = Piece(Ends(CacheParts)[n - 1], CacheParts[n], F[n - 1])
  <2>1. n \in 0 .. m /\ n - 1 \in 0 .. m
    BY <1>1
  <2>2. /\ Ends(CacheParts)[n - 1] \in Nat /\ CacheParts[n] \in Nat
        /\ Ends(CacheParts)[n] = Ends(CacheParts)[n - 1] + CacheParts[n]
    BY <2>1, EndsGrow
  <2>3. /\ F[n - 1] = Done(length, Ends(CacheParts)[n - 1])
        /\ F[n] = Done(length, Ends(CacheParts)[n])
    BY <2>1
  <2> HIDE DEF F
  <2> QED BY ZenonT(60), <2>2, <2>3, OnePiece
<1> HIDE DEF m, begun
<1>5. Solution(F)
  <2>1. F = [n \in 0 .. m |-> F[n]] /\ DOMAIN F = 0 .. m
    OBVIOUS
  <2>2. \A n \in 0 .. m : n = 0 \/ n \in 1 .. m
    BY <1>1
  <2> HIDE DEF F
  <2>3. \A n \in 0 .. m : F[n] = IF n = 0 THEN begun
                                 ELSE Piece(Ends(CacheParts)[n - 1], CacheParts[n], F[n - 1])
    BY <1>3, <1>4, <2>2
  <2> QED BY <2>1, <2>3
<1>6. ASSUME NEW h, Solution(h) PROVE h[m] = F[m]
  <2>1. \A n \in 0 .. m : h[n] = IF n = 0 THEN begun
                                 ELSE Piece(Ends(CacheParts)[n - 1], CacheParts[n], h[n - 1])
    BY <1>6
  <2> HIDE DEF F
  <2> DEFINE S == {k \in Nat : k <= m => h[k] = F[k]}
  <2>2. 0 \in S
    BY <1>1, <1>3, <2>1
  <2>3. ASSUME NEW k \in S PROVE k + 1 \in S
    <3>1. SUFFICES ASSUME k + 1 <= m PROVE h[k + 1] = F[k + 1]
      OBVIOUS
    <3>2. k \in Nat /\ h[k] = F[k]
      BY <1>1, <3>1
    <3> HIDE DEF S, Solution
    <3>3. k + 1 \in 0 .. m /\ k + 1 \in 1 .. m /\ k + 1 # 0 /\ (k + 1) - 1 = k
      BY <1>1, <3>1, <3>2
    <3> QED BY <1>4, <2>1, <3>2, <3>3
  <2>4. S = Nat
    <3>1. S \in SUBSET Nat
      OBVIOUS
    <3> HIDE DEF S
    <3> QED BY <2>2, <2>3, <3>1, AllNumbers
  <2> QED BY <1>1, <2>4
<1>7. after[m] = F[m]
  <2>1. Solution(after)
    <3> HIDE DEF Solution, F
    <3> QED BY <1>5
  <2> HIDE DEF after, Solution, F
  <2> QED BY <1>6, <2>1
<1>8. after[m] = Done(length, CacheSize)
  BY <1>1, <1>7
<1>9. CASE CacheSize = 0
  <2>1. CacheSync(begun) = begun
    <3>1. CacheSync(begun) = [begun EXCEPT !.offset = @ - CacheSize]
      BY <1>9 DEF CacheSync, begun
    <3>2. begun.offset - CacheSize = begun.offset
      BY <1>9 DEF begun
    <3>3. [begun EXCEPT !.offset = begun.offset] = begun
      BY DEF begun
    <3> QED BY <3>1, <3>2, <3>3
  <2> QED BY <1>2, <1>9, <2>1 DEF begun
<1>10. CASE CacheSize # 0 /\ ~cache_with_sgt
  <2>1. CacheSync(begun) = Piece(0, CacheSize, begun)
    <3>1. ~(begun.offset >= CacheSize)
      BY <1>1, <1>10 DEF begun
    <3> QED BY <1>10, <3>1 DEF CacheSync
  <2>2. Piece(0, CacheSize, begun) = Done(length, 0 + CacheSize)
    BY <1>1, <1>2, OnePiece
  <2> QED BY <1>1, <2>1, <2>2 DEF begun
<1>11. CASE CacheSize # 0 /\ cache_with_sgt
  <2>1. CacheSync(begun) = after[m]
    <3>1. ~(begun.offset >= CacheSize)
      BY <1>1, <1>11 DEF begun
    <3> QED BY <1>11, <3>1 DEF CacheSync, m
  <2> HIDE DEF after
  <2> QED BY <1>8, <2>1 DEF begun
<1> QED BY <1>9, <1>10, <1>11

\* The arithmetic of the ioctl: exactly the lines asked for.
LEMMA SyncedIsAsked ==
  ASSUME CacheParts \in Seq(Nat), PageParts \in Seq(Nat), cache_with_sgt \in BOOLEAN,
         NEW offset \in Nat, NEW length \in Nat \ {0},
         offset + length <= CacheSize + PagesSize, offset = 0 \/ offset >= CacheSize
  PROVE  Synced(offset, length) = offset .. offset + length - 1
<1> DEFINE begun == CacheSync([offset |-> offset, length |-> length, done |-> {}])
<1>1. CacheSize \in Nat /\ PagesSize \in Nat
  BY EndsGrow DEF CacheSize, PagesSize
<1>2. ASSUME NEW o \in Nat, NEW end \in Nat, o <= end, end <= PagesSize, NEW done,
             begun = Progress(o, end, done, 0)
      PROVE  Synced(offset, length) = done \cup (CacheSize + o .. CacheSize + end - 1)
  BY <1>1, <1>2, AllEntries
<1>3. CASE offset >= CacheSize
  <2> DEFINE o == offset - CacheSize
  <2>1. o \in Nat /\ o + length \in Nat /\ o <= o + length /\ o + length <= PagesSize
    BY <1>1, <1>3
  <2>2. begun = [offset |-> o, length |-> length, done |-> {}]
    BY <1>3 DEF CacheSync
  <2>3. Reached(o, o + length, 0) = o /\ (o + length) - o = length
    BY <2>1 DEF Reached
  <2>4. {} \cup (CacheSize + o .. CacheSize + o - 1) = {}
    BY <1>1, <2>1
  <2>5. begun = Progress(o, o + length, {}, 0)
    <3> HIDE DEF begun, o
    <3> QED BY <2>2, <2>3, <2>4 DEF Progress
  <2>6. Synced(offset, length) = {} \cup (CacheSize + o .. CacheSize + (o + length) - 1)
    <3> HIDE DEF begun, o
    <3> QED BY <1>2, <2>1, <2>5
  <2>7. CacheSize + o = offset /\ CacheSize + (o + length) - 1 = offset + length - 1
    BY <1>1, <1>3
  <2> QED BY <2>6, <2>7
<1>4. CASE offset = 0 /\ length <= CacheSize
  <2>1. begun = Done(length, CacheSize)
    BY <1>4, CacheFromStart
  <2>2. begun = [offset |-> 0, length |-> 0, done |-> 0 .. length - 1]
    BY <1>4, <2>1 DEF Done, Upto
  <2>3. Reached(0, 0, 0) = 0 /\ 0 - Reached(0, 0, 0) = 0
    BY DEF Reached
  <2>4. (0 .. length - 1) \cup (CacheSize + 0 .. CacheSize + 0 - 1) = 0 .. length - 1
    BY <1>1
  <2>5. begun = Progress(0, 0, 0 .. length - 1, 0)
    <3> HIDE DEF begun
    <3> QED BY <2>2, <2>3, <2>4 DEF Progress
  <2>6. Synced(offset, length) = (0 .. length - 1) \cup (CacheSize + 0 .. CacheSize + 0 - 1)
    <3> HIDE DEF begun
    <3> QED BY <1>1, <1>2, <2>5
  <2>7. offset + length - 1 = length - 1
    BY <1>4
  <2> QED BY <1>4, <2>4, <2>6, <2>7
<1>5. CASE offset = 0 /\ ~(length <= CacheSize)
  <2> DEFINE end == length - CacheSize
  <2>0. end \in Nat /\ end <= PagesSize
    BY <1>1, <1>5
  <2>1. begun = Done(length, CacheSize)
    BY <1>5, CacheFromStart
  <2>2. begun = [offset |-> 0, length |-> end, done |-> 0 .. CacheSize - 1]
    BY <1>1, <1>5, <2>1 DEF Done, Upto
  <2>3. Reached(0, end, 0) = 0 /\ end - 0 = end
    BY <2>0 DEF Reached
  <2>4. (0 .. CacheSize - 1) \cup (CacheSize + 0 .. CacheSize + 0 - 1) = 0 .. CacheSize - 1
    BY <1>1
  <2>5. begun = Progress(0, end, 0 .. CacheSize - 1, 0)
    <3> HIDE DEF begun, end
    <3> QED BY <2>2, <2>3, <2>4 DEF Progress
  <2>6. Synced(offset, length)
          = (0 .. CacheSize - 1) \cup (CacheSize + 0 .. CacheSize + end - 1)
    <3>1. 0 \in Nat /\ 0 <= end
      BY <2>0
    <3> HIDE DEF begun, end
    <3> QED BY <1>2, <2>0, <2>5, <3>1
  <2>7. (0 .. CacheSize - 1) \cup (CacheSize + 0 .. CacheSize + end - 1) = 0 .. length - 1
    BY <1>1, <1>5
  <2>8. offset + length - 1 = length - 1
    BY <1>5
  <2> QED BY <1>5, <2>6, <2>7, <2>8
<1> QED BY <1>3, <1>4, <1>5

\* A sync that begins at the start of an object or in its pages does what it is
\* asked for and nothing else, for any table of pieces and any scatterlist.
THEOREM SyncCorrect ==
  ASSUME CacheParts \in Seq(Nat), PageParts \in Seq(Nat)
  PROVE  SyncSpec => SyncReachesWhatIsAsked
<1> DEFINE Inv == cache_with_sgt \in BOOLEAN
           Asked == call'.lines # {} /\ (0 \in call'.lines \/ \A b \in call'.lines : b >= CacheSize)
                    => line' = [b \in Lines |-> IF b \in call'.lines
                                                THEN After(line[b], call'.dir) ELSE line[b]]
<1>1. SyncInit => Inv
  BY DEF SyncInit
<1>2. Inv /\ [SyncNext]_syncVars => Inv'
  BY DEF SyncNext, Sync, Write, syncVars
<1>3. CacheSize \in Nat /\ PagesSize \in Nat
  BY EndsGrow DEF CacheSize, PagesSize
<1>4. ASSUME Inv, NEW offset \in Lines, NEW dir \in Directions,
             NEW length \in 1 .. Cardinality(Lines) - offset, Sync(offset, length, dir)
      PROVE  Asked
  <2>1. SUFFICES ASSUME call'.lines # {},
                        0 \in call'.lines \/ \A b \in call'.lines : b >= CacheSize
                 PROVE  line' = [b \in Lines |-> IF b \in call'.lines
                                                 THEN After(line[b], call'.dir) ELSE line[b]]
    OBVIOUS
  <2>2. call'.lines = offset .. offset + length - 1 /\ call'.dir = dir
    BY <1>4 DEF Sync
  <2>3. Cardinality(Lines) = CacheSize + PagesSize
    <3>1. Cardinality(0 .. CacheSize + PagesSize - 1) = CacheSize + PagesSize
      BY <1>3, FS_Interval
    <3> QED BY <3>1 DEF Lines
  <2>4. offset \in Nat /\ length \in Nat \ {0} /\ offset + length <= CacheSize + PagesSize
    BY <1>3, <2>3 DEF Lines
  <2>5. offset = 0 \/ offset >= CacheSize
    <3>1. offset \in offset .. offset + length - 1
      BY <2>4
    <3> QED BY <2>1, <2>2, <2>4, <3>1
  <2>6. Synced(offset, length) = offset .. offset + length - 1
    BY <1>4, <2>4, <2>5, SyncedIsAsked
  <2> QED BY <1>4, <2>2, <2>6 DEF Sync
<1>5. ASSUME NEW b \in Lines, NEW by, Write(b, by) PROVE Asked
  BY <1>5 DEF Write, NoCall
<1>6. Inv /\ [SyncNext]_syncVars => [Asked]_syncVars
  <2> HIDE DEF Asked
  <2> QED BY <1>4, <1>5 DEF SyncNext
<1> QED BY <1>1, <1>2, <1>6, PTL DEF SyncSpec, SyncReachesWhatIsAsked
=============================================================================
