----------------------------- MODULE NpuJobProofs -----------------------------
(***************************************************************************)
(* Proofs about NpuJob for any number of cores, calls, domains and         *)
(* mishaps.                                                                *)
(***************************************************************************)
EXTENDS NpuJob, FiniteSetTheorems, SequenceTheorems, WellFoundedInduction, TLAPS

(***************************************************************************)
(* Cores: the first of a set, and the one with the least work.             *)
(***************************************************************************)

\* The cores are numbered from 0.
LEMMA CoresNumbered ==
  /\ IsFiniteSet(Cores) /\ Cores \subseteq Nat /\ Cores # {}
  /\ Cardinality(Cores) \in Nat \ {0}
  /\ Cores = 0 .. Cardinality(Cores) - 1
<1>1. IsFiniteSet(Cores) /\ Cores # {} /\ Cores = 0 .. Cardinality(Cores) - 1
  BY JobAssumption
<1>2. Cardinality(Cores) \in Nat
  BY <1>1, FS_CardinalityType
<1>3. Cardinality(Cores) # 0
  BY <1>1, FS_EmptySet
<1> QED BY <1>1, <1>2, <1>3

\* Sets of cores are finite and no larger than all cores together.
LEMMA CoreSets ==
  ASSUME NEW S \in SUBSET Cores
  PROVE  /\ IsFiniteSet(S) /\ Cardinality(S) \in 0 .. Cardinality(Cores)
         /\ \A T \in SUBSET S : Cardinality(T) <= Cardinality(S)
         /\ \A c \in S : Cardinality(S \ {c}) = Cardinality(S) - 1
<1>1. IsFiniteSet(S) /\ Cardinality(S) <= Cardinality(Cores)
  BY CoresNumbered, FS_Subset
<1>2. Cardinality(S) \in Nat
  BY <1>1, FS_CardinalityType
<1>3. \A T \in SUBSET S : Cardinality(T) <= Cardinality(S)
  BY <1>1, FS_Subset
<1>4. \A c \in S : Cardinality(S \ {c}) = Cardinality(S) - 1
  BY <1>1, FS_RemoveElement
<1> QED BY <1>1, <1>2, <1>3, <1>4, CoresNumbered

\* A set of cores has a first one.
LEMMA FirstCore ==
  ASSUME NEW S \in SUBSET Cores, S # {}
  PROVE  MinCore(S) \in S
<1> DEFINE R == {ss \in Nat \X Nat : ss[1] < ss[2]}
<1>1. S \in SUBSET Nat
  BY CoresNumbered
<1>2. PICK m \in S : \A n \in S : <<n, m>> \notin R
  <2>1. IsWellFoundedOn(R, Nat)
    BY NatLessThanWellFounded DEF OpToRel
  <2> HIDE DEF R
  <2> QED BY <1>1, <2>1, WFMin
<1>3. ASSUME NEW n \in S PROVE m <= n
  <2>1. n \in Nat /\ m \in Nat
    BY <1>1
  <2>2. <<n, m>> \in R <=> n < m
    BY <2>1
  <2> QED BY <1>2, <2>1, <2>2
<1> QED BY <1>3 DEF MinCore

\* The core with the least work, the first one of several.
Chosen(c) ==
  /\ \A d \in Cores : task_num[c] <= task_num[d]
  /\ \A d \in Cores : d < c => task_num[c] < task_num[d]

LEMMA ChosenExists ==
  ASSUME task_num \in [Cores -> Int]
  PROVE  \E c \in Cores : Chosen(c)
<1> DEFINE N == Cardinality(Cores)
           Best(c, k) == /\ \A d \in k .. N - 1 : task_num[c] <= task_num[d]
                         /\ \A d \in k .. N - 1 : d < c => task_num[c] < task_num[d]
           Good == {k \in 0 .. N - 1 : \E c \in k .. N - 1 : Best(c, k)}
<1>1. N \in Nat \ {0} /\ Cores = 0 .. N - 1
  BY CoresNumbered
<1>2. \A c \in 0 .. N - 1 : task_num[c] \in Int
  BY <1>1
<1> HIDE DEF N
<1>3. N - 1 \in Good
  <2>1. Best(N - 1, N - 1) /\ N - 1 \in 0 .. N - 1 /\ N - 1 \in (N - 1) .. N - 1
    BY <1>1, <1>2
  <2> QED BY <2>1
<1>4. ASSUME NEW k \in Good, k > 0
      PROVE  k - 1 \in Good
  <2>1. PICK c \in k .. N - 1 : Best(c, k)
    OBVIOUS
  <2> DEFINE b == k - 1
  <2>2. b \in 0 .. N - 1 /\ k = b + 1 /\ c \in 0 .. N - 1 /\ b < c /\ b \in Int /\ N \in Int
    BY <1>1, <1>4
  <2>3. \A d \in b .. N - 1 : d = b \/ d \in k .. N - 1
    BY <2>2
  <2> HIDE DEF b
  <2>4. CASE task_num[b] <= task_num[c]
    <3>1. Best(b, b)
      BY <1>2, <2>1, <2>2, <2>3, <2>4
    <3>2. b \in b .. N - 1
      BY <2>2
    <3>3. b \in Good
      BY <2>2, <3>1, <3>2
    <3> QED BY <3>3 DEF b
  <2>5. CASE task_num[c] < task_num[b]
    <3>1. Best(c, b)
      BY <1>2, <2>1, <2>2, <2>3, <2>5
    <3>2. c \in b .. N - 1
      BY <2>2
    <3>3. b \in Good
      BY <2>2, <3>1, <3>2
    <3> QED BY <3>3 DEF b
  <2> QED BY <1>2, <2>2, <2>4, <2>5
<1>5. 0 \in Good
  <2> DEFINE R == {ss \in Nat \X Nat : ss[1] < ss[2]}
  <2>1. IsWellFoundedOn(R, Nat)
    BY NatLessThanWellFounded DEF OpToRel
  <2>2. Good \in SUBSET Nat /\ Good # {}
    BY <1>3
  <2>3. PICK m \in Good : \A n \in Good : <<n, m>> \notin R
    <3> HIDE DEF R, Good
    <3> QED BY <2>1, <2>2, WFMin
  <2>4. CASE m > 0
    <3>1. m - 1 \in Good
      <4> HIDE DEF Good
      <4> QED BY <1>4, <2>4
    <3>2. <<m - 1, m>> \in R
      <4> HIDE DEF Good
      <4> QED BY <2>2, <2>4
    <3> QED BY <2>3, <3>1, <3>2
  <2>5. CASE m = 0
    BY <2>5
  <2> HIDE DEF Good
  <2> QED BY <2>2, <2>4, <2>5
<1> QED BY <1>1, <1>5 DEF Chosen

\* A job that leaves the choice to the driver gets one core; the rest of its
\* record stays, and the counts are those of its cores.
LEMMA AssignFacts ==
  ASSUME task_num \in [Cores -> Int], NEW r \in JobRecord,
         r.run_count = Cardinality(r.cores), r.interrupt_count = Cardinality(r.cores)
  PROVE  /\ Assign(r) \in JobRecord /\ Assign(r).cores # {}
         /\ Assign(r).run_count = Cardinality(Assign(r).cores)
         /\ Assign(r).interrupt_count = Cardinality(Assign(r).cores)
         /\ Assign(r).domain = r.domain /\ Assign(r).nonblock = r.nonblock
         /\ Assign(r).batches = r.batches /\ Assign(r).submit_count = r.submit_count
         /\ Assign(r).committed = r.committed /\ Assign(r).done = r.done
         /\ Assign(r).ret = r.ret /\ Assign(r).irq_entry = r.irq_entry
<1>1. CASE r.cores # {}
  BY <1>1 DEF Assign
<1>2. CASE r.cores = {}
  <2> DEFINE b == CHOOSE c \in Cores :
                    /\ \A d \in Cores : task_num[c] <= task_num[d]
                    /\ \A d \in Cores : d < c => task_num[c] < task_num[d]
  <2>1. b \in Cores
    BY ChosenExists DEF Chosen
  <2>2. Assign(r) = [r EXCEPT !.cores = {b}, !.run_count = 1, !.interrupt_count = 1]
    BY <1>2 DEF Assign
  <2> HIDE DEF b
  <2>3. Cardinality({b}) = 1
    BY FS_Singleton
  <2>4. 1 \in 0 .. Cardinality(Cores)
    BY CoresNumbered
  <2>5. /\ Assign(r).cores = {b} /\ Assign(r).run_count = 1 /\ Assign(r).interrupt_count = 1
        /\ Assign(r).domain = r.domain /\ Assign(r).nonblock = r.nonblock
        /\ Assign(r).batches = r.batches /\ Assign(r).submit_count = r.submit_count
        /\ Assign(r).committed = r.committed /\ Assign(r).done = r.done
        /\ Assign(r).ret = r.ret /\ Assign(r).irq_entry = r.irq_entry
    BY <2>2 DEF JobRecord
  <2>6. Assign(r) \in JobRecord
    <3> DEFINE x == [r EXCEPT !.cores = {b}]
               y == [x EXCEPT !.run_count = 1]
    <3>1. x \in JobRecord
      BY <2>1 DEF JobRecord
    <3>2. y \in JobRecord
      <4> HIDE DEF x
      <4> QED BY <2>4, <3>1 DEF JobRecord
    <3>3. [y EXCEPT !.interrupt_count = 1] \in JobRecord
      <4> HIDE DEF y
      <4> QED BY <2>4, <3>2 DEF JobRecord
    <3>4. Assign(r) = [y EXCEPT !.interrupt_count = 1]
      BY <2>2
    <3> QED BY <3>3, <3>4
  <2> QED BY <2>3, <2>5, <2>6
<1> QED BY <1>1, <1>2

(***************************************************************************)
(* Queues as sequences: what is in them, and in which order.               *)
(***************************************************************************)

InOrder(s, j, k) == \E m, n \in DOMAIN s : m < n /\ s[m] = j /\ s[n] = k

\* t is s without some of its elements.
Within(t, s) ==
  /\ ToSet(t) \subseteq ToSet(s)
  /\ \A j, k \in Jobs : InOrder(t, j, k) => InOrder(s, j, k)

LEMMA AppendFacts ==
  ASSUME NEW s \in Seq(Jobs), NEW j \in Jobs
  PROVE  /\ Append(s, j) \in Seq(Jobs)
         /\ ToSet(Append(s, j)) = ToSet(s) \cup {j}
         /\ \A a, b \in Jobs : InOrder(Append(s, j), a, b)
              => InOrder(s, a, b) \/ (b = j /\ a \in ToSet(s))
<1> DEFINE t == Append(s, j)
<1>1. /\ t \in Seq(Jobs) /\ Len(s) \in Nat /\ DOMAIN s = 1 .. Len(s)
      /\ DOMAIN t = 1 .. Len(s) + 1
      /\ \A i \in 1 .. Len(s) : t[i] = s[i]
      /\ t[Len(s) + 1] = j
  OBVIOUS
<1> HIDE DEF t
<1>2. ToSet(t) = ToSet(s) \cup {j}
  <2>1. \A i \in DOMAIN t : i \in DOMAIN s \/ i = Len(s) + 1
    BY <1>1
  <2>2. \A i \in DOMAIN s : i \in DOMAIN t /\ t[i] = s[i]
    BY <1>1
  <2>3. Len(s) + 1 \in DOMAIN t
    BY <1>1
  <2> QED BY <1>1, <2>1, <2>2, <2>3 DEF ToSet
<1>3. ASSUME NEW a \in Jobs, NEW b \in Jobs, InOrder(t, a, b)
      PROVE  InOrder(s, a, b) \/ (b = j /\ a \in ToSet(s))
  <2>1. PICK m \in DOMAIN t, n \in DOMAIN t : m < n /\ t[m] = a /\ t[n] = b
    BY <1>3 DEF InOrder
  <2>2. m \in DOMAIN s /\ s[m] = a
    BY <1>1, <2>1
  <2>3. CASE n = Len(s) + 1
    BY <1>1, <2>1, <2>2, <2>3 DEF ToSet
  <2>4. CASE n # Len(s) + 1
    <3>1. n \in DOMAIN s /\ s[n] = b
      BY <1>1, <2>1, <2>4
    <3> QED BY <2>1, <2>2, <3>1 DEF InOrder
  <2> QED BY <2>3, <2>4
<1> QED BY <1>1, <1>2, <1>3 DEF t

LEMMA HeadTail ==
  ASSUME NEW s \in Seq(Jobs), s # << >>
  PROVE  /\ Head(s) \in Jobs /\ Tail(s) \in Seq(Jobs)
         /\ <<Head(s)>> \o Tail(s) = s
         /\ ToSet(s) = ToSet(Tail(s)) \cup {Head(s)}
         /\ ~InOrder(s, Head(s), Head(s)) => Head(s) \notin ToSet(Tail(s))
<1>1. /\ Head(s) \in Jobs /\ Tail(s) \in Seq(Jobs) /\ Len(s) \in Nat \ {0}
      /\ DOMAIN s = 1 .. Len(s) /\ DOMAIN Tail(s) = 1 .. Len(s) - 1
      /\ Head(s) = s[1]
      /\ \A i \in 1 .. Len(s) - 1 : Tail(s)[i] = s[i + 1]
  OBVIOUS
<1>2. <<Head(s)>> \o Tail(s) = s
  BY HeadTailProperties
<1>3. \A i \in DOMAIN s : i = 1 \/ \E k \in DOMAIN Tail(s) : i = k + 1
  <2>1. ASSUME NEW i \in DOMAIN s, i # 1 PROVE i - 1 \in DOMAIN Tail(s) /\ i = (i - 1) + 1
    BY <1>1, <2>1
  <2> QED BY <2>1
<1>4. \A k \in DOMAIN Tail(s) : k + 1 \in DOMAIN s /\ Tail(s)[k] = s[k + 1] /\ 1 < k + 1
  BY <1>1
<1>5. 1 \in DOMAIN s
  BY <1>1
<1>6. ToSet(s) = ToSet(Tail(s)) \cup {Head(s)}
  BY <1>1, <1>3, <1>4, <1>5 DEF ToSet
<1>7. ASSUME Head(s) \in ToSet(Tail(s)) PROVE InOrder(s, Head(s), Head(s))
  <2>1. PICK k \in DOMAIN Tail(s) : Tail(s)[k] = Head(s)
    BY <1>7 DEF ToSet
  <2> QED BY <1>1, <1>4, <1>5, <2>1 DEF InOrder
<1> QED BY <1>1, <1>2, <1>6, <1>7

\* list_del takes out the entry and leaves the order of the others.
LEMMA UnlinkedFacts ==
  ASSUME NEW s \in Seq(Jobs), NEW j \in Jobs
  PROVE  /\ Unlinked(s, j) \in Seq(Jobs) /\ Within(Unlinked(s, j), s)
         /\ ~InOrder(s, j, j) => j \notin ToSet(Unlinked(s, j))
<1>1. CASE j \notin ToSet(s)
  BY <1>1 DEF Unlinked, Within
<1>2. CASE j \in ToSet(s)
  <2> DEFINE p == CHOOSE i \in DOMAIN s : s[i] = j
             t == RemoveAt(s, p)
  <2>1. p \in DOMAIN s /\ s[p] = j
    BY <1>2 DEF ToSet
  <2>2. Unlinked(s, j) = t
    BY <1>2 DEF Unlinked
  <2>3. DOMAIN s = 1 .. Len(s) /\ Len(s) \in Nat
    OBVIOUS
  <2> HIDE DEF p
  <2> DEFINE u == SubSeq(s, 1, p - 1)
             v == SubSeq(s, p + 1, Len(s))
  <2>4. /\ u \in Seq(Jobs) /\ Len(u) = p - 1
        /\ \A i \in 1 .. p - 1 : u[i] = s[i]
    BY <2>1, <2>3, SubSeqProperties
  <2>5. /\ v \in Seq(Jobs) /\ Len(v) = Len(s) - p
        /\ \A i \in 1 .. Len(s) - p : v[i] = s[p + i]
    <3>1. p + 1 \in 1 .. Len(s) + 1
      BY <2>1, <2>3
    <3>2. /\ v \in Seq(Jobs)
          /\ Len(v) = IF p + 1 <= Len(s) THEN Len(s) - (p + 1) + 1 ELSE 0
          /\ \A i \in 1 .. Len(s) - (p + 1) + 1 : v[i] = s[(p + 1) + i - 1]
      BY <2>3, <3>1, SubSeqProperties
    <3> QED BY <2>1, <2>3, <3>2
  <2>6. /\ t \in Seq(Jobs) /\ Len(t) = Len(s) - 1
        /\ \A i \in 1 .. Len(t) : t[i] = IF i < p THEN s[i] ELSE s[i + 1]
    <3>1. t = u \o v
      BY DEF RemoveAt
    <3>2. /\ t \in Seq(Jobs) /\ Len(t) = Len(u) + Len(v)
          /\ \A i \in 1 .. Len(u) + Len(v) : t[i] = IF i <= Len(u) THEN u[i] ELSE v[i - Len(u)]
      <4> HIDE DEF u, v, t
      <4> QED BY <2>4, <2>5, <3>1, ConcatProperties
    <3> HIDE DEF u, v, t
    <3>3. Len(t) = Len(s) - 1
      BY <2>1, <2>3, <2>4, <2>5, <3>2
    <3>4. ASSUME NEW i \in 1 .. Len(t)
          PROVE  t[i] = IF i < p THEN s[i] ELSE s[i + 1]
      <4>1. CASE i < p
        BY <2>1, <2>3, <2>4, <3>2, <3>3, <4>1
      <4>2. CASE ~(i < p)
        <5>1. i - (p - 1) \in 1 .. Len(s) - p /\ p + (i - (p - 1)) = i + 1
          BY <2>1, <2>3, <3>3, <4>2
        <5>2. t[i] = v[i - (p - 1)]
          BY <2>1, <2>3, <2>4, <2>5, <3>2, <4>2
        <5> QED BY <2>5, <4>2, <5>1, <5>2
      <4> QED BY <4>1, <4>2
    <3> QED BY <3>2, <3>3, <3>4
  <2> DEFINE at0(i) == IF i < p THEN i ELSE i + 1
  <2>7. \A i \in DOMAIN t : at0(i) \in DOMAIN s /\ t[i] = s[at0(i)] /\ at0(i) # p
    <3> HIDE DEF t
    <3> QED BY <2>1, <2>3, <2>6
  <2>8. \A m, n \in DOMAIN t : m < n => at0(m) < at0(n)
    <3> HIDE DEF t
    <3> QED BY <2>1, <2>3, <2>6
  <2> HIDE DEF t, at0
  <2>9. Within(t, s)
    BY <2>7, <2>8 DEF Within, InOrder, ToSet
  <2>10. ASSUME j \in ToSet(t) PROVE InOrder(s, j, j)
    <3>1. PICK i \in DOMAIN t : t[i] = j
      BY <2>10 DEF ToSet
    <3>2. at0(i) \in DOMAIN s /\ s[at0(i)] = j /\ at0(i) # p
      BY <2>7, <3>1
    <3>3. at0(i) < p \/ p < at0(i)
      BY <2>1, <2>3, <3>2
    <3> QED BY <2>1, <3>2, <3>3 DEF InOrder
  <2> QED BY <2>2, <2>6, <2>9, <2>10
<1> QED BY <1>1, <1>2

(***************************************************************************)
(* What the steps of several actions have in common.                       *)
(***************************************************************************)

\* Calls, cores and no job are different things.
LEMMA Apart ==
  /\ Procs = Jobs \cup Cores /\ Jobs \cap Cores = {}
  /\ NoJob \notin Jobs /\ NoJob \notin Cores
  BY JobAssumption DEF Procs

\* A process in rknpu_job_next looks at a core.
LEMMA CoreAtHand ==
  ASSUME TypeInv, PlaceInv, NEW p \in Procs, at[p] \in {"next", "commit"}
  PROVE  /\ CoreOf(p) \in Cores
         /\ p \in Cores => CoreOf(p) = p
         /\ p \in Jobs => left[p] # {} /\ left[p] \subseteq Cores
                            /\ CoreOf(p) = MinCore(left[p]) /\ CoreOf(p) \in left[p]
<1>1. CASE p \in Cores
  BY <1>1, Apart DEF CoreOf
<1>2. CASE p \in Jobs
  <2>1. left[p] # {} /\ left[p] \in SUBSET Cores /\ p \notin Cores
    BY <1>2, Apart DEF PlaceInv, TypeInv
  <2> QED BY <1>2, <2>1, FirstCore DEF CoreOf
<1> QED BY <1>1, <1>2, Apart

LEMMA AfterNextFacts ==
  ASSUME TypeOK, TypeInv, PlaceInv, NEW p \in Procs, at[p] \in {"next", "commit"},
         AfterNext(p)
  PROVE  /\ \A q \in Procs \ {p} : at'[q] = at[q]
         /\ p \in Cores => left' = left /\ at'[p] = "idle"
         /\ p \in Jobs => /\ at'[p] \in {"next", "out", "wait"}
                          /\ at'[p] = "next" => left'[p] # {}
                          /\ at'[p] = "out" => job[p].nonblock
                          /\ at'[p] = "wait" => ~job[p].nonblock
         /\ at' \in [Procs -> Places \cup IrqPlaces] /\ left' \in [Jobs -> SUBSET Cores]
         /\ \A j \in Jobs \ {p} : left'[j] = left[j]
<1>0. at \in [Procs -> Places \cup IrqPlaces] /\ left \in [Jobs -> SUBSET Cores]
  BY DEF TypeOK, TypeInv, Places, IrqPlaces
<1>1. CASE p \in Cores
  <2>1. left' = left /\ at' = [at EXCEPT ![p] = "idle"] /\ p \notin Jobs
    BY <1>1, Apart DEF AfterNext, Goto
  <2> QED BY <1>0, <1>1, <2>1 DEF IrqPlaces
<1>2. CASE p \in Jobs
  <2> DEFINE rest == left[p] \ {MinCore(left[p])}
             place == IF left[p] # {MinCore(left[p])} THEN "next"
                      ELSE IF job[p].nonblock THEN "out" ELSE "wait"
  <2>1. left' = [left EXCEPT ![p] = rest] /\ at' = [at EXCEPT ![p] = place] /\ p \notin Cores
    BY <1>2, Apart DEF AfterNext, Goto
  <2>2. left[p] \subseteq Cores /\ MinCore(left[p]) \in left[p]
    BY <1>2, CoreAtHand
  <2>3. rest \subseteq Cores /\ (place = "next" => rest # {})
    BY <2>2
  <2>4. place \in {"next", "out", "wait"}
    OBVIOUS
  <2>5. /\ place = "out" => job[p].nonblock
        /\ place = "wait" => ~job[p].nonblock
    OBVIOUS
  <2> HIDE DEF rest, place
  <2> QED BY <1>0, <1>2, <2>1, <2>3, <2>4, <2>5 DEF Places
<1> QED BY <1>1, <1>2, Apart

\* Taking and telling the end of a job is only done as often as it has cores.
LEMMA CommitCounts ==
  ASSUME TypeOK, TypeInv, PlaceInv, NEW p \in Procs, at[p] = "commit", CountInv(held[p])
  PROVE  /\ held[p] \in Jobs /\ Taking(p, CoreOf(p), held[p])
         /\ CoreOf(p) \in Pending(held[p]) /\ job[held[p]].run_count >= 1
<1> DEFINE j == held[p]
           c == CoreOf(p)
<1>1. j \in Jobs
  BY Apart DEF TypeOK, PlaceInv
<1>2. Taking(p, c, j) /\ c \in Cores
  BY CoreAtHand DEF Taking
<1>3. c \in Pending(j) /\ Pending(j) \in SUBSET Cores
  BY <1>2 DEF Pending
<1>4. Cardinality(Pending(j)) >= 1
  <2>1. Cardinality({c}) <= Cardinality(Pending(j)) /\ Cardinality(Pending(j)) \in Nat
    BY <1>3, CoreSets
  <2>2. Cardinality({c}) = 1
    BY FS_Singleton
  <2> QED BY <2>1, <2>2
<1>5. job[j].run_count \in Nat /\ Cardinality(Pending(j)) \in Nat
  BY <1>1, <1>3, CoreSets, CoresNumbered DEF TypeInv, JobRecord
<1> QED BY <1>1, <1>2, <1>3, <1>4, <1>5 DEF CountInv

LEMMA DoneCounts ==
  ASSUME TypeOK, TypeInv, NEW c \in Cores, held[c] # NoJob, CountInv(held[c])
  PROVE  /\ held[c] \in Jobs /\ c \in Remaining(held[c])
         /\ job[held[c]].interrupt_count >= 1
<1> DEFINE j == held[c]
<1>1. j \in Jobs
  BY Apart DEF TypeOK
<1>3. c \in Remaining(j) /\ Remaining(j) \in SUBSET Cores
  BY DEF Remaining
<1>4. Cardinality(Remaining(j)) >= 1
  <2>1. Cardinality({c}) <= Cardinality(Remaining(j)) /\ Cardinality(Remaining(j)) \in Nat
    BY <1>3, CoreSets
  <2>2. Cardinality({c}) = 1
    BY FS_Singleton
  <2> QED BY <2>1, <2>2
<1>5. job[j].interrupt_count \in Nat /\ Cardinality(Remaining(j)) \in Nat
  BY <1>1, <1>3, CoreSets, CoresNumbered DEF TypeInv, JobRecord
<1> QED BY <1>1, <1>3, <1>4, <1>5 DEF CountInv

(***************************************************************************)
(* The order on the cores.                                                 *)
(***************************************************************************)

LineOf(r, s) == IF r = NoJob THEN s ELSE <<r>> \o s

LEMMA LineElements ==
  ASSUME NEW r \in Jobs, NEW s \in Seq(Jobs)
  PROVE  /\ <<r>> \o s \in Seq(Jobs)
         /\ DOMAIN (<<r>> \o s) = 1 .. Len(s) + 1 /\ DOMAIN s = 1 .. Len(s) /\ Len(s) \in Nat
         /\ (<<r>> \o s)[1] = r
         /\ \A i \in DOMAIN s : i + 1 \in DOMAIN (<<r>> \o s) /\ (<<r>> \o s)[i + 1] = s[i]
         /\ \A n \in DOMAIN (<<r>> \o s) : n = 1 \/ (n - 1 \in DOMAIN s /\ (<<r>> \o s)[n] = s[n - 1])
<1> DEFINE x == <<r>>
           t == x \o s
<1>1. x \in Seq(Jobs) /\ Len(x) = 1 /\ x[1] = r
  OBVIOUS
<1>2. Len(s) \in Nat /\ DOMAIN s = 1 .. Len(s)
  OBVIOUS
<1>3. /\ t \in Seq(Jobs) /\ Len(t) = Len(x) + Len(s)
      /\ \A i \in 1 .. Len(x) + Len(s) : t[i] = IF i <= Len(x) THEN x[i] ELSE s[i - Len(x)]
  <2> HIDE DEF x
  <2> QED BY <1>1, ConcatProperties
<1> HIDE DEF x, t
<1>4. Len(t) = Len(s) + 1 /\ DOMAIN t = 1 .. Len(s) + 1
  BY <1>1, <1>2, <1>3
<1>5. t[1] = r
  BY <1>1, <1>2, <1>3
<1>6. \A n \in DOMAIN t : n = 1 \/ (n - 1 \in DOMAIN s /\ t[n] = s[n - 1])
  BY <1>1, <1>2, <1>3, <1>4
<1>7. ASSUME NEW i \in DOMAIN s
      PROVE  i + 1 \in DOMAIN t /\ t[i + 1] = s[i]
  <2>1. i + 1 \in DOMAIN t /\ i + 1 # 1 /\ (i + 1) - 1 = i
    BY <1>2, <1>4
  <2> QED BY <1>6, <2>1
<1> QED BY <1>2, <1>3, <1>4, <1>5, <1>6, <1>7 DEF t, x

\* A job in front of a queue is before everything in it.
LEMMA LineOrder ==
  ASSUME NEW r \in Jobs, NEW s \in Seq(Jobs), NEW j \in Jobs, NEW k \in Jobs
  PROVE  InOrder(<<r>> \o s, j, k) <=> InOrder(s, j, k) \/ (j = r /\ k \in ToSet(s))
<1> DEFINE t == <<r>> \o s
<1>1. /\ t \in Seq(Jobs)
      /\ DOMAIN t = 1 .. Len(s) + 1 /\ DOMAIN s = 1 .. Len(s) /\ Len(s) \in Nat
      /\ t[1] = r
      /\ \A i \in DOMAIN s : i + 1 \in DOMAIN t /\ t[i + 1] = s[i]
      /\ \A n \in DOMAIN t : n = 1 \/ (n - 1 \in DOMAIN s /\ t[n] = s[n - 1])
  BY LineElements
<1> HIDE DEF t
<1>2. ASSUME InOrder(t, j, k) PROVE InOrder(s, j, k) \/ (j = r /\ k \in ToSet(s))
  <2>1. PICK m \in DOMAIN t, n \in DOMAIN t : m < n /\ t[m] = j /\ t[n] = k
    BY <1>2 DEF InOrder
  <2>2. n - 1 \in DOMAIN s /\ s[n - 1] = k
    BY <1>1, <2>1
  <2>3. CASE m = 1
    BY <1>1, <2>1, <2>2, <2>3 DEF ToSet
  <2>4. CASE m # 1
    <3>1. m - 1 \in DOMAIN s /\ s[m - 1] = j /\ m - 1 < n - 1
      BY <1>1, <2>1, <2>4
    <3> QED BY <2>2, <3>1 DEF InOrder
  <2> QED BY <2>3, <2>4
<1>3. ASSUME InOrder(s, j, k) PROVE InOrder(t, j, k)
  <2>1. PICK m \in DOMAIN s, n \in DOMAIN s : m < n /\ s[m] = j /\ s[n] = k
    BY <1>3 DEF InOrder
  <2>2. /\ m + 1 \in DOMAIN t /\ n + 1 \in DOMAIN t /\ m + 1 < n + 1
        /\ t[m + 1] = j /\ t[n + 1] = k
    BY <1>1, <2>1
  <2> QED BY <2>2 DEF InOrder
<1>4. ASSUME j = r, k \in ToSet(s) PROVE InOrder(t, j, k)
  <2>1. PICK n \in DOMAIN s : s[n] = k
    BY <1>4 DEF ToSet
  <2>2. /\ 1 \in DOMAIN t /\ n + 1 \in DOMAIN t /\ 1 < n + 1
        /\ t[1] = j /\ t[n + 1] = k
    BY <1>1, <1>4, <2>1
  <2> QED BY <2>2 DEF InOrder
<1> QED BY <1>2, <1>3, <1>4 DEF t

LEMMA BeforeIsInOrder ==
  ASSUME NEW c \in Cores, NEW j \in Jobs, NEW k \in Jobs
  PROVE  Before(c, j, k) <=> InOrder(LineOf(running[c], todo_list[c]), j, k)
  BY DEF Before, InOrder, Line, LineOf

\* No job is twice on its way to a core.
LEMMA OnceInLine ==
  ASSUME TypeOK, TypeInv, ConsistentOrder, NEW c \in Cores, NEW j \in Jobs
  PROVE  /\ ~InOrder(todo_list[c], j, j)
         /\ running[c] = j => j \notin ToSet(todo_list[c])
<1>1. todo_list[c] \in Seq(Jobs) /\ running[c] \in Jobs \cup {NoJob}
  BY DEF TypeOK, TypeInv
<1>2. ~Before(c, j, j)
  <2>1. {j} \in (SUBSET Jobs) \ {{}}
    OBVIOUS
  <2>2. \E i \in {j} : \A k \in {j} : \A d \in Cores : ~Before(d, k, i)
    BY <2>1 DEF ConsistentOrder
  <2> QED BY <2>2
<1>3. CASE running[c] = NoJob
  BY <1>2, <1>3, BeforeIsInOrder, Apart DEF LineOf
<1>4. CASE running[c] # NoJob
  <2>1. LineOf(running[c], todo_list[c]) = <<running[c]>> \o todo_list[c]
    BY <1>4 DEF LineOf
  <2>2. ~InOrder(<<running[c]>> \o todo_list[c], j, j)
    BY <1>2, <2>1, BeforeIsInOrder
  <2>3. ~(InOrder(todo_list[c], j, j) \/ (j = running[c] /\ j \in ToSet(todo_list[c])))
    BY <1>1, <1>4, <2>2, LineOrder
  <2> QED BY <2>3
<1> QED BY <1>3, <1>4

\* Without a new pair of jobs there is no new circle.
LEMMA NoNewPair ==
  ASSUME ConsistentOrder,
         \A c \in Cores, j, k \in Jobs : Before(c, j, k)' => Before(c, j, k)
  PROVE  ConsistentOrder'
<1> SUFFICES ASSUME NEW S \in (SUBSET Jobs) \ {{}}
             PROVE  \E j \in S : \A k \in S : \A c \in Cores : ~Before(c, k, j)'
  BY DEF ConsistentOrder
<1>1. PICK j \in S : \A k \in S : \A c \in Cores : ~Before(c, k, j)
  BY DEF ConsistentOrder
<1>2. \A k \in S : \A c \in Cores : ~Before(c, k, j)'
  BY <1>1
<1> QED BY <1>2

\* Whatever leaves the queues and the cores, the order of the others stays.
LEMMA OrderKept ==
  ASSUME TypeOK, TypeInv, TypeOK', TypeInv', ConsistentOrder,
         \A c \in Cores : Within(todo_list'[c], todo_list[c]),
         \A c \in Cores : running'[c] = running[c] \/ running'[c] = NoJob
  PROVE  ConsistentOrder'
<1>1. ASSUME NEW c \in Cores, NEW j \in Jobs, NEW k \in Jobs, Before(c, j, k)'
      PROVE  Before(c, j, k)
  <2> DEFINE r == running[c]
             s == todo_list[c]
             u == running'[c]
             t == todo_list'[c]
  <2>1. r \in Jobs \cup {NoJob} /\ s \in Seq(Jobs) /\ t \in Seq(Jobs) /\ (u = r \/ u = NoJob)
    BY DEF TypeOK, TypeInv
  <2>2. InOrder(LineOf(u, t), j, k)
    BY <1>1 DEF Before, InOrder, Line, LineOf
  <2>3. Within(t, s)
    OBVIOUS
  <2>k. SUFFICES InOrder(LineOf(r, s), j, k)
    BY BeforeIsInOrder
  <2> HIDE DEF r, s, u, t
  <2>4. CASE r = NoJob
    BY <2>1, <2>2, <2>3, <2>4 DEF LineOf, Within
  <2>5. CASE r # NoJob /\ u = NoJob
    <3>1. InOrder(s, j, k)
      BY <2>2, <2>3, <2>5 DEF LineOf, Within
    <3>2. InOrder(<<r>> \o s, j, k)
      BY <2>1, <2>5, <3>1, LineOrder
    <3> QED BY <2>5, <3>2 DEF LineOf
  <2>6. CASE r # NoJob /\ u = r
    <3>1. InOrder(<<r>> \o t, j, k)
      BY <2>2, <2>6 DEF LineOf
    <3>2. InOrder(t, j, k) \/ (j = r /\ k \in ToSet(t))
      BY <2>1, <2>6, <3>1, LineOrder
    <3>3. InOrder(s, j, k) \/ (j = r /\ k \in ToSet(s))
      BY <2>3, <3>2 DEF Within
    <3>4. InOrder(<<r>> \o s, j, k)
      BY <2>1, <2>6, <3>3, LineOrder
    <3> QED BY <2>6, <3>4 DEF LineOf
  <2> QED BY <2>1, <2>4, <2>5, <2>6
<1> QED BY <1>1, NoNewPair

(***************************************************************************)
(* What a step leaves as it was.                                           *)
(***************************************************************************)

JobInv(j) == UnqueuedInv(j) /\ OnceInv(j) /\ CountInv(j) /\ FateInv(j) /\ LeavingInv(j)

\* The step changes nothing of a job's record, but for its result.
Steady(j) ==
  /\ job'[j].cores = job[j].cores /\ job'[j].domain = job[j].domain
  /\ job'[j].nonblock = job[j].nonblock /\ job'[j].batches = job[j].batches
  /\ job'[j].run_count = job[j].run_count
  /\ job'[j].interrupt_count = job[j].interrupt_count
  /\ job'[j].submit_count = job[j].submit_count
  /\ job'[j].committed = job[j].committed /\ job'[j].done = job[j].done
  /\ job'[j].irq_entry = job[j].irq_entry

\* The step takes the job to no queue, core or process, and starts it nowhere.
Fewer(j) ==
  \A c \in Cores :
    /\ j \in ToSet(todo_list'[c]) => j \in ToSet(todo_list[c])
    /\ running'[c] = j => running[c] = j
    /\ held'[c] = j => held[c] = j /\ at'[c] = at[c]
    /\ \A p \in Procs : Taking(p, c, j)' => Taking(p, c, j)
Unheld(j) == \A p \in Procs : held'[p] = j => held[p] = j
Idler(j) == \A c \in Cores : engine'[c] = j => engine[c] = j

\* The call of the job stays where it is, and nobody frees the job.
Still(j) ==
  /\ at'[j] = at[j] /\ held'[j] = held[j]
  /\ j \in work' => j \in work
  /\ j \in freed' <=> j \in freed

Grown == mishaps \subseteq mishaps'

LEMMA CleanBefore ==
  ASSUME Grown, NEW S, Clean(S)'
  PROVE  Clean(S)
  BY DEF Grown, Clean

LEMMA FewerPlaces ==
  ASSUME NEW j \in Jobs, Fewer(j)
  PROVE  Pending(j)' \subseteq Pending(j) /\ Remaining(j)' \subseteq Remaining(j)
  BY DEF Fewer, Pending, Remaining

LEMMA OnceKept ==
  ASSUME NEW j \in Jobs, OnceInv(j), Fewer(j),
         \A c \in Cores : engine'[c] = j => engine[c] = j \/ c \in job[j].cores,
         job'[j].cores = job[j].cores, job'[j].batches = job[j].batches,
         job'[j].submit_count = job[j].submit_count,
         job[j].irq_entry \subseteq job'[j].irq_entry
  PROVE  OnceInv(j)'
<1>1. Pending(j)' \cup Remaining(j)' \subseteq job'[j].cores
  BY FewerPlaces DEF OnceInv
<1>2. ASSUME NEW c \in Cores
      PROVE  (/\ j \in ToSet(todo_list[c]) =>
                   held[c] # j /\ \A p \in Procs : ~Taking(p, c, j)
              /\ \A p, q \in Procs : Taking(p, c, j) /\ Taking(q, c, j) => p = q
              /\ engine[c] = j => c \in job[j].cores
              /\ held[c] = j /\ at[c] = "done" => running[c] # j
              /\ held[c] = j /\ at[c] = "status" => c \in job[j].irq_entry
              /\ (\/ j \in ToSet(todo_list[c]) \/ running[c] = j
                  \/ held[c] = j /\ at[c] = "status")
                 => job[j].submit_count[c] < job[j].batches)'
  <2>1. /\ j \in ToSet(todo_list'[c]) => j \in ToSet(todo_list[c])
        /\ running'[c] = j => running[c] = j
        /\ held'[c] = j => held[c] = j /\ at'[c] = at[c]
        /\ \A p \in Procs : Taking(p, c, j)' => Taking(p, c, j)
        /\ engine'[c] = j => engine[c] = j \/ c \in job[j].cores
    BY DEF Fewer
  <2>2. /\ j \in ToSet(todo_list[c]) =>
             held[c] # j /\ \A p \in Procs : ~Taking(p, c, j)
        /\ \A p, q \in Procs : Taking(p, c, j) /\ Taking(q, c, j) => p = q
        /\ engine[c] = j => c \in job[j].cores
        /\ held[c] = j /\ at[c] = "done" => running[c] # j
        /\ held[c] = j /\ at[c] = "status" => c \in job[j].irq_entry
        /\ (\/ j \in ToSet(todo_list[c]) \/ running[c] = j
            \/ held[c] = j /\ at[c] = "status")
           => job[j].submit_count[c] < job[j].batches
    BY DEF OnceInv
  <2> QED BY <2>1, <2>2
<1> QED BY <1>1, <1>2 DEF OnceInv

LEMMA CountKept ==
  ASSUME TypeInv, NEW j \in Jobs, CountInv(j),
         Pending(j)' \subseteq Pending(j), Remaining(j)' \subseteq Remaining(j),
         job'[j].run_count = job[j].run_count,
         job'[j].interrupt_count = job[j].interrupt_count,
         job'[j].committed = job[j].committed, job'[j].done = job[j].done
  PROVE  CountInv(j)'
<1>1. Pending(j) \in SUBSET Cores /\ Remaining(j) \in SUBSET Cores
  BY DEF Pending, Remaining
<1>2. /\ Cardinality(Pending(j)') <= Cardinality(Pending(j))
      /\ Cardinality(Pending(j)) \in Nat
      /\ Cardinality(Pending(j)') \in Nat
      /\ Cardinality(Remaining(j)') <= Cardinality(Remaining(j))
      /\ Cardinality(Remaining(j)) \in Nat
      /\ Cardinality(Remaining(j)') \in Nat
  <2>1. Pending(j)' \in SUBSET Pending(j) /\ Remaining(j)' \in SUBSET Remaining(j)
    OBVIOUS
  <2>2. Pending(j)' \in SUBSET Cores /\ Remaining(j)' \in SUBSET Cores
    BY <1>1, <2>1
  <2> QED BY <1>1, <2>1, <2>2, CoreSets, CoresNumbered
<1>3. job[j].run_count \in Nat /\ job[j].interrupt_count \in Nat
  BY CoresNumbered DEF TypeInv, JobRecord
<1> QED BY <1>2, <1>3 DEF CountInv

LEMMA UnqueuedKept ==
  ASSUME NEW j \in Jobs, UnqueuedInv(j), Unqueued(j)' => Unqueued(j),
         Unqueued(j) => Unheld(j), Fewer(j), Idler(j), Steady(j),
         j \in work' => j \in work, j \in freed' => j \in freed
  PROVE  UnqueuedInv(j)'
  BY FewerPlaces DEF UnqueuedInv, Unheld, Idler, Steady

LEMMA FateKept ==
  ASSUME NEW j \in Jobs, FateInv(j), Still(j), Grown,
         job'[j].nonblock = job[j].nonblock, job[j].done => job'[j].done
  PROVE  FateInv(j)'
  BY CleanBefore DEF FateInv, Still

LEMMA LeavingKept ==
  ASSUME NEW j \in Jobs, LeavingInv(j), Still(j), Grown, Fewer(j)
  PROVE  LeavingInv(j)'
  BY CleanBefore, FewerPlaces DEF LeavingInv, Still, Fewer

\* A job that has no part in the step.
LEMMA OtherKept ==
  ASSUME TypeInv, NEW j \in Jobs, JobInv(j), Still(j), Grown, Fewer(j), Idler(j), Steady(j),
         Unqueued(j) => Unheld(j)
  PROVE  JobInv(j)'
<1>1. UnqueuedInv(j)'
  <2>1. Unqueued(j)' => Unqueued(j)
    BY DEF Unqueued, Still
  <2> QED BY <2>1, UnqueuedKept DEF JobInv, Still
<1>2. OnceInv(j)'
  BY OnceKept DEF JobInv, Steady, Idler
<1>3. CountInv(j)'
  BY CountKept, FewerPlaces DEF JobInv, Steady
<1>4. FateInv(j)'
  BY FateKept DEF JobInv, Steady
<1>5. LeavingInv(j)'
  BY LeavingKept DEF JobInv
<1> QED BY <1>1, <1>2, <1>3, <1>4, <1>5 DEF JobInv

\* The record of a job that has not been queued may still change.
Fresh(j) ==
  /\ \A c \in Cores : running[c] # j /\ held'[c] # j
  /\ job'[j].cores \subseteq Cores
  /\ job'[j].interrupt_count = Cardinality(job'[j].cores)

\* Nothing happens on the cores.
LEMMA EngineKept ==
  ASSUME TypeInv, TypeOK, EngineInv, Grown,
         \A c \in Cores : engine'[c] = engine[c] /\ irq'[c] = irq[c] /\ running'[c] = running[c],
         \A c \in Cores : at'[c] \in {"status", "done"} => at'[c] = at[c] /\ held'[c] = held[c],
         \A c \in Cores : at'[c] = "done" => held'[c] \in Jobs,
         \A j \in Jobs : Fresh(j) \/ (Steady(j) /\ Remaining(j)' \subseteq Remaining(j))
  PROVE  EngineInv'
<1> SUFFICES ASSUME Clean({"overlap", "overdue"})'
             PROVE  (/\ \A c \in Cores :
                         /\ engine[c] # NoJob => irq[c] = "none"
                         /\ at[c] = "status" => running[c] = held[c]
                         /\ running[c] # NoJob /\ ~job[running[c]].committed =>
                              engine[c] = NoJob /\ irq[c] = "none" /\ at[c] # "status"
                         /\ at[c] = "done" => /\ engine[c] # held[c]
                                              /\ job[held[c]].submit_count[c] = job[held[c]].batches
                     /\ \A j \in Jobs : job[j].interrupt_count >= Cardinality(Due(j)))'
  BY DEF EngineInv
<1>1. /\ \A c \in Cores :
           /\ engine[c] # NoJob => irq[c] = "none"
           /\ at[c] = "status" => running[c] = held[c]
           /\ running[c] # NoJob /\ ~job[running[c]].committed =>
                engine[c] = NoJob /\ irq[c] = "none" /\ at[c] # "status"
           /\ at[c] = "done" => /\ engine[c] # held[c]
                                /\ job[held[c]].submit_count[c] = job[held[c]].batches
      /\ \A j \in Jobs : job[j].interrupt_count >= Cardinality(Due(j))
  BY CleanBefore DEF EngineInv
<1>2. ASSUME NEW c \in Cores
      PROVE  (/\ engine[c] # NoJob => irq[c] = "none"
              /\ at[c] = "status" => running[c] = held[c]
              /\ running[c] # NoJob /\ ~job[running[c]].committed =>
                   engine[c] = NoJob /\ irq[c] = "none" /\ at[c] # "status"
              /\ at[c] = "done" => /\ engine[c] # held[c]
                                   /\ job[held[c]].submit_count[c] = job[held[c]].batches)'
  <2>1. /\ engine'[c] = engine[c] /\ irq'[c] = irq[c] /\ running'[c] = running[c]
        /\ at'[c] \in {"status", "done"} => at'[c] = at[c] /\ held'[c] = held[c]
    OBVIOUS
  <2>2. running[c] # NoJob => job'[running[c]].committed = job[running[c]].committed
    BY DEF Fresh, Steady, TypeOK
  <2>3. at'[c] = "done" => /\ job'[held[c]].submit_count = job[held[c]].submit_count
                           /\ job'[held[c]].batches = job[held[c]].batches
    BY DEF Fresh, Steady
  <2> QED BY <1>1, <2>1, <2>2, <2>3
<1>3. ASSUME NEW j \in Jobs
      PROVE  job'[j].interrupt_count >= Cardinality(Due(j)')
  <2>1. CASE Fresh(j)
    <3>1. Due(j)' \in SUBSET job'[j].cores /\ job'[j].cores \in SUBSET Cores
      BY <2>1 DEF Due, Fresh
    <3>2. Cardinality(Due(j)') <= Cardinality(job'[j].cores)
      BY <3>1, CoreSets
    <3>3. Cardinality(Due(j)') \in Nat /\ Cardinality(job'[j].cores) \in Nat
      BY <3>1, CoreSets, CoresNumbered
    <3> QED BY <2>1, <3>2, <3>3 DEF Fresh
  <2>2. CASE Steady(j) /\ Remaining(j)' \subseteq Remaining(j)
    <3>2. Due(j) \in SUBSET Cores /\ job[j].cores \in SUBSET Cores
      BY DEF Due, TypeInv, JobRecord
    <3>1. Due(j)' \in SUBSET Due(j)
      BY <2>2, <3>2 DEF Due, Steady
    <3>3. Cardinality(Due(j)') <= Cardinality(Due(j))
      BY <3>1, <3>2, CoreSets
    <3>4. Cardinality(Due(j)') \in Nat /\ Cardinality(Due(j)) \in Nat
      BY <3>1, <3>2, CoreSets, CoresNumbered
    <3>5. job[j].interrupt_count \in Nat
      BY CoresNumbered DEF TypeInv, JobRecord
    <3> QED BY <1>1, <2>2, <3>3, <3>4, <3>5 DEF Steady
  <2> QED BY <2>1, <2>2
<1> QED BY <1>2, <1>3

\* Nobody takes or gives back a reference to the domain.
LEMMA DomainKept ==
  ASSUME DomainInv, Grown, UNCHANGED domainVars,
         \A j \in Jobs : j \in Holders' <=> j \in Holders,
         \A j \in Holders : job'[j].domain = job[j].domain
  PROVE  DomainInv'
<1>1. Holders' = Holders
  BY DEF Holders
<1> QED BY <1>1, CleanBefore DEF DomainInv, domainVars

LEMMA HolderKept ==
  ASSUME NEW j \in Jobs, Still(j), Steady(j)
  PROVE  j \in Holders' <=> j \in Holders
  BY DEF Holders, Still, Steady

\* The call of j does something that takes no job anywhere.
Acts(j) ==
  /\ \A q \in Procs \ {j} : at'[q] = at[q] /\ held'[q] = held[q]
  /\ \A q \in Jobs \ {j} : left'[q] = left[q]
  /\ at'[j] # "commit"
  /\ \A c \in Cores : /\ ToSet(todo_list'[c]) \subseteq ToSet(todo_list[c])
                      /\ running'[c] = running[c] \/ running'[c] = NoJob
                      /\ engine'[c] = engine[c] \/ engine'[c] = NoJob

\* It gives no other job to cleanup_work and frees none.
Spares(j) ==
  /\ Grown
  /\ \A k \in Jobs \ {j} : /\ job'[k] = job[k]
                           /\ k \in work' => k \in work
                           /\ k \in freed' <=> k \in freed

LEMMA ActsFewer ==
  ASSUME NEW j \in Jobs, Acts(j), NEW k \in Jobs
  PROVE  Fewer(k) /\ Idler(k)
<1>1. ASSUME NEW p \in Procs, NEW c \in Cores, Taking(p, c, k)'
      PROVE  Taking(p, c, k)
  <2>1. p # j
    BY <1>1 DEF Taking, Acts
  <2>2. at'[p] = at[p] /\ held'[p] = held[p]
    BY <2>1 DEF Acts
  <2>3. CoreOf(p)' = CoreOf(p)
    BY <2>1, Apart DEF Acts, CoreOf
  <2> QED BY <1>1, <2>2, <2>3 DEF Taking
<1>2. \A c \in Cores : at'[c] = at[c] /\ held'[c] = held[c]
  BY Apart DEF Acts
<1>3. \A c \in Cores : /\ k \in ToSet(todo_list'[c]) => k \in ToSet(todo_list[c])
                       /\ running'[c] = k => running[c] = k
                       /\ engine'[c] = k => engine[c] = k
  BY Apart DEF Acts
<1> QED BY <1>1, <1>2, <1>3 DEF Fewer, Idler

LEMMA OthersKept ==
  ASSUME TypeInv, \A k \in Jobs : JobInv(k), NEW j \in Jobs, Acts(j), Spares(j),
         NEW k \in Jobs, k # j, Unqueued(k) => held'[j] # k
  PROVE  /\ JobInv(k)' /\ Steady(k)
         /\ k \in Holders' <=> k \in Holders
<1>1. Steady(k) /\ Still(k) /\ Grown
  BY Apart DEF Spares, Acts, Steady, Still
<1>2. Unqueued(k) => Unheld(k)
  <2>1. Unqueued(k) => \A p \in Procs : held[p] # k
    BY DEF JobInv, UnqueuedInv
  <2> QED BY <2>1 DEF Acts, Unheld
<1> QED BY <1>1, <1>2, ActsFewer, OtherKept, HolderKept

\* The five parts together.
LEMMA InvByJobs ==
  ASSUME TypeOK', TypeInv', PlaceInv', \A k \in Jobs : JobInv(k)',
         ConsistentOrder', EngineInv', DomainInv'
  PROVE  IInv'
  BY DEF IInv, JobInv

LEMMA InvParts ==
  ASSUME IInv
  PROVE  /\ TypeOK /\ TypeInv /\ PlaceInv /\ \A k \in Jobs : JobInv(k)
         /\ ConsistentOrder /\ EngineInv /\ DomainInv
  BY DEF IInv, JobInv

LEMMA WithinItself == \A s : Within(s, s)
  BY DEF Within

\* The invariant after a step of j follows from what is said about j.
LEMMA ActStep ==
  ASSUME IInv, NEW j \in Jobs, Acts(j), Spares(j), TypeOK', TypeInv', PlaceInv',
         \A k \in Jobs : Unqueued(k) => held'[j] # k,
         \A c \in Cores : Within(todo_list'[c], todo_list[c]),
         JobInv(j)', EngineInv', DomainInv'
  PROVE  IInv'
<1>1. \A k \in Jobs \ {j} : JobInv(k)'
  BY InvParts, OthersKept
<1>2. ConsistentOrder'
  BY InvParts, OrderKept DEF Acts
<1> QED BY <1>1, <1>2, InvByJobs

LEMMA ActEngine ==
  ASSUME IInv, NEW j \in Jobs, Acts(j), Spares(j),
         engine' = engine, irq' = irq, running' = running,
         \A k \in Jobs : Unqueued(k) => held'[j] # k,
         Fresh(j) \/ Steady(j)
  PROVE  EngineInv'
<1>1. /\ TypeOK /\ TypeInv /\ PlaceInv /\ \A k \in Jobs : JobInv(k)
      /\ EngineInv
  BY InvParts
<1>2. \A k \in Jobs : Remaining(k)' \subseteq Remaining(k)
  BY ActsFewer, FewerPlaces
<1>3. \A k \in Jobs \ {j} : Steady(k)
  BY <1>1, OthersKept
<1>4. \A c \in Cores : at'[c] = at[c] /\ held'[c] = held[c]
  BY Apart DEF Acts
<1>5. \A c \in Cores : at'[c] = "done" => held'[c] \in Jobs
  BY <1>1, <1>4, Apart DEF PlaceInv, TypeOK
<1> QED BY <1>1, <1>2, <1>3, <1>4, <1>5, EngineKept DEF Spares

LEMMA ActDomain ==
  ASSUME IInv, NEW j \in Jobs, Acts(j), Spares(j), UNCHANGED domainVars,
         \A k \in Jobs : Unqueued(k) => held'[j] # k,
         j \in Holders' <=> j \in Holders, j \in Holders => job'[j].domain = job[j].domain
  PROVE  DomainInv'
<1>1. \A k \in Jobs \ {j} : Steady(k) /\ (k \in Holders' <=> k \in Holders)
  BY InvParts, OthersKept
<1>2. \A k \in Jobs : k \in Holders' <=> k \in Holders
  BY <1>1
<1>3. \A k \in Holders : job'[k].domain = job[k].domain
  BY <1>1 DEF Holders, Steady
<1> QED BY <1>2, <1>3, InvParts, DomainKept DEF Spares

\* Where j was not queued before, it has nothing on the way.
LEMMA NothingOnTheWay ==
  ASSUME NEW j \in Jobs, UnqueuedInv(j), Unqueued(j), Fewer(j), Idler(j)
  PROVE  /\ Pending(j)' = {} /\ Remaining(j)' = {}
         /\ \A c \in Cores :
              /\ j \notin ToSet(todo_list'[c]) /\ running'[c] # j /\ held'[c] # j
              /\ engine'[c] # j /\ \A p \in Procs : ~Taking(p, c, j)'
         /\ OnceInv(j)'
<1>1. Pending(j)' = {} /\ Remaining(j)' = {}
  BY FewerPlaces DEF UnqueuedInv
<1>2. \A c \in Cores :
        /\ j \notin ToSet(todo_list'[c]) /\ running'[c] # j /\ held'[c] # j
        /\ engine'[c] # j /\ \A p \in Procs : ~Taking(p, c, j)'
  BY <1>1 DEF Pending, Remaining, Idler, UnqueuedInv
<1> QED BY <1>1, <1>2 DEF OnceInv

\* The counts of a job that has nothing on the way.
LEMMA NothingCounted ==
  ASSUME NEW j \in Jobs, Pending(j)' = {}, Remaining(j)' = {}, job'[j] \in JobRecord,
         ~job'[j].committed, ~job'[j].done
  PROVE  CountInv(j)'
<1>1. Cardinality({}) = 0
  BY FS_EmptySet
<1>2. job'[j].run_count \in Nat /\ job'[j].interrupt_count \in Nat
  BY CoresNumbered DEF JobRecord
<1> QED BY <1>1, <1>2 DEF CountInv

\* What does not depend on the place of j.
LEMMA ActSteady ==
  ASSUME IInv, NEW j \in Jobs, Acts(j), Steady(j), Unqueued(j)' => Unqueued(j),
         held'[j] # j,
         Unqueued(j)' => (j \in work' => j \in work) /\ (j \in freed' => j \in freed)
  PROVE  UnqueuedInv(j)' /\ OnceInv(j)' /\ CountInv(j)'
<1>1. TypeInv /\ JobInv(j)
  BY InvParts
<1>2. Fewer(j) /\ Idler(j)
  BY ActsFewer
<1>3. Unheld(j)
  BY DEF Acts, Unheld
<1>4. OnceInv(j)' /\ CountInv(j)'
  BY <1>1, <1>2, OnceKept, CountKept, FewerPlaces DEF JobInv, Steady, Idler
<1>5. UnqueuedInv(j)'
  BY <1>1, <1>2, <1>3, FewerPlaces DEF JobInv, UnqueuedInv, Unheld, Idler, Steady
<1> QED BY <1>4, <1>5

(***************************************************************************)
(* The submitting call before its job is queued.                           *)
(***************************************************************************)

LEMMA SubmitStep ==
  ASSUME IInv, NEW j \in Jobs, Submit(j)
  PROVE  IInv'
<1>k. /\ TypeOK /\ TypeInv /\ PlaceInv /\ \A k \in Jobs : JobInv(k)
      /\ ConsistentOrder /\ EngineInv /\ DomainInv
  BY InvParts
<1>1. PICK r \in Requests :
        /\ job' = [job EXCEPT ![j] =
             [cores |-> r.cores, domain |-> r.domain, nonblock |-> r.nonblock,
              batches |-> r.batches, run_count |-> Cardinality(r.cores),
              interrupt_count |-> Cardinality(r.cores),
              submit_count |-> [c \in Cores |-> 0], committed |-> FALSE,
              done |-> FALSE, ret |-> "ok", irq_entry |-> {}]]
        /\ left' = [left EXCEPT ![j] = IF r.nonblock THEN r.cores ELSE {}]
  BY DEF Submit
<1>2. /\ at[j] = "idle" /\ at' = [at EXCEPT ![j] = "clean"]
      /\ held' = held /\ todo_list' = todo_list /\ running' = running /\ task_num' = task_num
      /\ engine' = engine /\ irq' = irq /\ work' = work /\ freed' = freed
      /\ mishaps' = mishaps /\ UNCHANGED domainVars
      /\ iommu_domain_id' = iommu_domain_id /\ attached' = attached
      /\ iommu_domain_refcount' = iommu_domain_refcount
  BY DEF Submit, Goto, coreVars, hwVars, resetVars, endVars, domainVars
<1>3. /\ r.cores \in SUBSET Cores /\ r.domain \in Domains /\ r.nonblock \in BOOLEAN
      /\ r.batches \in Nat \ {0}
      /\ Cardinality(r.cores) \in 0 .. Cardinality(Cores)
  <2>1. r \in [cores : SUBSET Cores, domain : Domains, nonblock : BOOLEAN, batches : Nat \ {0}]
    BY JobAssumption
  <2>2. r.cores \in SUBSET Cores
    BY <2>1
  <2> QED BY <2>1, <2>2, CoreSets
<1>4. /\ job' \in [Jobs -> JobRecord] /\ left' \in [Jobs -> SUBSET Cores]
      /\ \A k \in Jobs \ {j} : job'[k] = job[k] /\ left'[k] = left[k]
  <2> DEFINE x == [cores |-> r.cores, domain |-> r.domain, nonblock |-> r.nonblock,
              batches |-> r.batches, run_count |-> Cardinality(r.cores),
              interrupt_count |-> Cardinality(r.cores),
              submit_count |-> [c \in Cores |-> 0], committed |-> FALSE,
              done |-> FALSE, ret |-> "ok", irq_entry |-> {}]
             l == IF r.nonblock THEN r.cores ELSE {}
  <2>1. x \in JobRecord /\ l \in SUBSET Cores
    BY <1>3 DEF JobRecord
  <2>2. job' = [job EXCEPT ![j] = x] /\ left' = [left EXCEPT ![j] = l]
    BY <1>1
  <2> HIDE DEF x, l
  <2> QED BY <1>k, <2>1, <2>2 DEF TypeInv
<1>5. /\ job'[j].cores = r.cores /\ job'[j].nonblock = r.nonblock
      /\ job'[j].run_count = Cardinality(job'[j].cores)
      /\ job'[j].interrupt_count = Cardinality(job'[j].cores)
      /\ job'[j].submit_count = [c \in Cores |-> 0]
      /\ ~job'[j].committed /\ ~job'[j].done /\ job'[j].irq_entry = {}
  BY <1>k, <1>1 DEF TypeInv
<1>6. TypeOK' /\ TypeInv'
  BY <1>k, <1>2, <1>4 DEF TypeOK, TypeInv, JobRecord
<1>7. PlaceInv'
  BY <1>k, <1>2, <1>4, Apart DEF PlaceInv, TypeOK, Procs, Places
<1>8. Acts(j) /\ Spares(j)
  BY <1>k, <1>2, <1>4, Apart DEF Acts, Spares, Grown, TypeOK
<1>9. \A k \in Jobs : held'[j] # k
  BY <1>k, <1>2, Apart DEF PlaceInv
<1>10. JobInv(j)' /\ j \notin Holders' /\ j \notin Holders
  <2>1. Unqueued(j) /\ at'[j] = "clean"
    BY <1>k, <1>2 DEF Unqueued, TypeOK, Procs
  <2>2. Fewer(j) /\ Idler(j) /\ UnqueuedInv(j)
    BY <1>k, <1>8, ActsFewer DEF JobInv
  <2>3. Pending(j)' = {} /\ Remaining(j)' = {} /\ OnceInv(j)'
    BY <2>1, <2>2, NothingOnTheWay
  <2>4. UnqueuedInv(j)'
    BY <1>2, <1>5, <2>1, <2>2, <2>3 DEF UnqueuedInv
  <2>5. CountInv(j)'
    BY <1>4, <1>5, <2>3, NothingCounted
  <2>6. FateInv(j)' /\ LeavingInv(j)'
    BY <1>2, <2>1, <2>2 DEF FateInv, LeavingInv, UnqueuedInv
  <2>7. j \notin Holders' /\ j \notin Holders
    BY <1>2, <2>1 DEF Holders
  <2> QED BY <2>3, <2>4, <2>5, <2>6, <2>7 DEF JobInv
<1>11. EngineInv'
  <2>1. Unqueued(j) /\ UnqueuedInv(j) /\ Fewer(j) /\ Idler(j)
    BY <1>k, <1>2, <1>8, ActsFewer DEF JobInv, Unqueued
  <2>2. Fresh(j)
    BY <1>2, <1>3, <1>5, <2>1, NothingOnTheWay DEF Fresh
  <2> QED BY <1>2, <1>8, <1>9, <2>2, ActEngine
<1>12. DomainInv'
  BY <1>2, <1>8, <1>9, <1>10, ActDomain
<1> QED BY <1>2, <1>6, <1>7, <1>8, <1>9, <1>10, <1>11, <1>12, ActStep, WithinItself

LEMMA CleanSkipStep ==
  ASSUME IInv, NEW j \in Jobs, CleanSkip(j)
  PROVE  IInv'
<1>k. /\ TypeOK /\ TypeInv /\ PlaceInv /\ JobInv(j)
  BY InvParts
<1>1. /\ at[j] = "clean" /\ at' = at /\ job' = job /\ held' = held /\ todo_list' = todo_list
      /\ running' = running /\ task_num' = task_num
      /\ engine' = engine /\ irq' = irq /\ work' = work /\ freed' = freed
      /\ mishaps' = mishaps /\ UNCHANGED domainVars
      /\ iommu_domain_id' = iommu_domain_id /\ attached' = attached
      /\ iommu_domain_refcount' = iommu_domain_refcount
      /\ left' = [left EXCEPT ![j] = @ \ {MinCore(@)}]
  BY DEF CleanSkip, coreVars, hwVars, resetVars, endVars, domainVars
<1>2. left' \in [Jobs -> SUBSET Cores] /\ \A k \in Jobs \ {j} : left'[k] = left[k]
  BY <1>k, <1>1 DEF TypeInv
<1>3. TypeOK' /\ TypeInv'
  BY <1>k, <1>1, <1>2 DEF TypeOK, TypeInv, JobRecord
<1>4. PlaceInv'
  BY <1>k, <1>1, <1>2 DEF PlaceInv
<1>5. Acts(j) /\ Spares(j) /\ Steady(j)
  BY <1>1, <1>2 DEF Acts, Spares, Grown, Steady
<1>6. \A k \in Jobs : held'[j] # k
  BY <1>k, <1>1, Apart DEF PlaceInv
<1>7. JobInv(j)'
  <2>1. UnqueuedInv(j)' /\ OnceInv(j)' /\ CountInv(j)'
    BY <1>1, <1>5, <1>6, ActSteady DEF Unqueued
  <2>2. Still(j) /\ Fewer(j) /\ Grown
    BY <1>1, <1>5, ActsFewer DEF Still, Grown
  <2> QED BY <1>k, <1>1, <2>1, <2>2, FateKept, LeavingKept DEF JobInv
<1>8. EngineInv' /\ DomainInv'
  BY <1>1, <1>5, <1>6, ActEngine, ActDomain DEF Holders
<1> QED BY <1>1, <1>3, <1>4, <1>5, <1>6, <1>7, <1>8, ActStep, WithinItself

LEMMA CleanOverdueStep ==
  ASSUME IInv, NEW j \in Jobs, CleanOverdue(j)
  PROVE  IInv'
<1>k. /\ TypeOK /\ TypeInv /\ PlaceInv /\ \A k \in Jobs : JobInv(k)
  BY InvParts
<1> DEFINE c == MinCore(left[j])
           x == running[c]
<1>1. /\ at[j] = "clean" /\ left[j] # {} /\ x \notin {NoJob} \cup freed
      /\ held' = [held EXCEPT ![j] = x] /\ at' = [at EXCEPT ![j] = "reset"]
      /\ job' = job /\ left' = left /\ todo_list' = todo_list
      /\ running' = running /\ task_num' = task_num
      /\ engine' = engine /\ irq' = irq /\ work' = work /\ freed' = freed
      /\ mishaps' = mishaps \cup {"overdue"} /\ UNCHANGED domainVars
      /\ iommu_domain_id' = iommu_domain_id /\ attached' = attached
      /\ iommu_domain_refcount' = iommu_domain_refcount
  BY DEF CleanOverdue, Mishap, Goto, coreVars, hwVars, resetVars, domainVars
<1>2. c \in Cores /\ x \in Jobs
  <2>1. c \in Cores
    BY <1>k, <1>1, FirstCore DEF TypeInv
  <2> QED BY <1>k, <1>1, <2>1 DEF TypeOK
<1>3. ~Unqueued(x)
  BY <1>k, <1>2 DEF JobInv, UnqueuedInv, Remaining
<1> HIDE DEF c, x
<1>4. /\ at'[j] = "reset" /\ held'[j] = x
      /\ \A q \in Procs \ {j} : at'[q] = at[q] /\ held'[q] = held[q]
      /\ held' \in [Procs -> Jobs \cup {NoJob}]
  BY <1>k, <1>1, <1>2, Apart DEF TypeOK
<1>5. TypeOK' /\ TypeInv'
  BY <1>k, <1>1, <1>4 DEF TypeOK, TypeInv, JobRecord
<1>6. PlaceInv'
  <2>1. \A p \in Cores : at'[p] = at[p] /\ held'[p] = held[p]
    BY <1>4, Apart
  <2>2. \A k \in Jobs \ {j} : at'[k] = at[k] /\ held'[k] = held[k]
    BY <1>4, Apart
  <2> QED BY <1>k, <1>1, <1>2, <1>4, <2>1, <2>2, Apart DEF PlaceInv, Places
<1>7. Acts(j) /\ Spares(j) /\ Steady(j)
  BY <1>1, <1>4 DEF Acts, Spares, Grown, Steady
<1>8. Unqueued(j) /\ x # j /\ \A k \in Jobs : Unqueued(k) => held'[j] # k
  BY <1>1, <1>3, <1>4 DEF Unqueued
<1>9. JobInv(j)'
  <2>1. UnqueuedInv(j)' /\ OnceInv(j)' /\ CountInv(j)'
    BY <1>1, <1>4, <1>7, <1>8, ActSteady
  <2>2. FateInv(j)' /\ LeavingInv(j)'
    <3>1. ~Clean({"overdue"})' /\ ~Clean({"missed", "kept", "overdue"})'
            /\ ~Clean({"switch", "overdue"})'
      BY <1>1 DEF Clean
    <3>2. held'[j] # NoJob
      BY <1>1, <1>4
    <3> QED BY <1>4, <3>1, <3>2 DEF FateInv, LeavingInv
  <2> QED BY <2>1, <2>2 DEF JobInv
<1>10. EngineInv' /\ DomainInv'
  BY <1>1, <1>4, <1>7, <1>8, ActEngine, ActDomain DEF Holders
<1> QED BY <1>1, <1>5, <1>6, <1>7, <1>8, <1>9, <1>10, ActStep, WithinItself

LEMMA CleanFlushStep ==
  ASSUME IInv, NEW j \in Jobs, CleanFlush(j)
  PROVE  IInv'
<1>k. /\ TypeOK /\ TypeInv /\ PlaceInv /\ \A k \in Jobs : JobInv(k)
      /\ ConsistentOrder
  BY InvParts
<1> DEFINE c == MinCore(left[j])
<1>1. /\ at[j] = "flush"
      /\ running' = [running EXCEPT ![c] = NoJob]
      /\ todo_list' = [todo_list EXCEPT ![c] = <<>>]
      /\ work' = work \cup {held[j]} \cup ToSet(todo_list[c])
      /\ held' = [held EXCEPT ![j] = NoJob]
      /\ left' = [left EXCEPT ![j] = @ \ {c}]
      /\ at' = [at EXCEPT ![j] = "clean"]
      /\ job' = job /\ task_num' = task_num
      /\ engine' = engine /\ irq' = irq /\ freed' = freed
      /\ mishaps' = mishaps
      /\ iommu_domain_id' = iommu_domain_id /\ attached' = attached
      /\ iommu_domain_refcount' = iommu_domain_refcount
  BY DEF CleanFlush, Goto, hwVars, resetVars, domainVars
<1>2. c \in Cores /\ held[j] \in Jobs
  BY <1>k, <1>1, FirstCore, Apart DEF TypeInv, PlaceInv, TypeOK
<1>3. "overdue" \in mishaps
  BY <1>k, <1>1 DEF JobInv, FateInv, Clean
<1> HIDE DEF c
<1>4. /\ at'[j] = "clean" /\ held'[j] = NoJob
      /\ \A q \in Procs \ {j} : at'[q] = at[q] /\ held'[q] = held[q]
      /\ \A k \in Jobs \ {j} : left'[k] = left[k]
      /\ running'[c] = NoJob /\ todo_list'[c] = << >>
      /\ \A d \in Cores \ {c} : running'[d] = running[d] /\ todo_list'[d] = todo_list[d]
  BY <1>k, <1>1, <1>2, Apart DEF TypeOK, TypeInv
<1>5. TypeOK' /\ TypeInv'
  <2>1. ToSet(todo_list[c]) \subseteq Jobs
    BY <1>k, <1>2 DEF TypeInv, ToSet
  <2>2. work' \subseteq Jobs
    BY <1>k, <1>1, <1>2, <2>1 DEF TypeOK
  <2>3. todo_list' \in [Cores -> Seq(Jobs)] /\ left' \in [Jobs -> SUBSET Cores]
    <3>1. << >> \in Seq(Jobs)
      OBVIOUS
    <3>2. todo_list \in [Cores -> Seq(Jobs)] /\ left \in [Jobs -> SUBSET Cores]
      BY <1>k DEF TypeInv
    <3>3. todo_list' \in [Cores -> Seq(Jobs)]
      BY <1>1, <3>1, <3>2
    <3>4. left' \in [Jobs -> SUBSET Cores]
      BY <1>1, <3>2
    <3> QED BY <3>3, <3>4
  <2>4. running' \in [Cores -> Jobs \cup {NoJob}] /\ held' \in [Procs -> Jobs \cup {NoJob}]
    BY <1>k, <1>1 DEF TypeOK
  <2> QED BY <1>k, <1>1, <2>2, <2>3, <2>4 DEF TypeOK, TypeInv, JobRecord
<1>6. PlaceInv'
  <2>1. \A p \in Cores : at'[p] = at[p] /\ held'[p] = held[p]
    BY <1>4, Apart
  <2>2. \A k \in Jobs \ {j} : at'[k] = at[k] /\ held'[k] = held[k]
    BY <1>4, Apart
  <2> QED BY <1>k, <1>1, <1>2, <1>4, <2>1, <2>2, Apart DEF PlaceInv, Places
<1>7. Acts(j) /\ Grown
  <2>1. ToSet(<< >>) = {}
    BY DEF ToSet
  <2>2. \A d \in Cores : ToSet(todo_list'[d]) \subseteq ToSet(todo_list[d])
    BY <1>4, <2>1
  <2>3. \A d \in Cores : running'[d] = running[d] \/ running'[d] = NoJob
    BY <1>4
  <2> QED BY <1>1, <1>4, <2>2, <2>3 DEF Acts, Grown
<1>8. ASSUME NEW k \in Jobs
      PROVE  JobInv(k)'
  <2>1. Fewer(k) /\ Idler(k) /\ Steady(k) /\ JobInv(k)
    BY <1>k, <1>1, <1>7, ActsFewer DEF Steady
  <2>2. OnceInv(k)' /\ CountInv(k)'
    BY <1>k, <2>1, OnceKept, CountKept, FewerPlaces DEF JobInv, Steady, Idler
  <2>3. UnqueuedInv(k)'
    <3>1. Unqueued(k)' => Unqueued(k)
      BY <1>1, <1>4, Apart DEF Unqueued
    <3>2. ASSUME Unqueued(k) PROVE k \notin work'
      <4>1. k \notin work /\ k # held[j] /\ k \notin ToSet(todo_list[c])
        BY <1>2, <2>1, <3>2, Apart DEF JobInv, UnqueuedInv, Remaining
      <4> QED BY <1>1, <4>1
    <3>3. Unheld(k)
      BY <1>4, Apart DEF Unheld
    <3> QED BY <1>1, <2>1, <3>1, <3>2, <3>3, UnqueuedKept DEF JobInv, UnqueuedInv
  <2>4. FateInv(k)' /\ LeavingInv(k)'
    <3>1. ~Clean({"overdue"})' /\ ~Clean({"missed", "kept", "overdue"})'
            /\ ~Clean({"switch", "overdue"})'
      BY <1>1, <1>3 DEF Clean
    <3>2. CASE k = j
      BY <1>1, <1>4, <3>1, <3>2 DEF FateInv, LeavingInv
    <3>3. CASE k # j
      <4>1. at'[k] = at[k] /\ held'[k] = held[k]
        BY <1>4, <3>3, Apart
      <4>2. Clean({"switch"})' <=> Clean({"switch"})
        BY <1>1 DEF Clean
      <4> QED BY <1>1, <2>1, <3>1, <4>1, <4>2 DEF FateInv, LeavingInv, JobInv
    <3> QED BY <3>2, <3>3
  <2> QED BY <2>2, <2>3, <2>4 DEF JobInv
<1>9. ConsistentOrder'
  <2>1. Within(<< >>, todo_list[c])
    BY DEF Within, ToSet, InOrder
  <2>2. \A d \in Cores : Within(todo_list'[d], todo_list[d])
    BY <1>4, <2>1, WithinItself
  <2> QED BY <1>k, <1>5, <1>7, <2>2, OrderKept DEF Acts
<1>10. EngineInv' /\ DomainInv'
  BY <1>1, <1>3 DEF EngineInv, DomainInv, Clean
<1> QED BY <1>5, <1>6, <1>8, <1>9, <1>10, InvByJobs

(***************************************************************************)
(* Scheduling: the job is given its cores and its domain.                  *)
(***************************************************************************)

LEMMA AssignedStep ==
  ASSUME IInv, NEW j \in Jobs, Scheduling(j), NEW r, NEW place \in {"queue", "abort", "wait"},
         r \in {Assign(job[j]), [Assign(job[j]) EXCEPT !.ret = "inval"]},
         job' = [job EXCEPT ![j] = r], Goto(j, place),
         UNCHANGED <<held, left, coreVars, hwVars, work, freed>>, Grown,
         iommu_domain_id' \in Domains, attached' \in Domains \cup {NoDomain},
         iommu_domain_refcount' \in Int,
         place = "wait" => ~job[j].nonblock,
         place = "abort" => ~Clean({"switch"})',
         (\A k \in Jobs \ {j} : Steady(k) /\ (k \in Holders' <=> k \in Holders)) => DomainInv'
  PROVE  IInv'
<1>k. /\ TypeOK /\ TypeInv /\ PlaceInv /\ \A k \in Jobs : JobInv(k)
  BY InvParts
<1>1. /\ at[j] = "clean" /\ at' = [at EXCEPT ![j] = place]
      /\ held' = held /\ left' = left /\ todo_list' = todo_list
      /\ running' = running /\ task_num' = task_num
      /\ engine' = engine /\ irq' = irq /\ work' = work /\ freed' = freed
  BY DEF Scheduling, Goto, coreVars, hwVars
<1>2. Unqueued(j) /\ UnqueuedInv(j)
  BY <1>k, <1>1 DEF JobInv, Unqueued
<1>3. /\ r \in JobRecord /\ r.cores # {}
      /\ r.run_count = Cardinality(r.cores) /\ r.interrupt_count = Cardinality(r.cores)
      /\ r.nonblock = job[j].nonblock /\ r.submit_count = job[j].submit_count
      /\ ~r.committed /\ ~r.done /\ r.irq_entry = {}
  <2> DEFINE a == Assign(job[j])
  <2>1. /\ a \in JobRecord /\ a.cores # {}
        /\ a.run_count = Cardinality(a.cores) /\ a.interrupt_count = Cardinality(a.cores)
        /\ a.nonblock = job[j].nonblock /\ a.submit_count = job[j].submit_count
        /\ a.committed = job[j].committed /\ a.done = job[j].done
        /\ a.irq_entry = job[j].irq_entry
    <3>1. job[j] \in JobRecord /\ task_num \in [Cores -> Int]
      BY <1>k DEF TypeInv
    <3>2. /\ job[j].run_count = Cardinality(job[j].cores)
          /\ job[j].interrupt_count = Cardinality(job[j].cores)
      BY <1>2 DEF UnqueuedInv
    <3> QED BY <3>1, <3>2, AssignFacts
  <2>2. ~job[j].committed /\ ~job[j].done /\ job[j].irq_entry = {}
    BY <1>2 DEF UnqueuedInv
  <2>3. r = a \/ r = [a EXCEPT !.ret = "inval"]
    OBVIOUS
  <2> HIDE DEF a
  <2> QED BY <2>1, <2>2, <2>3 DEF JobRecord
<1>4. /\ job' \in [Jobs -> JobRecord] /\ job'[j] = r
      /\ \A k \in Jobs \ {j} : job'[k] = job[k]
      /\ at'[j] = place /\ \A q \in Procs \ {j} : at'[q] = at[q]
  BY <1>k, <1>1, <1>3 DEF TypeInv, TypeOK, Procs
<1>5. TypeOK' /\ TypeInv'
  BY <1>k, <1>1, <1>4 DEF TypeOK, TypeInv, JobRecord
<1>6. PlaceInv'
  <2>1. \A p \in Cores : at'[p] = at[p] /\ held'[p] = held[p]
    BY <1>1, <1>4, Apart DEF Procs
  <2>2. \A k \in Jobs \ {j} : at'[k] = at[k] /\ held'[k] = held[k] /\ job'[k] = job[k]
    BY <1>1, <1>4 DEF Procs
  <2> QED BY <1>k, <1>1, <1>3, <1>4, <2>1, <2>2 DEF PlaceInv, Places
<1>7. Acts(j) /\ Spares(j)
  BY <1>1, <1>4 DEF Acts, Spares
<1>8. \A k \in Jobs : held'[j] # k
  BY <1>k, <1>1, Apart DEF PlaceInv
<1>9. Fewer(j) /\ Idler(j)
  BY <1>7, ActsFewer
<1>10. Pending(j)' = {} /\ Remaining(j)' = {} /\ OnceInv(j)'
  BY <1>2, <1>9, NothingOnTheWay
<1>11. UnqueuedInv(j)'
  BY <1>1, <1>2, <1>3, <1>4, <1>10 DEF UnqueuedInv
<1>12. CountInv(j)'
  BY <1>3, <1>4, <1>10, NothingCounted
<1>13. FateInv(j)' /\ LeavingInv(j)'
  <2>1. j \notin work' /\ j \notin freed' /\ held'[j] = NoJob
    BY <1>k, <1>1, <1>2 DEF UnqueuedInv, PlaceInv
  <2>2. \A c \in Cores : j \notin ToSet(todo_list'[c])
    BY <1>2, <1>9, NothingOnTheWay
  <2> QED BY <1>3, <1>4, <2>1, <2>2 DEF FateInv, LeavingInv
<1>14. EngineInv'
  <2>1. \A c \in Cores : running[c] # j /\ held'[c] # j
    BY <1>1, <1>2, <1>9, NothingOnTheWay
  <2>2. Fresh(j)
    BY <1>3, <1>4, <1>10, <2>1 DEF Fresh, JobRecord
  <2> QED BY <1>1, <1>7, <1>8, <2>2, ActEngine
<1>15. \A k \in Jobs \ {j} : Steady(k) /\ (k \in Holders' <=> k \in Holders)
  BY <1>k, <1>7, <1>8, OthersKept
<1>16. \A c \in Cores : Within(todo_list'[c], todo_list[c])
  BY <1>1, WithinItself
<1> QED
  BY <1>5, <1>6, <1>7, <1>8, <1>10, <1>11, <1>12, <1>13, <1>14, <1>15, <1>16, ActStep DEF JobInv

\* The reference that the job takes keeps the device in the domain of the job.
LEMMA ScheduleDomainStep ==
  ASSUME IInv, NEW j \in Jobs, ScheduleDomain(j)
  PROVE  IInv'
<1>k. /\ TypeOK /\ TypeInv /\ PlaceInv /\ \A k \in Jobs : JobInv(k) /\ DomainInv
  BY InvParts
<1> DEFINE d == job[j].domain
           r == Assign(job[j])
<1>1. /\ Scheduling(j) /\ Goto(j, "queue") /\ job' = [job EXCEPT ![j] = r]
      /\ UNCHANGED <<held, left, coreVars, hwVars, work, freed>> /\ mishaps' = mishaps
      /\ freed' = freed
      /\ GetSame(d) \/ SwitchDomain(d)
  BY DEF ScheduleDomain, endVars
<1>2. d \in Domains /\ iommu_domain_refcount \in Int /\ iommu_domain_id \in Domains
      /\ attached \in Domains \cup {NoDomain}
  BY <1>k DEF TypeInv, JobRecord
<1>3. /\ iommu_domain_refcount' = iommu_domain_refcount + 1
      /\ iommu_domain_id' = d
      /\ attached' \in {attached, d}
      /\ \/ d = iommu_domain_id /\ attached' = attached
         \/ iommu_domain_refcount = 0 /\ attached' = d
  BY <1>1 DEF GetSame, SwitchDomain
<1>4. at[j] = "clean" /\ at'[j] = "queue" /\ UnqueuedInv(j) /\ Unqueued(j)
  BY <1>k, <1>1 DEF Scheduling, Goto, TypeOK, Procs, JobInv, Unqueued
<1>5. job'[j].domain = d /\ job'[j].done = job[j].done
  <2>1. job[j] \in JobRecord /\ task_num \in [Cores -> Int]
    BY <1>k DEF TypeInv
  <2>2. /\ job[j].run_count = Cardinality(job[j].cores)
        /\ job[j].interrupt_count = Cardinality(job[j].cores)
    BY <1>4 DEF UnqueuedInv
  <2>3. r.domain = d /\ r.done = job[j].done
    BY <2>1, <2>2, AssignFacts
  <2>4. job'[j] = r
    BY <1>k, <1>1 DEF TypeInv
  <2> QED BY <2>3, <2>4
<1>6. ASSUME \A k \in Jobs \ {j} : Steady(k) /\ (k \in Holders' <=> k \in Holders),
             Clean({"late", "switch", "overdue"})'
      PROVE  /\ IsFiniteSet(Holders') /\ iommu_domain_refcount' = Cardinality(Holders')
             /\ attached' = iommu_domain_id'
             /\ \A k \in Holders' : job'[k].domain = iommu_domain_id'
  <2>1. /\ IsFiniteSet(Holders) /\ iommu_domain_refcount = Cardinality(Holders)
        /\ attached = iommu_domain_id
        /\ \A k \in Holders : job[k].domain = iommu_domain_id
    BY <1>k, <1>1, <1>6 DEF DomainInv, Clean
  <2>2. j \notin Holders /\ j \in Holders'
    BY <1>1, <1>4, <1>5 DEF Holders, UnqueuedInv
  <2>3. Holders' = Holders \cup {j}
    <3>1. Holders \subseteq Jobs /\ Holders' \subseteq Jobs
      BY DEF Holders
    <3> QED BY <1>6, <2>2, <3>1
  <2>4. IsFiniteSet(Holders') /\ Cardinality(Holders') = Cardinality(Holders) + 1
    BY <2>1, <2>2, <2>3, FS_AddElement
  <2>5. iommu_domain_refcount = 0 => Holders = {}
    BY <2>1, FS_EmptySet
  <2>6. ASSUME NEW k \in Holders' PROVE job'[k].domain = iommu_domain_id'
    <3>1. CASE k = j
      BY <1>3, <1>5, <3>1
    <3>2. CASE k # j
      <4>1. k \in Holders /\ k \in Jobs /\ k # j
        BY <2>3, <3>2 DEF Holders
      <4>2. job'[k].domain = job[k].domain
        BY <1>6, <4>1 DEF Steady
      <4> QED BY <1>3, <2>1, <2>5, <4>1, <4>2
    <3> QED BY <3>1, <3>2
  <2> QED BY <1>3, <2>1, <2>4, <2>6
<1>7. (\A k \in Jobs \ {j} : Steady(k) /\ (k \in Holders' <=> k \in Holders)) => DomainInv'
  BY <1>6 DEF DomainInv
<1> HIDE DEF d, r
<1>8. /\ Grown /\ iommu_domain_id' \in Domains /\ attached' \in Domains \cup {NoDomain}
      /\ iommu_domain_refcount' \in Int
  BY <1>1, <1>2, <1>3 DEF Grown
<1> QED BY <1>1, <1>7, <1>8, AssignedStep DEF r

LEMMA ScheduleFailsStep ==
  ASSUME IInv, NEW j \in Jobs, ScheduleFails(j)
  PROVE  IInv'
<1>k. /\ TypeOK /\ TypeInv /\ PlaceInv
  BY InvParts
<1> DEFINE d == job[j].domain
           r == [Assign(job[j]) EXCEPT !.ret = "inval"]
           place == IF job[j].nonblock THEN "abort" ELSE "wait"
<1>1. /\ Scheduling(j) /\ Goto(j, place) /\ job' = [job EXCEPT ![j] = r]
      /\ UNCHANGED <<held, left, coreVars, hwVars, work, freed>>
      /\ mishaps' = mishaps \cup {"switch"}
      /\ SwitchFails(d) \/ SwitchTimesOut(d)
  BY DEF ScheduleFails, Mishap
<1>2. /\ iommu_domain_id' = iommu_domain_id /\ iommu_domain_refcount' = iommu_domain_refcount
      /\ attached' \in {attached, NoDomain}
  BY <1>1 DEF SwitchFails, SwitchTimesOut, domainVars
<1>3. /\ Grown /\ iommu_domain_id' \in Domains /\ attached' \in Domains \cup {NoDomain}
      /\ iommu_domain_refcount' \in Int
  BY <1>k, <1>1, <1>2 DEF Grown, TypeInv
<1>4. ~Clean({"switch"})' /\ ~Clean({"late", "switch", "overdue"})'
  BY <1>1 DEF Clean
<1>5. DomainInv'
  BY <1>4 DEF DomainInv
<1>6. /\ place \in {"queue", "abort", "wait"}
      /\ place = "wait" => ~job[j].nonblock
  OBVIOUS
<1>7. r \in {Assign(job[j]), [Assign(job[j]) EXCEPT !.ret = "inval"]}
  OBVIOUS
<1> HIDE DEF d, r, place
<1> QED BY <1>1, <1>3, <1>4, <1>5, <1>6, <1>7, AssignedStep

(***************************************************************************)
(* Into the queues.                                                        *)
(***************************************************************************)

\* A job that is put behind a line is before nothing in it.
LEMMA AppendLine ==
  ASSUME NEW r \in Jobs \cup {NoJob}, NEW s \in Seq(Jobs), NEW j \in Jobs,
         NEW a \in Jobs, NEW b \in Jobs
  PROVE  /\ InOrder(LineOf(r, Append(s, j)), a, b)
              => InOrder(LineOf(r, s), a, b) \/ (b = j /\ (a \in ToSet(s) \/ a = r))
         /\ InOrder(LineOf(r, s), a, b) => a \in ToSet(s) \/ a = r
<1>1. /\ Append(s, j) \in Seq(Jobs) /\ ToSet(Append(s, j)) = ToSet(s) \cup {j}
      /\ InOrder(Append(s, j), a, b) => InOrder(s, a, b) \/ (b = j /\ a \in ToSet(s))
  BY AppendFacts
<1>2. InOrder(s, a, b) => a \in ToSet(s)
  BY DEF InOrder, ToSet
<1>3. CASE r = NoJob
  BY <1>1, <1>2, <1>3 DEF LineOf
<1>4. CASE r # NoJob
  <2>1. /\ LineOf(r, s) = <<r>> \o s /\ LineOf(r, Append(s, j)) = <<r>> \o Append(s, j)
        /\ r \in Jobs
    BY <1>4 DEF LineOf
  <2>2. InOrder(<<r>> \o s, a, b) <=> InOrder(s, a, b) \/ (a = r /\ b \in ToSet(s))
    BY <2>1, LineOrder
  <2>3. InOrder(<<r>> \o Append(s, j), a, b)
          <=> InOrder(Append(s, j), a, b) \/ (a = r /\ b \in ToSet(Append(s, j)))
    BY <1>1, <2>1, LineOrder
  <2> QED BY <1>1, <1>2, <2>1, <2>2, <2>3
<1> QED BY <1>3, <1>4

LEMMA EnqueueStep ==
  ASSUME IInv, NEW j \in Jobs, Enqueue(j)
  PROVE  IInv'
<1>k. /\ TypeOK /\ TypeInv /\ PlaceInv /\ \A k \in Jobs : JobInv(k)
      /\ ConsistentOrder /\ EngineInv /\ DomainInv
  BY InvParts
<1>1. /\ at[j] = "queue" /\ at' = [at EXCEPT ![j] = "next"]
      /\ todo_list' = [c \in Cores |->
           IF c \in job[j].cores THEN Append(todo_list[c], j) ELSE todo_list[c]]
      /\ task_num' = [c \in Cores |->
           task_num[c] + (IF c \in job[j].cores THEN job[j].batches ELSE 0)]
      /\ left' = [left EXCEPT ![j] = job[j].cores]
      /\ job' = job /\ held' = held /\ running' = running
      /\ engine' = engine /\ irq' = irq /\ work' = work /\ freed' = freed
      /\ mishaps' = mishaps /\ UNCHANGED domainVars
      /\ iommu_domain_id' = iommu_domain_id /\ attached' = attached
      /\ iommu_domain_refcount' = iommu_domain_refcount
  BY DEF Enqueue, Goto, hwVars, resetVars, endVars, domainVars
<1>2. /\ job[j] \in JobRecord /\ job[j].cores \in SUBSET Cores /\ job[j].batches \in Nat \ {0}
      /\ job[j].cores # {} /\ \A c \in Cores : todo_list[c] \in Seq(Jobs)
  BY <1>k, <1>1 DEF TypeInv, JobRecord, PlaceInv
<1>3. /\ Unqueued(j) /\ UnqueuedInv(j)
      /\ \A c \in Cores : /\ j \notin ToSet(todo_list[c]) /\ running[c] # j
                          /\ engine[c] # j
      /\ \A p \in Procs : held[p] # j
      /\ j \notin work /\ j \notin freed
  BY <1>k, <1>1 DEF JobInv, UnqueuedInv, Unqueued, Remaining
<1>4. /\ at'[j] = "next" /\ \A q \in Procs \ {j} : at'[q] = at[q]
      /\ left' \in [Jobs -> SUBSET Cores] /\ left'[j] = job[j].cores
      /\ \A k \in Jobs \ {j} : left'[k] = left[k]
  BY <1>k, <1>1, <1>2 DEF TypeInv, TypeOK, Procs
<1>5. \A c \in Cores : ToSet(todo_list'[c]) = ToSet(todo_list[c])
                                                \cup (IF c \in job[j].cores THEN {j} ELSE {})
  <2>1. ASSUME NEW c \in Cores
        PROVE  ToSet(todo_list'[c]) = ToSet(todo_list[c])
                                        \cup (IF c \in job[j].cores THEN {j} ELSE {})
    <3>1. ToSet(Append(todo_list[c], j)) = ToSet(todo_list[c]) \cup {j}
      BY <1>2, AppendFacts
    <3> QED BY <1>1, <3>1
  <2> QED BY <2>1
<1>6. TypeOK' /\ TypeInv'
  <2>1. todo_list' \in [Cores -> Seq(Jobs)]
    <3>1. \A c \in Cores : Append(todo_list[c], j) \in Seq(Jobs)
      BY <1>2, AppendFacts
    <3> QED BY <1>1, <1>2, <3>1
  <2>2. task_num' \in [Cores -> Int]
    <3>1. \A c \in Cores : task_num[c] \in Int
      BY <1>k DEF TypeInv
    <3>2. \A c \in Cores :
            task_num[c] + (IF c \in job[j].cores THEN job[j].batches ELSE 0) \in Int
      BY <1>2, <3>1
    <3> QED BY <1>1, <3>2
  <2> QED BY <1>k, <1>1, <1>4, <2>1, <2>2 DEF TypeOK, TypeInv
<1>7. PlaceInv'
  <2>1. \A p \in Cores : at'[p] = at[p] /\ held'[p] = held[p]
    BY <1>1, <1>4, Apart DEF Procs
  <2>2. \A k \in Jobs \ {j} : at'[k] = at[k] /\ held'[k] = held[k] /\ left'[k] = left[k]
    BY <1>1, <1>4 DEF Procs
  <2>3. held'[j] = NoJob
    BY <1>k, <1>1 DEF PlaceInv
  <2> QED BY <1>k, <1>1, <1>2, <1>4, <2>1, <2>2, <2>3 DEF PlaceInv, Places
<1>8. ASSUME NEW k \in Jobs, NEW p \in Procs, NEW c \in Cores, Taking(p, c, k)'
      PROVE  Taking(p, c, k)
  <2>1. p # j /\ at[p] = "commit" /\ held[p] = k
    BY <1>1, <1>4, <1>8 DEF Taking
  <2>2. CoreOf(p)' = CoreOf(p)
    BY <1>4, <2>1, Apart DEF CoreOf
  <2> QED BY <1>8, <2>1, <2>2 DEF Taking
<1>9. \A k \in Jobs \ {j} : Fewer(k)
  BY <1>1, <1>4, <1>5, <1>8, Apart DEF Fewer
<1>10. \A k \in Jobs : Idler(k) /\ Steady(k)
  BY <1>1 DEF Idler, Steady
<1>11. Grown
  BY <1>1 DEF Grown
<1>12. \A k \in Jobs \ {j} : JobInv(k)' /\ (k \in Holders' <=> k \in Holders)
  <2>1. \A k \in Jobs \ {j} : Still(k)
    BY <1>1, <1>4, Apart DEF Still
  <2>2. \A k \in Jobs : Unqueued(k) => Unheld(k)
    BY <1>1 DEF Unheld
  <2> QED BY <1>k, <1>9, <1>10, <1>11, <2>1, <2>2, OtherKept, HolderKept
<1>13. /\ Pending(j)' = job[j].cores /\ Remaining(j)' = job[j].cores
       /\ \A c \in Cores : \A p \in Procs : ~Taking(p, c, j)'
  <2>1. \A c \in Cores : \A p \in Procs : ~Taking(p, c, j)'
    BY <1>1, <1>3 DEF Taking
  <2>2. \A c \in Cores : j \in ToSet(todo_list'[c]) <=> c \in job[j].cores
    BY <1>3, <1>5
  <2>3. \A c \in Cores : running'[c] # j /\ held'[c] # j
    BY <1>1, <1>3, Apart
  <2> QED BY <1>2, <2>1, <2>2, <2>3 DEF Pending, Remaining
<1>14. JobInv(j)'
  <2>1. UnqueuedInv(j)'
    BY <1>4 DEF UnqueuedInv, Unqueued
  <2>2. OnceInv(j)'
    <3>1. \A c \in Cores : job'[j].submit_count[c] < job'[j].batches
      BY <1>1, <1>2, <1>3 DEF UnqueuedInv
    <3>2. \A c \in Cores : engine'[c] # j /\ running'[c] # j /\ held'[c] # j
      BY <1>1, <1>3, Apart
    <3> QED BY <1>1, <1>13, <3>1, <3>2 DEF OnceInv
  <2>3. CountInv(j)'
    <3>1. Cardinality(job[j].cores) \in Nat
      BY <1>2, CoreSets, CoresNumbered
    <3> QED BY <1>1, <1>3, <1>13, <3>1 DEF CountInv, UnqueuedInv
  <2>4. FateInv(j)' /\ LeavingInv(j)'
    BY <1>1, <1>3, <1>4 DEF FateInv, LeavingInv
  <2> QED BY <2>1, <2>2, <2>3, <2>4 DEF JobInv
<1>15. ConsistentOrder'
  <2>1. ASSUME NEW c \in Cores, NEW a \in Jobs, NEW b \in Jobs
        PROVE  /\ Before(c, a, b)' => Before(c, a, b) \/ (b = j /\ a # j)
               /\ Before(c, a, b) => a # j
    <3> DEFINE r == running[c]
               s == todo_list[c]
               l == LineOf(r, s)
               m == LineOf(r, Append(s, j))
    <3>1. r \in Jobs \cup {NoJob} /\ s \in Seq(Jobs) /\ j \notin ToSet(s) /\ r # j
      BY <1>k, <1>2, <1>3 DEF TypeOK
    <3>2. Before(c, a, b) <=> InOrder(l, a, b)
      BY BeforeIsInOrder
    <3>3. Before(c, a, b)' => InOrder(l, a, b) \/ InOrder(m, a, b)
      BY <1>1 DEF Before, InOrder, Line, LineOf
    <3> HIDE DEF r, s
    <3> QED BY <3>1, <3>2, <3>3, AppendLine
  <2> SUFFICES ASSUME NEW S \in (SUBSET Jobs) \ {{}}
               PROVE  \E a \in S : \A b \in S : \A c \in Cores : ~Before(c, b, a)'
    BY DEF ConsistentOrder
  <2>2. CASE S = {j}
    BY <2>1, <2>2
  <2>3. CASE S # {j}
    <3>1. S \ {j} \in (SUBSET Jobs) \ {{}}
      BY <2>3
    <3>2. PICK a \in S \ {j} : \A b \in S \ {j} : \A c \in Cores : ~Before(c, b, a)
      BY <1>k, <3>1 DEF ConsistentOrder
    <3>3. ASSUME NEW b \in S, NEW c \in Cores PROVE ~Before(c, b, a)'
      <4>1. CASE b = j
        BY <2>1, <4>1
      <4>2. CASE b # j
        BY <2>1, <3>2, <4>2
      <4> QED BY <4>1, <4>2
    <3> QED BY <3>3
  <2> QED BY <2>2, <2>3
<1>16. EngineInv'
  <2>1. \A c \in Cores : /\ engine'[c] = engine[c] /\ irq'[c] = irq[c]
                         /\ running'[c] = running[c] /\ at'[c] = at[c] /\ held'[c] = held[c]
    BY <1>1, <1>4, Apart
  <2>2. \A c \in Cores : at'[c] = "done" => held'[c] \in Jobs
    BY <1>k, <2>1, Apart DEF PlaceInv, TypeOK
  <2>3. Fresh(j)
    BY <1>1, <1>2, <1>3, Apart DEF Fresh, UnqueuedInv
  <2>4. \A k \in Jobs : Fresh(k) \/ (Steady(k) /\ Remaining(k)' \subseteq Remaining(k))
    BY <1>9, <1>10, <2>3, FewerPlaces
  <2> QED BY <1>k, <1>11, <2>1, <2>2, <2>4, EngineKept
<1>17. DomainInv'
  <2>1. j \in Holders' <=> j \in Holders
    BY <1>1, <1>4 DEF Holders
  <2>2. \A k \in Jobs : k \in Holders' <=> k \in Holders
    BY <1>12, <2>1
  <2> QED BY <1>k, <1>1, <1>11, <2>2, DomainKept
<1> QED BY <1>6, <1>7, <1>12, <1>14, <1>15, <1>16, <1>17, InvByJobs

(***************************************************************************)
(* rknpu_job_next.                                                         *)
(***************************************************************************)

\* The call of k goes on from or to rknpu_job_next.
GoesOn(k) ==
  /\ at[k] \in {"next", "commit"} /\ at'[k] \in {"next", "commit", "out", "wait"}
  /\ at'[k] = "out" => job[k].nonblock
  /\ at'[k] = "wait" => ~job[k].nonblock
  /\ work' = work /\ freed' = freed /\ k \notin freed

LEMMA GoingKept ==
  ASSUME NEW k \in Jobs, FateInv(k), GoesOn(k), Grown,
         job'[k].nonblock = job[k].nonblock, job'[k].done = job[k].done
  PROVE  /\ UnqueuedInv(k)' /\ FateInv(k)' /\ LeavingInv(k)'
         /\ k \in Holders' <=> k \in Holders
<1>1. UnqueuedInv(k)'
  BY DEF UnqueuedInv, Unqueued, GoesOn
<1>2. LeavingInv(k)'
  BY DEF LeavingInv, GoesOn
<1>3. FateInv(k)'
  BY CleanBefore DEF FateInv, GoesOn
<1>4. k \in Holders' <=> k \in Holders
  BY DEF Holders, GoesOn
<1> QED BY <1>1, <1>2, <1>3, <1>4

\* A job the step does not change, whether or not its call makes the step.
LEMMA PasserByKept ==
  ASSUME TypeInv, NEW k \in Jobs, JobInv(k), GoesOn(k) \/ Still(k), Grown,
         Fewer(k), Idler(k), Steady(k), Unqueued(k) => Unheld(k)
  PROVE  JobInv(k)' /\ (k \in Holders' <=> k \in Holders)
<1>1. CASE Still(k)
  BY <1>1, OtherKept, HolderKept
<1>2. CASE GoesOn(k)
  <2>1. OnceInv(k)' /\ CountInv(k)'
    BY OnceKept, CountKept, FewerPlaces DEF JobInv, Steady, Idler
  <2>2. /\ UnqueuedInv(k)' /\ FateInv(k)' /\ LeavingInv(k)'
        /\ k \in Holders' <=> k \in Holders
    BY <1>2, GoingKept DEF JobInv, Steady
  <2> QED BY <2>1, <2>2 DEF JobInv
<1> QED BY <1>1, <1>2

LEMMA NextNothingStep ==
  ASSUME IInv, NEW p \in Procs, NextNothing(p)
  PROVE  IInv'
<1>k. /\ TypeOK /\ TypeInv /\ PlaceInv /\ \A k \in Jobs : JobInv(k)
      /\ ConsistentOrder /\ EngineInv /\ DomainInv
  BY InvParts
<1>1. /\ at[p] = "next" /\ p \notin freed /\ AfterNext(p)
      /\ job' = job /\ held' = held /\ running' = running
      /\ todo_list' = todo_list /\ task_num' = task_num
      /\ engine' = engine /\ irq' = irq /\ work' = work /\ freed' = freed
      /\ mishaps' = mishaps /\ UNCHANGED domainVars
      /\ iommu_domain_id' = iommu_domain_id /\ attached' = attached
      /\ iommu_domain_refcount' = iommu_domain_refcount
  BY DEF NextNothing, coreVars, hwVars, resetVars, endVars, domainVars
<1>2. /\ \A q \in Procs \ {p} : at'[q] = at[q]
      /\ p \in Cores => left' = left /\ at'[p] = "idle"
      /\ p \in Jobs => /\ at'[p] \in {"next", "out", "wait"}
                       /\ at'[p] = "next" => left'[p] # {}
                       /\ at'[p] = "out" => job[p].nonblock
                       /\ at'[p] = "wait" => ~job[p].nonblock
      /\ at' \in [Procs -> Places \cup IrqPlaces] /\ left' \in [Jobs -> SUBSET Cores]
      /\ \A j \in Jobs \ {p} : left'[j] = left[j]
  BY <1>k, <1>1, AfterNextFacts
<1>3. held[p] = NoJob
  BY <1>k, <1>1, Apart DEF PlaceInv
<1>4. TypeOK' /\ TypeInv'
  BY <1>k, <1>1, <1>2 DEF TypeOK, TypeInv, Places, IrqPlaces
<1>5. PlaceInv'
  <2>1. ASSUME NEW c \in Cores
        PROVE  /\ at'[c] \in IrqPlaces
               /\ at'[c] \in {"status", "done", "commit"} <=> held'[c] # NoJob
    <3>1. at'[c] = at[c] \/ (c = p /\ at'[c] = "idle" /\ held'[c] = NoJob)
      BY <1>1, <1>2, <1>3, Apart
    <3> QED BY <1>k, <1>1, <3>1 DEF PlaceInv, IrqPlaces
  <2>2. CASE p \in Jobs
    BY <1>k, <1>1, <1>2, <1>3, <2>1, <2>2 DEF PlaceInv, Places, Procs
  <2>3. CASE p \in Cores
    <3>1. \A j \in Jobs : at'[j] = at[j] /\ left'[j] = left[j]
      BY <1>2, <2>3, Apart
    <3> QED BY <1>k, <1>1, <2>1, <3>1 DEF PlaceInv
  <2> QED BY <2>2, <2>3, Apart
<1>6. ASSUME NEW k \in Jobs, NEW q \in Procs, NEW c \in Cores, Taking(q, c, k)'
      PROVE  Taking(q, c, k)
  <2>1. q # p /\ at[q] = "commit" /\ held[q] = k
    BY <1>1, <1>2, <1>6, Apart DEF Taking
  <2>2. CoreOf(q)' = CoreOf(q)
    BY <1>2, <2>1, Apart DEF CoreOf
  <2> QED BY <1>6, <2>1, <2>2 DEF Taking
<1>7. \A k \in Jobs : Fewer(k) /\ Idler(k) /\ Steady(k) /\ Unheld(k)
  <2>1. \A c \in Cores : held[c] # NoJob => at'[c] = at[c]
    BY <1>2, <1>3, Apart
  <2> QED BY <1>1, <1>6, <2>1, Apart DEF Fewer, Idler, Steady, Unheld
<1>8. Grown
  BY <1>1 DEF Grown
<1>9. \A k \in Jobs : JobInv(k)' /\ (k \in Holders' <=> k \in Holders)
  <2>1. \A k \in Jobs : Still(k) \/ GoesOn(k)
    BY <1>1, <1>2, Apart DEF Still, GoesOn
  <2> QED BY <1>k, <1>7, <1>8, <2>1, PasserByKept
<1>10. ConsistentOrder'
  BY <1>k, <1>1, <1>4, OrderKept, WithinItself
<1>11. EngineInv'
  <2>1. \A c \in Cores : at'[c] \in {"status", "done"} => at'[c] = at[c] /\ held'[c] = held[c]
    BY <1>1, <1>2, Apart
  <2>2. \A c \in Cores : at'[c] = "done" => held'[c] \in Jobs
    BY <1>k, <2>1, Apart DEF PlaceInv, TypeOK
  <2>3. \A k \in Jobs : Remaining(k)' \subseteq Remaining(k)
    BY <1>7, FewerPlaces
  <2> QED BY <1>k, <1>1, <1>7, <1>8, <2>1, <2>2, <2>3, EngineKept
<1>12. DomainInv'
  BY <1>k, <1>1, <1>8, <1>9, DomainKept
<1> QED BY <1>4, <1>5, <1>9, <1>10, <1>11, <1>12, InvByJobs

\* What is still due of a job, when less of it remains.
LEMMA DueKept ==
  ASSUME TypeInv, NEW k \in Jobs, job[k].interrupt_count >= Cardinality(Due(k)),
         job'[k].interrupt_count = job[k].interrupt_count,
         job'[k].cores = job[k].cores, job'[k].batches = job[k].batches,
         \A c \in job[k].cores \ Due(k) :
           /\ c \notin Remaining(k)' /\ engine'[c] # k
           /\ job'[k].submit_count[c] = job[k].submit_count[c]
  PROVE  job'[k].interrupt_count >= Cardinality(Due(k)')
<1>1. Due(k) \in SUBSET Cores /\ job[k].cores \in SUBSET Cores
  BY DEF Due, TypeInv, JobRecord
<1>2. Due(k)' \in SUBSET Due(k)
  BY <1>1 DEF Due
<1>3. Cardinality(Due(k)') <= Cardinality(Due(k))
  BY <1>1, <1>2, CoreSets
<1>4. Cardinality(Due(k)') \in Nat /\ Cardinality(Due(k)) \in Nat
  BY <1>1, <1>2, CoreSets, CoresNumbered
<1>5. job[k].interrupt_count \in Nat
  BY CoresNumbered DEF TypeInv, JobRecord
<1> QED BY <1>3, <1>4, <1>5

\* The job that a core is given moves from its queue to the core.
LEMMA TakeStep ==
  ASSUME IInv, NEW p \in Procs, NextTake(p), NEW c \in Cores, c = CoreOf(p),
         NEW h \in Jobs, h = Head(todo_list[c])
  PROVE  IInv'
<1>k. /\ TypeOK /\ TypeInv /\ PlaceInv /\ \A k \in Jobs : JobInv(k)
      /\ ConsistentOrder /\ EngineInv /\ DomainInv
  BY InvParts
<1>1. /\ at[p] = "next" /\ p \notin freed /\ running[c] = NoJob /\ todo_list[c] # << >>
      /\ h \notin freed
      /\ running' = [running EXCEPT ![c] = h] /\ held' = [held EXCEPT ![p] = h]
      /\ todo_list' = [todo_list EXCEPT ![c] = Tail(todo_list[c])]
      /\ at' = [at EXCEPT ![p] = "commit"]
      /\ mishaps' = mishaps \cup (IF engine[c] # NoJob \/ irq[c] # "none" THEN {"overlap"} ELSE {})
      /\ job' = job /\ left' = left /\ task_num' = task_num
      /\ engine' = engine /\ irq' = irq /\ work' = work /\ freed' = freed
      /\ UNCHANGED domainVars
      /\ iommu_domain_id' = iommu_domain_id /\ attached' = attached
      /\ iommu_domain_refcount' = iommu_domain_refcount
  BY DEF NextTake, Goto, Noted, If, hwVars, resetVars, domainVars
<1>2. c \in Cores /\ (p \in Cores => c = p)
  BY <1>k, <1>1, CoreAtHand
<1>3. /\ todo_list[c] \in Seq(Jobs) /\ h \in Jobs /\ Tail(todo_list[c]) \in Seq(Jobs)
      /\ <<h>> \o Tail(todo_list[c]) = todo_list[c]
      /\ ToSet(todo_list[c]) = ToSet(Tail(todo_list[c])) \cup {h}
      /\ h \notin ToSet(Tail(todo_list[c]))
  <2>1. todo_list[c] \in Seq(Jobs)
    BY <1>k, <1>2 DEF TypeInv
  <2>2. ~InOrder(todo_list[c], h, h)
    BY <1>k, <1>1, <1>2, <2>1, HeadTail, OnceInLine
  <2> QED BY <1>1, <2>1, <2>2, HeadTail
<1>4. /\ running'[c] = h /\ todo_list'[c] = Tail(todo_list[c])
      /\ \A d \in Cores \ {c} : running'[d] = running[d] /\ todo_list'[d] = todo_list[d]
      /\ held'[p] = h /\ at'[p] = "commit"
      /\ \A q \in Procs \ {p} : held'[q] = held[q] /\ at'[q] = at[q]
      /\ \A q \in Procs : CoreOf(q)' = CoreOf(q)
      /\ held[p] = NoJob
  <2>1. \A q \in Procs : CoreOf(q)' = CoreOf(q)
    BY <1>1 DEF CoreOf
  <2>2. held[p] = NoJob
    BY <1>k, <1>1, Apart DEF PlaceInv
  <2> QED BY <1>k, <1>1, <1>2, <2>1, <2>2 DEF TypeOK, TypeInv
<1>5. TypeOK' /\ TypeInv'
  <2>1. todo_list' \in [Cores -> Seq(Jobs)]
    BY <1>k, <1>1, <1>3 DEF TypeInv
  <2>2. running' \in [Cores -> Jobs \cup {NoJob}] /\ held' \in [Procs -> Jobs \cup {NoJob}]
    BY <1>k, <1>1, <1>3 DEF TypeOK
  <2> QED BY <1>k, <1>1, <2>1, <2>2 DEF TypeOK, TypeInv
<1>6. PlaceInv'
  <2>1. ASSUME NEW d \in Cores
        PROVE  /\ at'[d] \in IrqPlaces
               /\ at'[d] \in {"status", "done", "commit"} <=> held'[d] # NoJob
    <3>1. CASE d = p
      BY <1>3, <1>4, <3>1, Apart DEF IrqPlaces
    <3>2. CASE d # p
      BY <1>k, <1>4, <3>2, Apart DEF PlaceInv
    <3> QED BY <3>1, <3>2
  <2>2. ASSUME NEW k \in Jobs
        PROVE  /\ at'[k] \in Places
               /\ at'[k] \in {"flush", "commit"} => held'[k] # NoJob
               /\ at'[k] \notin {"flush", "commit", "reset", "resetting"} => held'[k] = NoJob
               /\ (\/ at'[k] \in {"flush", "next", "commit"}
                   \/ at'[k] \in {"reset", "resetting"} /\ held'[k] # NoJob)
                  => left'[k] # {}
               /\ at'[k] = "queue" => job'[k].cores # {}
    <3>1. CASE k = p
      <4>1. left[k] # {}
        BY <1>k, <1>1, <3>1 DEF PlaceInv
      <4> QED BY <1>1, <1>3, <1>4, <3>1, <4>1, Apart DEF Places
    <3>2. CASE k # p
      <4>1. at'[k] = at[k] /\ held'[k] = held[k] /\ left'[k] = left[k] /\ job'[k] = job[k]
        BY <1>1, <1>4, <3>2, Apart
      <4> QED BY <1>k, <4>1 DEF PlaceInv
    <3> QED BY <3>1, <3>2
  <2> QED BY <2>1, <2>2 DEF PlaceInv
<1>7. /\ \A k \in Jobs : \A d \in Cores : ToSet(todo_list'[d]) \subseteq ToSet(todo_list[d])
      /\ \A k \in Jobs : \A d \in Cores : running'[d] = k => running[d] = k \/ (d = c /\ k = h)
      /\ \A k \in Jobs : \A d \in Cores : held'[d] = k =>
           (held[d] = k /\ at'[d] = at[d]) \/ (d = c /\ d = p /\ k = h)
      /\ \A k \in Jobs : \A d \in Cores : \A q \in Procs : Taking(q, d, k)' =>
           Taking(q, d, k) \/ (q = p /\ d = c /\ k = h)
  <2>1. \A k \in Jobs : \A d \in Cores : \A q \in Procs : Taking(q, d, k)' =>
           Taking(q, d, k) \/ (q = p /\ d = c /\ k = h)
    BY <1>4 DEF Taking
  <2> QED BY <1>2, <1>3, <1>4, <2>1, Apart
<1>8. h \in ToSet(todo_list[c]) /\ c \in Pending(h) /\ c \in Remaining(h)
  BY <1>2, <1>3 DEF Pending, Remaining
<1>9. \A k \in Jobs : Pending(k)' \subseteq Pending(k) /\ Remaining(k)' \subseteq Remaining(k)
  <2>1. ASSUME NEW k \in Jobs, NEW d \in Pending(k)' PROVE d \in Pending(k)
    <3>1. d \in Cores /\ (k \in ToSet(todo_list'[d]) \/ \E q \in Procs : Taking(q, d, k)')
      BY <2>1 DEF Pending
    <3> QED BY <1>7, <1>8, <3>1 DEF Pending
  <2>2. ASSUME NEW k \in Jobs, NEW d \in Remaining(k)' PROVE d \in Remaining(k)
    <3>1. d \in Cores /\ (k \in ToSet(todo_list'[d]) \/ running'[d] = k \/ held'[d] = k)
      BY <2>2 DEF Remaining
    <3> QED BY <1>7, <1>8, <3>1 DEF Remaining
  <2> QED BY <2>1, <2>2
<1>10. \A k \in Jobs : Idler(k) /\ Steady(k)
  BY <1>1 DEF Idler, Steady
<1>11. Grown
  BY <1>1 DEF Grown
<1>12. \A k \in Jobs : Still(k) \/ GoesOn(k)
  BY <1>1, <1>4, Apart DEF Still, GoesOn
<1>13. \A k \in Jobs \ {h} : JobInv(k)' /\ (k \in Holders' <=> k \in Holders)
  <2>1. \A k \in Jobs \ {h} : Fewer(k) /\ Unheld(k)
    BY <1>4, <1>7 DEF Fewer, Unheld
  <2> QED BY <1>k, <1>10, <1>11, <1>12, <2>1, PasserByKept
<1>14. JobInv(h)' /\ (h \in Holders' <=> h \in Holders)
  <2>1. JobInv(h) /\ ~Unqueued(h) /\ Steady(h)
    BY <1>k, <1>3, <1>8, <1>10 DEF JobInv, UnqueuedInv
  <2>2. OnceInv(h)'
    <3>1. Pending(h)' \cup Remaining(h)' \subseteq job'[h].cores
      BY <1>3, <1>9, <2>1 DEF JobInv, OnceInv, Steady
    <3>2. ASSUME NEW d \in Cores
          PROVE  (/\ h \in ToSet(todo_list[d]) =>
                       held[d] # h /\ \A q \in Procs : ~Taking(q, d, h)
                  /\ \A q, r \in Procs : Taking(q, d, h) /\ Taking(r, d, h) => q = r
                  /\ engine[d] = h => d \in job[h].cores
                  /\ held[d] = h /\ at[d] = "done" => running[d] # h
                  /\ held[d] = h /\ at[d] = "status" => d \in job[h].irq_entry
                  /\ (\/ h \in ToSet(todo_list[d]) \/ running[d] = h
                      \/ held[d] = h /\ at[d] = "status")
                     => job[h].submit_count[d] < job[h].batches)'
      <4>1. /\ h \in ToSet(todo_list[d]) =>
                 held[d] # h /\ \A q \in Procs : ~Taking(q, d, h)
            /\ \A q, r \in Procs : Taking(q, d, h) /\ Taking(r, d, h) => q = r
            /\ engine[d] = h => d \in job[h].cores
            /\ held[d] = h /\ at[d] = "done" => running[d] # h
            /\ held[d] = h /\ at[d] = "status" => d \in job[h].irq_entry
            /\ (\/ h \in ToSet(todo_list[d]) \/ running[d] = h
                \/ held[d] = h /\ at[d] = "status")
               => job[h].submit_count[d] < job[h].batches
        BY <2>1 DEF JobInv, OnceInv
      <4>2. CASE d = c
        <5>1. h \notin ToSet(todo_list'[d]) /\ running'[d] = h
          BY <1>3, <1>4, <4>2
        <5>2. \A q \in Procs : Taking(q, d, h)' => q = p
          BY <1>3, <1>7, <1>8, <4>1, <4>2
        <5>3. ~(held'[d] = h /\ at'[d] \in {"done", "status"})
          <6>1. held[d] # h
            BY <1>8, <4>1, <4>2
          <6>2. d = p => at'[d] = "commit"
            BY <1>4
          <6>3. d # p => held'[d] = held[d]
            BY <1>4, Apart
          <6> QED BY <6>1, <6>2, <6>3
        <5>4. job[h].submit_count[d] < job[h].batches
          BY <1>8, <4>1, <4>2
        <5> QED BY <1>1, <4>1, <5>1, <5>2, <5>3, <5>4
      <4>3. CASE d # c
        <5>1. /\ todo_list'[d] = todo_list[d] /\ running'[d] = running[d]
              /\ d # p /\ held'[d] = held[d] /\ at'[d] = at[d]
              /\ \A q \in Procs : Taking(q, d, h)' => Taking(q, d, h)
          BY <1>2, <1>3, <1>4, <1>7, <4>3, Apart
        <5> QED BY <1>1, <4>1, <5>1
      <4> QED BY <4>2, <4>3
    <3> QED BY <3>1, <3>2 DEF OnceInv
  <2>3. CountInv(h)'
    BY <1>k, <1>3, <1>9, <2>1, CountKept DEF JobInv, Steady
  <2>4. CASE GoesOn(h)
    BY <1>3, <1>11, <2>1, <2>2, <2>3, <2>4, GoingKept DEF JobInv, Steady
  <2>5. CASE Still(h)
    <3>1. UnqueuedInv(h)'
      <4>1. ~Unqueued(h)'
        BY <2>1, <2>5 DEF Unqueued, Still
      <4> QED BY <4>1 DEF UnqueuedInv
    <3>2. FateInv(h)'
      BY <1>3, <1>11, <2>1, <2>5, FateKept DEF JobInv, Steady
    <3>3. LeavingInv(h)'
      <4>1. \A d \in Cores : h \in ToSet(todo_list'[d]) => h \in ToSet(todo_list[d])
        BY <1>3, <1>7
      <4> QED BY <1>3, <1>9, <1>11, <2>1, <2>5, <4>1, CleanBefore DEF JobInv, LeavingInv, Still
    <3> QED BY <1>3, <2>1, <2>2, <2>3, <2>5, <3>1, <3>2, <3>3, HolderKept DEF JobInv
  <2> QED BY <1>3, <1>12, <2>4, <2>5
<1>15. ConsistentOrder'
  <2>1. ASSUME NEW d \in Cores PROVE Line(d)' = Line(d)
    <3>1. CASE d = c
      <4>1. Line(d) = todo_list[d]
        BY <1>1, <3>1 DEF Line
      <4>2. running'[d] = h /\ todo_list'[d] = Tail(todo_list[c]) /\ h # NoJob
        BY <1>4, <3>1, Apart
      <4>3. Line(d)' = <<h>> \o Tail(todo_list[c])
        BY <4>2 DEF Line
      <4> QED BY <1>3, <3>1, <4>1, <4>3
    <3>2. CASE d # c
      BY <1>4, <3>2 DEF Line
    <3> QED BY <3>1, <3>2
  <2>2. \A d \in Cores, a, b \in Jobs : Before(d, a, b)' <=> Before(d, a, b)
    BY <2>1 DEF Before
  <2> QED BY <1>k, <2>2, NoNewPair
<1>16. EngineInv'
  <2> SUFFICES ASSUME Clean({"overlap", "overdue"})' PROVE EngineInv'
    BY DEF EngineInv
  <2>1. engine[c] = NoJob /\ irq[c] = "none"
    BY <1>1 DEF Clean
  <2>2. /\ \A d \in Cores :
             /\ engine[d] # NoJob => irq[d] = "none"
             /\ at[d] = "status" => running[d] = held[d]
             /\ running[d] # NoJob /\ ~job[running[d]].committed =>
                  engine[d] = NoJob /\ irq[d] = "none" /\ at[d] # "status"
             /\ at[d] = "done" => /\ engine[d] # held[d]
                                  /\ job[held[d]].submit_count[d] = job[held[d]].batches
        /\ \A k \in Jobs : job[k].interrupt_count >= Cardinality(Due(k))
    BY <1>k, <1>11, CleanBefore DEF EngineInv
  <2>3. ASSUME NEW d \in Cores
        PROVE  (/\ engine[d] # NoJob => irq[d] = "none"
                /\ at[d] = "status" => running[d] = held[d]
                /\ running[d] # NoJob /\ ~job[running[d]].committed =>
                     engine[d] = NoJob /\ irq[d] = "none" /\ at[d] # "status"
                /\ at[d] = "done" => /\ engine[d] # held[d]
                                     /\ job[held[d]].submit_count[d] = job[held[d]].batches)'
    <3>1. at'[d] \in {"status", "done"} => at'[d] = at[d] /\ held'[d] = held[d]
      BY <1>4, Apart
    <3>2. CASE d = c
      <4>1. at[d] # "status"
        BY <1>k, <1>1, <2>2, <3>2 DEF PlaceInv
      <4> QED BY <1>1, <2>1, <2>2, <3>1, <3>2, <4>1
    <3>3. CASE d # c
      BY <1>1, <1>4, <2>2, <3>1, <3>3
    <3> QED BY <3>2, <3>3
  <2>4. ASSUME NEW k \in Jobs PROVE job'[k].interrupt_count >= Cardinality(Due(k)')
    <3>1. \A d \in job[k].cores \ Due(k) : d \notin Remaining(k)' /\ engine'[d] # k
      BY <1>1, <1>9 DEF Due
    <3> QED BY <1>k, <1>1, <2>2, <3>1, DueKept
  <2> QED BY <2>3, <2>4 DEF EngineInv
<1>17. DomainInv'
  <2>1. \A k \in Jobs : k \in Holders' <=> k \in Holders
    BY <1>13, <1>14
  <2> QED BY <1>k, <1>1, <1>11, <2>1, DomainKept
<1> QED BY <1>5, <1>6, <1>13, <1>14, <1>15, <1>16, <1>17, InvByJobs

LEMMA NextTakeStep ==
  ASSUME IInv, NEW p \in Procs, NextTake(p)
  PROVE  IInv'
<1>1. TypeInv /\ PlaceInv /\ at[p] = "next" /\ todo_list[CoreOf(p)] # << >>
  BY InvParts DEF NextTake
<1>2. CoreOf(p) \in Cores
  BY <1>1, CoreAtHand
<1>3. Head(todo_list[CoreOf(p)]) \in Jobs
  <2>1. todo_list[CoreOf(p)] \in Seq(Jobs)
    BY <1>1, <1>2 DEF TypeInv
  <2> QED BY <1>1, <2>1, HeadTail
<1> QED BY <1>2, <1>3, TakeStep

\* What a commit starts on a core is the job that the core was given.
LEMMA CommitEngine ==
  ASSUME TypeOK, TypeInv, PlaceInv, EngineInv, NEW p \in Procs, at[p] = "commit",
         NEW j \in Jobs, j = held[p], OnceInv(j), CountInv(j), Grown, NEW last \in BOOLEAN,
         last => job[j].run_count = 1 /\ ~job[j].committed,
         \A k \in Jobs \ {j} : job'[k] = job[k],
         job'[j].cores = job[j].cores, job'[j].batches = job[j].batches,
         job'[j].interrupt_count = job[j].interrupt_count,
         job'[j].submit_count = job[j].submit_count,
         job'[j].committed <=> job[j].committed \/ last,
         running' = running, irq' = irq,
         \A c \in Cores : engine'[c] = IF last /\ c \in job[j].cores THEN j ELSE engine[c],
         \A q \in Procs \ {p} : at'[q] = at[q] /\ held'[q] = held[q],
         at'[p] \notin {"status", "done"}, \A k \in Jobs : Remaining(k)' \subseteq Remaining(k),
         Clean({"overlap"})' /\ last => \A c \in job[j].cores : running[c] = j
  PROVE  EngineInv'
<1> SUFFICES ASSUME Clean({"overlap", "overdue"})' PROVE EngineInv'
  BY DEF EngineInv
<1>1. /\ \A d \in Cores :
           /\ engine[d] # NoJob => irq[d] = "none"
           /\ at[d] = "status" => running[d] = held[d]
           /\ running[d] # NoJob /\ ~job[running[d]].committed =>
                engine[d] = NoJob /\ irq[d] = "none" /\ at[d] # "status"
           /\ at[d] = "done" => /\ engine[d] # held[d]
                                /\ job[held[d]].submit_count[d] = job[held[d]].batches
      /\ \A k \in Jobs : job[k].interrupt_count >= Cardinality(Due(k))
  BY CleanBefore DEF EngineInv
<1>2. last => \A d \in job[j].cores : running[d] = j
  BY DEF Clean
<1>3. ASSUME NEW d \in Cores
      PROVE  (/\ engine[d] # NoJob => irq[d] = "none"
              /\ at[d] = "status" => running[d] = held[d]
              /\ running[d] # NoJob /\ ~job[running[d]].committed =>
                   engine[d] = NoJob /\ irq[d] = "none" /\ at[d] # "status"
              /\ at[d] = "done" => /\ engine[d] # held[d]
                                   /\ job[held[d]].submit_count[d] = job[held[d]].batches)'
  <2>1. /\ at'[d] \in {"status", "done"} => at'[d] = at[d] /\ held'[d] = held[d]
        /\ at'[d] \notin {"status", "done"} => at'[d] # "status" /\ at'[d] # "done"
    BY Apart
  <2>2. at[d] = "done" => held[d] \in Jobs
    BY Apart DEF PlaceInv, TypeOK
  <2>3. \A k \in Jobs : /\ job'[k].submit_count = job[k].submit_count
                        /\ job'[k].batches = job[k].batches
                        /\ job[k].committed => job'[k].committed
    OBVIOUS
  <2>4. running[d] \in Jobs \cup {NoJob}
    BY DEF TypeOK
  <2>5. CASE last /\ d \in job[j].cores
    <3>1. running[d] = j /\ engine'[d] = j /\ job'[j].committed
      BY <1>2, <2>5
    <3>2. irq[d] = "none" /\ at[d] # "status"
      BY <1>1, <2>5, <3>1, Apart
    <3>3. at[d] = "done" => held[d] # j
      BY <3>1 DEF OnceInv
    <3> QED BY <1>1, <2>1, <2>2, <2>3, <3>1, <3>2, <3>3
  <2>6. CASE ~(last /\ d \in job[j].cores)
    <3>1. engine'[d] = engine[d]
      BY <2>6
    <3>2. running[d] # NoJob /\ ~job'[running[d]].committed => ~job[running[d]].committed
      BY <2>3, <2>4
    <3>3. ~(at'[d] = "status" /\ running[d] # NoJob /\ ~job[running[d]].committed)
      BY <1>1, <2>1
    <3> QED BY <1>1, <2>1, <2>2, <2>3, <3>1, <3>2, <3>3
  <2> QED BY <2>5, <2>6
<1>4. ASSUME NEW k \in Jobs PROVE job'[k].interrupt_count >= Cardinality(Due(k)')
  <2>1. /\ job'[k].interrupt_count = job[k].interrupt_count
        /\ job'[k].cores = job[k].cores /\ job'[k].batches = job[k].batches
        /\ job'[k].submit_count = job[k].submit_count
    OBVIOUS
  <2>2. \A d \in job[k].cores \ Due(k) : d \in Cores /\ engine'[d] # k
    <3>1. ASSUME NEW d \in job[k].cores \ Due(k) PROVE d \in Cores /\ engine'[d] # k
      <4>1. d \in Cores /\ engine[d] # k /\ running[d] # k
        BY DEF Due, Remaining, TypeInv, JobRecord
      <4> QED BY <1>2, <4>1
    <3> QED BY <3>1
  <2>3. \A d \in job[k].cores \ Due(k) : d \notin Remaining(k)'
    BY DEF Due
  <2>4. \A d \in job[k].cores \ Due(k) : job'[k].submit_count[d] = job[k].submit_count[d]
    BY <2>1
  <2> QED BY <1>1, <2>1, <2>2, <2>3, <2>4, DueKept
<1> QED BY <1>3, <1>4 DEF EngineInv

LEMMA CommitStep ==
  ASSUME IInv, NEW p \in Procs, Commit(p)
  PROVE  IInv'
<1>k. /\ TypeOK /\ TypeInv /\ PlaceInv /\ \A k \in Jobs : JobInv(k)
      /\ ConsistentOrder /\ EngineInv /\ DomainInv
  BY InvParts
<1>a. at[p] = "commit"
  BY DEF Commit
<1>b. PICK j \in Jobs : j = held[p]
  BY <1>k, <1>a, Apart DEF PlaceInv, TypeOK
<1>c. PICK last \in BOOLEAN : last <=> job[j].run_count = 1
  OBVIOUS
<1>d. PICK c \in Cores : c = CoreOf(p)
  BY <1>k, <1>a, CoreAtHand
<1>1. /\ p \notin freed /\ j \notin freed /\ AfterNext(p)
      /\ job' = [job EXCEPT ![j].run_count = @ - 1, ![j].committed = @ \/ last]
      /\ engine' = [d \in Cores |-> IF last /\ d \in job[j].cores THEN j ELSE engine[d]]
      /\ held' = [held EXCEPT ![p] = NoJob]
      /\ mishaps' = mishaps \cup (IF last /\ \E d \in job[j].cores : running[d] # j
                                  THEN {"overlap"} ELSE {})
      /\ running' = running /\ todo_list' = todo_list /\ task_num' = task_num
      /\ irq' = irq /\ work' = work /\ freed' = freed /\ UNCHANGED domainVars
      /\ iommu_domain_id' = iommu_domain_id /\ attached' = attached
      /\ iommu_domain_refcount' = iommu_domain_refcount
  BY <1>b, <1>c DEF Commit, Noted, If, coreVars, resetVars, domainVars
<1>2. /\ \A q \in Procs \ {p} : at'[q] = at[q]
      /\ p \in Cores => left' = left /\ at'[p] = "idle"
      /\ p \in Jobs => /\ at'[p] \in {"next", "out", "wait"}
                       /\ at'[p] = "next" => left'[p] # {}
                       /\ at'[p] = "out" => job[p].nonblock
                       /\ at'[p] = "wait" => ~job[p].nonblock
      /\ at' \in [Procs -> Places \cup IrqPlaces] /\ left' \in [Jobs -> SUBSET Cores]
      /\ \A k \in Jobs \ {p} : left'[k] = left[k]
  BY <1>k, <1>a, <1>1, AfterNextFacts
<1>3. /\ held'[p] = NoJob /\ \A q \in Procs \ {p} : held'[q] = held[q]
      /\ held' \in [Procs -> Jobs \cup {NoJob}]
  BY <1>k, <1>1 DEF TypeOK
<1>4. /\ Taking(p, c, j) /\ c \in Pending(j) /\ job[j].run_count >= 1
      /\ job[j].run_count \in Nat /\ job[j] \in JobRecord
  <2>1. CountInv(j) /\ job[j] \in JobRecord
    BY <1>k DEF JobInv, TypeInv
  <2> QED BY <1>k, <1>a, <1>b, <1>d, <2>1, CommitCounts, CoresNumbered DEF JobRecord
<1>5. /\ job'[j].run_count = job[j].run_count - 1
      /\ job'[j].committed <=> job[j].committed \/ last
      /\ job'[j].cores = job[j].cores /\ job'[j].domain = job[j].domain
      /\ job'[j].nonblock = job[j].nonblock /\ job'[j].batches = job[j].batches
      /\ job'[j].interrupt_count = job[j].interrupt_count
      /\ job'[j].submit_count = job[j].submit_count
      /\ job'[j].done = job[j].done /\ job'[j].irq_entry = job[j].irq_entry
      /\ \A k \in Jobs \ {j} : job'[k] = job[k]
      /\ job' \in [Jobs -> JobRecord]
  <2> DEFINE x == [job[j] EXCEPT !.run_count = @ - 1]
             y == [x EXCEPT !.committed = @ \/ last]
  <2>1. x \in JobRecord
    <3>1. job[j].run_count \in 0 .. Cardinality(Cores)
      BY <1>4 DEF JobRecord
    <3>2. job[j].run_count - 1 \in 0 .. Cardinality(Cores)
      BY <1>4, <3>1, CoresNumbered
    <3> QED BY <1>4, <3>2 DEF JobRecord
  <2>2. y \in JobRecord
    <3> HIDE DEF x
    <3> QED BY <2>1 DEF JobRecord
  <2>3. /\ y.run_count = job[j].run_count - 1
        /\ y.committed <=> job[j].committed \/ last
        /\ y.cores = job[j].cores /\ y.domain = job[j].domain
        /\ y.nonblock = job[j].nonblock /\ y.batches = job[j].batches
        /\ y.interrupt_count = job[j].interrupt_count
        /\ y.submit_count = job[j].submit_count
        /\ y.done = job[j].done /\ y.irq_entry = job[j].irq_entry
    BY <1>4 DEF JobRecord
  <2>4. job' = [job EXCEPT ![j] = y]
    BY <1>k, <1>1 DEF TypeInv
  <2> HIDE DEF y
  <2> QED BY <1>k, <2>2, <2>3, <2>4 DEF TypeInv
<1>6. \A d \in Cores : engine'[d] = IF last /\ d \in job[j].cores THEN j ELSE engine[d]
  BY <1>1
<1>7. TypeOK' /\ TypeInv'
  <2>1. engine' \in [Cores -> Jobs \cup {NoJob}]
    BY <1>k, <1>1 DEF TypeOK
  <2>2. \A k \in Jobs : /\ job'[k].run_count \in 0 .. Cardinality(Cores)
                        /\ job'[k].interrupt_count \in 0 .. Cardinality(Cores)
    BY <1>5 DEF JobRecord
  <2>3. TypeOK'
    BY <1>k, <1>1, <1>2, <1>3, <2>1, <2>2 DEF TypeOK, Places, IrqPlaces
  <2>4. TypeInv'
    BY <1>k, <1>1, <1>2, <1>5 DEF TypeInv
  <2> QED BY <2>3, <2>4
<1>8. PlaceInv'
  <2>1. ASSUME NEW d \in Cores
        PROVE  /\ at'[d] \in IrqPlaces
               /\ at'[d] \in {"status", "done", "commit"} <=> held'[d] # NoJob
    <3>1. CASE d = p
      BY <1>2, <1>3, <3>1 DEF IrqPlaces
    <3>2. CASE d # p
      BY <1>k, <1>2, <1>3, <3>2, Apart DEF PlaceInv
    <3> QED BY <3>1, <3>2
  <2>2. ASSUME NEW k \in Jobs
        PROVE  /\ at'[k] \in Places
               /\ at'[k] \in {"flush", "commit"} => held'[k] # NoJob
               /\ at'[k] \notin {"flush", "commit", "reset", "resetting"} => held'[k] = NoJob
               /\ (\/ at'[k] \in {"flush", "next", "commit"}
                   \/ at'[k] \in {"reset", "resetting"} /\ held'[k] # NoJob)
                  => left'[k] # {}
               /\ at'[k] = "queue" => job'[k].cores # {}
    <3>1. CASE k = p
      BY <1>2, <1>3, <3>1 DEF Places
    <3>2. CASE k # p
      <4>1. /\ at'[k] = at[k] /\ held'[k] = held[k] /\ left'[k] = left[k]
            /\ job'[k].cores = job[k].cores
        BY <1>2, <1>3, <1>5, <3>2, Apart
      <4> QED BY <1>k, <4>1 DEF PlaceInv
    <3> QED BY <3>1, <3>2
  <2> QED BY <2>1, <2>2 DEF PlaceInv
<1>9. ASSUME NEW k \in Jobs, NEW q \in Procs, NEW d \in Cores, Taking(q, d, k)'
      PROVE  Taking(q, d, k) /\ q # p
  <2>1. q # p /\ at[q] = "commit" /\ held[q] = k
    BY <1>2, <1>3, <1>9, Apart DEF Taking
  <2>2. CoreOf(q)' = CoreOf(q)
    BY <1>2, <2>1, Apart DEF CoreOf
  <2> QED BY <1>9, <2>1, <2>2 DEF Taking
<1>10. \A k \in Jobs : Fewer(k) /\ Unheld(k)
  <2>1. \A d \in Cores : d = p \/ (at'[d] = at[d] /\ held'[d] = held[d])
    BY <1>2, <1>3, Apart
  <2>2. \A k \in Jobs : k # NoJob
    BY Apart
  <2> QED BY <1>1, <1>3, <1>9, <2>1, <2>2 DEF Fewer, Unheld
<1>11. Grown
  BY <1>1 DEF Grown
<1>12. \A k \in Jobs : Still(k) \/ GoesOn(k)
  BY <1>a, <1>1, <1>2, <1>3, Apart DEF Still, GoesOn
<1>13. \A k \in Jobs \ {j} : JobInv(k)' /\ (k \in Holders' <=> k \in Holders)
  <2>1. \A k \in Jobs \ {j} : Idler(k) /\ Steady(k)
    BY <1>5, <1>6 DEF Idler, Steady
  <2> QED BY <1>k, <1>10, <1>11, <1>12, <2>1, PasserByKept
<1>14. last => ~job[j].committed
  BY <1>k, <1>c DEF JobInv, CountInv
<1>15. JobInv(j)' /\ (j \in Holders' <=> j \in Holders)
  <2>1. JobInv(j) /\ ~Unqueued(j)
    BY <1>k, <1>b DEF JobInv, UnqueuedInv
  <2>2. OnceInv(j)'
    BY <1>5, <1>6, <1>10, <2>1, OnceKept DEF JobInv
  <2>3. CountInv(j)'
    <3>1. Pending(j)' \in SUBSET (Pending(j) \ {c})
      <4>1. Pending(j)' \subseteq Pending(j)
        BY <1>10, FewerPlaces
      <4>2. j \notin ToSet(todo_list'[c]) /\ \A q \in Procs : ~Taking(q, c, j)'
        BY <1>1, <1>4, <1>9, <2>1 DEF JobInv, OnceInv
      <4>3. c \notin Pending(j)'
        BY <4>2 DEF Pending
      <4> QED BY <4>1, <4>3
    <3>2. Pending(j) \in SUBSET Cores /\ Remaining(j) \in SUBSET Cores
      BY DEF Pending, Remaining
    <3>3. /\ Cardinality(Pending(j) \ {c}) = Cardinality(Pending(j)) - 1
          /\ Cardinality(Pending(j)) \in Nat
      BY <1>4, <3>2, CoreSets, CoresNumbered
    <3>4. Cardinality(Pending(j)') <= Cardinality(Pending(j) \ {c})
      <4>1. Pending(j) \ {c} \in SUBSET Cores
        BY <3>2
      <4> QED BY <3>1, <4>1, CoreSets
    <3>5. Cardinality(Pending(j)') \in Nat
      <4>1. Pending(j)' \in SUBSET Cores
        BY <3>1, <3>2
      <4> QED BY <4>1, CoreSets, CoresNumbered
    <3>6. job'[j].run_count >= Cardinality(Pending(j)')
      BY <1>4, <1>5, <2>1, <3>3, <3>4, <3>5 DEF JobInv, CountInv
    <3>7. job'[j].interrupt_count >= Cardinality(Remaining(j)')
      <4>1. Remaining(j)' \in SUBSET Remaining(j) /\ Remaining(j)' \in SUBSET Cores
        BY <1>10, <3>2, FewerPlaces
      <4>2. Cardinality(Remaining(j)') <= Cardinality(Remaining(j))
        BY <3>2, <4>1, CoreSets
      <4>3. Cardinality(Remaining(j)') \in Nat /\ Cardinality(Remaining(j)) \in Nat
        BY <3>2, <4>1, CoreSets, CoresNumbered
      <4>4. job[j].interrupt_count \in Nat
        BY <1>4, CoresNumbered DEF JobRecord
      <4> QED BY <1>5, <2>1, <4>2, <4>3, <4>4 DEF JobInv, CountInv
    <3>8. job'[j].committed => job'[j].run_count = 0
      BY <1>c, <1>4, <1>5, <2>1 DEF JobInv, CountInv
    <3> QED BY <1>5, <2>1, <3>6, <3>7, <3>8 DEF JobInv, CountInv
  <2>4. CASE GoesOn(j)
    BY <1>5, <1>11, <2>1, <2>2, <2>3, <2>4, GoingKept DEF JobInv
  <2>5. CASE Still(j)
    <3>1. UnqueuedInv(j)'
      <4>1. ~Unqueued(j)'
        BY <2>1, <2>5 DEF Unqueued, Still
      <4> QED BY <4>1 DEF UnqueuedInv
    <3>2. FateInv(j)' /\ LeavingInv(j)'
      BY <1>5, <1>10, <1>11, <2>1, <2>5, FateKept, LeavingKept DEF JobInv
    <3>3. j \in Holders' <=> j \in Holders
      BY <1>5, <2>5 DEF Holders, Still
    <3> QED BY <2>2, <2>3, <3>1, <3>2, <3>3 DEF JobInv
  <2> QED BY <1>12, <2>4, <2>5
<1>16. ConsistentOrder'
  BY <1>k, <1>1, <1>7, OrderKept, WithinItself
<1>17. EngineInv'
  <2>1. Clean({"overlap"})' /\ last => \A d \in job[j].cores : running[d] = j
    BY <1>1 DEF Clean
  <2>2. at'[p] \notin {"status", "done"}
    BY <1>2, Apart
  <2>3. \A k \in Jobs : Remaining(k)' \subseteq Remaining(k)
    BY <1>10, FewerPlaces
  <2>4. OnceInv(j) /\ CountInv(j)
    BY <1>k DEF JobInv
  <2>5. \A q \in Procs \ {p} : at'[q] = at[q] /\ held'[q] = held[q]
    BY <1>2, <1>3
  <2>6. last => job[j].run_count = 1 /\ ~job[j].committed
    BY <1>c, <1>14
  <2>7. /\ \A k \in Jobs \ {j} : job'[k] = job[k]
        /\ job'[j].cores = job[j].cores /\ job'[j].batches = job[j].batches
        /\ job'[j].interrupt_count = job[j].interrupt_count
        /\ job'[j].submit_count = job[j].submit_count
        /\ job'[j].committed <=> job[j].committed \/ last
        /\ running' = running /\ irq' = irq
    BY <1>1, <1>5
  <2>8. j \in Jobs /\ j = held[p] /\ last \in BOOLEAN /\ p \in Procs /\ at[p] = "commit"
    BY <1>a, <1>b
  <2> QED BY <1>k, <1>6, <1>11, <2>1, <2>2, <2>3, <2>4, <2>5, <2>6, <2>7, <2>8, CommitEngine
<1>18. DomainInv'
  <2>1. \A k \in Jobs : /\ k \in Holders' <=> k \in Holders
                        /\ job'[k].domain = job[k].domain
    BY <1>5, <1>13, <1>15
  <2>2. Holders \subseteq Jobs
    BY DEF Holders
  <2> QED BY <1>k, <1>1, <1>11, <2>1, <2>2, DomainKept
<1> QED BY <1>7, <1>8, <1>13, <1>15, <1>16, <1>17, <1>18, InvByJobs

(***************************************************************************)
(* The hardware and the interrupt handlers.                                *)
(***************************************************************************)

\* What EngineInv says of one core.
CoreFine(c) ==
  /\ engine[c] # NoJob => irq[c] = "none"
  /\ at[c] = "status" => running[c] = held[c]
  /\ running[c] # NoJob /\ ~job[running[c]].committed =>
       engine[c] = NoJob /\ irq[c] = "none" /\ at[c] # "status"
  /\ at[c] = "done" => /\ engine[c] # held[c]
                       /\ job[held[c]].submit_count[c] = job[held[c]].batches

LEMMA EngineParts ==
  ASSUME EngineInv, Grown, Clean({"overlap", "overdue"})'
  PROVE  /\ \A c \in Cores : CoreFine(c)
         /\ \A j \in Jobs : job[j].interrupt_count >= Cardinality(Due(j))
  BY CleanBefore DEF EngineInv, CoreFine

\* A step that concerns one core.
LEMMA EngineStep ==
  ASSUME TypeOK, PlaceInv, EngineInv, Grown, NEW c \in Cores,
         \A d \in Cores \ {c} : /\ engine'[d] = engine[d] /\ irq'[d] = irq[d]
                                /\ running'[d] = running[d]
                                /\ at'[d] = at[d] /\ held'[d] = held[d],
         \A k \in Jobs : /\ job'[k].committed = job[k].committed
                         /\ job'[k].batches = job[k].batches
                         /\ \A d \in Cores \ {c} :
                              job'[k].submit_count[d] = job[k].submit_count[d],
         Clean({"overlap", "overdue"})' =>
           CoreFine(c)' /\ \A k \in Jobs : job'[k].interrupt_count >= Cardinality(Due(k)')
  PROVE  EngineInv'
<1> SUFFICES ASSUME Clean({"overlap", "overdue"})'
             PROVE  \A d \in Cores : CoreFine(d)'
  BY DEF EngineInv, CoreFine
<1>1. ASSUME NEW d \in Cores, d # c PROVE CoreFine(d)'
  <2>1. CoreFine(d)
    BY EngineParts
  <2>2. running[d] \in Jobs \cup {NoJob} /\ (at[d] = "done" => held[d] \in Jobs)
    BY Apart DEF TypeOK, PlaceInv
  <2>3. /\ engine'[d] = engine[d] /\ irq'[d] = irq[d] /\ running'[d] = running[d]
        /\ at'[d] = at[d] /\ held'[d] = held[d]
    BY <1>1
  <2>4. /\ running[d] # NoJob => job'[running[d]].committed = job[running[d]].committed
        /\ at[d] = "done" => /\ job'[held[d]].submit_count[d] = job[held[d]].submit_count[d]
                             /\ job'[held[d]].batches = job[held[d]].batches
    BY <1>1, <2>2
  <2> QED BY <2>1, <2>3, <2>4 DEF CoreFine
<1> QED BY <1>1

\* A handler or the hardware of c does something; it takes no job from a queue.
Handles(c) ==
  /\ \A q \in Procs \ {c} : at'[q] = at[q] /\ held'[q] = held[q]
  /\ left' = left /\ todo_list' = todo_list /\ freed' = freed /\ Grown
  /\ at'[c] # "commit"
  /\ \A d \in Cores \ {c} : running'[d] = running[d]
  /\ running'[c] = running[c] \/ running'[c] = NoJob

LEMMA HandlesTaking ==
  ASSUME NEW c \in Cores, Handles(c), NEW k \in Jobs, NEW q \in Procs, NEW d \in Cores,
         Taking(q, d, k)'
  PROVE  Taking(q, d, k)
<1>1. q # c /\ at[q] = "commit" /\ held[q] = k
  BY DEF Taking, Handles
<1>2. CoreOf(q)' = CoreOf(q)
  BY DEF CoreOf, Handles
<1> QED BY <1>1, <1>2 DEF Taking

LEMMA HandlesPlace ==
  ASSUME PlaceInv, NEW c \in Cores, Handles(c), at'[c] \in IrqPlaces,
         at'[c] \in {"status", "done", "commit"} <=> held'[c] # NoJob,
         \A k \in Jobs : job'[k].cores = job[k].cores
  PROVE  PlaceInv'
<1>1. \A d \in Cores \ {c} : at'[d] = at[d] /\ held'[d] = held[d]
  BY Apart DEF Handles
<1>2. \A k \in Jobs : at'[k] = at[k] /\ held'[k] = held[k] /\ left'[k] = left[k]
  BY Apart DEF Handles
<1> QED BY <1>1, <1>2 DEF PlaceInv

\* The handler takes k from nowhere to anywhere.
Passes(c, k) ==
  /\ held'[c] = k => held[c] = k /\ at'[c] = at[c]
  /\ k \in work' => k \in work

LEMMA HandlesFewer ==
  ASSUME NEW c \in Cores, Handles(c), NEW k \in Jobs, Passes(c, k)
  PROVE  Fewer(k) /\ Unheld(k) /\ Still(k)
<1>1. /\ \A d \in Cores \ {c} : at'[d] = at[d] /\ held'[d] = held[d]
      /\ at'[k] = at[k] /\ held'[k] = held[k]
  BY Apart DEF Handles
<1>2. \A d \in Cores : \A q \in Procs : Taking(q, d, k)' => Taking(q, d, k)
  BY HandlesTaking
<1>3. k # NoJob
  BY Apart
<1>4. Fewer(k)
  BY <1>1, <1>2, <1>3 DEF Fewer, Handles, Passes
<1>5. Unheld(k)
  BY DEF Unheld, Handles, Passes
<1>6. Still(k)
  BY <1>1 DEF Still, Handles, Passes
<1> QED BY <1>4, <1>5, <1>6

LEMMA HandlesOther ==
  ASSUME TypeInv, NEW c \in Cores, Handles(c), NEW k \in Jobs, JobInv(k), Passes(c, k),
         Steady(k), Idler(k)
  PROVE  JobInv(k)' /\ (k \in Holders' <=> k \in Holders)
  BY HandlesFewer, OtherKept, HolderKept DEF Handles

LEMMA HandlesOrder ==
  ASSUME TypeOK, TypeInv, TypeOK', TypeInv', ConsistentOrder, NEW c \in Cores, Handles(c)
  PROVE  ConsistentOrder'
  BY OrderKept, WithinItself DEF Handles

LEMMA EngineFinishesStep ==
  ASSUME IInv, NEW c \in Cores, EngineFinishes(c)
  PROVE  IInv'
<1>k. /\ TypeOK /\ TypeInv /\ PlaceInv /\ \A k \in Jobs : JobInv(k)
      /\ ConsistentOrder /\ EngineInv /\ DomainInv
  BY InvParts
<1>1. /\ engine[c] # NoJob /\ engine' = [engine EXCEPT ![c] = NoJob]
      /\ \/ irq' = [irq EXCEPT ![c] = "valid"]
         \/ irq' = [irq EXCEPT ![c] = "invalid"]
      /\ mishaps \subseteq mishaps'
      /\ job' = job /\ at' = at /\ held' = held /\ left' = left
      /\ running' = running /\ todo_list' = todo_list /\ task_num' = task_num
      /\ work' = work /\ freed' = freed /\ UNCHANGED domainVars
      /\ iommu_domain_id' = iommu_domain_id /\ attached' = attached
      /\ iommu_domain_refcount' = iommu_domain_refcount
  BY DEF EngineFinishes, Mishap, coreVars, resetVars, domainVars
<1>2. /\ engine'[c] = NoJob /\ engine' \in [Cores -> Jobs \cup {NoJob}]
      /\ \A d \in Cores \ {c} : engine'[d] = engine[d] /\ irq'[d] = irq[d]
      /\ irq' \in [Cores -> {"none", "valid", "invalid"}]
  BY <1>k, <1>1 DEF TypeOK, TypeInv
<1>3. TypeOK' /\ TypeInv'
  BY <1>k, <1>1, <1>2 DEF TypeOK, TypeInv
<1>4. PlaceInv'
  BY <1>k, <1>1 DEF PlaceInv
<1>5. Grown
  BY <1>1 DEF Grown
<1>6. \A k \in Jobs : Fewer(k) /\ Idler(k) /\ Steady(k) /\ Still(k) /\ Unheld(k)
  <2>1. \A k \in Jobs : Idler(k)
    BY <1>2, Apart DEF Idler
  <2>2. \A q \in Procs : CoreOf(q)' = CoreOf(q)
    BY <1>1 DEF CoreOf
  <2>3. \A k \in Jobs : \A d \in Cores : \A q \in Procs : Taking(q, d, k)' => Taking(q, d, k)
    BY <1>1, <2>2 DEF Taking
  <2> QED BY <1>1, <2>1, <2>3 DEF Fewer, Steady, Still, Unheld
<1>7. \A k \in Jobs : JobInv(k)' /\ (k \in Holders' <=> k \in Holders)
  BY <1>k, <1>5, <1>6, OtherKept, HolderKept
<1>8. ConsistentOrder'
  BY <1>k, <1>1, <1>3, OrderKept, WithinItself
<1>9. EngineInv'
  <2>1. ASSUME Clean({"overlap", "overdue"})'
        PROVE  CoreFine(c)' /\ \A k \in Jobs : job'[k].interrupt_count >= Cardinality(Due(k)')
    <3>1. CoreFine(c) /\ \A k \in Jobs : job[k].interrupt_count >= Cardinality(Due(k))
      BY <1>k, <1>5, <2>1, EngineParts
    <3>2. CoreFine(c)'
      BY <1>k, <1>1, <1>2, <3>1 DEF CoreFine, PlaceInv
    <3>3. ASSUME NEW k \in Jobs PROVE job'[k].interrupt_count >= Cardinality(Due(k)')
      <4>1. \A d \in job[k].cores \ Due(k) : d \notin Remaining(k)' /\ engine'[d] # k
        <5>1. Remaining(k)' \subseteq Remaining(k) /\ Idler(k) /\ job[k].cores \subseteq Cores
          BY <1>k, <1>6, FewerPlaces DEF TypeInv, JobRecord
        <5> QED BY <5>1 DEF Due, Idler
      <4> QED BY <1>k, <1>1, <3>1, <4>1, DueKept
    <3> QED BY <3>2, <3>3
  <2> QED BY <1>k, <1>1, <1>2, <1>5, <2>1, EngineStep
<1>10. DomainInv'
  BY <1>k, <1>1, <1>5, <1>7, DomainKept
<1> QED BY <1>3, <1>4, <1>7, <1>8, <1>9, <1>10, InvByJobs

LEMMA IrqInvalidStep ==
  ASSUME IInv, NEW c \in Cores, IrqInvalid(c)
  PROVE  IInv'
<1>k. /\ TypeOK /\ TypeInv /\ PlaceInv /\ \A k \in Jobs : JobInv(k)
      /\ ConsistentOrder /\ EngineInv /\ DomainInv
  BY InvParts
<1>1. /\ at[c] = "status" /\ irq' = [irq EXCEPT ![c] = "none"]
      /\ held' = [held EXCEPT ![c] = NoJob] /\ at' = [at EXCEPT ![c] = "idle"]
      /\ job' = job /\ left' = left /\ engine' = engine /\ mishaps' = mishaps
      /\ running' = running /\ todo_list' = todo_list /\ task_num' = task_num
      /\ work' = work /\ freed' = freed /\ UNCHANGED domainVars
      /\ iommu_domain_id' = iommu_domain_id /\ attached' = attached
      /\ iommu_domain_refcount' = iommu_domain_refcount
  BY DEF IrqInvalid, Goto, coreVars, resetVars, endVars, domainVars
<1>2. /\ irq'[c] = "none" /\ irq' \in [Cores -> {"none", "valid", "invalid"}]
      /\ \A d \in Cores \ {c} : irq'[d] = irq[d]
      /\ at'[c] = "idle" /\ held'[c] = NoJob
      /\ \A q \in Procs \ {c} : at'[q] = at[q] /\ held'[q] = held[q]
  BY <1>k, <1>1, Apart DEF TypeOK, TypeInv
<1>3. TypeOK' /\ TypeInv'
  BY <1>k, <1>1, <1>2 DEF TypeOK, TypeInv
<1>4. Handles(c)
  BY <1>1, <1>2 DEF Handles, Grown
<1>5. PlaceInv'
  BY <1>k, <1>1, <1>2, <1>4, HandlesPlace DEF IrqPlaces
<1>6. \A k \in Jobs : Passes(c, k) /\ Idler(k) /\ Steady(k)
  BY <1>1, <1>2, Apart DEF Passes, Idler, Steady
<1>7. \A k \in Jobs : JobInv(k)' /\ (k \in Holders' <=> k \in Holders)
  BY <1>k, <1>4, <1>6, HandlesOther
<1>8. ConsistentOrder'
  BY <1>k, <1>3, <1>4, HandlesOrder
<1>9. EngineInv'
  <2>1. ASSUME Clean({"overlap", "overdue"})'
        PROVE  CoreFine(c)' /\ \A k \in Jobs : job'[k].interrupt_count >= Cardinality(Due(k)')
    <3>1. CoreFine(c) /\ \A k \in Jobs : job[k].interrupt_count >= Cardinality(Due(k))
      BY <1>k, <1>4, <2>1, EngineParts DEF Handles
    <3>2. CoreFine(c)'
      BY <1>1, <1>2, <3>1 DEF CoreFine
    <3>3. ASSUME NEW k \in Jobs PROVE job'[k].interrupt_count >= Cardinality(Due(k)')
      <4>1. \A d \in job[k].cores \ Due(k) : d \notin Remaining(k)' /\ engine'[d] # k
        <5>1. Remaining(k)' \subseteq Remaining(k)
          BY <1>4, <1>6, HandlesFewer, FewerPlaces
        <5> QED BY <1>1, <5>1 DEF Due
      <4> QED BY <1>k, <1>1, <3>1, <4>1, DueKept
    <3> QED BY <3>2, <3>3
  <2>2. \A d \in Cores \ {c} : at'[d] = at[d] /\ held'[d] = held[d]
    BY <1>2, Apart
  <2> QED BY <1>k, <1>1, <1>2, <1>4, <2>1, <2>2, EngineStep DEF Handles
<1>10. DomainInv'
  BY <1>k, <1>1, <1>4, <1>7, DomainKept DEF Handles
<1> QED BY <1>3, <1>5, <1>7, <1>8, <1>9, <1>10, InvByJobs

\* An interrupt of an idle core is cleared.
LEMMA IrqIdleStep ==
  ASSUME IInv, NEW c \in Cores, IrqEnter(c), running[c] = NoJob
  PROVE  IInv'
<1>k. /\ TypeOK /\ TypeInv /\ PlaceInv /\ \A k \in Jobs : JobInv(k)
      /\ ConsistentOrder /\ EngineInv /\ DomainInv
  BY InvParts
<1>1. /\ at[c] = "idle" /\ irq' = [irq EXCEPT ![c] = "none"]
      /\ held' = held /\ at' = [at EXCEPT ![c] = "next"]
      /\ job' = job /\ left' = left /\ engine' = engine /\ mishaps' = mishaps
      /\ running' = running /\ todo_list' = todo_list /\ task_num' = task_num
      /\ work' = work /\ freed' = freed /\ UNCHANGED domainVars
      /\ iommu_domain_id' = iommu_domain_id /\ attached' = attached
      /\ iommu_domain_refcount' = iommu_domain_refcount
  BY DEF IrqEnter, Goto, coreVars, resetVars, endVars, domainVars
<1>2. /\ irq'[c] = "none" /\ irq' \in [Cores -> {"none", "valid", "invalid"}]
      /\ \A d \in Cores \ {c} : irq'[d] = irq[d]
      /\ at'[c] = "next" /\ held'[c] = NoJob
      /\ \A q \in Procs \ {c} : at'[q] = at[q] /\ held'[q] = held[q]
  BY ZenonT(60), <1>k, <1>1, Apart DEF TypeOK, TypeInv, PlaceInv
<1>3. TypeOK' /\ TypeInv'
  BY <1>k, <1>1, <1>2 DEF TypeOK, TypeInv
<1>4. Handles(c)
  BY <1>1, <1>2 DEF Handles, Grown
<1>5. PlaceInv'
  BY <1>k, <1>1, <1>2, <1>4, HandlesPlace DEF IrqPlaces
<1>6. \A k \in Jobs : Passes(c, k) /\ Idler(k) /\ Steady(k)
  BY <1>1, <1>2, Apart DEF Passes, Idler, Steady
<1>7. \A k \in Jobs : JobInv(k)' /\ (k \in Holders' <=> k \in Holders)
  BY <1>k, <1>4, <1>6, HandlesOther
<1>8. ConsistentOrder'
  BY <1>k, <1>3, <1>4, HandlesOrder
<1>9. EngineInv'
  <2>1. ASSUME Clean({"overlap", "overdue"})'
        PROVE  CoreFine(c)' /\ \A k \in Jobs : job'[k].interrupt_count >= Cardinality(Due(k)')
    <3>1. CoreFine(c) /\ \A k \in Jobs : job[k].interrupt_count >= Cardinality(Due(k))
      BY <1>k, <1>4, <2>1, EngineParts DEF Handles
    <3>2. CoreFine(c)'
      BY <1>1, <1>2, <3>1 DEF CoreFine
    <3>3. ASSUME NEW k \in Jobs PROVE job'[k].interrupt_count >= Cardinality(Due(k)')
      <4>1. \A d \in job[k].cores \ Due(k) : d \notin Remaining(k)' /\ engine'[d] # k
        <5>1. Remaining(k)' \subseteq Remaining(k)
          BY <1>4, <1>6, HandlesFewer, FewerPlaces
        <5> QED BY <1>1, <5>1 DEF Due
      <4> QED BY <1>k, <1>1, <3>1, <4>1, DueKept
    <3> QED BY <3>2, <3>3
  <2>2. \A d \in Cores \ {c} : at'[d] = at[d] /\ held'[d] = held[d]
    BY <1>2, Apart
  <2> QED BY <1>k, <1>1, <1>2, <1>4, <2>1, <2>2, EngineStep DEF Handles
<1>10. DomainInv'
  BY <1>k, <1>1, <1>4, <1>7, DomainKept DEF Handles
<1> QED BY <1>3, <1>5, <1>7, <1>8, <1>9, <1>10, InvByJobs

\* The handler takes hold of the job that runs on its core.
LEMMA IrqHoldStep ==
  ASSUME IInv, NEW c \in Cores, IrqEnter(c), NEW j \in Jobs, j = running[c]
  PROVE  IInv'
<1>k. /\ TypeOK /\ TypeInv /\ PlaceInv /\ \A k \in Jobs : JobInv(k)
      /\ ConsistentOrder /\ EngineInv /\ DomainInv
  BY InvParts
<1>1. /\ at[c] = "idle" /\ irq[c] # "none" /\ j \notin freed
      /\ job' = [job EXCEPT ![j].irq_entry = @ \cup {c}]
      /\ held' = [held EXCEPT ![c] = j] /\ at' = [at EXCEPT ![c] = "status"]
      /\ irq' = irq /\ left' = left /\ engine' = engine /\ mishaps' = mishaps
      /\ running' = running /\ todo_list' = todo_list /\ task_num' = task_num
      /\ work' = work /\ freed' = freed /\ UNCHANGED domainVars
      /\ iommu_domain_id' = iommu_domain_id /\ attached' = attached
      /\ iommu_domain_refcount' = iommu_domain_refcount
  BY Apart DEF IrqEnter, Goto, coreVars, resetVars, endVars, domainVars
<1>2. /\ at'[c] = "status" /\ held'[c] = j /\ held[c] = NoJob
      /\ \A q \in Procs \ {c} : at'[q] = at[q] /\ held'[q] = held[q]
      /\ held' \in [Procs -> Jobs \cup {NoJob}]
  BY <1>k, <1>1, Apart DEF TypeOK, PlaceInv
<1>3. /\ job' \in [Jobs -> JobRecord] /\ \A k \in Jobs \ {j} : job'[k] = job[k]
      /\ job'[j].irq_entry = job[j].irq_entry \cup {c}
      /\ job'[j].run_count = job[j].run_count
      /\ job'[j].committed = job[j].committed
      /\ job'[j].cores = job[j].cores /\ job'[j].domain = job[j].domain
      /\ job'[j].nonblock = job[j].nonblock /\ job'[j].batches = job[j].batches
      /\ job'[j].interrupt_count = job[j].interrupt_count
      /\ job'[j].submit_count = job[j].submit_count
      /\ job'[j].done = job[j].done
  <2> DEFINE x == [job[j] EXCEPT !.irq_entry = @ \cup {c}]
  <2>1. job[j] \in JobRecord
    BY <1>k DEF TypeInv
  <2>2. /\ x \in JobRecord
        /\ x.irq_entry = job[j].irq_entry \cup {c}
        /\ x.run_count = job[j].run_count
        /\ x.committed = job[j].committed
        /\ x.cores = job[j].cores /\ x.domain = job[j].domain
        /\ x.nonblock = job[j].nonblock /\ x.batches = job[j].batches
        /\ x.interrupt_count = job[j].interrupt_count
        /\ x.submit_count = job[j].submit_count
        /\ x.done = job[j].done
    BY <2>1 DEF JobRecord
  <2>3. job' = [job EXCEPT ![j] = x]
    BY <1>k, <1>1 DEF TypeInv
  <2> HIDE DEF x
  <2> QED BY <1>k, <2>2, <2>3 DEF TypeInv
<1>4. TypeOK' /\ TypeInv'
  <2>1. \A k \in Jobs : /\ job'[k].run_count \in 0 .. Cardinality(Cores)
                        /\ job'[k].interrupt_count \in 0 .. Cardinality(Cores)
    BY <1>3 DEF JobRecord
  <2> QED BY <1>k, <1>1, <1>2, <1>3, <2>1 DEF TypeOK, TypeInv
<1>5. Handles(c)
  BY <1>1, <1>2 DEF Handles, Grown
<1>6. PlaceInv'
  BY <1>k, <1>2, <1>3, <1>5, HandlesPlace, Apart DEF IrqPlaces
<1>7. \A k \in Jobs \ {j} : JobInv(k)' /\ (k \in Holders' <=> k \in Holders)
  <2>1. \A k \in Jobs \ {j} : Passes(c, k) /\ Idler(k) /\ Steady(k)
    BY <1>1, <1>2, <1>3, Apart DEF Passes, Idler, Steady
  <2> QED BY <1>k, <1>5, <2>1, HandlesOther
<1>8. \A k \in Jobs : Remaining(k)' \subseteq Remaining(k) /\ Pending(k)' \subseteq Pending(k)
  <2>1. \A k \in Jobs : \A d \in Cores : held'[d] = k => held[d] = k \/ running[d] = k
    BY <1>2, Apart
  <2> QED BY <1>1, <1>5, <2>1, HandlesTaking DEF Remaining, Pending
<1>9. JobInv(j)' /\ (j \in Holders' <=> j \in Holders)
  <2>1. JobInv(j) /\ ~Unqueued(j)
    <3>1. c \in Remaining(j)
      BY DEF Remaining
    <3> QED BY <1>k, <3>1 DEF JobInv, UnqueuedInv
  <2>2. at'[j] = at[j] /\ held'[j] = held[j] /\ Still(j) /\ Grown
    BY <1>1, <1>2, Apart DEF Still, Grown
  <2>3. UnqueuedInv(j)'
    BY <2>1, <2>2 DEF UnqueuedInv, Unqueued
  <2>4. OnceInv(j)'
    <3>1. ASSUME NEW d \in Cores
          PROVE  (/\ j \in ToSet(todo_list[d]) =>
                       held[d] # j /\ \A q \in Procs : ~Taking(q, d, j)
                  /\ \A q, r \in Procs : Taking(q, d, j) /\ Taking(r, d, j) => q = r
                  /\ engine[d] = j => d \in job[j].cores
                  /\ held[d] = j /\ at[d] = "done" => running[d] # j
                  /\ held[d] = j /\ at[d] = "status" => d \in job[j].irq_entry
                  /\ (\/ j \in ToSet(todo_list[d]) \/ running[d] = j
                      \/ held[d] = j /\ at[d] = "status")
                     => job[j].submit_count[d] < job[j].batches)'
      <4>1. /\ j \in ToSet(todo_list[d]) =>
                 held[d] # j /\ \A q \in Procs : ~Taking(q, d, j)
            /\ \A q, r \in Procs : Taking(q, d, j) /\ Taking(r, d, j) => q = r
            /\ engine[d] = j => d \in job[j].cores
            /\ held[d] = j /\ at[d] = "done" => running[d] # j
            /\ held[d] = j /\ at[d] = "status" => d \in job[j].irq_entry
            /\ (\/ j \in ToSet(todo_list[d]) \/ running[d] = j
                \/ held[d] = j /\ at[d] = "status")
               => job[j].submit_count[d] < job[j].batches
        BY <2>1 DEF JobInv, OnceInv
      <4>2. \A q \in Procs : Taking(q, d, j)' => Taking(q, d, j)
        BY <1>5, HandlesTaking
      <4>3. CASE d = c
        <5>1. j \notin ToSet(todo_list[d])
          BY <1>k, <4>3, OnceInLine
        <5> QED BY <1>1, <1>2, <1>3, <4>1, <4>2, <4>3, <5>1
      <4>4. CASE d # c
        BY <1>1, <1>2, <1>3, <4>1, <4>2, <4>4, Apart
      <4> QED BY <4>3, <4>4
    <3> QED BY <1>3, <1>8, <2>1, <3>1 DEF JobInv, OnceInv
  <2>5. CountInv(j)'
    BY <1>k, <1>3, <1>8, <2>1, CountKept DEF JobInv
  <2>6. FateInv(j)'
    BY <1>3, <2>1, <2>2, FateKept DEF JobInv
  <2>7. LeavingInv(j)'
    BY <1>1, <1>8, <2>1, <2>2, CleanBefore DEF JobInv, LeavingInv
  <2>8. j \in Holders' <=> j \in Holders
    BY <1>1, <1>3, <2>2 DEF Holders
  <2> QED BY <2>3, <2>4, <2>5, <2>6, <2>7, <2>8 DEF JobInv
<1>10. ConsistentOrder'
  BY <1>k, <1>4, <1>5, HandlesOrder
<1>11. EngineInv'
  <2>1. ASSUME Clean({"overlap", "overdue"})'
        PROVE  CoreFine(c)' /\ \A k \in Jobs : job'[k].interrupt_count >= Cardinality(Due(k)')
    <3>1. CoreFine(c) /\ \A k \in Jobs : job[k].interrupt_count >= Cardinality(Due(k))
      BY <1>k, <1>5, <2>1, EngineParts DEF Handles
    <3>2. CoreFine(c)'
      BY <1>1, <1>2, <1>3, <3>1 DEF CoreFine
    <3>3. ASSUME NEW k \in Jobs PROVE job'[k].interrupt_count >= Cardinality(Due(k)')
      <4>1. \A d \in job[k].cores \ Due(k) :
              /\ d \notin Remaining(k)' /\ engine'[d] # k
              /\ job'[k].submit_count[d] = job[k].submit_count[d]
        BY <1>1, <1>3, <1>8 DEF Due
      <4>2. /\ job'[k].interrupt_count = job[k].interrupt_count
            /\ job'[k].cores = job[k].cores /\ job'[k].batches = job[k].batches
        BY <1>3
      <4> QED BY <1>k, <3>1, <4>1, <4>2, DueKept
    <3> QED BY <3>2, <3>3
  <2>2. \A d \in Cores \ {c} : at'[d] = at[d] /\ held'[d] = held[d]
    BY <1>2, Apart
  <2>3. \A k \in Jobs : /\ job'[k].committed = job[k].committed
                        /\ job'[k].batches = job[k].batches
                        /\ job'[k].submit_count = job[k].submit_count
    BY <1>3
  <2> QED BY <1>k, <1>1, <1>5, <2>1, <2>2, <2>3, EngineStep DEF Handles
<1>12. DomainInv'
  <2>1. \A k \in Jobs : /\ k \in Holders' <=> k \in Holders
                        /\ job'[k].domain = job[k].domain
    BY <1>3, <1>7, <1>9
  <2>2. Holders \subseteq Jobs
    BY DEF Holders
  <2> QED BY <1>k, <1>1, <1>5, <2>1, <2>2, DomainKept DEF Handles
<1> QED BY <1>4, <1>6, <1>7, <1>9, <1>10, <1>11, <1>12, InvByJobs

LEMMA IrqEnterStep ==
  ASSUME IInv, NEW c \in Cores, IrqEnter(c)
  PROVE  IInv'
<1>1. running[c] \in Jobs \cup {NoJob}
  BY InvParts DEF TypeOK
<1> QED BY <1>1, IrqIdleStep, IrqHoldStep

\* One more submission of j has been executed on c.
Counted(j, c) == job' = [job EXCEPT ![j].submit_count[c] = @ + 1]

LEMMA BatchCounted ==
  ASSUME TypeInv, NEW j \in Jobs, NEW c \in Cores, Counted(j, c)
  PROVE  /\ job' \in [Jobs -> JobRecord] /\ \A k \in Jobs \ {j} : job'[k] = job[k]
         /\ job'[j].submit_count[c] = job[j].submit_count[c] + 1
         /\ \A d \in Cores \ {c} : job'[j].submit_count[d] = job[j].submit_count[d]
         /\ job[j].submit_count[c] \in Nat /\ job[j].batches \in Nat \ {0}
         /\ \A k \in Jobs : /\ job'[k].run_count = job[k].run_count
                            /\ job'[k].committed = job[k].committed
                            /\ job'[k].cores = job[k].cores /\ job'[k].domain = job[k].domain
                            /\ job'[k].nonblock = job[k].nonblock
                            /\ job'[k].batches = job[k].batches
                            /\ job'[k].interrupt_count = job[k].interrupt_count
                            /\ job'[k].done = job[k].done /\ job'[k].irq_entry = job[k].irq_entry
<1> DEFINE n == [job[j].submit_count EXCEPT ![c] = @ + 1]
           x == [job[j] EXCEPT !.submit_count = n]
<1>1. job[j] \in JobRecord /\ job[j].submit_count \in [Cores -> Nat]
  BY DEF TypeInv, JobRecord
<1>2. /\ n \in [Cores -> Nat] /\ n[c] = job[j].submit_count[c] + 1
      /\ \A d \in Cores \ {c} : n[d] = job[j].submit_count[d]
      /\ job[j].submit_count[c] \in Nat /\ job[j].batches \in Nat \ {0}
  BY <1>1 DEF JobRecord
<1>3. job' = [job EXCEPT ![j] = x]
  BY DEF TypeInv, Counted
<1> HIDE DEF n
<1>4. /\ x \in JobRecord /\ x.submit_count = n
      /\ x.run_count = job[j].run_count /\ x.committed = job[j].committed
      /\ x.cores = job[j].cores /\ x.domain = job[j].domain
      /\ x.nonblock = job[j].nonblock /\ x.batches = job[j].batches
      /\ x.interrupt_count = job[j].interrupt_count
      /\ x.done = job[j].done /\ x.irq_entry = job[j].irq_entry
  BY <1>1, <1>2 DEF JobRecord
<1> HIDE DEF x
<1>5. /\ job' \in [Jobs -> JobRecord] /\ job'[j] = x
      /\ \A k \in Jobs \ {j} : job'[k] = job[k]
  BY <1>3, <1>4 DEF TypeInv
<1>6. ASSUME NEW k \in Jobs
      PROVE  /\ job'[k].run_count = job[k].run_count
             /\ job'[k].committed = job[k].committed
             /\ job'[k].cores = job[k].cores /\ job'[k].domain = job[k].domain
             /\ job'[k].nonblock = job[k].nonblock
             /\ job'[k].batches = job[k].batches
             /\ job'[k].interrupt_count = job[k].interrupt_count
             /\ job'[k].done = job[k].done /\ job'[k].irq_entry = job[k].irq_entry
  BY <1>4, <1>5
<1> QED BY <1>2, <1>4, <1>5, <1>6

\* The handler of c does something with the job j it works on, and counts a
\* submission of it.
LEMMA BatchStep ==
  ASSUME IInv, NEW c \in Cores, NEW j \in Jobs, j = held[c], at[c] = "status", j \notin freed,
         Handles(c), at'[c] \in IrqPlaces,
         at'[c] \in {"status", "done", "commit"} <=> held'[c] # NoJob,
         Counted(j, c),
         work' = work, UNCHANGED domainVars, TypeOK', TypeInv',
         held'[c] \in {j, NoJob}, at'[c] # "status",
         held'[c] = j => at'[c] = "done" /\ running'[c] = NoJob,
         held'[c] # j => job[j].submit_count[c] + 1 < job[j].batches,
         \A d \in Cores : engine'[d] = engine[d] \/ (d = c /\ engine'[d] = j),
         EngineInv'
  PROVE  IInv'
<1>k. /\ TypeOK /\ TypeInv /\ PlaceInv /\ \A k \in Jobs : JobInv(k)
      /\ ConsistentOrder /\ DomainInv
  BY InvParts
<1>1. /\ \A k \in Jobs \ {j} : job'[k] = job[k]
      /\ job'[j].submit_count[c] = job[j].submit_count[c] + 1
      /\ \A d \in Cores \ {c} : job'[j].submit_count[d] = job[j].submit_count[d]
      /\ job[j].submit_count[c] \in Nat /\ job[j].batches \in Nat \ {0}
      /\ \A k \in Jobs : /\ job'[k].run_count = job[k].run_count
                         /\ job'[k].committed = job[k].committed
                         /\ job'[k].cores = job[k].cores /\ job'[k].domain = job[k].domain
                         /\ job'[k].nonblock = job[k].nonblock
                         /\ job'[k].batches = job[k].batches
                         /\ job'[k].interrupt_count = job[k].interrupt_count
                         /\ job'[k].done = job[k].done /\ job'[k].irq_entry = job[k].irq_entry
  BY <1>k, BatchCounted
<1>2. PlaceInv'
  BY <1>k, <1>1, HandlesPlace
<1>3. \A k \in Jobs \ {j} : JobInv(k)' /\ (k \in Holders' <=> k \in Holders)
  <2>1. \A k \in Jobs \ {j} : Passes(c, k) /\ Idler(k) /\ Steady(k)
    BY <1>1, Apart DEF Passes, Idler, Steady
  <2> QED BY <1>k, <2>1, HandlesOther
<1>4. \A k \in Jobs : Remaining(k)' \subseteq Remaining(k) /\ Pending(k)' \subseteq Pending(k)
  <2>1. \A k \in Jobs : \A d \in Cores : held'[d] = k => held[d] = k
    BY Apart DEF Handles
  <2>2. \A k \in Jobs : \A d \in Cores : running'[d] = k => running[d] = k
    BY Apart DEF Handles
  <2> QED BY <2>1, <2>2, HandlesTaking DEF Remaining, Pending, Handles
<1>5. JobInv(j)' /\ (j \in Holders' <=> j \in Holders)
  <2>1. JobInv(j) /\ ~Unqueued(j) /\ c \in Remaining(j)
    <3>1. c \in Remaining(j)
      BY DEF Remaining
    <3> QED BY <1>k, <3>1 DEF JobInv, UnqueuedInv
  <2>2. at'[j] = at[j] /\ held'[j] = held[j] /\ Still(j) /\ Grown
    BY Apart DEF Still, Handles
  <2>3. UnqueuedInv(j)'
    BY <2>1, <2>2 DEF UnqueuedInv, Unqueued
  <2>4. OnceInv(j)'
    <3>1. ASSUME NEW d \in Cores
          PROVE  (/\ j \in ToSet(todo_list[d]) =>
                       held[d] # j /\ \A q \in Procs : ~Taking(q, d, j)
                  /\ \A q, r \in Procs : Taking(q, d, j) /\ Taking(r, d, j) => q = r
                  /\ engine[d] = j => d \in job[j].cores
                  /\ held[d] = j /\ at[d] = "done" => running[d] # j
                  /\ held[d] = j /\ at[d] = "status" => d \in job[j].irq_entry
                  /\ (\/ j \in ToSet(todo_list[d]) \/ running[d] = j
                      \/ held[d] = j /\ at[d] = "status")
                     => job[j].submit_count[d] < job[j].batches)'
      <4>1. /\ j \in ToSet(todo_list[d]) =>
                 held[d] # j /\ \A q \in Procs : ~Taking(q, d, j)
            /\ \A q, r \in Procs : Taking(q, d, j) /\ Taking(r, d, j) => q = r
            /\ engine[d] = j => d \in job[j].cores
            /\ held[d] = j /\ at[d] = "done" => running[d] # j
            /\ held[d] = j /\ at[d] = "status" => d \in job[j].irq_entry
            /\ (\/ j \in ToSet(todo_list[d]) \/ running[d] = j
                \/ held[d] = j /\ at[d] = "status")
               => job[j].submit_count[d] < job[j].batches
        BY <2>1 DEF JobInv, OnceInv
      <4>2. \A q \in Procs : Taking(q, d, j)' => Taking(q, d, j)
        BY HandlesTaking
      <4>3. engine'[d] = j => d \in job[j].cores
        BY <2>1, <4>1 DEF JobInv, OnceInv
      <4>4. todo_list' = todo_list /\ j # NoJob
        BY Apart DEF Handles
      <4>5. CASE d = c
        <5>1. j \notin ToSet(todo_list[d])
          BY <4>1, <4>5
        <5>2. CASE held'[c] = j
          BY <1>1, <4>1, <4>2, <4>3, <4>4, <4>5, <5>1, <5>2
        <5>3. CASE held'[c] # j
          <6>1. job'[j].submit_count[d] < job'[j].batches
            BY <1>1, <4>5, <5>3
          <6> QED BY <4>1, <4>2, <4>3, <4>4, <4>5, <5>1, <5>3, <6>1, <1>1
        <5> QED BY <5>2, <5>3
      <4>6. CASE d # c
        <5>1. /\ running'[d] = running[d] /\ held'[d] = held[d] /\ at'[d] = at[d]
              /\ job'[j].submit_count[d] = job[j].submit_count[d]
          BY <1>1, <4>6, Apart DEF Handles
        <5> QED BY <1>1, <4>1, <4>2, <4>3, <4>4, <5>1
      <4> QED BY <4>5, <4>6
    <3> QED BY <1>1, <1>4, <2>1, <3>1 DEF JobInv, OnceInv
  <2>5. CountInv(j)'
    BY <1>k, <1>1, <1>4, <2>1, CountKept DEF JobInv
  <2>6. FateInv(j)'
    BY <1>1, <2>1, <2>2, FateKept DEF JobInv
  <2>7. LeavingInv(j)'
    BY <1>4, <2>1, <2>2, CleanBefore DEF JobInv, LeavingInv, Handles
  <2>8. j \in Holders' <=> j \in Holders
    BY <1>1, <2>2 DEF Holders, Still
  <2> QED BY <2>3, <2>4, <2>5, <2>6, <2>7, <2>8 DEF JobInv
<1>6. ConsistentOrder'
  BY <1>k, HandlesOrder
<1>7. DomainInv'
  <2>1. \A k \in Jobs : k \in Holders' <=> k \in Holders
    BY <1>3, <1>5
  <2>2. \A k \in Holders : job'[k].domain = job[k].domain
    BY <1>1 DEF Holders
  <2> QED BY <1>k, <2>1, <2>2, DomainKept DEF Handles
<1> QED BY <1>2, <1>3, <1>5, <1>6, <1>7, InvByJobs

LEMMA IrqNextBatchStep ==
  ASSUME IInv, NEW c \in Cores, IrqNextBatch(c), NEW j \in Jobs, j = held[c]
  PROVE  IInv'
<1>k. TypeOK /\ TypeInv /\ PlaceInv /\ EngineInv /\ JobInv(j)
  BY InvParts
<1>1. /\ at[c] = "status" /\ j \notin freed
      /\ job[j].submit_count[c] + 1 < job[j].batches
      /\ Counted(j, c)
      /\ engine' = [engine EXCEPT ![c] = j] /\ irq' = [irq EXCEPT ![c] = "none"]
      /\ held' = [held EXCEPT ![c] = NoJob] /\ at' = [at EXCEPT ![c] = "idle"]
      /\ left' = left /\ mishaps' = mishaps
      /\ running' = running /\ todo_list' = todo_list /\ task_num' = task_num
      /\ work' = work /\ freed' = freed /\ UNCHANGED domainVars
      /\ iommu_domain_id' = iommu_domain_id /\ attached' = attached
      /\ iommu_domain_refcount' = iommu_domain_refcount
  BY DEF IrqNextBatch, Counted, Goto, coreVars, resetVars, endVars, domainVars
<1>2. /\ at'[c] = "idle" /\ held'[c] = NoJob /\ irq'[c] = "none" /\ engine'[c] = j
      /\ \A q \in Procs \ {c} : at'[q] = at[q] /\ held'[q] = held[q]
      /\ \A d \in Cores \ {c} : irq'[d] = irq[d] /\ engine'[d] = engine[d]
      /\ irq' \in [Cores -> {"none", "valid", "invalid"}]
      /\ engine' \in [Cores -> Jobs \cup {NoJob}]
      /\ held' \in [Procs -> Jobs \cup {NoJob}]
  BY <1>k, <1>1, Apart DEF TypeOK, TypeInv
<1>3. /\ job' \in [Jobs -> JobRecord]
      /\ \A d \in Cores \ {c} : job'[j].submit_count[d] = job[j].submit_count[d]
      /\ \A k \in Jobs \ {j} : job'[k] = job[k]
      /\ \A k \in Jobs : /\ job'[k].committed = job[k].committed
                         /\ job'[k].cores = job[k].cores
                         /\ job'[k].batches = job[k].batches
                         /\ job'[k].interrupt_count = job[k].interrupt_count
  BY <1>k, <1>1, BatchCounted
<1>4. TypeOK' /\ TypeInv'
  <2>1. \A k \in Jobs : /\ job'[k].run_count \in 0 .. Cardinality(Cores)
                        /\ job'[k].interrupt_count \in 0 .. Cardinality(Cores)
    BY <1>3 DEF JobRecord
  <2> QED BY <1>k, <1>1, <1>2, <1>3, <2>1 DEF TypeOK, TypeInv
<1>5. Handles(c)
  BY <1>1, <1>2 DEF Handles, Grown
<1>6. EngineInv'
  <2>1. ASSUME Clean({"overlap", "overdue"})'
        PROVE  CoreFine(c)' /\ \A k \in Jobs : job'[k].interrupt_count >= Cardinality(Due(k)')
    <3>1. CoreFine(c) /\ \A k \in Jobs : job[k].interrupt_count >= Cardinality(Due(k))
      BY <1>k, <1>5, <2>1, EngineParts DEF Handles
    <3>2. running[c] = j /\ job[j].committed
      BY <1>1, <3>1, Apart DEF CoreFine
    <3>3. CoreFine(c)'
      BY <1>1, <1>2, <1>3, <3>2 DEF CoreFine
    <3>4. ASSUME NEW k \in Jobs PROVE job'[k].interrupt_count >= Cardinality(Due(k)')
      <4>1. ASSUME NEW d \in job[k].cores \ Due(k)
            PROVE  /\ d \notin Remaining(k)' /\ engine'[d] # k
                   /\ job'[k].submit_count[d] = job[k].submit_count[d]
        <5>1. d \in Cores /\ d \notin Remaining(k) /\ engine[d] # k
          BY <1>k DEF Due, TypeInv, JobRecord
        <5>2. k = j => d # c
          BY <3>2, <5>1 DEF Remaining
        <5>3. held'[d] # k
          BY <1>2, <5>1, Apart DEF Remaining
        <5> QED BY <1>1, <1>2, <1>3, <5>1, <5>2, <5>3 DEF Remaining
      <4> QED BY <1>k, <1>3, <3>1, <4>1, DueKept
    <3> QED BY <3>3, <3>4
  <2>2. \A d \in Cores \ {c} : at'[d] = at[d] /\ held'[d] = held[d]
    BY <1>2, Apart
  <2>3. \A k \in Jobs : \A d \in Cores \ {c} : job'[k].submit_count[d] = job[k].submit_count[d]
    BY <1>3
  <2> QED BY <1>k, <1>1, <1>2, <1>3, <1>5, <2>1, <2>2, <2>3, EngineStep DEF Handles
<1>7. /\ at'[c] \in IrqPlaces /\ at'[c] # "status" /\ j # NoJob
      /\ at'[c] \in {"status", "done", "commit"} <=> held'[c] # NoJob
      /\ held'[c] \in {j, NoJob}
  BY <1>2, Apart DEF IrqPlaces
<1> QED BY <1>1, <1>2, <1>4, <1>5, <1>6, <1>7, BatchStep

LEMMA IrqLastBatchStep ==
  ASSUME IInv, NEW c \in Cores, IrqLastBatch(c), NEW j \in Jobs, j = held[c]
  PROVE  IInv'
<1>k. TypeOK /\ TypeInv /\ PlaceInv /\ EngineInv /\ JobInv(j)
  BY InvParts
<1>1. /\ at[c] = "status" /\ irq[c] = "valid" /\ j \notin freed
      /\ job[j].submit_count[c] + 1 >= job[j].batches
      /\ Counted(j, c)
      /\ irq' = [irq EXCEPT ![c] = "none"] /\ running' = [running EXCEPT ![c] = NoJob]
      /\ task_num' = [task_num EXCEPT ![c] = @ - job[j].batches]
      /\ at' = [at EXCEPT ![c] = "done"]
      /\ held' = held /\ engine' = engine /\ left' = left /\ mishaps' = mishaps
      /\ todo_list' = todo_list
      /\ work' = work /\ freed' = freed /\ UNCHANGED domainVars
      /\ iommu_domain_id' = iommu_domain_id /\ attached' = attached
      /\ iommu_domain_refcount' = iommu_domain_refcount
  BY DEF IrqLastBatch, Counted, Goto, resetVars, endVars, domainVars
<1>3. /\ job' \in [Jobs -> JobRecord]
      /\ job'[j].submit_count[c] = job[j].submit_count[c] + 1
      /\ job[j].submit_count[c] \in Nat /\ job[j].batches \in Nat \ {0}
      /\ \A d \in Cores \ {c} : job'[j].submit_count[d] = job[j].submit_count[d]
      /\ \A k \in Jobs \ {j} : job'[k] = job[k]
      /\ \A k \in Jobs : /\ job'[k].committed = job[k].committed
                         /\ job'[k].cores = job[k].cores
                         /\ job'[k].batches = job[k].batches
                         /\ job'[k].interrupt_count = job[k].interrupt_count
  BY <1>k, <1>1, BatchCounted
<1>2. /\ at'[c] = "done" /\ irq'[c] = "none" /\ running'[c] = NoJob
      /\ \A q \in Procs \ {c} : at'[q] = at[q]
      /\ \A d \in Cores \ {c} : irq'[d] = irq[d] /\ running'[d] = running[d]
      /\ irq' \in [Cores -> {"none", "valid", "invalid"}]
      /\ running' \in [Cores -> Jobs \cup {NoJob}]
      /\ task_num' \in [Cores -> Int]
  BY <1>k, <1>1, <1>3, Apart DEF TypeOK, TypeInv
<1>4. TypeOK' /\ TypeInv'
  <2>1. \A k \in Jobs : /\ job'[k].run_count \in 0 .. Cardinality(Cores)
                        /\ job'[k].interrupt_count \in 0 .. Cardinality(Cores)
    BY <1>3 DEF JobRecord
  <2> QED BY <1>k, <1>1, <1>2, <1>3, <2>1 DEF TypeOK, TypeInv
<1>5. Handles(c)
  BY <1>1, <1>2 DEF Handles, Grown
<1>6. EngineInv'
  <2>1. ASSUME Clean({"overlap", "overdue"})'
        PROVE  CoreFine(c)' /\ \A k \in Jobs : job'[k].interrupt_count >= Cardinality(Due(k)')
    <3>1. CoreFine(c) /\ \A k \in Jobs : job[k].interrupt_count >= Cardinality(Due(k))
      BY <1>k, <1>5, <2>1, EngineParts DEF Handles
    <3>2. job'[j].submit_count[c] = job'[j].batches
      <4>1. job[j].submit_count[c] < job[j].batches
        BY <1>k, <1>1 DEF JobInv, OnceInv
      <4> QED BY <1>1, <1>3, <4>1
    <3>3. CoreFine(c)'
      BY <1>1, <1>2, <3>1, <3>2, Apart DEF CoreFine
    <3>4. ASSUME NEW k \in Jobs PROVE job'[k].interrupt_count >= Cardinality(Due(k)')
      <4>1. ASSUME NEW d \in job[k].cores \ Due(k)
            PROVE  /\ d \notin Remaining(k)' /\ engine'[d] # k
                   /\ job'[k].submit_count[d] = job[k].submit_count[d]
        <5>1. d \in Cores /\ d \notin Remaining(k) /\ engine[d] # k
          BY <1>k DEF Due, TypeInv, JobRecord
        <5>2. k = j => d # c
          BY <5>1 DEF Remaining
        <5>3. running'[d] # k
          BY <1>2, <5>1, Apart DEF Remaining
        <5> QED BY <1>1, <1>3, <5>1, <5>2, <5>3 DEF Remaining
      <4> QED BY <1>k, <1>3, <3>1, <4>1, DueKept
    <3> QED BY <3>3, <3>4
  <2>2. \A d \in Cores \ {c} : at'[d] = at[d] /\ held'[d] = held[d]
    BY <1>1, <1>2, Apart
  <2>3. \A k \in Jobs : \A d \in Cores \ {c} : job'[k].submit_count[d] = job[k].submit_count[d]
    BY <1>3
  <2> QED BY <1>k, <1>1, <1>2, <1>3, <1>5, <2>1, <2>2, <2>3, EngineStep DEF Handles
<1>7. /\ at'[c] \in IrqPlaces /\ at'[c] # "status" /\ j # NoJob /\ held'[c] = j
      /\ at'[c] \in {"status", "done", "commit"} <=> held'[c] # NoJob
      /\ held'[c] \in {j, NoJob}
  BY <1>1, <1>2, Apart DEF IrqPlaces
<1> QED BY <1>1, <1>2, <1>4, <1>5, <1>6, <1>7, BatchStep

\* The end of a job on a core, and with its last core the end of the job: the
\* reference that is given back is the one the job has.
LEMMA JobDoneStep ==
  ASSUME IInv, NEW c \in Cores, JobDone(c), NEW j \in Jobs, j = held[c],
         NEW last \in BOOLEAN, last <=> job[j].interrupt_count = 1
  PROVE  IInv'
<1>k. /\ TypeOK /\ TypeInv /\ PlaceInv /\ \A k \in Jobs : JobInv(k)
      /\ ConsistentOrder /\ EngineInv /\ DomainInv
  BY InvParts
<1>1. /\ at[c] = "done" /\ j \notin freed
      /\ IF last THEN DomainPut ELSE UNCHANGED domainVars
      /\ job' = [job EXCEPT ![j].interrupt_count = @ - 1, ![j].done = last]
      /\ work' = IF last /\ job[j].nonblock THEN work \cup {j} ELSE work
      /\ mishaps' = mishaps \cup (IF last /\ GivenUp(j) THEN {"late"} ELSE {})
      /\ held' = [held EXCEPT ![c] = NoJob] /\ at' = [at EXCEPT ![c] = "next"]
      /\ left' = left /\ running' = running /\ todo_list' = todo_list
      /\ task_num' = task_num /\ engine' = engine /\ irq' = irq /\ freed' = freed
  BY DEF JobDone, Goto, Noted, If, coreVars, hwVars, resetVars
<1>2. /\ at'[c] = "next" /\ held'[c] = NoJob
      /\ \A q \in Procs \ {c} : at'[q] = at[q] /\ held'[q] = held[q]
      /\ held' \in [Procs -> Jobs \cup {NoJob}]
  BY <1>k, <1>1, Apart DEF TypeOK
<1>3. /\ c \in Remaining(j) /\ job[j].interrupt_count >= 1
      /\ job[j].interrupt_count \in Nat /\ job[j] \in JobRecord /\ ~job[j].done
  <2>1. /\ c \in Remaining(j) /\ job[j].interrupt_count >= 1
    BY <1>k, Apart, DoneCounts DEF JobInv
  <2>2. job[j] \in JobRecord
    BY <1>k DEF TypeInv
  <2>3. ~job[j].done
    BY <1>k, <2>1 DEF JobInv, CountInv
  <2> QED BY <2>1, <2>2, <2>3, CoresNumbered DEF JobRecord
<1>4. /\ job' \in [Jobs -> JobRecord] /\ \A k \in Jobs \ {j} : job'[k] = job[k]
      /\ job'[j].interrupt_count = job[j].interrupt_count - 1
      /\ job'[j].done <=> last
      /\ \A k \in Jobs : /\ job'[k].run_count = job[k].run_count
                         /\ job'[k].committed = job[k].committed
                         /\ job'[k].cores = job[k].cores /\ job'[k].domain = job[k].domain
                         /\ job'[k].nonblock = job[k].nonblock
                         /\ job'[k].batches = job[k].batches
                         /\ job'[k].submit_count = job[k].submit_count
                         /\ job'[k].irq_entry = job[k].irq_entry
  <2> DEFINE x == [job[j] EXCEPT !.interrupt_count = @ - 1]
             y == [x EXCEPT !.done = last]
  <2>1. x \in JobRecord
    <3>1. job[j].interrupt_count \in 0 .. Cardinality(Cores)
      BY <1>3 DEF JobRecord
    <3>2. job[j].interrupt_count - 1 \in 0 .. Cardinality(Cores)
      BY <1>3, <3>1, CoresNumbered
    <3> QED BY <1>3, <3>2 DEF JobRecord
  <2>2. y \in JobRecord
    <3> HIDE DEF x
    <3> QED BY <2>1 DEF JobRecord
  <2>3. /\ y.interrupt_count = job[j].interrupt_count - 1 /\ y.done = last
        /\ y.run_count = job[j].run_count /\ y.committed = job[j].committed
        /\ y.cores = job[j].cores /\ y.domain = job[j].domain
        /\ y.nonblock = job[j].nonblock /\ y.batches = job[j].batches
        /\ y.submit_count = job[j].submit_count /\ y.irq_entry = job[j].irq_entry
    BY <1>3 DEF JobRecord
  <2>4. job' = [job EXCEPT ![j] = y]
    BY <1>k, <1>1 DEF TypeInv
  <2> HIDE DEF y
  <2> QED BY <1>k, <2>2, <2>3, <2>4 DEF TypeInv
<1>5. /\ iommu_domain_id' = iommu_domain_id /\ attached' = attached
      /\ iommu_domain_refcount' = iommu_domain_refcount - (IF last THEN 1 ELSE 0)
      /\ iommu_domain_refcount \in Int
  <2>1. iommu_domain_refcount \in Int
    BY <1>k DEF TypeInv
  <2> QED BY <1>1, <2>1 DEF DomainPut, domainVars
<1>6. TypeOK' /\ TypeInv'
  <2>1. \A k \in Jobs : /\ job'[k].run_count \in 0 .. Cardinality(Cores)
                        /\ job'[k].interrupt_count \in 0 .. Cardinality(Cores)
    BY <1>4 DEF JobRecord
  <2>2. iommu_domain_refcount' \in Int
    BY <1>5
  <2> QED BY <1>k, <1>1, <1>2, <1>4, <1>5, <2>1, <2>2 DEF TypeOK, TypeInv
<1>7. Handles(c)
  BY <1>1, <1>2 DEF Handles, Grown
<1>8. PlaceInv'
  BY <1>k, <1>2, <1>4, <1>7, HandlesPlace DEF IrqPlaces
<1>9. \A k \in Jobs \ {j} : JobInv(k)' /\ (k \in Holders' <=> k \in Holders)
  <2>1. \A k \in Jobs \ {j} : Passes(c, k) /\ Idler(k) /\ Steady(k)
    BY <1>1, <1>2, <1>4, Apart DEF Passes, Idler, Steady
  <2> QED BY <1>k, <1>7, <2>1, HandlesOther
<1>10. c \notin Remaining(j)' /\ \A k \in Jobs : Remaining(k)' \subseteq Remaining(k)
  <2>1. \A k \in Jobs : \A d \in Cores : held'[d] = k => held[d] = k
    BY <1>2, Apart
  <2>2. j \notin ToSet(todo_list[c]) /\ running[c] # j
    BY <1>k, <1>1 DEF JobInv, OnceInv
  <2>3. held'[c] # j
    BY <1>2, Apart
  <2> QED BY <1>1, <2>1, <2>2, <2>3 DEF Remaining
<1>11. JobInv(j)'
  <2>1. JobInv(j) /\ ~Unqueued(j)
    BY <1>k, <1>3 DEF JobInv, UnqueuedInv
  <2>2. at'[j] = at[j] /\ held'[j] = held[j] /\ Grown
    BY <1>2, <1>7, Apart DEF Handles
  <2>3. UnqueuedInv(j)'
    BY <2>1, <2>2 DEF UnqueuedInv, Unqueued
  <2>4. Fewer(j)
    <3>1. \A d \in Cores \ {c} : at'[d] = at[d] /\ held'[d] = held[d]
      BY <1>2, Apart
    <3>2. \A d \in Cores : \A q \in Procs : Taking(q, d, j)' => Taking(q, d, j)
      BY <1>7, HandlesTaking
    <3> QED BY <1>1, <1>2, <3>1, <3>2, Apart DEF Fewer
  <2>5. OnceInv(j)'
    BY <1>1, <1>4, <2>1, <2>4, OnceKept DEF JobInv
  <2>6. CountInv(j)'
    <3>1. Pending(j)' \in SUBSET Pending(j) /\ Remaining(j)' \in SUBSET (Remaining(j) \ {c})
      BY <1>10, <2>4, FewerPlaces
    <3>2. /\ Pending(j) \in SUBSET Cores /\ Remaining(j) \in SUBSET Cores
          /\ Pending(j)' \in SUBSET Cores /\ Remaining(j)' \in SUBSET Cores
          /\ Remaining(j) \ {c} \in SUBSET Cores
      BY <3>1 DEF Pending, Remaining
    <3>3. /\ Cardinality(Pending(j)') <= Cardinality(Pending(j))
          /\ Cardinality(Pending(j)') \in Nat /\ Cardinality(Pending(j)) \in Nat
      BY <3>1, <3>2, CoreSets, CoresNumbered
    <3>4. /\ Cardinality(Remaining(j)') <= Cardinality(Remaining(j) \ {c})
          /\ Cardinality(Remaining(j)') \in Nat
      BY <3>1, <3>2, CoreSets, CoresNumbered
    <3>5. /\ Cardinality(Remaining(j) \ {c}) = Cardinality(Remaining(j)) - 1
          /\ Cardinality(Remaining(j)) \in Nat
      BY <1>3, <3>2, CoreSets, CoresNumbered
    <3>6. job[j].run_count \in Nat
      BY <1>3, CoresNumbered DEF JobRecord
    <3>7. job'[j].run_count >= Cardinality(Pending(j)')
      BY <1>4, <2>1, <3>3, <3>6 DEF JobInv, CountInv
    <3>8. job'[j].interrupt_count >= Cardinality(Remaining(j)')
      BY <1>3, <1>4, <2>1, <3>4, <3>5 DEF JobInv, CountInv
    <3>9. job'[j].done => job'[j].interrupt_count = 0
      BY <1>3, <1>4
    <3>10. job'[j].committed => job'[j].run_count = 0
      BY <1>4, <2>1 DEF JobInv, CountInv
    <3> QED BY <3>7, <3>8, <3>9, <3>10 DEF CountInv
  <2>7. FateInv(j)'
    <3>1. j \in work' => j \in work \/ (job[j].nonblock /\ last)
      BY <1>1
    <3>2. Clean({"switch"})' => Clean({"switch"})
      BY <2>2, CleanBefore
    <3>3. Clean({"overdue"})' => Clean({"overdue"})
      BY <2>2, CleanBefore
    <3> QED BY <1>1, <1>3, <1>4, <2>1, <2>2, <3>1, <3>2, <3>3 DEF JobInv, FateInv
  <2>8. LeavingInv(j)'
    BY <1>1, <1>10, <2>1, <2>2, CleanBefore DEF JobInv, LeavingInv
  <2> QED BY <2>3, <2>5, <2>6, <2>7, <2>8 DEF JobInv
<1>12. ConsistentOrder'
  BY <1>k, <1>6, <1>7, HandlesOrder
<1>13. EngineInv'
  <2>1. ASSUME Clean({"overlap", "overdue"})'
        PROVE  CoreFine(c)' /\ \A k \in Jobs : job'[k].interrupt_count >= Cardinality(Due(k)')
    <3>1. CoreFine(c) /\ \A k \in Jobs : job[k].interrupt_count >= Cardinality(Due(k))
      BY <1>k, <1>7, <2>1, EngineParts DEF Handles
    <3>2. CoreFine(c)'
      <4>1. running[c] # NoJob => job'[running[c]].committed = job[running[c]].committed
        BY <1>k, <1>4 DEF TypeOK
      <4> QED BY <1>1, <1>2, <3>1, <4>1 DEF CoreFine
    <3>3. ASSUME NEW k \in Jobs, k # j PROVE job'[k].interrupt_count >= Cardinality(Due(k)')
      <4>1. \A d \in job[k].cores \ Due(k) :
              /\ d \notin Remaining(k)' /\ engine'[d] # k
              /\ job'[k].submit_count[d] = job[k].submit_count[d]
        BY <1>1, <1>4, <1>10 DEF Due
      <4> QED BY <1>k, <1>4, <3>1, <3>3, <4>1, DueKept
    <3>4. job'[j].interrupt_count >= Cardinality(Due(j)')
      <4>1. Due(j) \in SUBSET Cores /\ c \in Due(j)
        BY <1>3, <1>k DEF Due, TypeInv, JobRecord, JobInv, OnceInv
      <4>2. Due(j)' \in SUBSET (Due(j) \ {c})
        <5>1. c \notin Due(j)'
          BY <1>1, <1>4, <1>10, <3>1 DEF Due, CoreFine
        <5>2. Due(j)' \subseteq Due(j)
          BY <1>1, <1>4, <1>10 DEF Due
        <5> QED BY <5>1, <5>2
      <4>3. Due(j) \ {c} \in SUBSET Cores /\ Due(j)' \in SUBSET Cores
        BY <4>1, <4>2
      <4>4. /\ Cardinality(Due(j)') <= Cardinality(Due(j) \ {c})
            /\ Cardinality(Due(j)') \in Nat
        BY <4>2, <4>3, CoreSets, CoresNumbered
      <4>5. /\ Cardinality(Due(j) \ {c}) = Cardinality(Due(j)) - 1
            /\ Cardinality(Due(j)) \in Nat
        BY <4>1, CoreSets, CoresNumbered
      <4> QED BY <1>3, <1>4, <3>1, <4>4, <4>5
    <3> QED BY <3>2, <3>3, <3>4
  <2>2. \A d \in Cores \ {c} : at'[d] = at[d] /\ held'[d] = held[d]
    BY <1>2, Apart
  <2>3. \A k \in Jobs : \A d \in Cores : job'[k].submit_count[d] = job[k].submit_count[d]
    BY <1>4
  <2>4. /\ Grown
        /\ \A d \in Cores \ {c} : /\ engine'[d] = engine[d] /\ irq'[d] = irq[d]
                                /\ running'[d] = running[d]
                                /\ at'[d] = at[d] /\ held'[d] = held[d]
    BY <1>1, <1>7, <2>2 DEF Handles
  <2>5. \A k \in Jobs : /\ job'[k].committed = job[k].committed
                        /\ job'[k].batches = job[k].batches
                        /\ \A d \in Cores \ {c} :
                             job'[k].submit_count[d] = job[k].submit_count[d]
    BY <1>4, <2>3
  <2> QED BY <1>k, <2>1, <2>4, <2>5, EngineStep
<1>14. DomainInv'
  <2>1. CASE ~last
    <3>1. j \in Holders' <=> j \in Holders
      <4>1. at'[j] = at[j]
        BY <1>2, Apart
      <4> QED BY <1>1, <1>3, <1>4, <2>1, <4>1 DEF Holders
    <3>2. \A k \in Jobs : k \in Holders' <=> k \in Holders
      BY <1>9, <3>1
    <3>3. \A k \in Holders : job'[k].domain = job[k].domain
      BY <1>4 DEF Holders
    <3> QED BY <1>k, <1>1, <1>7, <2>1, <3>2, <3>3, DomainKept DEF Handles
  <2>2. CASE last
    <3> SUFFICES ASSUME Clean({"late", "switch", "overdue"})'
                 PROVE  /\ IsFiniteSet(Holders') /\ iommu_domain_refcount' = Cardinality(Holders')
                        /\ attached' = iommu_domain_id'
                        /\ \A k \in Holders' : job'[k].domain = iommu_domain_id'
      BY DEF DomainInv
    <3>1. /\ IsFiniteSet(Holders) /\ iommu_domain_refcount = Cardinality(Holders)
          /\ attached = iommu_domain_id
          /\ \A k \in Holders : job[k].domain = iommu_domain_id
      BY <1>k, <1>7, CleanBefore DEF DomainInv, Handles
    <3>2. ~GivenUp(j) /\ Clean({"switch"})
      BY <1>1, <2>2 DEF Clean
    <3>3. j \in Holders
      <4>1. ~Unqueued(j) /\ at[j] \in Places
        BY <1>k, <1>3 DEF JobInv, UnqueuedInv, PlaceInv
      <4>2. CASE ~job[j].nonblock
        BY <1>1, <1>3, <3>2, <4>1, <4>2 DEF Holders, GivenUp, Unqueued, Places
      <4>3. CASE job[j].nonblock
        <5>1. /\ at[j] \notin {"abort", "sleep", "free"}
              /\ at[j] \in {"reset", "resetting"} => held[j] # NoJob
          BY <1>k, <3>2, <4>3 DEF JobInv, FateInv
        <5> QED BY <1>1, <1>3, <4>1, <4>3, <5>1 DEF Holders, Unqueued, Places
      <4> QED BY <4>2, <4>3
    <3>4. j \notin Holders'
      BY <1>4, <2>2 DEF Holders
    <3>5. Holders' = Holders \ {j}
      <4>1. Holders \subseteq Jobs /\ Holders' \subseteq Jobs
        BY DEF Holders
      <4> QED BY <1>9, <3>3, <3>4, <4>1
    <3>6. IsFiniteSet(Holders') /\ Cardinality(Holders') = Cardinality(Holders) - 1
      BY <3>1, <3>3, <3>5, FS_RemoveElement
    <3>7. \A k \in Holders' : job'[k].domain = iommu_domain_id'
      <4>1. Holders' \subseteq Jobs
        BY DEF Holders
      <4> QED BY <1>4, <1>5, <3>1, <3>5, <4>1
    <3> QED BY <1>5, <2>2, <3>1, <3>6, <3>7
  <2> QED BY <2>1, <2>2
<1> QED BY <1>6, <1>8, <1>9, <1>11, <1>12, <1>13, <1>14, InvByJobs

(***************************************************************************)
(* The end of a call.                                                      *)
(***************************************************************************)

\* A call that gives up before its job was started has taken the job off every
\* queue, unless the loop over the queues missed one.
LEMMA WaitStep ==
  ASSUME IInv, NEW j \in Jobs, at[j] = "wait", NEW ret \in {"ok", "inval", "timedout"},
         WaitEnds(j, ret), ret = "ok" => job[j].done,
         Grown, Unstarted(j) \subseteq mishaps',
         UNCHANGED <<held, left, running, task_num, hwVars, work, freed, domainVars>>
  PROVE  IInv'
<1>k. /\ TypeOK /\ TypeInv /\ PlaceInv /\ ConsistentOrder /\ JobInv(j)
  BY InvParts
<1> DEFINE given == IF job[j].committed THEN ret ELSE "inval"
           place == IF given = "ok" THEN "free" ELSE "abort"
<1>1. /\ job' = [job EXCEPT ![j].ret = given]
      /\ todo_list' = [c \in Cores |->
           IF ~job[j].committed /\ c < Cardinality(job[j].cores)
           THEN Unlinked(todo_list[c], j) ELSE todo_list[c]]
      /\ at' = [at EXCEPT ![j] = place]
      /\ held' = held /\ left' = left /\ running' = running /\ task_num' = task_num
      /\ engine' = engine /\ irq' = irq /\ work' = work /\ freed' = freed
      /\ UNCHANGED domainVars
      /\ iommu_domain_id' = iommu_domain_id /\ attached' = attached
      /\ iommu_domain_refcount' = iommu_domain_refcount
  <2>1. job' = [job EXCEPT ![j].ret = given]
    BY DEF WaitEnds
  <2>2. job'[j].ret = given
    BY <1>k, <2>1 DEF TypeInv, JobRecord
  <2> HIDE DEF given
  <2> QED BY <2>1, <2>2 DEF WaitEnds, Goto, hwVars, domainVars
<1>2. /\ place \in {"free", "abort"}
      /\ place = "free" => job[j].done
      /\ given \in {"ok", "inval", "timedout"}
  OBVIOUS
<1> HIDE DEF given, place
<1>3. /\ job' \in [Jobs -> JobRecord] /\ \A k \in Jobs \ {j} : job'[k] = job[k]
      /\ Steady(j)
  <2> DEFINE x == [job[j] EXCEPT !.ret = given]
  <2>1. job[j] \in JobRecord
    BY <1>k DEF TypeInv
  <2>2. /\ x \in JobRecord
        /\ x.run_count = job[j].run_count /\ x.committed = job[j].committed
        /\ x.cores = job[j].cores /\ x.domain = job[j].domain
        /\ x.nonblock = job[j].nonblock /\ x.batches = job[j].batches
        /\ x.submit_count = job[j].submit_count /\ x.irq_entry = job[j].irq_entry
        /\ x.interrupt_count = job[j].interrupt_count /\ x.done = job[j].done
    BY <1>2, <2>1 DEF JobRecord
  <2>3. job' = [job EXCEPT ![j] = x]
    BY <1>k, <1>1 DEF TypeInv
  <2> HIDE DEF x
  <2> QED BY <1>k, <2>2, <2>3 DEF TypeInv, Steady
<1>4. \A c \in Cores : /\ todo_list'[c] \in Seq(Jobs)
                       /\ Within(todo_list'[c], todo_list[c])
                       /\ ~job[j].committed /\ c < Cardinality(job[j].cores)
                            => j \notin ToSet(todo_list'[c])
  <2>1. ASSUME NEW c \in Cores
        PROVE  /\ todo_list'[c] \in Seq(Jobs)
               /\ Within(todo_list'[c], todo_list[c])
               /\ ~job[j].committed /\ c < Cardinality(job[j].cores)
                    => j \notin ToSet(todo_list'[c])
    <3>1. todo_list[c] \in Seq(Jobs)
      BY <1>k DEF TypeInv
    <3>2. ~InOrder(todo_list[c], j, j)
      BY <1>k, OnceInLine
    <3>3. /\ Unlinked(todo_list[c], j) \in Seq(Jobs)
          /\ Within(Unlinked(todo_list[c], j), todo_list[c])
          /\ j \notin ToSet(Unlinked(todo_list[c], j))
      BY <3>1, <3>2, UnlinkedFacts
    <3> QED BY <1>1, <3>1, <3>3, WithinItself
  <2> QED BY <2>1
<1>5. /\ at'[j] = place /\ \A q \in Procs \ {j} : at'[q] = at[q]
  BY <1>k, <1>1, Apart DEF TypeOK
<1>6. TypeOK' /\ TypeInv'
  <2>1. todo_list' \in [Cores -> Seq(Jobs)]
    BY <1>1, <1>4
  <2>2. \A k \in Jobs : /\ job'[k].run_count \in 0 .. Cardinality(Cores)
                        /\ job'[k].interrupt_count \in 0 .. Cardinality(Cores)
    BY <1>3 DEF JobRecord
  <2> QED BY <1>k, <1>1, <1>2, <1>3, <2>1, <2>2 DEF TypeOK, TypeInv
<1>7. PlaceInv'
  <2>1. \A p \in Cores : at'[p] = at[p]
    BY <1>5, Apart
  <2>2. \A k \in Jobs \ {j} : at'[k] = at[k] /\ job'[k] = job[k]
    BY <1>3, <1>5, Apart
  <2>3. held[j] = NoJob
    BY <1>k DEF PlaceInv
  <2> QED BY <1>k, <1>1, <1>2, <1>5, <2>1, <2>2, <2>3 DEF PlaceInv, Places
<1>8. Acts(j) /\ Spares(j)
  <2>1. \A c \in Cores : ToSet(todo_list'[c]) \subseteq ToSet(todo_list[c])
    BY <1>4 DEF Within
  <2> QED BY <1>1, <1>2, <1>3, <1>5, <2>1 DEF Acts, Spares
<1>9. \A k \in Jobs : held'[j] # k
  BY <1>k, <1>1, Apart DEF PlaceInv
<1>10. UnqueuedInv(j)' /\ OnceInv(j)' /\ CountInv(j)'
  <2>1. ~Unqueued(j)'
    BY <1>2, <1>5 DEF Unqueued
  <2> QED BY <1>3, <1>8, <1>9, <2>1, ActSteady
<1>11. ~job[j].nonblock
  BY <1>k DEF JobInv, FateInv
<1>12. FateInv(j)'
  <2>1. Clean({"overdue"})' => j \notin work /\ j \notin freed
    <3>1. Clean({"overdue"})' => Clean({"overdue"})
      BY CleanBefore
    <3> QED BY <1>k, <1>11, <3>1 DEF JobInv, FateInv
  <2> QED BY <1>1, <1>2, <1>3, <1>5, <1>11, <2>1 DEF FateInv, Steady
<1>13. LeavingInv(j)'
  <2> SUFFICES ASSUME Clean({"missed", "kept", "overdue"})'
               PROVE  /\ \A c \in Cores : place = "abort" => j \notin ToSet(todo_list'[c])
                      /\ place = "free" => Remaining(j)' = {}
                      /\ j \notin freed
    BY <1>1, <1>2, <1>5 DEF LeavingInv
  <2>1. j \notin freed
    <3>1. Clean({"overdue"})
      BY CleanBefore DEF Clean
    <3> QED BY <1>k, <1>11, <3>1 DEF JobInv, FateInv
  <2>2. ASSUME NEW c \in Cores PROVE j \notin ToSet(todo_list'[c])
    <3>1. CASE job[j].committed
      <4>1. Pending(j)' \in SUBSET Cores /\ Cardinality(Pending(j)') = 0
        <5>1. Pending(j)' \in SUBSET Cores
          BY DEF Pending
        <5>2. Cardinality(Pending(j)') \in Nat
          BY <5>1, CoreSets, CoresNumbered
        <5> QED BY <1>3, <1>10, <3>1, <5>1, <5>2 DEF CountInv, Steady
      <4>2. Pending(j)' = {}
        BY <4>1, CoreSets, FS_EmptySet
      <4> QED BY <4>2 DEF Pending
    <3>2. CASE ~job[j].committed /\ c < Cardinality(job[j].cores)
      BY <1>4, <3>2
    <3>3. CASE ~job[j].committed /\ c >= Cardinality(job[j].cores)
      <4>1. j \notin ToSet(todo_list[c])
        BY <3>3 DEF Unstarted, If, Clean
      <4> QED BY <1>4, <4>1 DEF Within
    <3>4. c < Cardinality(job[j].cores) \/ c >= Cardinality(job[j].cores)
      <4>1. job[j].cores \in SUBSET Cores
        BY <1>k DEF TypeInv, JobRecord
      <4>2. Cardinality(job[j].cores) \in Nat /\ c \in Nat
        BY <4>1, CoreSets, CoresNumbered
      <4> QED BY <4>2
    <3> QED BY <3>1, <3>2, <3>3, <3>4
  <2>3. ASSUME place = "free" PROVE Remaining(j)' = {}
    <3>1. job'[j].done
      BY <1>2, <1>3, <2>3 DEF Steady
    <3>2. Remaining(j)' \in SUBSET Cores
      BY DEF Remaining
    <3>3. Cardinality(Remaining(j)') \in Nat
      BY <3>2, CoreSets, CoresNumbered
    <3>4. Cardinality(Remaining(j)') = 0
      BY <1>10, <3>1, <3>3 DEF CountInv
    <3> QED BY <3>2, <3>4, CoreSets, FS_EmptySet
  <2> QED BY <2>1, <2>2, <2>3
<1>14. EngineInv'
  BY <1>1, <1>3, <1>8, <1>9, ActEngine
<1>15. DomainInv'
  <2>1. j \in Holders' <=> j \in Holders
    BY <1>1, <1>2, <1>3, <1>5 DEF Holders, Steady
  <2> QED BY <1>1, <1>3, <1>8, <1>9, <2>1, ActDomain DEF Steady
<1> QED
  BY <1>4, <1>6, <1>7, <1>8, <1>9, <1>10, <1>12, <1>13, <1>14, <1>15, ActStep DEF JobInv

LEMMA WaitWokenStep ==
  ASSUME IInv, NEW j \in Jobs, WaitWoken(j)
  PROVE  IInv'
<1>1. /\ at[j] = "wait" /\ WaitEnds(j, IF job[j].done THEN "ok" ELSE "inval")
      /\ mishaps' = mishaps \cup Unstarted(j)
      /\ UNCHANGED <<held, left, running, task_num, hwVars, work, freed, domainVars>>
  BY DEF WaitWoken, Noted
<1>2. Grown /\ Unstarted(j) \subseteq mishaps'
  BY <1>1 DEF Grown
<1>3. CASE job[j].done
  <2>1. WaitEnds(j, "ok")
    BY <1>1, <1>3
  <2> QED BY <1>1, <1>2, <1>3, <2>1, WaitStep
<1>4. CASE ~job[j].done
  <2>1. WaitEnds(j, "inval")
    BY <1>1, <1>4
  <2> QED BY <1>1, <1>2, <2>1, WaitStep
<1> QED BY <1>3, <1>4

LEMMA WaitTimesOutStep ==
  ASSUME IInv, NEW j \in Jobs, WaitTimesOut(j)
  PROVE  IInv'
<1>1. /\ at[j] = "wait" /\ WaitEnds(j, "timedout")
      /\ mishaps' = mishaps \cup ({"timeout"} \cup Unstarted(j))
      /\ UNCHANGED <<held, left, running, task_num, hwVars, work, freed, domainVars>>
  BY DEF WaitTimesOut, Noted
<1>2. Grown /\ Unstarted(j) \subseteq mishaps'
  BY <1>1 DEF Grown
<1> QED BY <1>1, <1>2, WaitStep

\* A step of j that only takes the call from one place to another.
LEMMA GoStep ==
  ASSUME TypeOK, TypeInv, PlaceInv, NEW j \in Jobs, NEW place \in Places \ {"commit", "next", "queue"},
         at' = [at EXCEPT ![j] = place],
         job' = job, held' = held, left' = left, todo_list' = todo_list,
         running' \in [Cores -> Jobs \cup {NoJob}],
         \A c \in Cores : running'[c] = running[c] \/ running'[c] = NoJob,
         engine' \in [Cores -> Jobs \cup {NoJob}],
         \A c \in Cores : engine'[c] = engine[c] \/ engine'[c] = NoJob,
         task_num' \in [Cores -> Int], irq' \in [Cores -> {"none", "valid", "invalid"}],
         work' = work, freed' \in {freed, freed \cup {j}}, Grown,
         iommu_domain_id' = iommu_domain_id, attached' = attached,
         iommu_domain_refcount' \in Int,
         place = "flush" => held[j] # NoJob /\ left[j] # {},
         place \notin {"flush", "reset", "resetting"} => held[j] = NoJob,
         place \in {"reset", "resetting"} /\ held[j] # NoJob => left[j] # {}
  PROVE  /\ TypeOK' /\ TypeInv' /\ PlaceInv' /\ Acts(j) /\ Spares(j) /\ Steady(j)
         /\ at'[j] = place /\ \A q \in Procs \ {j} : at'[q] = at[q]
         /\ \A c \in Cores : Within(todo_list'[c], todo_list[c])
         /\ Fewer(j)
<1>1. at'[j] = place /\ \A q \in Procs \ {j} : at'[q] = at[q]
  BY Apart DEF TypeOK
<1>2. TypeOK' /\ TypeInv'
  <2>1. TypeOK'
    BY DEF TypeOK, Places
  <2>2. TypeInv'
    BY DEF TypeInv
  <2> QED BY <2>1, <2>2
<1>3. PlaceInv'
  <2>1. \A p \in Cores : at'[p] = at[p]
    BY <1>1, Apart
  <2>2. \A k \in Jobs \ {j} : at'[k] = at[k]
    BY <1>1, Apart
  <2> QED BY <1>1, <2>1, <2>2 DEF PlaceInv
<1>4. Acts(j) /\ Spares(j) /\ Steady(j)
  <2>1. \A k \in Jobs \ {j} : k \in freed' <=> k \in freed
    OBVIOUS
  <2> QED BY <1>1, <2>1 DEF Acts, Spares, Steady
<1> QED BY <1>1, <1>2, <1>3, <1>4, WithinItself, ActsFewer

LEMMA AbortPutStep ==
  ASSUME IInv, NEW j \in Jobs, AbortPut(j)
  PROVE  IInv'
<1>k. /\ TypeOK /\ TypeInv /\ PlaceInv /\ JobInv(j) /\ DomainInv /\ \A k \in Jobs : JobInv(k)
  BY InvParts
<1>1. /\ at[j] = "abort" /\ at' = [at EXCEPT ![j] = "sleep"]
      /\ job' = job /\ held' = held /\ left' = left /\ running' = running
      /\ todo_list' = todo_list /\ task_num' = task_num
      /\ engine' = engine /\ irq' = irq /\ work' = work /\ freed' = freed
      /\ mishaps' = mishaps \cup (IF job[j].done THEN {"late"} ELSE {})
      /\ iommu_domain_id' = iommu_domain_id /\ attached' = attached
      /\ iommu_domain_refcount' = iommu_domain_refcount - 1
  BY DEF AbortPut, DomainPut, Goto, Noted, If, coreVars, hwVars, resetVars
<1>2. held[j] = NoJob /\ Grown /\ iommu_domain_refcount' \in Int
      /\ iommu_domain_refcount \in Int
  BY <1>k, <1>1 DEF PlaceInv, Grown, TypeInv
<1>3. /\ TypeOK' /\ TypeInv' /\ PlaceInv' /\ Acts(j) /\ Spares(j) /\ Steady(j)
      /\ at'[j] = "sleep" /\ \A q \in Procs \ {j} : at'[q] = at[q]
      /\ \A c \in Cores : Within(todo_list'[c], todo_list[c])
      /\ Fewer(j)
  <2>1. "sleep" \in Places \ {"commit", "next", "queue"}
    BY DEF Places
  <2>2. /\ running' \in [Cores -> Jobs \cup {NoJob}] /\ engine' \in [Cores -> Jobs \cup {NoJob}]
        /\ task_num' \in [Cores -> Int] /\ irq' \in [Cores -> {"none", "valid", "invalid"}]
    BY <1>k, <1>1 DEF TypeOK, TypeInv
  <2> QED BY <1>k, <1>1, <1>2, <2>1, <2>2, GoStep
<1>4. \A k \in Jobs : held'[j] # k
  BY <1>1, <1>2, Apart
<1>5. JobInv(j)'
  <2>1. UnqueuedInv(j)' /\ OnceInv(j)' /\ CountInv(j)'
    <3>1. ~Unqueued(j)'
      BY <1>3 DEF Unqueued
    <3> QED BY <1>3, <1>4, <3>1, ActSteady
  <2>2. FateInv(j)'
    BY <1>k, <1>1, <1>2, <1>3, CleanBefore DEF JobInv, FateInv
  <2>3. LeavingInv(j)'
    BY <1>k, <1>1, <1>2, <1>3, CleanBefore, FewerPlaces DEF JobInv, LeavingInv
  <2> QED BY <2>1, <2>2, <2>3 DEF JobInv
<1>6. EngineInv'
  BY <1>1, <1>3, <1>4, ActEngine
<1>7. DomainInv'
  <2> SUFFICES ASSUME Clean({"late", "switch", "overdue"})'
               PROVE  /\ IsFiniteSet(Holders') /\ iommu_domain_refcount' = Cardinality(Holders')
                      /\ attached' = iommu_domain_id'
                      /\ \A k \in Holders' : job'[k].domain = iommu_domain_id'
    BY DEF DomainInv
  <2>1. /\ IsFiniteSet(Holders) /\ iommu_domain_refcount = Cardinality(Holders)
        /\ attached = iommu_domain_id
        /\ \A k \in Holders : job[k].domain = iommu_domain_id
    BY <1>k, <1>2, CleanBefore DEF DomainInv
  <2>2. ~job[j].done /\ Clean({"switch", "overdue"}) /\ Clean({"overdue"})
    BY <1>1 DEF Clean
  <2>3. j \in Holders
    BY <1>k, <1>1, <2>2 DEF Holders, JobInv, FateInv
  <2>4. j \notin Holders'
    BY <1>1, <1>3 DEF Holders
  <2>5. Holders' = Holders \ {j}
    <3>1. Holders \subseteq Jobs /\ Holders' \subseteq Jobs
      BY DEF Holders
    <3>2. \A k \in Jobs \ {j} : k \in Holders' <=> k \in Holders
      BY <1>k, <1>3, <1>4, OthersKept
    <3> QED BY <2>3, <2>4, <3>1, <3>2
  <2>6. IsFiniteSet(Holders') /\ Cardinality(Holders') = Cardinality(Holders) - 1
    BY <2>1, <2>3, <2>5, FS_RemoveElement
  <2>7. \A k \in Holders' : job'[k].domain = iommu_domain_id'
    BY <1>1, <2>1, <2>5
  <2> QED BY <1>1, <2>1, <2>6, <2>7
<1> QED BY <1>3, <1>4, <1>5, <1>6, <1>7, ActStep

\* The other ends: the reference to the domain has been given back before.
LEMMA EndStep ==
  ASSUME IInv, NEW j \in Jobs, Acts(j), Spares(j), Steady(j), TypeOK', TypeInv', PlaceInv',
         \A c \in Cores : Within(todo_list'[c], todo_list[c]),
         held'[j] = held[j], UNCHANGED domainVars, Unqueued(j)' => Unqueued(j),
         Unqueued(j)' => (j \in work' => j \in work) /\ (j \in freed' => j \in freed),
         j \notin Holders, j \notin Holders', FateInv(j)', LeavingInv(j)', EngineInv'
  PROVE  IInv'
<1>1. \A k \in Jobs : Unqueued(k) => held'[j] # k
  BY InvParts, Apart DEF JobInv, UnqueuedInv
<1>2. UnqueuedInv(j)' /\ OnceInv(j)' /\ CountInv(j)'
  <2>1. CASE held'[j] # j
    BY <2>1, ActSteady
  <2>2. CASE held'[j] = j
    <3>1. TypeInv /\ JobInv(j) /\ Fewer(j) /\ Idler(j)
      BY InvParts, ActsFewer
    <3>2. OnceInv(j)' /\ CountInv(j)'
      BY <3>1, OnceKept, CountKept, FewerPlaces DEF JobInv, Steady, Idler
    <3>3. ~Unqueued(j)
      BY <1>1, <2>2
    <3> QED BY <3>2, <3>3 DEF UnqueuedInv
  <2> QED BY <2>1, <2>2
<1>3. JobInv(j)'
  BY <1>2 DEF JobInv
<1>4. DomainInv'
  BY <1>1, ActDomain
<1> QED BY <1>1, <1>3, <1>4, ActStep

LEMMA AbortClearStep ==
  ASSUME IInv, NEW j \in Jobs, AbortClear(j)
  PROVE  IInv'
<1>k. /\ TypeOK /\ TypeInv /\ PlaceInv /\ JobInv(j) /\ EngineInv /\ \A k \in Jobs : JobInv(k)
  BY InvParts
<1> DEFINE mine == {c \in job[j].cores : running[c] = j /\ c \notin job[j].irq_entry}
           place == IF job[j].ret = "timedout" THEN "reset" ELSE "free"
<1>1. /\ at[j] = "sleep" /\ at' = [at EXCEPT ![j] = place]
      /\ running' = [c \in Cores |-> IF c \in mine THEN NoJob ELSE running[c]]
      /\ task_num' = [c \in Cores |->
           task_num[c] - (IF c \in mine THEN job[j].batches ELSE 0)]
      /\ mishaps' = mishaps \cup (IF \E c \in Cores : running'[c] = j \/ held[c] = j
                                  THEN {"kept"} ELSE {})
      /\ job' = job /\ held' = held /\ left' = left /\ todo_list' = todo_list
      /\ engine' = engine /\ irq' = irq /\ work' = work /\ freed' = freed
      /\ UNCHANGED domainVars
      /\ iommu_domain_id' = iommu_domain_id /\ attached' = attached
      /\ iommu_domain_refcount' = iommu_domain_refcount
  BY DEF AbortClear, Goto, Noted, If, hwVars, resetVars, domainVars
<1>2. place \in {"reset", "free"}
  OBVIOUS
<1>3. \A c \in Cores : /\ running'[c] = running[c] \/ (c \in mine /\ running'[c] = NoJob)
                       /\ c \in mine => running[c] = j /\ c \notin job[j].irq_entry
  BY <1>1
<1>4. running' \in [Cores -> Jobs \cup {NoJob}] /\ task_num' \in [Cores -> Int]
  <2>1. job[j].batches \in Int /\ \A c \in Cores : task_num[c] \in Int
    BY <1>k DEF TypeInv, JobRecord
  <2>2. \A c \in Cores : task_num[c] - (IF c \in mine THEN job[j].batches ELSE 0) \in Int
    BY <2>1
  <2>3. \A c \in Cores : running[c] \in Jobs \cup {NoJob}
    BY <1>k DEF TypeOK
  <2> QED BY <1>1, <2>2, <2>3
<1> HIDE DEF mine, place
<1>5. held[j] = NoJob /\ Grown /\ iommu_domain_refcount' \in Int
  BY <1>k, <1>1 DEF PlaceInv, Grown, TypeInv
<1>6. /\ TypeOK' /\ TypeInv' /\ PlaceInv' /\ Acts(j) /\ Spares(j) /\ Steady(j)
      /\ at'[j] = place /\ \A q \in Procs \ {j} : at'[q] = at[q]
      /\ \A c \in Cores : Within(todo_list'[c], todo_list[c])
      /\ Fewer(j)
  <2>1. place \in Places \ {"commit", "next", "queue"} /\ place # "flush"
    BY <1>2 DEF Places
  <2>2. engine' \in [Cores -> Jobs \cup {NoJob}] /\ irq' \in [Cores -> {"none", "valid", "invalid"}]
    BY <1>k, <1>1 DEF TypeOK, TypeInv
  <2>3. \A c \in Cores : running'[c] = running[c] \/ running'[c] = NoJob
    BY <1>3
  <2> QED BY <1>k, <1>1, <1>4, <1>5, <2>1, <2>2, <2>3, GoStep
<1>7. ~Unqueued(j)' /\ j \notin Holders /\ j \notin Holders'
  BY <1>1, <1>2, <1>5, <1>6 DEF Unqueued, Holders
<1>8. FateInv(j)'
  BY <1>k, <1>1, <1>2, <1>5, <1>6, CleanBefore DEF JobInv, FateInv
<1>9. LeavingInv(j)'
  <2>1. ASSUME Clean({"missed", "kept", "overdue"})'
        PROVE  Remaining(j)' = {}
    <3>1. \A c \in Cores : running'[c] # j /\ held'[c] # j
      BY <1>1, <2>1 DEF Clean
    <3>2. \A c \in Cores : j \notin ToSet(todo_list'[c])
      BY <1>k, <1>1, <1>5, <2>1, CleanBefore DEF JobInv, LeavingInv
    <3> QED BY <3>1, <3>2 DEF Remaining
  <2> QED BY <1>2, <1>6, <2>1 DEF LeavingInv
<1>10. EngineInv'
  <2> SUFFICES ASSUME Clean({"overlap", "overdue"})'
               PROVE  /\ \A c \in Cores : CoreFine(c)'
                      /\ \A k \in Jobs : job'[k].interrupt_count >= Cardinality(Due(k)')
    BY DEF EngineInv, CoreFine
  <2>1. /\ \A c \in Cores : CoreFine(c)
        /\ \A k \in Jobs : job[k].interrupt_count >= Cardinality(Due(k))
    BY <1>k, <1>5, EngineParts
  <2>2. ASSUME NEW c \in Cores PROVE CoreFine(c)'
    <3>1. CoreFine(c) /\ at'[c] = at[c]
      BY <1>6, <2>1, Apart
    <3>2. at[c] = "status" => c \notin mine
      BY <1>k, <1>3, <3>1 DEF JobInv, OnceInv, CoreFine
    <3> QED BY <1>1, <1>3, <3>1, <3>2 DEF CoreFine
  <2>3. ASSUME NEW k \in Jobs PROVE job'[k].interrupt_count >= Cardinality(Due(k)')
    <3>1. Remaining(k)' \subseteq Remaining(k)
      BY <1>6, ActsFewer, FewerPlaces
    <3>2. \A d \in job[k].cores \ Due(k) : d \notin Remaining(k)' /\ engine'[d] # k
      BY <1>1, <3>1 DEF Due
    <3> QED BY <1>k, <1>1, <2>1, <3>2, DueKept
  <2> QED BY <2>2, <2>3
<1> QED BY <1>1, <1>6, <1>7, <1>8, <1>9, <1>10, EndStep

LEMMA FreeStep ==
  ASSUME IInv, NEW j \in Jobs, Free(j)
  PROVE  IInv'
<1>k. /\ TypeOK /\ TypeInv /\ PlaceInv /\ JobInv(j) /\ \A k \in Jobs : JobInv(k)
  BY InvParts
<1>1. /\ at[j] = "free" /\ at' = [at EXCEPT ![j] = "out"] /\ freed' = freed \cup {j}
      /\ job' = job /\ held' = held /\ left' = left /\ running' = running
      /\ todo_list' = todo_list /\ task_num' = task_num
      /\ engine' = engine /\ irq' = irq /\ work' = work /\ mishaps' = mishaps
      /\ UNCHANGED domainVars
      /\ iommu_domain_id' = iommu_domain_id /\ attached' = attached
      /\ iommu_domain_refcount' = iommu_domain_refcount
  BY DEF Free, Goto, coreVars, hwVars, resetVars, domainVars
<1>2. held[j] = NoJob /\ Grown /\ iommu_domain_refcount' \in Int
  BY <1>k, <1>1 DEF PlaceInv, Grown, TypeInv
<1>3. /\ TypeOK' /\ TypeInv' /\ PlaceInv' /\ Acts(j) /\ Spares(j) /\ Steady(j)
      /\ at'[j] = "out" /\ \A q \in Procs \ {j} : at'[q] = at[q]
      /\ \A c \in Cores : Within(todo_list'[c], todo_list[c])
      /\ Fewer(j)
  <2>1. "out" \in Places \ {"commit", "next", "queue"}
    BY DEF Places
  <2>2. /\ running' \in [Cores -> Jobs \cup {NoJob}] /\ engine' \in [Cores -> Jobs \cup {NoJob}]
        /\ task_num' \in [Cores -> Int] /\ irq' \in [Cores -> {"none", "valid", "invalid"}]
    BY <1>k, <1>1 DEF TypeOK, TypeInv
  <2> QED BY <1>k, <1>1, <1>2, <2>1, <2>2, GoStep
<1>4. ~Unqueued(j)' /\ j \notin Holders /\ j \notin Holders'
  BY <1>1, <1>3 DEF Unqueued, Holders
<1>5. FateInv(j)'
  <2>1. Clean({"switch"})' => ~job[j].nonblock
    BY <1>k, <1>1 DEF JobInv, FateInv, Clean
  <2>2. Clean({"switch", "overdue"})' => Clean({"switch"})'
    BY DEF Clean
  <2>3. Clean({"overdue"})' => (j \in work' => job'[j].nonblock /\ job'[j].done)
    BY <1>k, <1>1 DEF JobInv, FateInv, Clean
  <2> QED BY <1>1, <1>2, <1>3, <2>1, <2>2, <2>3 DEF FateInv
<1>6. LeavingInv(j)'
  BY <1>k, <1>1, <1>2, <1>3, CleanBefore, FewerPlaces DEF JobInv, LeavingInv
<1>7. EngineInv'
  <2>1. \A k \in Jobs : held'[j] # k
    BY <1>1, <1>2, Apart
  <2> QED BY <1>1, <1>3, <2>1, ActEngine
<1> QED BY <1>1, <1>3, <1>4, <1>5, <1>6, <1>7, EndStep

LEMMA CleanupWorkStep ==
  ASSUME IInv, NEW j \in Jobs, CleanupWork(j)
  PROVE  IInv'
<1>k. /\ TypeOK /\ TypeInv /\ PlaceInv /\ JobInv(j) /\ \A k \in Jobs : JobInv(k)
      /\ ConsistentOrder /\ EngineInv /\ DomainInv
  BY InvParts
<1>1. /\ j \in work /\ work' = work \ {j} /\ freed' = freed \cup {j}
      /\ mishaps \subseteq mishaps'
      /\ at' = at /\ job' = job /\ held' = held /\ left' = left /\ running' = running
      /\ todo_list' = todo_list /\ task_num' = task_num
      /\ engine' = engine /\ irq' = irq
      /\ UNCHANGED domainVars
      /\ iommu_domain_id' = iommu_domain_id /\ attached' = attached
      /\ iommu_domain_refcount' = iommu_domain_refcount
  BY DEF CleanupWork, Noted, coreVars, hwVars, resetVars, domainVars
<1>2. Grown
  BY <1>1 DEF Grown
<1>3. TypeOK' /\ TypeInv' /\ PlaceInv'
  <2>1. TypeOK'
    BY <1>k, <1>1 DEF TypeOK
  <2>2. TypeInv'
    BY <1>k, <1>1 DEF TypeInv
  <2>3. PlaceInv'
    BY <1>k, <1>1 DEF PlaceInv
  <2> QED BY <2>1, <2>2, <2>3
<1>4. \A k \in Jobs : Fewer(k) /\ Idler(k) /\ Steady(k) /\ Unheld(k)
  <2>1. \A q \in Procs : CoreOf(q)' = CoreOf(q)
    BY <1>1 DEF CoreOf
  <2>2. \A k \in Jobs : \A d \in Cores : \A q \in Procs : Taking(q, d, k)' => Taking(q, d, k)
    BY <1>1, <2>1 DEF Taking
  <2> QED BY <1>1, <2>2 DEF Fewer, Idler, Steady, Unheld
<1>5. Clean({"overdue"})' => job[j].nonblock /\ job[j].done
  BY <1>k, <1>1, <1>2, CleanBefore DEF JobInv, FateInv
<1>6. \A k \in Jobs \ {j} : JobInv(k)' /\ (k \in Holders' <=> k \in Holders)
  <2>1. \A k \in Jobs \ {j} : Still(k)
    BY <1>1 DEF Still
  <2> QED BY <1>k, <1>2, <1>4, <2>1, OtherKept, HolderKept
<1>7. JobInv(j)'
  <2>1. OnceInv(j)' /\ CountInv(j)'
    BY <1>k, <1>4, OnceKept, CountKept, FewerPlaces DEF JobInv, Steady, Idler
  <2>2. UnqueuedInv(j)'
    <3>1. ~Unqueued(j)
      BY <1>k, <1>1 DEF JobInv, UnqueuedInv
    <3> QED BY <1>1, <3>1 DEF UnqueuedInv, Unqueued
  <2>3. FateInv(j)'
    <3>1. Clean({"switch"})' => Clean({"switch"})
      BY <1>2, CleanBefore
    <3>2. Clean({"overdue"})' => Clean({"overdue"})
      BY <1>2, CleanBefore
    <3>3. Clean({"switch", "overdue"})' => Clean({"overdue"})'
      BY DEF Clean
    <3> QED BY <1>k, <1>1, <1>5, <3>1, <3>2, <3>3 DEF JobInv, FateInv
  <2>4. LeavingInv(j)'
    <3>1. ASSUME Clean({"missed", "kept", "overdue"})'
          PROVE  Remaining(j)' = {} /\ Clean({"missed", "kept", "overdue"})
      <4>1. Clean({"overdue"})'
        BY <3>1 DEF Clean
      <4>2. job'[j].done
        BY <1>1, <1>5, <4>1
      <4>3. Remaining(j)' \in SUBSET Cores
        BY DEF Remaining
      <4>4. Cardinality(Remaining(j)') \in Nat
        BY <4>3, CoreSets, CoresNumbered
      <4>5. Cardinality(Remaining(j)') = 0
        BY <2>1, <4>2, <4>4 DEF CountInv
      <4>6. Remaining(j)' = {}
        BY <4>3, <4>5, CoreSets, FS_EmptySet
      <4> QED BY <1>2, <3>1, <4>6, CleanBefore
    <3> QED BY <1>k, <1>1, <3>1 DEF JobInv, LeavingInv
  <2> QED BY <2>1, <2>2, <2>3, <2>4 DEF JobInv
<1>8. ConsistentOrder'
  BY <1>k, <1>1, <1>3, OrderKept, WithinItself
<1>9. EngineInv'
  <2>1. \A c \in Cores : at'[c] = "done" => held'[c] \in Jobs
    BY <1>k, <1>1, Apart DEF PlaceInv, TypeOK
  <2>2. \A k \in Jobs : Remaining(k)' \subseteq Remaining(k)
    BY <1>4, FewerPlaces
  <2> QED BY <1>k, <1>1, <1>2, <1>4, <2>1, <2>2, EngineKept
<1>10. DomainInv'
  <2>1. CASE job[j].done
    <3>1. j \in Holders' <=> j \in Holders
      BY <1>1, <2>1 DEF Holders
    <3>2. \A k \in Jobs : k \in Holders' <=> k \in Holders
      BY <1>6, <3>1
    <3> QED BY <1>k, <1>1, <1>2, <3>2, DomainKept
  <2>2. CASE ~job[j].done
    <3>1. ~Clean({"late", "switch", "overdue"})'
      BY <1>5, <2>2 DEF Clean
    <3> QED BY <3>1 DEF DomainInv
  <2> QED BY <2>1, <2>2
<1> QED BY <1>3, <1>6, <1>7, <1>8, <1>9, <1>10, InvByJobs

(***************************************************************************)
(* The soft reset.                                                         *)
(***************************************************************************)

\* After a reset the call goes on with what it reset the hardware for.
LEMMA AfterResetStep ==
  ASSUME IInv, NEW j \in Jobs, at[j] \in {"reset", "resetting"}, AfterReset(j), Grown,
         UNCHANGED <<job, held, left, coreVars, work, freed, domainVars>>,
         (engine' = engine /\ irq' = irq)
           \/ (engine' = [c \in Cores |-> NoJob] /\ irq' = [c \in Cores |-> "none"])
  PROVE  IInv'
<1>k. /\ TypeOK /\ TypeInv /\ PlaceInv /\ JobInv(j) /\ EngineInv /\ \A k \in Jobs : JobInv(k)
  BY InvParts
<1> DEFINE place == IF held[j] = NoJob THEN "free" ELSE "flush"
<1>1. /\ at' = [at EXCEPT ![j] = place]
      /\ job' = job /\ held' = held /\ left' = left /\ running' = running
      /\ todo_list' = todo_list /\ task_num' = task_num
      /\ work' = work /\ freed' = freed
      /\ UNCHANGED domainVars
      /\ iommu_domain_id' = iommu_domain_id /\ attached' = attached
      /\ iommu_domain_refcount' = iommu_domain_refcount
  BY DEF AfterReset, Goto, coreVars, domainVars
<1>2. /\ place \in {"free", "flush"} /\ (place = "flush" <=> held[j] # NoJob)
  OBVIOUS
<1> HIDE DEF place
<1>3. /\ running' \in [Cores -> Jobs \cup {NoJob}] /\ engine' \in [Cores -> Jobs \cup {NoJob}]
      /\ task_num' \in [Cores -> Int] /\ irq' \in [Cores -> {"none", "valid", "invalid"}]
      /\ iommu_domain_refcount' \in Int
  BY <1>k, <1>1 DEF TypeOK, TypeInv
<1>4. \A c \in Cores : engine'[c] = engine[c] \/ engine'[c] = NoJob
  OBVIOUS
<1>5. /\ TypeOK' /\ TypeInv' /\ PlaceInv' /\ Acts(j) /\ Spares(j) /\ Steady(j)
      /\ at'[j] = place /\ \A q \in Procs \ {j} : at'[q] = at[q]
      /\ \A c \in Cores : Within(todo_list'[c], todo_list[c])
      /\ Fewer(j)
  <2>1. place \in Places \ {"commit", "next", "queue"}
    BY <1>2 DEF Places
  <2>2. held[j] # NoJob => left[j] # {}
    BY <1>k DEF PlaceInv
  <2> QED BY <1>k, <1>1, <1>2, <1>3, <1>4, <2>1, <2>2, GoStep
<1>6. /\ Unqueued(j)' => Unqueued(j)
      /\ j \notin Holders /\ j \notin Holders'
  BY <1>1, <1>2, <1>5 DEF Unqueued, Holders
<1>7. FateInv(j)'
  <2>1. Clean({"switch"})' /\ job[j].nonblock => held[j] # NoJob
    BY <1>k, CleanBefore DEF JobInv, FateInv
  <2>2. Clean({"overdue"})' => held[j] = NoJob
    BY <1>k, CleanBefore DEF JobInv, FateInv
  <2>3. Clean({"overdue"})' =>
          /\ j \in work => job[j].nonblock /\ job[j].done
          /\ j \in freed => job[j].nonblock /\ job[j].done
    BY <1>k, CleanBefore DEF JobInv, FateInv
  <2>4. Clean({"switch", "overdue"})' => Clean({"overdue"})'
    BY DEF Clean
  <2> QED BY <1>1, <1>2, <1>5, <2>1, <2>2, <2>3, <2>4 DEF FateInv
<1>8. LeavingInv(j)'
  <2>1. Remaining(j)' \subseteq Remaining(j)
    BY <1>5, FewerPlaces
  <2> QED BY <1>k, <1>1, <1>2, <1>5, <2>1, CleanBefore DEF JobInv, LeavingInv
<1>9. EngineInv'
  <2> SUFFICES ASSUME Clean({"overlap", "overdue"})'
               PROVE  /\ \A c \in Cores : CoreFine(c)'
                      /\ \A k \in Jobs : job'[k].interrupt_count >= Cardinality(Due(k)')
    BY DEF EngineInv, CoreFine
  <2>1. /\ \A c \in Cores : CoreFine(c)
        /\ \A k \in Jobs : job[k].interrupt_count >= Cardinality(Due(k))
    BY <1>k, EngineParts
  <2>2. ASSUME NEW c \in Cores PROVE CoreFine(c)'
    <3>1. CoreFine(c) /\ at'[c] = at[c]
      BY <1>5, <2>1, Apart
    <3>2. at[c] = "done" => held[c] # NoJob
      BY <1>k DEF PlaceInv
    <3>3. \/ engine'[c] = engine[c] /\ irq'[c] = irq[c]
          \/ engine'[c] = NoJob /\ irq'[c] = "none"
      OBVIOUS
    <3> QED BY <1>1, <3>1, <3>2, <3>3 DEF CoreFine
  <2>3. ASSUME NEW k \in Jobs PROVE job'[k].interrupt_count >= Cardinality(Due(k)')
    <3>1. Remaining(k)' \subseteq Remaining(k) /\ Idler(k)
      BY <1>5, ActsFewer, FewerPlaces
    <3>2. \A d \in job[k].cores \ Due(k) : d \notin Remaining(k)' /\ engine'[d] # k
      <4>1. job[k].cores \subseteq Cores
        BY <1>k DEF TypeInv, JobRecord
      <4> QED BY <3>1, <4>1 DEF Due, Idler
    <3> QED BY <1>k, <1>1, <2>1, <3>2, DueKept
  <2> QED BY <2>2, <2>3
<1> QED BY <1>1, <1>5, <1>6, <1>7, <1>8, <1>9, EndStep

LEMMA ResetSkipStep ==
  ASSUME IInv, NEW j \in Jobs, ResetSkip(j)
  PROVE  IInv'
<1>1. Grown /\ at[j] = "reset" /\ AfterReset(j) /\ engine' = engine /\ irq' = irq
      /\ UNCHANGED <<job, held, left, coreVars, work, freed, domainVars>>
  BY DEF ResetSkip, Grown, endVars, hwVars
<1> QED BY <1>1, AfterResetStep

LEMMA ResetEndStep ==
  ASSUME IInv, NEW j \in Jobs, ResetEnd(j)
  PROVE  IInv'
<1>1. /\ Grown /\ at[j] = "resetting" /\ AfterReset(j)
      /\ engine' = [c \in Cores |-> NoJob] /\ irq' = [c \in Cores |-> "none"]
      /\ UNCHANGED <<job, held, left, coreVars, work, freed, domainVars>>
  BY DEF ResetEnd, Grown, Mishap
<1> QED BY <1>1, AfterResetStep

LEMMA ResetBeginStep ==
  ASSUME IInv, NEW j \in Jobs, ResetBegin(j)
  PROVE  IInv'
<1>k. /\ TypeOK /\ TypeInv /\ PlaceInv /\ JobInv(j)
  BY InvParts
<1>1. /\ at[j] = "reset" /\ at' = [at EXCEPT ![j] = "resetting"]
      /\ job' = job /\ held' = held /\ left' = left /\ running' = running
      /\ todo_list' = todo_list /\ task_num' = task_num
      /\ engine' = engine /\ irq' = irq /\ work' = work /\ freed' = freed
      /\ mishaps' = mishaps /\ UNCHANGED domainVars
      /\ iommu_domain_id' = iommu_domain_id /\ attached' = attached
      /\ iommu_domain_refcount' = iommu_domain_refcount
  BY DEF ResetBegin, Goto, coreVars, hwVars, endVars, domainVars
<1>2. Grown /\ iommu_domain_refcount' \in Int /\ (held[j] # NoJob => left[j] # {})
  BY <1>k, <1>1 DEF PlaceInv, Grown, TypeInv
<1>3. /\ TypeOK' /\ TypeInv' /\ PlaceInv' /\ Acts(j) /\ Spares(j) /\ Steady(j)
      /\ at'[j] = "resetting" /\ \A q \in Procs \ {j} : at'[q] = at[q]
      /\ \A c \in Cores : Within(todo_list'[c], todo_list[c])
      /\ Fewer(j)
  <2>1. "resetting" \in Places \ {"commit", "next", "queue"}
    BY DEF Places
  <2>2. /\ running' \in [Cores -> Jobs \cup {NoJob}] /\ engine' \in [Cores -> Jobs \cup {NoJob}]
        /\ task_num' \in [Cores -> Int] /\ irq' \in [Cores -> {"none", "valid", "invalid"}]
    BY <1>k, <1>1 DEF TypeOK, TypeInv
  <2> QED BY <1>k, <1>1, <1>2, <2>1, <2>2, GoStep
<1>4. /\ Unqueued(j)' => Unqueued(j)
      /\ j \notin Holders /\ j \notin Holders'
  BY <1>1, <1>3 DEF Unqueued, Holders
<1>5. FateInv(j)'
  BY <1>k, <1>1, <1>2, <1>3, CleanBefore DEF JobInv, FateInv
<1>6. LeavingInv(j)'
  BY <1>k, <1>1, <1>2, <1>3, CleanBefore, FewerPlaces DEF JobInv, LeavingInv
<1>7. EngineInv'
  <2>1. \A k \in Jobs : Unqueued(k) => held'[j] # k
    BY <1>1, InvParts, Apart DEF JobInv, UnqueuedInv
  <2> QED BY <1>1, <1>3, <2>1, ActEngine
<1> QED BY <1>1, <1>3, <1>4, <1>5, <1>6, <1>7, EndStep

(***************************************************************************)
(* The initial state and every step.                                       *)
(***************************************************************************)

LEMMA InitCorrect ==
  ASSUME Init
  PROVE  IInv
<1>1. /\ \A k \in Jobs : job[k] = Unsubmitted /\ left[k] = {}
      /\ \A p \in Procs : at[p] = "idle" /\ held[p] = NoJob
      /\ \A c \in Cores : /\ todo_list[c] = << >> /\ running[c] = NoJob /\ task_num[c] = 0
                          /\ engine[c] = NoJob /\ irq[c] = "none"
      /\ work = {} /\ freed = {}
      /\ iommu_domain_id = Domain0 /\ attached = Domain0 /\ iommu_domain_refcount = 0
  BY DEF Init, InitDomain
<1>2. Cardinality({}) = 0 /\ IsFiniteSet({}) /\ ToSet(<< >>) = {} /\ << >> \in Seq(Jobs)
  BY FS_EmptySet DEF ToSet
<1>3. /\ Unsubmitted \in JobRecord /\ Unsubmitted.cores = {}
      /\ Unsubmitted.run_count = 0 /\ Unsubmitted.interrupt_count = 0
      /\ Unsubmitted.submit_count = [c \in Cores |-> 0]
      /\ ~Unsubmitted.committed /\ ~Unsubmitted.done /\ Unsubmitted.irq_entry = {}
      /\ Unsubmitted.batches = 1 /\ ~Unsubmitted.nonblock
  BY CoresNumbered, DomainAssumption DEF Unsubmitted, JobRecord
<1>4. TypeInv
  <2>1. /\ job \in [Jobs -> JobRecord] /\ left \in [Jobs -> SUBSET Cores]
        /\ todo_list \in [Cores -> Seq(Jobs)] /\ task_num \in [Cores -> Int]
        /\ irq \in [Cores -> {"none", "valid", "invalid"}]
    BY <1>2, <1>3 DEF Init
  <2> QED BY <1>1, <2>1, DomainAssumption DEF TypeInv
<1>5. TypeOK
  <2>1. /\ at \in [Procs -> {"idle"}] /\ held \in [Procs -> {NoJob}]
        /\ running \in [Cores -> {NoJob}] /\ engine \in [Cores -> {NoJob}]
    BY DEF Init
  <2>2. 0 \in 0 .. Cardinality(Cores)
    BY CoresNumbered
  <2> QED BY <1>1, <1>3, <2>1, <2>2 DEF TypeOK
<1>6. PlaceInv
  BY <1>1, Apart DEF PlaceInv, Places, IrqPlaces
<1>7. ASSUME NEW k \in Jobs PROVE JobInv(k)
  <2>1. \A c \in Cores : \A p \in Procs : ~Taking(p, c, k)
    BY <1>1 DEF Taking
  <2>2. \A c \in Cores : /\ k \notin ToSet(todo_list[c]) /\ running[c] # k
                         /\ held[c] # k /\ engine[c] # k
    BY <1>1, <1>2, Apart
  <2>3. Pending(k) = {} /\ Remaining(k) = {}
    BY <2>1, <2>2 DEF Pending, Remaining
  <2>4. \A p \in Procs : held[p] # k
    BY <1>1, Apart
  <2>5. at[k] = "idle" /\ job[k] = Unsubmitted
    BY <1>1, Apart
  <2>6. UnqueuedInv(k)
    BY <1>1, <1>2, <1>3, <2>2, <2>3, <2>4, <2>5 DEF UnqueuedInv
  <2>7. OnceInv(k)
    BY <2>1, <2>2, <2>3 DEF OnceInv
  <2>8. CountInv(k)
    BY <1>2, <1>3, <2>3, <2>5 DEF CountInv
  <2>9. FateInv(k) /\ LeavingInv(k)
    BY <1>1, <2>5 DEF FateInv, LeavingInv
  <2> QED BY <2>6, <2>7, <2>8, <2>9 DEF JobInv
<1>8. ConsistentOrder
  <2>1. \A c \in Cores : DOMAIN Line(c) = {}
    BY <1>1 DEF Line
  <2> QED BY <2>1 DEF ConsistentOrder, Before
<1>9. EngineInv
  <2>1. ASSUME NEW k \in Jobs PROVE job[k].interrupt_count >= Cardinality(Due(k))
    <3>1. Due(k) = {} /\ job[k].interrupt_count = 0
      BY <1>1, <1>3 DEF Due
    <3> QED BY <1>2, <3>1
  <2> QED BY <1>1, <2>1, Apart DEF EngineInv
<1>10. DomainInv
  <2>1. Holders = {}
    BY <1>1, Apart DEF Holders
  <2> QED BY <1>1, <1>2, <2>1 DEF DomainInv
<1> QED BY <1>4, <1>5, <1>6, <1>7, <1>8, <1>9, <1>10 DEF IInv, JobInv

LEMMA NextCorrect ==
  ASSUME IInv, Next
  PROVE  IInv'
<1>1. ASSUME NEW j \in Jobs, Submitter(j) PROVE IInv'
  <2>1. j \in Procs
    BY Apart
  <2>2. CASE CleanSkip(j)
    BY <2>2, CleanSkipStep
  <2>3. CASE CleanFlush(j)
    BY <2>3, CleanFlushStep
  <2>4. CASE ScheduleDomain(j)
    BY <2>4, ScheduleDomainStep
  <2>5. CASE ScheduleFails(j)
    BY <2>5, ScheduleFailsStep
  <2>6. CASE Enqueue(j)
    BY <2>6, EnqueueStep
  <2>7. CASE NextNothing(j)
    BY <2>1, <2>7, NextNothingStep
  <2>8. CASE NextTake(j)
    BY <2>1, <2>8, NextTakeStep
  <2>9. CASE Commit(j)
    BY <2>1, <2>9, CommitStep
  <2>10. CASE WaitWoken(j)
    BY <2>10, WaitWokenStep
  <2>11. CASE AbortPut(j)
    BY <2>11, AbortPutStep
  <2>12. CASE AbortClear(j)
    BY <2>12, AbortClearStep
  <2>13. CASE Free(j)
    BY <2>13, FreeStep
  <2>14. CASE ResetSkip(j)
    BY <2>14, ResetSkipStep
  <2>15. CASE ResetBegin(j)
    BY <2>15, ResetBeginStep
  <2>16. CASE ResetEnd(j)
    BY <2>16, ResetEndStep
  <2> QED BY <1>1, <2>2, <2>3, <2>4, <2>5, <2>6, <2>7, <2>8, <2>9, <2>10, <2>11,
             <2>12, <2>13, <2>14, <2>15, <2>16 DEF Submitter
<1>2. ASSUME NEW c \in Cores, Handler(c) PROVE IInv'
  <2>1. c \in Procs
    BY Apart
  <2>2. held[c] # NoJob => held[c] \in Jobs
    BY <2>1, InvParts DEF TypeOK
  <2>3. at[c] \in {"status", "done"} => held[c] \in Jobs
    BY <2>2, InvParts DEF PlaceInv
  <2>4. CASE IrqEnter(c)
    BY <2>4, IrqEnterStep
  <2>5. CASE IrqInvalid(c)
    BY <2>5, IrqInvalidStep
  <2>6. CASE IrqNextBatch(c)
    BY <2>3, <2>6, IrqNextBatchStep DEF IrqNextBatch
  <2>7. CASE IrqLastBatch(c)
    BY <2>3, <2>7, IrqLastBatchStep DEF IrqLastBatch
  <2>8. CASE JobDone(c)
    <3>1. PICK j \in Jobs : j = held[c]
      BY <2>3, <2>8 DEF JobDone
    <3>2. PICK last \in BOOLEAN : last <=> job[j].interrupt_count = 1
      OBVIOUS
    <3> QED BY <2>8, <3>1, <3>2, JobDoneStep
  <2>9. CASE NextNothing(c)
    BY <2>1, <2>9, NextNothingStep
  <2>10. CASE NextTake(c)
    BY <2>1, <2>10, NextTakeStep
  <2>11. CASE Commit(c)
    BY <2>1, <2>11, CommitStep
  <2> QED BY <1>2, <2>4, <2>5, <2>6, <2>7, <2>8, <2>9, <2>10, <2>11 DEF Handler
<1>3. ASSUME NEW j \in Jobs,
             Submit(j) \/ CleanOverdue(j) \/ WaitTimesOut(j) \/ CleanupWork(j)
      PROVE  IInv'
  BY <1>3, SubmitStep, CleanOverdueStep, WaitTimesOutStep, CleanupWorkStep
<1>4. ASSUME NEW c \in Cores, EngineFinishes(c) PROVE IInv'
  BY <1>4, EngineFinishesStep
<1> QED BY <1>1, <1>2, <1>3, <1>4 DEF Next

LEMMA StutterCorrect ==
  ASSUME IInv, UNCHANGED vars
  PROVE  IInv'
<1>k. /\ TypeOK /\ TypeInv /\ PlaceInv /\ (\A k \in Jobs : JobInv(k))
      /\ ConsistentOrder /\ EngineInv /\ DomainInv
  BY InvParts
<1>1. /\ at' = at /\ job' = job /\ held' = held /\ left' = left /\ running' = running
      /\ todo_list' = todo_list /\ task_num' = task_num
      /\ engine' = engine /\ irq' = irq /\ work' = work /\ freed' = freed
      /\ mishaps' = mishaps
      /\ UNCHANGED domainVars
      /\ iommu_domain_id' = iommu_domain_id /\ attached' = attached
      /\ iommu_domain_refcount' = iommu_domain_refcount
  BY DEF vars, coreVars, hwVars, resetVars, endVars, domainVars
<1>2. Grown
  BY <1>1 DEF Grown
<1>3. TypeOK' /\ TypeInv' /\ PlaceInv'
  <2>1. TypeOK'
    BY <1>k, <1>1 DEF TypeOK
  <2>2. TypeInv'
    BY <1>k, <1>1 DEF TypeInv
  <2>3. PlaceInv'
    BY <1>k, <1>1 DEF PlaceInv
  <2> QED BY <2>1, <2>2, <2>3
<1>4. \A k \in Jobs : Fewer(k) /\ Idler(k) /\ Steady(k) /\ Unheld(k)
  <2>1. \A q \in Procs : CoreOf(q)' = CoreOf(q)
    BY <1>1 DEF CoreOf
  <2>2. \A k \in Jobs : \A d \in Cores : \A q \in Procs : Taking(q, d, k)' => Taking(q, d, k)
    BY <1>1, <2>1 DEF Taking
  <2> QED BY <1>1, <2>2 DEF Fewer, Idler, Steady, Unheld
<1>5. \A k \in Jobs : JobInv(k)' /\ (k \in Holders' <=> k \in Holders)
  <2>1. \A k \in Jobs : Still(k)
    BY <1>1 DEF Still
  <2> QED BY <1>k, <1>2, <1>4, <2>1, OtherKept, HolderKept
<1>6. ConsistentOrder'
  BY <1>k, <1>1, <1>3, OrderKept, WithinItself
<1>7. EngineInv'
  <2>1. \A c \in Cores : at'[c] = "done" => held'[c] \in Jobs
    BY <1>k, <1>1, Apart DEF PlaceInv, TypeOK
  <2>2. \A k \in Jobs : Remaining(k)' \subseteq Remaining(k)
    BY <1>4, FewerPlaces
  <2> QED BY <1>k, <1>1, <1>2, <1>4, <2>1, <2>2, EngineKept
<1>8. DomainInv'
  BY <1>k, <1>1, <1>2, <1>5, DomainKept
<1> QED BY <1>3, <1>5, <1>6, <1>7, <1>8, InvByJobs

(***************************************************************************)
(* What follows from the invariant.                                        *)
(***************************************************************************)

\* A job that is done has no core that has not told its end.
LEMMA NoneDue ==
  ASSUME IInv, Clean({"overlap", "overdue"}), NEW j \in Jobs, job[j].done
  PROVE  Due(j) = {}
<1>1. CountInv(j) /\ EngineInv
  BY InvParts DEF JobInv
<1>2. job[j].interrupt_count = 0 /\ job[j].interrupt_count >= Cardinality(Due(j))
  BY <1>1 DEF CountInv, EngineInv
<1>3. Due(j) \in SUBSET Cores
  <2>1. job[j].cores \subseteq Cores
    BY InvParts DEF TypeInv, JobRecord
  <2> QED BY <2>1 DEF Due
<1>4. IsFiniteSet(Due(j)) /\ Cardinality(Due(j)) \in Nat
  BY <1>3, CoreSets, CoresNumbered
<1>5. Cardinality(Due(j)) = 0
  BY <1>2, <1>4
<1> QED BY <1>4, <1>5, FS_EmptySet

\* The job a core executes has that core due.
LEMMA ExecutedIsDue ==
  ASSUME IInv, NEW j \in Jobs, NEW c \in Cores, engine[c] = j
  PROVE  c \in Due(j)
<1>1. OnceInv(j)
  BY InvParts DEF JobInv
<1> QED BY <1>1 DEF OnceInv, Due

LEMMA DoneMeansAll ==
  ASSUME IInv
  PROVE  DoneMeansExecuted
<1> SUFFICES ASSUME Clean({"overlap", "overdue"}), NEW j \in Jobs, job[j].done,
                    NEW c \in job[j].cores
             PROVE  job[j].submit_count[c] = job[j].batches /\ engine[c] # j
  BY DEF DoneMeansExecuted
<1>1. Due(j) = {}
  BY NoneDue
<1> QED BY <1>1 DEF Due

LEMMA ExecutedHolds ==
  ASSUME IInv, Clean({"overlap", "switch", "overdue"}), NEW j \in Jobs, NEW c \in Cores,
         engine[c] = j, ~GivenUp(j)
  PROVE  j \in Holders
<1>1. ~job[j].done
  BY NoneDue, ExecutedIsDue DEF Clean
<1>2. Clean({"switch"}) /\ Clean({"switch", "overdue"}) /\ Clean({"overdue"})
  BY DEF Clean
<1>3. TypeOK /\ UnqueuedInv(j) /\ FateInv(j) /\ at[j] \in Places
  BY InvParts DEF JobInv, PlaceInv
<1>4. ~Unqueued(j)
  BY <1>3 DEF UnqueuedInv
<1>5. j \notin freed
  BY <1>1, <1>2, <1>3 DEF FateInv, GivenUp
<1>6. CASE ~job[j].nonblock
  BY <1>1, <1>3, <1>4, <1>5, <1>6 DEF Holders, GivenUp, Unqueued, Places
<1>7. CASE job[j].nonblock
  <2>1. /\ at[j] \notin {"abort", "sleep", "free"}
        /\ at[j] \in {"reset", "resetting"} => held[j] # NoJob
    BY <1>2, <1>3, <1>7 DEF FateInv
  <2> QED BY <1>1, <1>3, <1>4, <1>5, <1>7, <2>1 DEF Holders, Unqueued, Places
<1> QED BY <1>6, <1>7

LEMMA InDomain ==
  ASSUME IInv
  PROVE  RunsInItsDomain
<1> SUFFICES ASSUME Clean({"late", "overlap", "switch", "overdue"}), NEW c \in Cores,
                    engine[c] # NoJob, ~GivenUp(engine[c])
             PROVE  attached = job[engine[c]].domain
  BY DEF RunsInItsDomain
<1>1. engine[c] \in Jobs
  BY InvParts DEF TypeOK
<1>2. engine[c] \in Holders
  BY <1>1, ExecutedHolds DEF Clean
<1>3. Clean({"late", "switch", "overdue"}) /\ DomainInv
  BY InvParts DEF Clean
<1> QED BY <1>2, <1>3 DEF DomainInv

\* What a core has before it is its running job and the jobs of its queue.
LEMMA LineMembers ==
  ASSUME TypeOK, TypeInv, NEW c \in Cores, NEW j \in Jobs, j \in ToSet(Line(c))
  PROVE  running[c] = j \/ j \in ToSet(todo_list[c])
<1>1. todo_list[c] \in Seq(Jobs) /\ running[c] \in Jobs \cup {NoJob}
  BY DEF TypeOK, TypeInv
<1>2. CASE running[c] = NoJob
  BY <1>2 DEF Line
<1>3. CASE running[c] # NoJob
  <2>1. Line(c) = <<running[c]>> \o todo_list[c] /\ running[c] \in Jobs
    BY <1>1, <1>3 DEF Line
  <2>2. PICK n \in DOMAIN Line(c) : Line(c)[n] = j
    BY DEF ToSet
  <2>3. n = 1 \/ (n - 1 \in DOMAIN todo_list[c] /\ Line(c)[n] = todo_list[c][n - 1])
    BY <1>1, <2>1, <2>2, LineElements
  <2>4. (<<running[c]>> \o todo_list[c])[1] = running[c]
    BY <1>1, <2>1, LineElements
  <2> QED BY <2>1, <2>2, <2>3, <2>4 DEF ToSet
<1> QED BY <1>2, <1>3

LEMMA FreedLeft ==
  ASSUME IInv
  PROVE  FreedJobsGone
<1> SUFFICES ASSUME Clean({"missed", "kept", "overdue"}), NEW j \in freed, NEW c \in Cores
             PROVE  j \notin ToSet(Line(c)) /\ held[c] # j
  BY DEF FreedJobsGone
<1>1. TypeOK /\ TypeInv /\ j \in Jobs
  BY InvParts DEF TypeOK
<1>2. Remaining(j) = {}
  BY <1>1, InvParts DEF JobInv, LeavingInv
<1>3. j \notin ToSet(todo_list[c]) /\ running[c] # j /\ held[c] # j
  BY <1>2 DEF Remaining
<1> QED BY <1>1, <1>3, LineMembers

(***************************************************************************)
(* The theorems.                                                           *)
(***************************************************************************)

\* Each job goes through each of its cores once, the references to the domain
\* are counted, and what the cores execute is what they were given: the places
\* of a job in queues, on cores and in interrupt handlers always agree with its
\* counters, with whoever waits for it and with who frees it.
THEOREM Invariant == Spec => []IInv
<1>1. Init => IInv
  BY InitCorrect
<1>2. IInv /\ [Next]_vars => IInv'
  BY NextCorrect, StutterCorrect
<1> QED BY <1>1, <1>2, PTL DEF Spec

\* The variables keep their types: in particular no core of a job is started or
\* completed more often than it was counted, also when interrupts come late.
THEOREM TypeCorrect == Spec => []TypeOK
<1>1. IInv => TypeOK
  BY DEF IInv
<1> QED BY <1>1, Invariant, PTL

\* Jobs that share cores are never before each other in a circle, whatever
\* times out, fails or is reset.
THEOREM OrderCorrect == Spec => []ConsistentOrder
<1>1. IInv => ConsistentOrder
  BY DEF IInv
<1> QED BY <1>1, Invariant, PTL

\* The domain is referred to once by each job that is queued, started or being
\* aborted and not done.
THEOREM ReferencesMatched == Spec => []RefcountExact
<1>1. IInv => RefcountExact
  BY DEF IInv, DomainInv, RefcountExact
<1> QED BY <1>1, Invariant, PTL

\* While the hardware executes a job nobody has given up, the device is attached
\* to the domain of that job.
THEOREM DomainCorrect == Spec => []RunsInItsDomain
<1>1. IInv => RunsInItsDomain
  BY InDomain
<1> QED BY <1>1, Invariant, PTL

\* A freed job is in no queue, on no core and in no interrupt handler.
THEOREM FreedGone == Spec => []FreedJobsGone
<1>1. IInv => FreedJobsGone
  BY FreedLeft
<1> QED BY <1>1, Invariant, PTL

\* A job is done only when each of its cores has executed all its submissions.
THEOREM DoneCorrect == Spec => []DoneMeansExecuted
<1>1. IInv => DoneMeansExecuted
  BY DoneMeansAll
<1> QED BY <1>1, Invariant, PTL

-----------------------------------------------------------------------------
(***************************************************************************)
(* The load of a queue.                                                    *)
(***************************************************************************)

\* Induction, for the numbers with a property as a set.
LEMMA AllNumbers ==
  ASSUME NEW S \in SUBSET Nat, 0 \in S, \A n \in S : n + 1 \in S
  PROVE  S = Nat
<1> DEFINE R == {ss \in Nat \X Nat : ss[1] < ss[2]}
           T == Nat \ S
<1>1. SUFFICES ASSUME T # {} PROVE FALSE
  OBVIOUS
<1>2. IsWellFoundedOn(R, Nat)
  BY NatLessThanWellFounded DEF OpToRel
<1>3. PICK m \in T : \A n \in T : <<n, m>> \notin R
  <2> HIDE DEF R
  <2> QED BY <1>1, <1>2, WFMin
<1>4. m - 1 \in Nat /\ m = (m - 1) + 1
  OBVIOUS
<1>5. <<m - 1, m>> \in R
  BY <1>4
<1>6. m - 1 \in S
  <2> HIDE DEF R
  <2> QED BY <1>3, <1>4, <1>5
<1> QED BY <1>4, <1>6

\* Sums that grow alike differ by what they start with.
LEMMA GrowAlike ==
  ASSUME NEW m \in Nat, NEW d \in Int,
         NEW f \in [0 .. m -> Int], NEW g \in [0 .. m -> Int],
         g[0] = f[0] + d, \A n \in 1 .. m : g[n] - g[n - 1] = f[n] - f[n - 1]
  PROVE  \A n \in 0 .. m : g[n] = f[n] + d
<1> DEFINE S == {k \in Nat : k <= m => g[k] = f[k] + d}
<1>1. 0 \in S
  OBVIOUS
<1>2. ASSUME NEW k \in S PROVE k + 1 \in S
  <2>1. SUFFICES ASSUME k + 1 <= m PROVE g[k + 1] = f[k + 1] + d
    OBVIOUS
  <2>2. /\ k \in 0 .. m /\ k + 1 \in 0 .. m /\ k + 1 \in 1 .. m /\ (k + 1) - 1 = k
        /\ g[k] = f[k] + d
    BY <2>1
  <2>3. g[k] \in Int /\ f[k] \in Int /\ g[k + 1] \in Int /\ f[k + 1] \in Int
    BY <2>2
  <2>4. g[k + 1] - g[k] = f[k + 1] - f[k]
    BY <2>2
  <2> QED BY <2>2, <2>3, <2>4
<1>3. S = Nat
  <2>1. S \in SUBSET Nat
    OBVIOUS
  <2> HIDE DEF S
  <2> QED BY <1>1, <1>2, <2>1, AllNumbers
<1>4. ASSUME NEW n \in 0 .. m PROVE g[n] = f[n] + d
  <2>1. n \in S
    <3> HIDE DEF S
    <3> QED BY <1>3
  <2> QED BY <2>1
<1> QED BY <1>4

\* The sums of the first jobs of a queue.
Sums(w, q, f) ==
  /\ f \in [0 .. Len(q) -> Int]
  /\ \A n \in 0 .. Len(q) : f[n] = IF n = 0 THEN 0 ELSE f[n - 1] + w[q[n]]

LEMMA SumsExist ==
  ASSUME NEW w \in [Jobs -> Int], NEW q \in Seq(Jobs)
  PROVE  \E f : Sums(w, q, f)
<1> DEFINE Solves(f, k) == \A n \in 0 .. k : f[n] = IF n = 0 THEN 0 ELSE f[n - 1] + w[q[n]]
           S == {k \in Nat : k <= Len(q) => \E f \in [0 .. k -> Int] : Solves(f, k)}
<1>0. Len(q) \in Nat /\ \A n \in 1 .. Len(q) : w[q[n]] \in Int
  OBVIOUS
<1>1. 0 \in S
  <2> DEFINE f == [n \in 0 .. 0 |-> 0]
  <2>1. f \in [0 .. 0 -> Int]
    OBVIOUS
  <2>2. \A n \in 0 .. 0 : n = 0 /\ f[n] = 0
    OBVIOUS
  <2>3. Solves(f, 0)
    <3> HIDE DEF f
    <3> QED BY <2>2
  <2> HIDE DEF f, Solves
  <2> QED BY <2>1, <2>3
<1>2. ASSUME NEW k \in S PROVE k + 1 \in S
  <2>1. SUFFICES ASSUME k + 1 <= Len(q)
                 PROVE  \E f \in [0 .. k + 1 -> Int] : Solves(f, k + 1)
    <3> HIDE DEF Solves
    <3> QED OBVIOUS
  <2>2. PICK f \in [0 .. k -> Int] : Solves(f, k)
    BY <1>0, <2>1
  <2> DEFINE g == [n \in 0 .. k + 1 |-> IF n = k + 1 THEN f[k] + w[q[k + 1]] ELSE f[n]]
  <2>3. k \in Nat /\ f[k] \in Int /\ w[q[k + 1]] \in Int
    BY <1>0, <2>1
  <2>4. g \in [0 .. k + 1 -> Int]
    BY <2>3
  <2>5. ASSUME NEW n \in 0 .. k + 1
        PROVE  g[n] = IF n = 0 THEN 0 ELSE g[n - 1] + w[q[n]]
    <3>1. CASE n = k + 1
      <4>1. n # 0 /\ n - 1 \in 0 .. k + 1 /\ n - 1 # k + 1 /\ n - 1 = k
        BY <2>3, <3>1
      <4> QED BY <3>1, <4>1
    <3>2. CASE n # k + 1
      <4>1. n \in 0 .. k /\ (n # 0 => n - 1 \in 0 .. k + 1 /\ n - 1 # k + 1)
        BY <2>3, <3>2
      <4>2. f[n] = IF n = 0 THEN 0 ELSE f[n - 1] + w[q[n]]
        BY <2>2, <4>1
      <4> QED BY <3>2, <4>1, <4>2
    <3> QED BY <3>1, <3>2
  <2>6. Solves(g, k + 1)
    BY <2>5
  <2> HIDE DEF g, Solves
  <2> QED BY <2>4, <2>6
<1>3. S = Nat
  <2>1. S \in SUBSET Nat
    OBVIOUS
  <2> HIDE DEF S
  <2> QED BY <1>1, <1>2, <2>1, AllNumbers
<1>4. Len(q) \in S
  <2> HIDE DEF S
  <2> QED BY <1>0, <1>3
<1>5. \E f \in [0 .. Len(q) -> Int] : Solves(f, Len(q))
  <2> HIDE DEF Solves
  <2> QED BY <1>0, <1>4
<1> QED BY <1>5 DEF Sums

\* The load of a queue is the last of its sums.
LEMMA LoadIs ==
  ASSUME NEW w \in [Jobs -> Int], NEW q \in Seq(Jobs), NEW f, Sums(w, q, f)
  PROVE  Load(w, q) = f[Len(q)] /\ Load(w, q) \in Int
<1> DEFINE Solution(h) == h = [n \in 0 .. Len(q) |-> IF n = 0 THEN 0 ELSE h[n - 1] + w[q[n]]]
           load == CHOOSE h : Solution(h)
<1>0. Len(q) \in Nat
  OBVIOUS
<1>1. Load(w, q) = load[Len(q)]
  BY DEF Load
<1>2. ASSUME NEW h, Solution(h) PROVE h = f
  <2>1. /\ DOMAIN h = 0 .. Len(q)
        /\ \A n \in 0 .. Len(q) : h[n] = IF n = 0 THEN 0 ELSE h[n - 1] + w[q[n]]
    BY <1>2
  <2> DEFINE S == {k \in Nat : k <= Len(q) => h[k] = f[k]}
  <2>2. 0 \in S
    BY <1>0, <2>1 DEF Sums
  <2>3. ASSUME NEW k \in S PROVE k + 1 \in S
    <3>1. SUFFICES ASSUME k + 1 <= Len(q) PROVE h[k + 1] = f[k + 1]
      OBVIOUS
    <3>2. k + 1 \in 0 .. Len(q) /\ k + 1 # 0 /\ (k + 1) - 1 = k /\ h[k] = f[k]
      BY <1>0, <3>1
    <3> HIDE DEF S, Solution
    <3>3. f[k + 1] = f[(k + 1) - 1] + w[q[k + 1]]
      BY <3>1, <3>2 DEF Sums
    <3>4. h[k + 1] = h[(k + 1) - 1] + w[q[k + 1]]
      BY <2>1, <3>2
    <3> QED BY <3>2, <3>3, <3>4
  <2>4. S = Nat
    <3>1. S \in SUBSET Nat
      OBVIOUS
    <3> HIDE DEF S
    <3> QED BY <2>2, <2>3, <3>1, AllNumbers
  <2>5. \A n \in 0 .. Len(q) : h[n] = f[n]
    BY <2>4
  <2>6. h = [n \in DOMAIN h |-> h[n]]
    BY <1>2
  <2> QED BY <2>1, <2>5, <2>6 DEF Sums
<1>3. Solution(f)
  <2>1. f = [n \in 0 .. Len(q) |-> f[n]]
    BY DEF Sums
  <2> QED BY <2>1 DEF Sums
<1>4. load = f
  <2> HIDE DEF Solution
  <2> QED BY <1>2, <1>3
<1> HIDE DEF load
<1> QED BY <1>0, <1>1, <1>4 DEF Sums

LEMMA LoadType ==
  ASSUME NEW w \in [Jobs -> Int], NEW q \in Seq(Jobs)
  PROVE  Load(w, q) \in Int
  BY SumsExist, LoadIs

\* A queue that gets a job gets its work.
LEMMA LoadAppend ==
  ASSUME NEW w \in [Jobs -> Int], NEW q \in Seq(Jobs), NEW j \in Jobs
  PROVE  Load(w, Append(q, j)) = Load(w, q) + w[j]
<1> DEFINE t == Append(q, j)
<1>1. /\ t \in Seq(Jobs) /\ Len(q) \in Nat /\ Len(t) = Len(q) + 1
      /\ t[Len(q) + 1] = j /\ \A n \in 1 .. Len(q) : t[n] = q[n]
  BY AppendProperties
<1> HIDE DEF t
<1>2. PICK f : Sums(w, q, f)
  BY SumsExist
<1>3. PICK g : Sums(w, t, g)
  BY <1>1, SumsExist
<1>4. \A n \in 0 .. Len(q) : g[n] = f[n] + 0
  <2> DEFINE h == [n \in 0 .. Len(q) |-> g[n]]
  <2>1. \A n \in 0 .. Len(q) : n \in 0 .. Len(t)
    BY <1>1
  <2>2. h \in [0 .. Len(q) -> Int] /\ f \in [0 .. Len(q) -> Int]
    BY <1>2, <1>3, <2>1 DEF Sums
  <2>3. \A n \in 0 .. Len(q) : h[n] = g[n]
    OBVIOUS
  <2>4. ASSUME NEW n \in 1 .. Len(q) PROVE h[n] - h[n - 1] = f[n] - f[n - 1]
    <3>1. n \in 0 .. Len(q) /\ n - 1 \in 0 .. Len(q) /\ n # 0 /\ n \in 0 .. Len(t)
      BY <1>1
    <3>2. f[n] = f[n - 1] + w[q[n]] /\ g[n] = g[n - 1] + w[t[n]]
      BY <1>2, <1>3, <3>1 DEF Sums
    <3>3. t[n] = q[n] /\ w[q[n]] \in Int
      BY <1>1
    <3>4. f[n - 1] \in Int /\ h[n - 1] \in Int
      BY <2>2, <3>1
    <3> QED BY <2>3, <3>1, <3>2, <3>3, <3>4
  <2>5. h[0] = f[0] + 0 /\ 0 \in Int
    <3>1. 0 \in 0 .. Len(q) /\ 0 \in 0 .. Len(t)
      BY <1>1
    <3>2. f[0] = 0 /\ g[0] = 0
      BY <1>2, <1>3, <3>1 DEF Sums
    <3> QED BY <2>3, <3>1, <3>2
  <2> HIDE DEF h
  <2>6. \A n \in 0 .. Len(q) : h[n] = f[n] + 0
    BY <1>1, <2>2, <2>4, <2>5, GrowAlike
  <2> QED BY <2>3, <2>6
<1>5. f[Len(q)] \in Int /\ w[j] \in Int /\ g[Len(q)] = f[Len(q)]
  <2>1. Len(q) \in 0 .. Len(q)
    BY <1>1
  <2>2. f[Len(q)] \in Int /\ w[j] \in Int
    BY <1>2, <2>1 DEF Sums
  <2> QED BY <1>4, <2>1, <2>2
<1>6. g[Len(q) + 1] = g[Len(q)] + w[j]
  <2>1. Len(q) + 1 \in 0 .. Len(t) /\ Len(q) + 1 # 0 /\ (Len(q) + 1) - 1 = Len(q)
    BY <1>1
  <2>2. g[Len(q) + 1] = g[(Len(q) + 1) - 1] + w[t[Len(q) + 1]]
    BY <1>3, <2>1 DEF Sums
  <2> QED BY <1>1, <2>1, <2>2
<1>7. Load(w, q) = f[Len(q)] /\ Load(w, t) = g[Len(t)]
  BY <1>1, <1>2, <1>3, LoadIs
<1> QED BY <1>1, <1>5, <1>6, <1>7 DEF t

\* The job in front of a queue adds its work.
LEMMA LoadFront ==
  ASSUME NEW w \in [Jobs -> Int], NEW q \in Seq(Jobs), NEW r \in Jobs
  PROVE  Load(w, <<r>> \o q) = w[r] + Load(w, q)
<1> DEFINE t == <<r>> \o q
<1>1. /\ t \in Seq(Jobs) /\ Len(q) \in Nat /\ Len(t) = Len(q) + 1
      /\ t[1] = r /\ \A n \in 1 .. Len(q) : t[n + 1] = q[n]
  <2>1. /\ t \in Seq(Jobs) /\ DOMAIN t = 1 .. Len(q) + 1 /\ DOMAIN q = 1 .. Len(q)
        /\ Len(q) \in Nat /\ t[1] = r /\ \A n \in DOMAIN q : t[n + 1] = q[n]
    BY LineElements
  <2>2. Len(t) = Len(q) + 1
    <3>1. Len(t) \in Nat /\ DOMAIN t = 1 .. Len(t)
      BY <2>1
    <3> HIDE DEF t
    <3> QED BY <2>1, <3>1
  <2> QED BY <2>1, <2>2
<1> HIDE DEF t
<1>2. PICK f : Sums(w, q, f)
  BY SumsExist
<1>3. PICK g : Sums(w, t, g)
  BY <1>1, SumsExist
<1>4. \A n \in 0 .. Len(q) : g[n + 1] = f[n] + w[r]
  <2> DEFINE h == [n \in 0 .. Len(q) |-> g[n + 1]]
  <2>1. \A n \in 0 .. Len(q) : n + 1 \in 0 .. Len(t)
    BY <1>1
  <2>2. h \in [0 .. Len(q) -> Int] /\ f \in [0 .. Len(q) -> Int]
    BY <1>2, <1>3, <2>1 DEF Sums
  <2>3. \A n \in 0 .. Len(q) : h[n] = g[n + 1]
    OBVIOUS
  <2>4. ASSUME NEW n \in 1 .. Len(q) PROVE h[n] - h[n - 1] = f[n] - f[n - 1]
    <3>1. /\ n \in 0 .. Len(q) /\ n - 1 \in 0 .. Len(q) /\ n # 0
          /\ n + 1 \in 0 .. Len(t) /\ n + 1 # 0 /\ (n + 1) - 1 = n /\ (n - 1) + 1 = n
      <4>1. n \in Int /\ 1 <= n /\ n <= Len(q)
        BY <1>1
      <4> QED BY <1>1, <4>1
    <3>2. f[n] = f[n - 1] + w[q[n]] /\ g[n + 1] = g[(n + 1) - 1] + w[t[n + 1]]
      BY <1>2, <1>3, <3>1 DEF Sums
    <3>3. t[n + 1] = q[n] /\ w[q[n]] \in Int
      BY <1>1
    <3>4. f[n - 1] \in Int /\ h[n - 1] \in Int /\ h[n - 1] = g[n] /\ h[n] = g[n + 1]
      BY <2>2, <2>3, <3>1
    <3> QED BY <3>1, <3>2, <3>3, <3>4
  <2>5. h[0] = f[0] + w[r]
    <3>1. 0 \in 0 .. Len(q) /\ 0 \in 0 .. Len(t) /\ 1 \in 0 .. Len(t) /\ 0 + 1 = 1 /\ 1 - 1 = 0
      BY <1>1
    <3>2. f[0] = 0 /\ g[0] = 0 /\ g[1] = g[1 - 1] + w[t[1]]
      BY <1>2, <1>3, <3>1 DEF Sums
    <3>3. w[r] \in Int
      OBVIOUS
    <3> QED BY <1>1, <2>3, <3>1, <3>2, <3>3
  <2>6. w[r] \in Int
    OBVIOUS
  <2> HIDE DEF h
  <2>7. \A n \in 0 .. Len(q) : h[n] = f[n] + w[r]
    BY <1>1, <2>2, <2>4, <2>5, <2>6, GrowAlike
  <2> QED BY <2>3, <2>7
<1>5. f[Len(q)] \in Int /\ w[r] \in Int /\ Len(q) \in 0 .. Len(q)
  BY <1>1, <1>2 DEF Sums
<1>6. g[Len(t)] = f[Len(q)] + w[r]
  BY <1>1, <1>4, <1>5
<1>7. Load(w, q) = f[Len(q)] /\ Load(w, t) = g[Len(t)]
  BY <1>1, <1>2, <1>3, LoadIs
<1> QED BY <1>5, <1>6, <1>7 DEF t

\* Only the work of the jobs in the queue counts.
LEMMA LoadOfSame ==
  ASSUME NEW w \in [Jobs -> Int], NEW v \in [Jobs -> Int], NEW q \in Seq(Jobs),
         \A j \in ToSet(q) : v[j] = w[j]
  PROVE  Load(v, q) = Load(w, q)
<1>1. PICK f : Sums(w, q, f)
  BY SumsExist
<1>2. Sums(v, q, f)
  <2>1. \A n \in 1 .. Len(q) : q[n] \in ToSet(q)
    BY DEF ToSet
  <2>2. \A n \in 1 .. Len(q) : v[q[n]] = w[q[n]]
    BY <2>1
  <2>3. \A n \in 0 .. Len(q) : n = 0 \/ n \in 1 .. Len(q)
    OBVIOUS
  <2> QED BY <1>1, <2>2, <2>3 DEF Sums
<1> QED BY <1>1, <1>2, LoadIs

Batches == [j \in Jobs |-> job[j].batches]

LEMMA LineType ==
  ASSUME TypeOK, TypeInv
  PROVE  /\ Batches \in [Jobs -> Int]
         /\ \A c \in Cores : Line(c) \in Seq(Jobs) /\ Load(Batches, Line(c)) \in Int
<1>1. Batches \in [Jobs -> Int]
  BY DEF Batches, TypeInv, JobRecord
<1>2. ASSUME NEW c \in Cores PROVE Line(c) \in Seq(Jobs)
  <2>1. todo_list[c] \in Seq(Jobs) /\ running[c] \in Jobs \cup {NoJob}
    BY DEF TypeOK, TypeInv
  <2> QED BY <2>1, LineElements DEF Line
<1> QED BY <1>1, <1>2, LoadType

LEMMA LoadParts ==
  ASSUME LoadInv, Clean({"overdue"})
  PROVE  /\ Clean({"dropped", "overdue"}) =>
              \A c \in Cores : task_num[c] = Load(Batches, Line(c))
         /\ \A c \in Cores : at[c] = "status" => running[c] = held[c]
  BY DEF LoadInv, LoadExact, Batches

\* The queues and the cores stay as they are, and so do the jobs in them.
LEMMA LoadKept ==
  ASSUME IInv, TypeOK', TypeInv', LoadInv, Grown,
         running' = running, todo_list' = todo_list, task_num' = task_num,
         \A k \in Jobs : Unqueued(k) \/ job'[k].batches = job[k].batches,
         \A c \in Cores : at'[c] = "status" =>
           (at[c] = "status" /\ held'[c] = held[c]) \/ held'[c] = running[c]
  PROVE  LoadInv'
<1>1. TypeOK /\ TypeInv /\ \A k \in Jobs : JobInv(k)
  BY InvParts
<1>2. \A c \in Cores : Line(c)' = Line(c)
  BY DEF Line
<1>3. Batches \in [Jobs -> Int] /\ Batches' \in [Jobs -> Int]
  BY <1>1 DEF Batches, TypeInv, JobRecord
<1>4. \A c \in Cores : Line(c) \in Seq(Jobs)
  BY <1>1, LineType
<1>5. ASSUME NEW c \in Cores, NEW k \in ToSet(Line(c)) PROVE Batches'[k] = Batches[k]
  <2>1. k \in Jobs
    BY <1>4 DEF ToSet
  <2>2. running[c] = k \/ k \in ToSet(todo_list[c])
    BY <1>1, <2>1, LineMembers
  <2>3. ~Unqueued(k)
    BY <1>1, <2>1, <2>2 DEF JobInv, UnqueuedInv, Remaining
  <2> QED BY <2>1, <2>3 DEF Batches
<1>6. \A c \in Cores : Load(Batches', Line(c)') = Load(Batches, Line(c))
  BY <1>2, <1>3, <1>4, <1>5, LoadOfSame
<1>7. LoadExact'
  <2> SUFFICES ASSUME Clean({"dropped", "overdue"})', NEW c \in Cores
               PROVE  task_num'[c] = Load(Batches', Line(c)')
    BY DEF LoadExact, Batches
  <2>1. Clean({"dropped", "overdue"}) /\ Clean({"overdue"})
    BY CleanBefore DEF Clean
  <2> QED BY <1>6, <2>1, LoadParts
<1>8. ASSUME Clean({"overdue"})', NEW c \in Cores, at'[c] = "status"
      PROVE  running'[c] = held'[c]
  <2>1. Clean({"overdue"})
    BY <1>8, CleanBefore
  <2> QED BY <1>8, <2>1, LoadParts
<1> QED BY <1>7, <1>8 DEF LoadInv

\* Nothing that has gone wrong is forgotten.
LEMMA NextGrows ==
  ASSUME Next
  PROVE  Grown
<1>1. ASSUME NEW j \in Jobs,
             \/ Submit(j) \/ CleanSkip(j) \/ CleanOverdue(j) \/ CleanFlush(j)
             \/ ScheduleDomain(j) \/ ScheduleFails(j) \/ Enqueue(j)
      PROVE  Grown
  BY <1>1 DEF Submit, CleanSkip, CleanOverdue, CleanFlush, ScheduleDomain, ScheduleFails,
              Enqueue, Mishap, endVars, Grown
<1>2. ASSUME NEW p \in Procs, NextNothing(p) \/ NextTake(p) \/ Commit(p)
      PROVE  Grown
  BY <1>2 DEF NextNothing, NextTake, Commit, Noted, endVars, Grown
<1>3. ASSUME NEW j \in Jobs,
             \/ WaitWoken(j) \/ WaitTimesOut(j) \/ AbortPut(j) \/ AbortClear(j)
             \/ Free(j) \/ CleanupWork(j) \/ ResetSkip(j) \/ ResetBegin(j) \/ ResetEnd(j)
      PROVE  Grown
  BY <1>3 DEF WaitWoken, WaitTimesOut, AbortPut, AbortClear, Free, CleanupWork, ResetSkip,
              ResetBegin, ResetEnd, Mishap, Noted, endVars, Grown
<1>4. ASSUME NEW c \in Cores,
             \/ IrqEnter(c) \/ IrqInvalid(c) \/ IrqNextBatch(c) \/ IrqLastBatch(c)
             \/ JobDone(c) \/ EngineFinishes(c)
      PROVE  Grown
  BY <1>4 DEF IrqEnter, IrqInvalid, IrqNextBatch, IrqLastBatch, JobDone, EngineFinishes,
              Mishap, Noted, endVars, Grown
<1> QED BY <1>1, <1>2, <1>3, <1>4, Apart DEF Next, Submitter, Handler

\* The steps that leave the queues and the cores as they are.
LEMMA CallLoad ==
  ASSUME IInv, IInv', LoadInv, Grown, NEW j \in Jobs,
         \/ Submit(j) \/ CleanSkip(j) \/ CleanOverdue(j) \/ ScheduleDomain(j)
         \/ ScheduleFails(j) \/ AbortPut(j) \/ Free(j) \/ CleanupWork(j)
         \/ ResetSkip(j) \/ ResetBegin(j) \/ ResetEnd(j)
  PROVE  LoadInv'
<1>1. TypeOK /\ TypeInv /\ TypeOK' /\ TypeInv'
  BY DEF IInv
<1>2. running' = running /\ todo_list' = todo_list /\ task_num' = task_num
  BY DEF Submit, CleanSkip, CleanOverdue, ScheduleDomain, ScheduleFails, AbortPut, Free,
         CleanupWork, ResetSkip, ResetBegin, ResetEnd, coreVars
<1>3. \A k \in Jobs : Unqueued(k) \/ job'[k].batches = job[k].batches
  <2>1. CASE Submit(j)
    BY <1>1, <2>1 DEF Submit, Unqueued, TypeInv
  <2>2. CASE ScheduleDomain(j)
    BY <1>1, <2>2 DEF ScheduleDomain, Scheduling, Unqueued, TypeInv
  <2>3. CASE ScheduleFails(j)
    BY <1>1, <2>3 DEF ScheduleFails, Scheduling, Unqueued, TypeInv
  <2>4. CASE \/ CleanSkip(j) \/ CleanOverdue(j) \/ AbortPut(j) \/ Free(j) \/ CleanupWork(j)
             \/ ResetSkip(j) \/ ResetBegin(j) \/ ResetEnd(j)
    <3>1. job' = job
      BY <2>4 DEF CleanSkip, CleanOverdue, AbortPut, Free, CleanupWork, ResetSkip,
                  ResetBegin, ResetEnd
    <3> QED BY <3>1
  <2> QED BY <2>1, <2>2, <2>3, <2>4
<1>4. \A c \in Cores : at'[c] = at[c] /\ held'[c] = held[c]
  <2>1. /\ at' = at \/ \E place : at' = [at EXCEPT ![j] = place]
        /\ held' = held \/ \E k : held' = [held EXCEPT ![j] = k]
    BY DEF Submit, CleanSkip, CleanOverdue, ScheduleDomain, ScheduleFails, AbortPut, Free,
           CleanupWork, ResetSkip, ResetBegin, ResetEnd, Goto, AfterReset
  <2> QED BY <1>1, <2>1, Apart DEF TypeOK
<1> QED BY <1>1, <1>2, <1>3, <1>4, LoadKept

LEMMA PassLoad ==
  ASSUME IInv, IInv', LoadInv, Grown, NEW p \in Procs, NextNothing(p) \/ Commit(p)
  PROVE  LoadInv'
<1>1. TypeOK /\ TypeInv /\ PlaceInv /\ TypeOK' /\ TypeInv'
  BY DEF IInv
<1>2. /\ running' = running /\ todo_list' = todo_list /\ task_num' = task_num
      /\ AfterNext(p) /\ at[p] \in {"next", "commit"}
  BY DEF NextNothing, Commit, coreVars
<1>3. \A q \in Procs \ {p} : at'[q] = at[q]
  BY <1>1, <1>2, AfterNextFacts
<1>4. \A k \in Jobs : job'[k].batches = job[k].batches
  <2>1. CASE NextNothing(p)
    BY <2>1 DEF NextNothing
  <2>2. CASE Commit(p)
    <3> DEFINE j == held[p]
               x == [job EXCEPT ![j].run_count = @ - 1]
               last == job[j].run_count = 1
    <3>1. job' = [x EXCEPT ![j].committed = @ \/ last]
      BY <2>2 DEF Commit
    <3>2. DOMAIN x = Jobs /\ \A k \in Jobs : "committed" \in DOMAIN x[k] /\ x[k].batches = job[k].batches
      BY <1>1 DEF TypeInv, JobRecord
    <3>3. \A k \in Jobs : "batches" \in DOMAIN x[k]
      BY <1>1 DEF TypeInv, JobRecord
    <3> HIDE DEF x, last
    <3>4. \A k \in Jobs : job'[k].batches = x[k].batches
      BY <3>1, <3>2, <3>3
    <3> QED BY <3>2, <3>4
  <2> QED BY <2>1, <2>2
<1>5. /\ held' = held \/ held' = [held EXCEPT ![p] = NoJob]
      /\ p \in Cores => at'[p] = "idle"
  BY <1>1, <1>2, AfterNextFacts DEF NextNothing, Commit
<1>6. \A c \in Cores : at'[c] = "status" => at[c] = "status" /\ held'[c] = held[c]
  BY <1>1, <1>3, <1>5, Apart DEF TypeOK
<1> QED BY <1>1, <1>2, <1>4, <1>6, LoadKept

LEMMA HandlerLoad ==
  ASSUME IInv, IInv', LoadInv, Grown, NEW c \in Cores,
         \/ IrqEnter(c) \/ IrqInvalid(c) \/ IrqNextBatch(c) \/ JobDone(c) \/ EngineFinishes(c)
  PROVE  LoadInv'
<1>1. TypeOK /\ TypeInv /\ PlaceInv /\ TypeOK' /\ TypeInv'
  BY DEF IInv
<1>2. running' = running /\ todo_list' = todo_list /\ task_num' = task_num
  BY DEF IrqEnter, IrqInvalid, IrqNextBatch, JobDone, EngineFinishes, coreVars
<1>3. \A k \in Jobs : job'[k].batches = job[k].batches
  <2>1. CASE IrqEnter(c)
    <3>1. CASE running[c] = NoJob
      BY <2>1, <3>1 DEF IrqEnter
    <3>2. CASE running[c] # NoJob
      <4>1. job' = [job EXCEPT ![running[c]].irq_entry = @ \cup {c}]
        BY <2>1, <3>2 DEF IrqEnter
      <4> QED BY <1>1, <4>1 DEF TypeInv, JobRecord
    <3> QED BY <3>1, <3>2
  <2>2. CASE IrqInvalid(c) \/ EngineFinishes(c)
    BY <2>2 DEF IrqInvalid, EngineFinishes
  <2>3. CASE IrqNextBatch(c)
    BY <1>1, <2>3 DEF IrqNextBatch, TypeInv, JobRecord
  <2>4. CASE JobDone(c)
    <3> DEFINE j == held[c]
               x == [job EXCEPT ![j].interrupt_count = @ - 1]
               last == job[j].interrupt_count = 1
    <3>1. job' = [x EXCEPT ![j].done = last]
      BY <2>4 DEF JobDone
    <3>2. /\ DOMAIN x = Jobs
          /\ \A k \in Jobs : "done" \in DOMAIN x[k] /\ x[k].batches = job[k].batches
      BY <1>1 DEF TypeInv, JobRecord
    <3>3. \A k \in Jobs : "batches" \in DOMAIN x[k]
      BY <1>1 DEF TypeInv, JobRecord
    <3> HIDE DEF x, last
    <3>4. \A k \in Jobs : job'[k].batches = x[k].batches
      BY <3>1, <3>2, <3>3
    <3> QED BY <3>2, <3>4
  <2> QED BY <2>1, <2>2, <2>3, <2>4
<1>4. \A d \in Cores \ {c} : at'[d] = at[d] /\ held'[d] = held[d]
  <2>1. /\ at' = at \/ \E place : at' = [at EXCEPT ![c] = place]
        /\ held' = held \/ \E k : held' = [held EXCEPT ![c] = k]
    BY DEF IrqEnter, IrqInvalid, IrqNextBatch, JobDone, EngineFinishes, Goto
  <2> QED BY <1>1, <2>1, Apart DEF TypeOK
<1>5. at'[c] = "status" => (at[c] = "status" /\ held'[c] = held[c]) \/ held'[c] = running[c]
  BY <1>1, Apart DEF IrqEnter, IrqInvalid, IrqNextBatch, JobDone, EngineFinishes, Goto, TypeOK
<1>6. \A d \in Cores : at'[d] = "status" =>
        (at[d] = "status" /\ held'[d] = held[d]) \/ held'[d] = running[d]
  BY <1>4, <1>5
<1> QED BY <1>1, <1>2, <1>3, <1>6, LoadKept

LEMMA EnqueueLoad ==
  ASSUME IInv, IInv', LoadInv, Grown, NEW j \in Jobs, Enqueue(j)
  PROVE  LoadInv'
<1>1. TypeOK /\ TypeInv
  BY DEF IInv
<1>2. /\ at' = [at EXCEPT ![j] = "next"] /\ job' = job /\ held' = held /\ running' = running
      /\ todo_list' = [c \in Cores |->
           IF c \in job[j].cores THEN Append(todo_list[c], j) ELSE todo_list[c]]
      /\ task_num' = [c \in Cores |->
           task_num[c] + (IF c \in job[j].cores THEN job[j].batches ELSE 0)]
  BY DEF Enqueue, Goto
<1>3. Batches \in [Jobs -> Int] /\ Batches' = Batches /\ Batches[j] = job[j].batches
  BY <1>1, <1>2, LineType DEF Batches
<1>4. ASSUME NEW c \in Cores
      PROVE  Load(Batches, Line(c)') = Load(Batches, Line(c))
                                         + (IF c \in job[j].cores THEN job[j].batches ELSE 0)
  <2>1. todo_list[c] \in Seq(Jobs) /\ running[c] \in Jobs \cup {NoJob}
    BY <1>1 DEF TypeOK, TypeInv
  <2>2. Line(c) \in Seq(Jobs) /\ Load(Batches, Line(c)) \in Int
    BY <1>1, LineType
  <2>3. CASE c \in job[j].cores
    <3>1. Line(c)' = Append(Line(c), j)
      <4>1. todo_list'[c] = Append(todo_list[c], j) /\ running'[c] = running[c]
        BY <1>2, <2>3
      <4>2. CASE running[c] = NoJob
        BY <4>1, <4>2 DEF Line
      <4>3. CASE running[c] # NoJob
        <5>1. <<running[c]>> \o Append(todo_list[c], j) = Append(<<running[c]>> \o todo_list[c], j)
          BY <2>1, <4>3
        <5> QED BY <4>1, <4>3, <5>1 DEF Line
      <4> QED BY <4>2, <4>3
    <3> QED BY <1>3, <2>2, <2>3, <3>1, LoadAppend
  <2>4. CASE c \notin job[j].cores
    <3>1. Line(c)' = Line(c)
      BY <1>2, <2>4 DEF Line
    <3> QED BY <2>2, <2>4, <3>1
  <2> QED BY <2>3, <2>4
<1>5. LoadExact'
  <2> SUFFICES ASSUME Clean({"dropped", "overdue"})', NEW c \in Cores
               PROVE  task_num'[c] = Load(Batches', Line(c)')
    BY DEF LoadExact, Batches
  <2>1. Clean({"dropped", "overdue"}) /\ Clean({"overdue"})
    BY CleanBefore DEF Clean
  <2> QED BY <1>2, <1>3, <1>4, <2>1, LoadParts
<1>6. ASSUME Clean({"overdue"})', NEW c \in Cores, at'[c] = "status"
      PROVE  running'[c] = held'[c]
  <2>1. Clean({"overdue"})
    BY <1>6, CleanBefore
  <2> QED BY <1>1, <1>2, <1>6, <2>1, Apart, LoadParts DEF TypeOK
<1> QED BY <1>5, <1>6 DEF LoadInv

LEMMA TakeLoad ==
  ASSUME IInv, IInv', LoadInv, Grown, NEW p \in Procs, NextTake(p)
  PROVE  LoadInv'
<1>1. TypeOK /\ TypeInv /\ PlaceInv
  BY DEF IInv
<1>2. PICK c \in Cores : c = CoreOf(p)
  BY <1>1, CoreAtHand DEF NextTake
<1>3. PICK h : h = Head(todo_list[c])
  OBVIOUS
<1>4. /\ at[p] = "next" /\ running[c] = NoJob /\ todo_list[c] # << >>
      /\ running' = [running EXCEPT ![c] = h] /\ held' = [held EXCEPT ![p] = h]
      /\ todo_list' = [todo_list EXCEPT ![c] = Tail(todo_list[c])]
      /\ at' = [at EXCEPT ![p] = "commit"] /\ job' = job /\ task_num' = task_num
  BY <1>2, <1>3 DEF NextTake, Goto
<1>5. /\ h \in Jobs /\ Tail(todo_list[c]) \in Seq(Jobs)
      /\ <<h>> \o Tail(todo_list[c]) = todo_list[c]
  BY <1>1, <1>3, <1>4, HeadTail DEF TypeInv
<1>6. \A d \in Cores : Line(d)' = Line(d)
  <2>1. ASSUME NEW d \in Cores PROVE Line(d)' = Line(d)
    <3>1. CASE d = c
      <4>1. running'[d] = h /\ todo_list'[d] = Tail(todo_list[c])
        BY <1>1, <1>4, <3>1 DEF TypeOK, TypeInv
      <4> QED BY <1>4, <1>5, <3>1, <4>1, Apart DEF Line
    <3>2. CASE d # c
      BY <1>1, <1>4, <3>2 DEF Line, TypeOK, TypeInv
    <3> QED BY <3>1, <3>2
  <2> QED BY <2>1
<1>7. LoadExact'
  <2> SUFFICES ASSUME Clean({"dropped", "overdue"})', NEW d \in Cores
               PROVE  task_num'[d] = Load(Batches', Line(d)')
    BY DEF LoadExact, Batches
  <2>1. Clean({"dropped", "overdue"}) /\ Clean({"overdue"})
    BY CleanBefore DEF Clean
  <2>2. Batches' = Batches
    BY <1>4 DEF Batches
  <2> QED BY <1>4, <1>6, <2>1, <2>2, LoadParts
<1>8. ASSUME Clean({"overdue"})', NEW d \in Cores, at'[d] = "status"
      PROVE  running'[d] = held'[d]
  <2>1. Clean({"overdue"})
    BY <1>8, CleanBefore
  <2>2. d # p /\ at[d] = "status" /\ held'[d] = held[d]
    BY <1>1, <1>4, <1>8, Apart DEF TypeOK
  <2>3. running[d] = held[d] /\ held[d] # NoJob
    BY <1>1, <2>1, <2>2, LoadParts DEF PlaceInv
  <2>4. d # c
    BY <1>4, <2>3
  <2> QED BY <1>1, <1>4, <2>2, <2>3, <2>4 DEF TypeOK
<1> QED BY <1>7, <1>8 DEF LoadInv

\* What is taken off a core is subtracted, and it was the first of the line.
LEMMA OffLoad ==
  ASSUME TypeOK, TypeInv, NEW c \in Cores, running[c] # NoJob, running'[c] = NoJob,
         todo_list'[c] = todo_list[c]
  PROVE  Load(Batches, Line(c)') = Load(Batches, Line(c)) - job[running[c]].batches
<1>1. todo_list[c] \in Seq(Jobs) /\ running[c] \in Jobs
  BY DEF TypeOK, TypeInv
<1>2. Line(c) = <<running[c]>> \o todo_list[c] /\ Line(c)' = todo_list[c]
  BY DEF Line
<1>3. Batches \in [Jobs -> Int] /\ Batches[running[c]] = job[running[c]].batches
  BY <1>1, LineType DEF Batches
<1>4. /\ Load(Batches, <<running[c]>> \o todo_list[c])
           = Batches[running[c]] + Load(Batches, todo_list[c])
      /\ Load(Batches, todo_list[c]) \in Int /\ Batches[running[c]] \in Int
  BY <1>1, <1>3, LoadFront, LoadType
<1> QED BY <1>2, <1>3, <1>4

LEMMA LastBatchLoad ==
  ASSUME IInv, IInv', LoadInv, Grown, NEW c \in Cores, IrqLastBatch(c)
  PROVE  LoadInv'
<1>1. TypeOK /\ TypeInv /\ PlaceInv
  BY DEF IInv
<1>2. /\ at[c] = "status" /\ running' = [running EXCEPT ![c] = NoJob]
      /\ task_num' = [task_num EXCEPT ![c] = @ - job[held[c]].batches]
      /\ job' = [job EXCEPT ![held[c]].submit_count[c] = @ + 1]
      /\ at' = [at EXCEPT ![c] = "done"] /\ todo_list' = todo_list /\ held' = held
  BY DEF IrqLastBatch, Goto
<1>3. Batches' = Batches
  BY <1>1, <1>2 DEF Batches, TypeInv, JobRecord
<1>4. LoadExact'
  <2> SUFFICES ASSUME Clean({"dropped", "overdue"})', NEW d \in Cores
               PROVE  task_num'[d] = Load(Batches', Line(d)')
    BY DEF LoadExact, Batches
  <2>1. Clean({"dropped", "overdue"}) /\ Clean({"overdue"})
    BY CleanBefore DEF Clean
  <2>2. task_num[d] = Load(Batches, Line(d)) /\ running[c] = held[c] /\ held[c] # NoJob
    BY <1>1, <1>2, <2>1, LoadParts DEF PlaceInv
  <2>3. CASE d = c
    <3>1. running'[c] = NoJob /\ task_num'[c] = task_num[c] - job[held[c]].batches
      BY <1>1, <1>2 DEF TypeOK, TypeInv
    <3>2. Load(Batches, Line(c)') = Load(Batches, Line(c)) - job[running[c]].batches
      BY <1>1, <1>2, <2>2, <3>1, OffLoad
    <3> QED BY <1>3, <2>2, <2>3, <3>1, <3>2
  <2>4. CASE d # c
    <3>1. Line(d)' = Line(d) /\ task_num'[d] = task_num[d]
      BY <1>1, <1>2, <2>4 DEF Line, TypeOK, TypeInv
    <3> QED BY <1>3, <2>2, <3>1
  <2> QED BY <2>3, <2>4
<1>5. ASSUME Clean({"overdue"})', NEW d \in Cores, at'[d] = "status"
      PROVE  running'[d] = held'[d]
  <2>1. Clean({"overdue"})
    BY <1>5, CleanBefore
  <2>2. d # c /\ at[d] = "status"
    BY <1>1, <1>2, <1>5, Apart DEF TypeOK
  <2> QED BY <1>1, <1>2, <2>1, <2>2, LoadParts DEF TypeOK
<1> QED BY <1>4, <1>5 DEF LoadInv

LEMMA AbortClearLoad ==
  ASSUME IInv, IInv', LoadInv, Grown, NEW j \in Jobs, AbortClear(j)
  PROVE  LoadInv'
<1> DEFINE mine == {c \in job[j].cores : running[c] = j /\ c \notin job[j].irq_entry}
<1>1. TypeOK /\ TypeInv /\ PlaceInv /\ OnceInv(j)
  BY DEF IInv
<1>2. /\ running' = [c \in Cores |-> IF c \in mine THEN NoJob ELSE running[c]]
      /\ task_num' = [c \in Cores |->
           task_num[c] - (IF c \in mine THEN job[j].batches ELSE 0)]
      /\ job' = job /\ todo_list' = todo_list /\ held' = held
      /\ \E place : at' = [at EXCEPT ![j] = place]
  BY DEF AbortClear, Goto
<1>3. Batches' = Batches
  BY <1>2 DEF Batches
<1>4. LoadExact'
  <2> SUFFICES ASSUME Clean({"dropped", "overdue"})', NEW c \in Cores
               PROVE  task_num'[c] = Load(Batches', Line(c)')
    BY DEF LoadExact, Batches
  <2>1. Clean({"dropped", "overdue"}) /\ Clean({"overdue"})
    BY CleanBefore DEF Clean
  <2>2. task_num[c] = Load(Batches, Line(c)) /\ task_num[c] \in Int
    BY <1>1, <2>1, LoadParts DEF TypeInv
  <2>3. CASE c \in mine
    <3>1. /\ running[c] = j /\ j # NoJob /\ running'[c] = NoJob
          /\ task_num'[c] = task_num[c] - job[j].batches /\ todo_list'[c] = todo_list[c]
      BY <1>2, <2>3, Apart
    <3>2. Load(Batches, Line(c)') = Load(Batches, Line(c)) - job[running[c]].batches
      BY <1>1, <3>1, OffLoad
    <3> QED BY <1>3, <2>2, <3>1, <3>2
  <2>4. CASE c \notin mine
    <3>1. Line(c)' = Line(c) /\ task_num'[c] = task_num[c] - 0
      BY <1>2, <2>4 DEF Line
    <3> QED BY <1>3, <2>2, <3>1
  <2> QED BY <2>3, <2>4
<1>5. ASSUME Clean({"overdue"})', NEW c \in Cores, at'[c] = "status"
      PROVE  running'[c] = held'[c]
  <2>1. Clean({"overdue"})
    BY <1>5, CleanBefore
  <2>2. at[c] = "status"
    BY <1>1, <1>2, <1>5, Apart DEF TypeOK
  <2>3. running[c] = held[c]
    BY <2>1, <2>2, LoadParts
  <2>4. c \notin mine
    BY <1>1, <2>2, <2>3 DEF OnceInv
  <2> QED BY <1>2, <2>3, <2>4
<1> QED BY <1>4, <1>5 DEF LoadInv

\* A waiting call ends: where this takes the job out of a queue it is "dropped".
LEMMA WaitLoad ==
  ASSUME IInv, IInv', LoadInv, Grown, NEW j \in Jobs, WaitWoken(j) \/ WaitTimesOut(j)
  PROVE  LoadInv'
<1>1. TypeOK /\ TypeInv /\ PlaceInv /\ TypeOK' /\ TypeInv'
  BY DEF IInv
<1>2. PICK ret \in {"ok", "inval", "timedout"} :
        /\ WaitEnds(j, ret)
        /\ todo_list' # todo_list => "dropped" \in mishaps'
        /\ held' = held /\ running' = running /\ task_num' = task_num
  BY DEF WaitWoken, WaitTimesOut, Unstarted, Noted, If
<1>3. /\ job' = [job EXCEPT ![j].ret = IF job[j].committed THEN ret ELSE "inval"]
      /\ \E place : at' = [at EXCEPT ![j] = place]
  BY <1>2 DEF WaitEnds, Goto
<1>4. \A k \in Jobs : job'[k].batches = job[k].batches
  BY <1>1, <1>3 DEF TypeInv, JobRecord
<1>5. \A c \in Cores : at'[c] = at[c] /\ held'[c] = held[c]
  BY <1>1, <1>2, <1>3, Apart DEF TypeOK
<1>6. CASE todo_list' = todo_list
  BY <1>1, <1>2, <1>4, <1>5, <1>6, LoadKept
<1>7. CASE todo_list' # todo_list
  <2>1. ~Clean({"dropped", "overdue"})'
    BY <1>2, <1>7 DEF Clean
  <2>2. ASSUME Clean({"overdue"})', NEW c \in Cores, at'[c] = "status"
        PROVE  running'[c] = held'[c]
    <3>1. Clean({"overdue"})
      BY <2>2, CleanBefore
    <3> QED BY <1>2, <1>5, <2>2, <3>1, LoadParts
  <2> QED BY <2>1, <2>2 DEF LoadInv, LoadExact
<1> QED BY <1>6, <1>7

LEMMA FlushLoad ==
  ASSUME IInv, IInv', LoadInv, Grown, NEW j \in Jobs, CleanFlush(j)
  PROVE  LoadInv'
<1>1. FateInv(j) /\ at[j] = "flush"
  BY DEF IInv, CleanFlush
<1>2. ~Clean({"overdue"})
  BY <1>1 DEF FateInv
<1>3. ~Clean({"overdue"})' /\ ~Clean({"dropped", "overdue"})'
  <2>1. ~Clean({"overdue"})'
    BY <1>2, CleanBefore
  <2> QED BY <2>1 DEF Clean
<1> QED BY <1>3 DEF LoadInv, LoadExact

LEMMA NextLoad ==
  ASSUME IInv, IInv', LoadInv, Next
  PROVE  LoadInv'
<1>1. Grown
  BY NextGrows
<1>2. ASSUME NEW j \in Jobs,
             \/ Submit(j) \/ CleanSkip(j) \/ CleanOverdue(j) \/ ScheduleDomain(j)
             \/ ScheduleFails(j) \/ AbortPut(j) \/ Free(j) \/ CleanupWork(j)
             \/ ResetSkip(j) \/ ResetBegin(j) \/ ResetEnd(j)
      PROVE  LoadInv'
  BY <1>1, <1>2, CallLoad
<1>3. ASSUME NEW p \in Procs, NextNothing(p) \/ Commit(p) \/ NextTake(p)
      PROVE  LoadInv'
  BY <1>1, <1>3, PassLoad, TakeLoad
<1>4. ASSUME NEW c \in Cores,
             \/ IrqEnter(c) \/ IrqInvalid(c) \/ IrqNextBatch(c) \/ IrqLastBatch(c)
             \/ JobDone(c) \/ EngineFinishes(c)
      PROVE  LoadInv'
  BY <1>1, <1>4, HandlerLoad, LastBatchLoad
<1>5. ASSUME NEW j \in Jobs,
             \/ Enqueue(j) \/ AbortClear(j) \/ CleanFlush(j) \/ WaitWoken(j) \/ WaitTimesOut(j)
      PROVE  LoadInv'
  BY <1>1, <1>5, EnqueueLoad, AbortClearLoad, FlushLoad, WaitLoad
<1> QED BY <1>2, <1>3, <1>4, <1>5, Apart DEF Next, Submitter, Handler

LEMMA SameLoad ==
  ASSUME IInv, IInv', LoadInv, UNCHANGED vars
  PROVE  LoadInv'
<1>1. /\ TypeOK' /\ TypeInv' /\ job' = job /\ at' = at /\ held' = held
      /\ running' = running /\ todo_list' = todo_list /\ task_num' = task_num
      /\ mishaps' = mishaps
  BY DEF IInv, vars, coreVars, endVars
<1> QED BY <1>1, LoadKept DEF Grown

LEMMA InitLoad ==
  ASSUME Init
  PROVE  LoadInv
<1>1. TypeOK /\ TypeInv /\ Batches \in [Jobs -> Int]
  BY InitCorrect, LineType DEF IInv
<1>2. \A c \in Cores : Line(c) = << >> /\ task_num[c] = 0 /\ at[c] = "idle"
  BY Apart DEF Init, Line
<1>3. Load(Batches, << >>) = 0
  <2>1. << >> \in Seq(Jobs) /\ Len(<< >>) = 0
    OBVIOUS
  <2>2. PICK f : Sums(Batches, << >>, f)
    BY <1>1, <2>1, SumsExist
  <2>3. Load(Batches, << >>) = f[Len(<< >>)]
    BY <1>1, <2>1, <2>2, LoadIs
  <2>4. f[0] = 0
    BY <2>1, <2>2 DEF Sums
  <2> QED BY <2>1, <2>3, <2>4
<1> QED BY <1>2, <1>3 DEF LoadInv, LoadExact, Batches

\* The load by which a core is chosen for a job is the work it has before it.
THEOREM LoadCorrect == Spec => []LoadExact
<1>1. Init => LoadInv
  BY InitLoad
<1>2. IInv /\ IInv' /\ LoadInv /\ [Next]_vars => LoadInv'
  BY NextLoad, SameLoad
<1>3. LoadInv => LoadExact
  BY DEF LoadInv
<1> QED BY <1>1, <1>2, <1>3, Invariant, PTL DEF Spec

(***************************************************************************)
(* While nothing goes wrong no job is left behind: what a step keeps.      *)
(***************************************************************************)

\* Nothing has gone wrong.
Quiet ==
  /\ mishaps = {} /\ IInv
  /\ ~soft_reseting
  /\ \A j \in Jobs : SmoothInv(j)
  /\ \A c \in Cores : AwakeInv(c)

LEMMA QuietFacts ==
  ASSUME Quiet
  PROVE  /\ TypeOK /\ TypeInv /\ PlaceInv /\ ConsistentOrder
         /\ \A j \in Jobs : /\ SmoothInv(j) /\ UnqueuedInv(j) /\ OnceInv(j) /\ CountInv(j)
                            /\ JobInv(j)
         /\ \A c \in Cores : AwakeInv(c)
         /\ \A c \in Cores :
              /\ engine[c] # NoJob => irq[c] = "none"
              /\ at[c] = "status" => running[c] = held[c]
              /\ running[c] # NoJob /\ ~job[running[c]].committed =>
                   engine[c] = NoJob /\ irq[c] = "none" /\ at[c] # "status"
<1>1. Clean({"overlap", "overdue"})
  BY DEF Quiet, Clean
<1>2. EngineInv
  BY DEF Quiet, IInv
<1>3. \A c \in Cores :
        /\ engine[c] # NoJob => irq[c] = "none"
        /\ at[c] = "status" => running[c] = held[c]
        /\ running[c] # NoJob /\ ~job[running[c]].committed =>
             engine[c] = NoJob /\ irq[c] = "none" /\ at[c] # "status"
  BY <1>1, <1>2 DEF EngineInv
<1> QED BY <1>3 DEF Quiet, IInv, JobInv

\* A job that has something on the way was queued; while it is being started it
\* is not committed.
LEMMA OnTheWay ==
  ASSUME Quiet, NEW j \in Jobs, NEW c \in Cores
  PROVE  /\ c \in Pending(j) => ~Unqueued(j) /\ ~job[j].committed /\ job[j].run_count >= 1
         /\ c \in Remaining(j) => ~Unqueued(j) /\ ~job[j].done /\ job[j].interrupt_count >= 1
<1>1. UnqueuedInv(j) /\ CountInv(j) /\ job[j] \in JobRecord
  BY QuietFacts DEF TypeInv
<1>2. Pending(j) \in SUBSET Cores /\ Remaining(j) \in SUBSET Cores
  BY DEF Pending, Remaining
<1>3. /\ Cardinality(Pending(j)) \in Nat /\ Cardinality(Remaining(j)) \in Nat
      /\ job[j].run_count \in Nat /\ job[j].interrupt_count \in Nat
  BY <1>1, <1>2, CoreSets, CoresNumbered DEF JobRecord
<1>4. Cardinality({c}) = 1 /\ {c} \in SUBSET Cores
  BY FS_Singleton
<1>5. ASSUME c \in Pending(j)
      PROVE  ~Unqueued(j) /\ ~job[j].committed /\ job[j].run_count >= 1
  <2>1. Cardinality({c}) <= Cardinality(Pending(j))
    BY <1>2, <1>5, CoreSets
  <2>2. job[j].run_count >= 1
    BY <1>1, <1>3, <1>4, <2>1 DEF CountInv
  <2> QED BY <1>1, <1>5, <2>2 DEF CountInv, UnqueuedInv
<1>6. ASSUME c \in Remaining(j)
      PROVE  ~Unqueued(j) /\ ~job[j].done /\ job[j].interrupt_count >= 1
  <2>1. Cardinality({c}) <= Cardinality(Remaining(j))
    BY <1>2, <1>6, CoreSets
  <2>2. job[j].interrupt_count >= 1
    BY <1>1, <1>3, <1>4, <2>1 DEF CountInv
  <2> QED BY <1>1, <1>6, <2>2 DEF CountInv, UnqueuedInv
<1> QED BY <1>5, <1>6

\* The counts of the job stay.
SameCounts(k) ==
  /\ job'[k].run_count = job[k].run_count
  /\ job'[k].interrupt_count = job[k].interrupt_count
  /\ job'[k].committed = job[k].committed /\ job'[k].done = job[k].done
  /\ job'[k].nonblock = job[k].nonblock

\* Its call goes on without giving it up.
GoesOnCalmly(k) ==
  /\ at'[k] \notin {"flush", "abort", "sleep", "reset", "resetting"}
  /\ at'[k] = "free" \/ (at'[k] = "out" /\ ~job[k].nonblock) => job[k].done
  /\ ~Unqueued(k)' => ~Unqueued(k)

\* It stays where it was.
SamePlaces(k) ==
  /\ Pending(k)' = Pending(k) /\ Remaining(k)' = Remaining(k)
  /\ \A p \in Procs, c \in Cores : Taking(p, c, k)' => Taking(p, c, k) \/ running'[c] = k
  /\ \A p \in Procs, c \in Cores : Taking(p, c, k) /\ running[c] = k => running'[c] = k

LEMMA SmoothKept ==
  ASSUME NEW k \in Jobs, SmoothInv(k), SameCounts(k), GoesOnCalmly(k), SamePlaces(k)
  PROVE  SmoothInv(k)'
  BY DEF SmoothInv, SameCounts, GoesOnCalmly, SamePlaces

\* The call stays where it is.
LEMMA StaysCalmly ==
  ASSUME NEW k \in Jobs, SmoothInv(k), at'[k] = at[k], held'[k] = held[k]
  PROVE  GoesOnCalmly(k)
  BY DEF SmoothInv, GoesOnCalmly, Unqueued

\* Nothing happens on the core, and whoever is coming keeps coming.
LEMMA AwakeKept ==
  ASSUME NEW c \in Cores, AwakeInv(c), TypeOK,
         todo_list'[c] = todo_list[c], running'[c] = running[c],
         engine'[c] = engine[c], irq'[c] = irq[c],
         \A k \in Jobs : job'[k].committed = job[k].committed,
         at[c] \in {"done", "next"} => at'[c] \in {"done", "next"},
         at'[c] \in {"status", "done"} =>
           at'[c] = at[c] /\ held'[c] = held[c] /\ held[c] \in Jobs,
         \A p \in Jobs : Coming(p, c) => Coming(p, c)'
  PROVE  AwakeInv(c)'
<1>1. running[c] \in Jobs \cup {NoJob}
  BY DEF TypeOK
<1> QED BY <1>1 DEF AwakeInv

LEMMA HoldsJob ==
  ASSUME TypeOK, PlaceInv, NEW c \in Cores, at[c] \in {"status", "done", "commit"}
  PROVE  held[c] \in Jobs
<1>1. held[c] # NoJob /\ held[c] \in Jobs \cup {NoJob}
  BY Apart DEF TypeOK, PlaceInv
<1> QED BY <1>1

\* A call does something by itself, before it is queued or after it has waited.
LEMMA AsideKept ==
  ASSUME Quiet, NEW j \in Jobs, at[j] \notin {"next", "commit"}, at'[j] # "commit",
         \A q \in Procs \ {j} : at'[q] = at[q] /\ held'[q] = held[q],
         \A q \in Jobs \ {j} : left'[q] = left[q],
         \A q \in Jobs \ {j} : SameCounts(q),
         job'[j].committed = job[j].committed,
         running' = running, todo_list' = todo_list, engine' = engine, irq' = irq,
         soft_reseting' = soft_reseting,
         SamePlaces(j) => SmoothInv(j)'
  PROVE  WakeInv'
<1>1. TypeOK /\ PlaceInv /\ \A k \in Jobs : SmoothInv(k)
  BY QuietFacts
<1>2. \A c \in Cores : at'[c] = at[c] /\ held'[c] = held[c]
  BY Apart
<1>3. \A k \in Jobs, p \in Procs, c \in Cores : Taking(p, c, k)' <=> Taking(p, c, k)
  <2>1. ASSUME NEW k \in Jobs, NEW p \in Procs, NEW c \in Cores
        PROVE  Taking(p, c, k)' <=> Taking(p, c, k)
    <3>1. CASE p = j
      BY <3>1 DEF Taking
    <3>2. CASE p # j
      <4>1. CoreOf(p)' = CoreOf(p)
        BY <3>2, Apart DEF CoreOf
      <4> QED BY <3>2, <4>1 DEF Taking
    <3> QED BY <3>1, <3>2
  <2> QED BY <2>1
<1>4. \A k \in Jobs : SamePlaces(k)
  <2>1. \A k \in Jobs : Pending(k)' = Pending(k)
    BY <1>3 DEF Pending
  <2>2. \A k \in Jobs : Remaining(k)' = Remaining(k)
    BY <1>2 DEF Remaining
  <2> QED BY <1>3, <2>1, <2>2 DEF SamePlaces
<1>5. \A k \in Jobs : SmoothInv(k)'
  <2>1. \A k \in Jobs \ {j} : GoesOnCalmly(k)
    BY <1>1, StaysCalmly, Apart
  <2> QED BY <1>1, <1>4, <2>1, SmoothKept
<1>6. ASSUME NEW c \in Cores PROVE AwakeInv(c)'
  <2>1. \A p \in Jobs : Coming(p, c) => Coming(p, c)'
    <3>1. ASSUME NEW p \in Jobs, Coming(p, c) PROVE Coming(p, c)'
      <4>1. p # j /\ p \in Procs
        BY <3>1, Apart DEF Coming
      <4>2. CoreOf(p)' = CoreOf(p) /\ at'[p] = at[p] /\ left'[p] = left[p]
        BY <4>1, Apart DEF CoreOf
      <4> QED BY <3>1, <4>2 DEF Coming
    <3> QED BY <3>1
  <2>2. \A k \in Jobs : job'[k].committed = job[k].committed
    BY DEF SameCounts
  <2>3. at'[c] \in {"status", "done"} => held[c] \in Jobs
    BY <1>1, <1>2, HoldsJob
  <2> QED BY <1>1, <1>2, <2>1, <2>2, <2>3, QuietFacts, AwakeKept
<1> QED BY <1>5, <1>6 DEF WakeInv, Quiet

\* Before it is queued a job cannot be left behind.
LEMMA BeforeQueueing ==
  ASSUME Quiet, NEW j \in Jobs, Unqueued(j), Unqueued(j)', SamePlaces(j),
         at'[j] \in {"idle", "clean", "queue"}, ~job'[j].done
  PROVE  SmoothInv(j)'
<1>1. \A p \in Procs, c \in Cores : ~Taking(p, c, j)
  BY QuietFacts DEF UnqueuedInv, Pending
<1>2. \A p \in Procs, c \in Cores : Taking(p, c, j)' => running'[c] = j
  BY <1>1 DEF SamePlaces
<1> QED BY <1>2 DEF SmoothInv

LEMMA SubmitWake ==
  ASSUME Quiet, NEW j \in Jobs, Submit(j)
  PROVE  WakeInv'
<1>1. TypeOK /\ TypeInv /\ UnqueuedInv(j) /\ at[j] = "idle"
  BY QuietFacts DEF Submit
<1>2. /\ at' = [at EXCEPT ![j] = "clean"] /\ held' = held /\ left' = [left EXCEPT ![j] = left'[j]]
      /\ running' = running /\ todo_list' = todo_list /\ engine' = engine /\ irq' = irq
      /\ soft_reseting' = soft_reseting
      /\ \A k \in Jobs \ {j} : job'[k] = job[k]
      /\ job'[j].committed = FALSE /\ job'[j].done = FALSE
  BY <1>1 DEF Submit, Goto, coreVars, hwVars, resetVars, TypeInv
<1>3. /\ at'[j] = "clean" /\ \A q \in Procs \ {j} : at'[q] = at[q] /\ held'[q] = held[q]
      /\ \A q \in Jobs \ {j} : left'[q] = left[q] /\ SameCounts(q)
  BY <1>1, <1>2, Apart DEF TypeOK, TypeInv, SameCounts
<1>4. Unqueued(j) /\ Unqueued(j)'
  BY <1>1, <1>3 DEF Unqueued
<1>5. job[j].committed = FALSE
  BY <1>1, <1>4 DEF UnqueuedInv, TypeInv, JobRecord
<1>6. SamePlaces(j) => SmoothInv(j)'
  BY <1>2, <1>3, <1>4, BeforeQueueing
<1> QED BY <1>1, <1>2, <1>3, <1>5, <1>6, AsideKept

LEMMA ScheduleDomainWake ==
  ASSUME Quiet, NEW j \in Jobs, ScheduleDomain(j)
  PROVE  WakeInv'
<1>1. TypeOK /\ TypeInv /\ UnqueuedInv(j) /\ at[j] = "clean"
  BY QuietFacts DEF ScheduleDomain, Scheduling
<1>2. /\ at' = [at EXCEPT ![j] = "queue"] /\ held' = held /\ left' = left
      /\ running' = running /\ todo_list' = todo_list /\ engine' = engine /\ irq' = irq
      /\ soft_reseting' = soft_reseting /\ job' = [job EXCEPT ![j] = Assign(job[j])]
  BY DEF ScheduleDomain, Goto, coreVars, hwVars, resetVars
<1>3. /\ at'[j] = "queue" /\ \A q \in Procs \ {j} : at'[q] = at[q] /\ held'[q] = held[q]
      /\ \A q \in Jobs \ {j} : left'[q] = left[q] /\ SameCounts(q)
  BY <1>1, <1>2, Apart DEF TypeOK, TypeInv, SameCounts
<1>4. Unqueued(j) /\ Unqueued(j)'
  BY <1>1, <1>3 DEF Unqueued
<1>5. job'[j].committed = job[j].committed /\ ~job'[j].done
  <2>1. /\ job[j] \in JobRecord /\ job[j].run_count = Cardinality(job[j].cores)
        /\ job[j].interrupt_count = Cardinality(job[j].cores) /\ ~job[j].done
        /\ task_num \in [Cores -> Int]
    BY <1>1, <1>4 DEF UnqueuedInv, TypeInv
  <2>2. Assign(job[j]).committed = job[j].committed /\ Assign(job[j]).done = job[j].done
    BY <2>1, AssignFacts
  <2>3. job'[j] = Assign(job[j])
    BY <1>1, <1>2 DEF TypeInv
  <2> QED BY <2>1, <2>2, <2>3
<1>6. SamePlaces(j) => SmoothInv(j)'
  BY <1>3, <1>4, <1>5, BeforeQueueing
<1> QED BY <1>1, <1>2, <1>3, <1>5, <1>6, AsideKept

LEMMA CleanSkipWake ==
  ASSUME Quiet, NEW j \in Jobs, CleanSkip(j)
  PROVE  WakeInv'
<1>1. TypeInv /\ SmoothInv(j) /\ at[j] = "clean"
  BY QuietFacts DEF CleanSkip
<1>2. /\ at' = at /\ held' = held /\ job' = job
      /\ running' = running /\ todo_list' = todo_list /\ engine' = engine /\ irq' = irq
      /\ soft_reseting' = soft_reseting
      /\ left' = [left EXCEPT ![j] = @ \ {MinCore(@)}]
  BY DEF CleanSkip, coreVars, hwVars, resetVars
<1>3. (\A q \in Jobs \ {j} : left'[q] = left[q]) /\ \A q \in Jobs : SameCounts(q)
  BY <1>1, <1>2 DEF TypeInv, SameCounts
<1>4. SamePlaces(j) => SmoothInv(j)'
  BY <1>1, <1>2, <1>3, SmoothKept, StaysCalmly
<1> QED BY <1>1, <1>2, <1>3, <1>4, AsideKept

LEMMA FreeWake ==
  ASSUME Quiet, NEW j \in Jobs, Free(j)
  PROVE  WakeInv'
<1>1. TypeOK /\ TypeInv /\ SmoothInv(j) /\ at[j] = "free"
  BY QuietFacts DEF Free
<1>2. /\ at' = [at EXCEPT ![j] = "out"] /\ held' = held /\ job' = job /\ left' = left
      /\ running' = running /\ todo_list' = todo_list /\ engine' = engine /\ irq' = irq
      /\ soft_reseting' = soft_reseting
  BY DEF Free, Goto, coreVars, hwVars, resetVars
<1>3. /\ at'[j] = "out" /\ \A q \in Procs \ {j} : at'[q] = at[q]
      /\ \A q \in Jobs : SameCounts(q)
  BY <1>1, <1>2, Apart DEF TypeOK, SameCounts
<1>4. GoesOnCalmly(j)
  BY <1>1, <1>3 DEF SmoothInv, GoesOnCalmly, Unqueued
<1>5. SamePlaces(j) => SmoothInv(j)'
  BY <1>1, <1>3, <1>4, SmoothKept
<1> QED BY <1>1, <1>2, <1>3, <1>5, AsideKept

\* The waiter of a job is only woken by its end: the job was started, and it
\* stays in no queue.
LEMMA WaitWokenWake ==
  ASSUME Quiet, NEW j \in Jobs, WaitWoken(j)
  PROVE  WakeInv'
<1>1. TypeOK /\ TypeInv /\ SmoothInv(j) /\ at[j] = "wait" /\ ~soft_reseting
  BY QuietFacts DEF WaitWoken, Quiet
<1>2. job[j].done /\ job[j].committed
  BY <1>1 DEF WaitWoken, SmoothInv
<1>3. /\ job' = [job EXCEPT ![j].ret = "ok"]
      /\ at' = [at EXCEPT ![j] = IF job'[j].ret = "ok" THEN "free" ELSE "abort"]
      /\ todo_list' = [c \in Cores |-> todo_list[c]]
      /\ held' = held /\ left' = left /\ running' = running /\ engine' = engine /\ irq' = irq
      /\ soft_reseting' = soft_reseting
  BY <1>2 DEF WaitWoken, WaitEnds, Goto, hwVars, resetVars
<1>4. /\ job'[j].ret = "ok" /\ \A q \in Jobs : SameCounts(q)
  BY <1>1, <1>3 DEF TypeInv, JobRecord, SameCounts
<1>5. at'[j] = "free" /\ (\A q \in Procs \ {j} : at'[q] = at[q]) /\ todo_list' = todo_list
  BY <1>1, <1>3, <1>4, Apart DEF TypeOK, TypeInv
<1>6. GoesOnCalmly(j)
  BY <1>1, <1>2, <1>5 DEF GoesOnCalmly, Unqueued
<1>7. SamePlaces(j) => SmoothInv(j)'
  BY <1>1, <1>4, <1>6, SmoothKept
<1>8. job'[j].committed = job[j].committed
  BY <1>4 DEF SameCounts
<1> QED BY <1>1, <1>3, <1>4, <1>5, <1>7, <1>8, AsideKept

\* Nothing happens to the jobs, their calls and the cores.
LEMMA SameWake ==
  ASSUME Quiet, job' = job, at' = at, held' = held, left' = left, running' = running,
         todo_list' = todo_list, engine' = engine, irq' = irq, soft_reseting' = soft_reseting
  PROVE  WakeInv'
<1>1. \A p \in Procs : CoreOf(p)' = CoreOf(p)
  BY DEF CoreOf
<1>2. \A k \in Jobs, p \in Procs, c \in Cores : Taking(p, c, k)' <=> Taking(p, c, k)
  BY <1>1 DEF Taking
<1>3. ASSUME NEW k \in Jobs PROVE SmoothInv(k)'
  <2>1. Pending(k)' = Pending(k) /\ Remaining(k)' = Remaining(k)
    BY <1>2 DEF Pending, Remaining
  <2>2. SmoothInv(k) /\ SamePlaces(k) /\ SameCounts(k) /\ GoesOnCalmly(k)
    BY <1>2, <2>1, StaysCalmly, QuietFacts DEF SamePlaces, SameCounts
  <2> QED BY <2>2, SmoothKept
<1>4. ASSUME NEW c \in Cores PROVE AwakeInv(c)'
  <2>1. AwakeInv(c)
    BY QuietFacts
  <2>2. \A p \in Jobs : Coming(p, c) => Coming(p, c)'
    BY <1>1, Apart DEF Coming
  <2> QED BY <2>1, <2>2 DEF AwakeInv
<1> QED BY <1>3, <1>4 DEF WakeInv, Quiet

\* A queued job waits on each of its cores, and its call goes to all of them.
LEMMA EnqueueWake ==
  ASSUME Quiet, NEW j \in Jobs, Enqueue(j)
  PROVE  WakeInv'
<1>1. TypeOK /\ TypeInv /\ PlaceInv /\ UnqueuedInv(j) /\ at[j] = "queue"
  BY QuietFacts DEF Enqueue
<1>2. /\ at' = [at EXCEPT ![j] = "next"] /\ job' = job /\ held' = held /\ running' = running
      /\ engine' = engine /\ irq' = irq /\ soft_reseting' = soft_reseting
      /\ todo_list' = [c \in Cores |->
           IF c \in job[j].cores THEN Append(todo_list[c], j) ELSE todo_list[c]]
      /\ left' = [left EXCEPT ![j] = job[j].cores]
  BY DEF Enqueue, Goto, hwVars, resetVars
<1>3. /\ job[j].cores \in SUBSET Cores /\ job[j].cores # {} /\ job[j] \in JobRecord
      /\ at'[j] = "next" /\ (\A q \in Procs \ {j} : at'[q] = at[q])
      /\ left'[j] = job[j].cores /\ \A k \in Jobs \ {j} : left'[k] = left[k]
  BY <1>1, <1>2, Apart DEF TypeOK, TypeInv, PlaceInv, JobRecord
<1>4. /\ Unqueued(j) /\ Pending(j) = {} /\ Remaining(j) = {}
      /\ (\A p \in Procs : held[p] # j) /\ ~job[j].committed /\ ~job[j].done
      /\ job[j].run_count = Cardinality(job[j].cores)
      /\ job[j].interrupt_count = Cardinality(job[j].cores)
  BY <1>1 DEF UnqueuedInv, Unqueued
<1>5. \A c \in Cores : ToSet(todo_list'[c]) = ToSet(todo_list[c])
                                                \cup (IF c \in job[j].cores THEN {j} ELSE {})
  <2>1. ASSUME NEW c \in Cores
        PROVE  ToSet(todo_list'[c]) = ToSet(todo_list[c])
                                        \cup (IF c \in job[j].cores THEN {j} ELSE {})
    <3>1. ToSet(Append(todo_list[c], j)) = ToSet(todo_list[c]) \cup {j}
      BY <1>1, AppendFacts DEF TypeInv
    <3> QED BY <1>2, <3>1
  <2> QED BY <2>1
<1>6. \A k \in Jobs, p \in Procs, c \in Cores : Taking(p, c, k)' <=> Taking(p, c, k)
  <2>1. ASSUME NEW k \in Jobs, NEW p \in Procs, NEW c \in Cores
        PROVE  Taking(p, c, k)' <=> Taking(p, c, k)
    <3>1. CASE p = j
      BY <1>1, <1>3, <3>1 DEF Taking
    <3>2. CASE p # j
      <4>1. CoreOf(p)' = CoreOf(p)
        BY <1>3, <3>2, Apart DEF CoreOf
      <4> QED BY <1>2, <1>3, <3>2, <4>1 DEF Taking
    <3> QED BY <3>1, <3>2
  <2> QED BY <2>1
<1>7. \A k \in Jobs \ {j} : SmoothInv(k)'
  <2>1. ASSUME NEW k \in Jobs \ {j} PROVE SmoothInv(k)'
    <3>1. \A c \in Cores : k \in ToSet(todo_list'[c]) <=> k \in ToSet(todo_list[c])
      BY <1>5
    <3>2. Pending(k)' = Pending(k) /\ Remaining(k)' = Remaining(k)
      BY <1>2, <1>6, <3>1 DEF Pending, Remaining
    <3>3. SmoothInv(k) /\ SamePlaces(k) /\ SameCounts(k)
      BY <1>2, <1>6, <3>2, QuietFacts DEF SamePlaces, SameCounts
    <3>4. GoesOnCalmly(k)
      BY <1>2, <1>3, <3>3, StaysCalmly, Apart
    <3> QED BY <3>3, <3>4, SmoothKept
  <2> QED BY <2>1
<1>8. SmoothInv(j)'
  <2>1. \A p \in Procs, c \in Cores : ~Taking(p, c, j)'
    BY <1>2, <1>4 DEF Taking
  <2>2. \A c \in Cores : j \notin ToSet(todo_list[c]) /\ running[c] # j /\ held[c] # j
    BY <1>4 DEF Remaining
  <2>3. \A c \in Cores : j \in ToSet(todo_list'[c]) <=> c \in job[j].cores
    BY <1>5, <2>2
  <2>4. Pending(j)' = job[j].cores /\ Remaining(j)' = job[j].cores
    BY <1>2, <1>3, <2>1, <2>2, <2>3 DEF Pending, Remaining
  <2>5. Cardinality(job[j].cores) # 0
    BY <1>3, CoreSets, FS_EmptySet
  <2> QED BY <1>2, <1>3, <1>4, <2>1, <2>4, <2>5 DEF SmoothInv
<1>9. ASSUME NEW c \in Cores PROVE AwakeInv(c)'
  <2>1. AwakeInv(c) /\ at'[c] = at[c] /\ \A k \in Jobs : job'[k].committed = job[k].committed
    BY <1>2, <1>3, Apart, QuietFacts
  <2>2. CASE c \in job[j].cores
    <3>1. Coming(j, c)'
      BY <1>3, <2>2 DEF Coming
    <3> QED BY <1>2, <2>1, <3>1 DEF AwakeInv
  <2>3. CASE c \notin job[j].cores
    <3>1. \A p \in Jobs : Coming(p, c) => Coming(p, c)'
      <4>1. ASSUME NEW p \in Jobs, Coming(p, c) PROVE Coming(p, c)'
        <5>1. p # j /\ p \in Procs
          BY <1>1, <4>1, Apart DEF Coming
        <5>2. CoreOf(p)' = CoreOf(p) /\ at'[p] = at[p] /\ left'[p] = left[p]
          BY <1>3, <5>1, Apart DEF CoreOf
        <5> QED BY <4>1, <5>2 DEF Coming
      <4> QED BY <4>1
    <3>2. todo_list'[c] = todo_list[c]
      BY <1>2, <2>3
    <3>3. at'[c] \in {"status", "done"} => held[c] \in Jobs
      BY <1>1, <2>1, HoldsJob
    <3> QED BY <1>1, <1>2, <2>1, <3>1, <3>2, <3>3, AwakeKept
  <2> QED BY <2>2, <2>3
<1> QED BY <1>2, <1>7, <1>8, <1>9 DEF WakeInv, Quiet

\* Whoever goes on from a core in rknpu_job_next is still coming to the others.
LEMMA StillComing ==
  ASSUME TypeOK, TypeInv, PlaceInv, NEW p \in Procs, at[p] \in {"next", "commit"},
         AfterNext(p), NEW c \in Cores, c # CoreOf(p), NEW q \in Jobs, Coming(q, c)
  PROVE  Coming(q, c)'
<1>1. CASE q # p
  <2>1. q \in Procs /\ at'[q] = at[q] /\ left'[q] = left[q] /\ q \notin Cores
    BY <1>1, Apart, AfterNextFacts
  <2>2. CoreOf(q)' = CoreOf(q)
    BY <2>1 DEF CoreOf
  <2> QED BY <2>1, <2>2 DEF Coming
<1>2. CASE q = p
  <2>1. /\ c \in left[p] /\ MinCore(left[p]) # c
        /\ left' = [left EXCEPT ![p] = @ \ {MinCore(@)}]
        /\ at' = [at EXCEPT ![p] = IF left[p] # {MinCore(left[p])} THEN "next"
                                   ELSE IF job[p].nonblock THEN "out" ELSE "wait"]
    BY <1>2, Apart, CoreAtHand DEF Coming, AfterNext, Goto
  <2>2. at'[p] = "next" /\ c \in left'[p]
    BY <1>2, <2>1 DEF TypeOK, TypeInv
  <2> QED BY <1>2, <2>2 DEF Coming
<1> QED BY <1>1, <1>2

\* The call of a job goes on from a core calmly.
LEMMA AfterNextCalmly ==
  ASSUME Quiet, NEW p \in Procs, at[p] \in {"next", "commit"}, AfterNext(p),
         \A q \in Procs \ {p} : held'[q] = held[q], NEW k \in Jobs
  PROVE  GoesOnCalmly(k)
<1>1. TypeOK /\ TypeInv /\ PlaceInv /\ SmoothInv(k)
  BY QuietFacts
<1>2. CASE k # p
  BY <1>1, <1>2, Apart, AfterNextFacts, StaysCalmly
<1>3. CASE k = p
  <2>1. at'[k] \in {"next", "out", "wait"} /\ (at'[k] = "out" => job[k].nonblock)
    BY <1>1, <1>3, AfterNextFacts
  <2> QED BY <1>3, <2>1 DEF GoesOnCalmly, Unqueued
<1> QED BY <1>2, <1>3

\* Nobody else takes a job because of that.
LEMMA AfterNextTakings ==
  ASSUME TypeOK, TypeInv, PlaceInv, NEW p \in Procs, at[p] \in {"next", "commit"},
         AfterNext(p), \A q \in Procs \ {p} : held'[q] = held[q],
         NEW k \in Jobs, NEW q \in Procs, NEW c \in Cores
  PROVE  Taking(q, c, k)' <=> q # p /\ Taking(q, c, k)
<1>1. CASE q = p
  <2>1. at'[p] # "commit"
    BY Apart, AfterNextFacts
  <2> QED BY <1>1, <2>1 DEF Taking
<1>2. CASE q # p
  <2>1. at'[q] = at[q] /\ held'[q] = held[q]
    BY <1>2, AfterNextFacts
  <2>2. CoreOf(q)' = CoreOf(q)
    BY <1>2, Apart, AfterNextFacts DEF CoreOf
  <2> QED BY <1>2, <2>1, <2>2 DEF Taking
<1> QED BY <1>1, <1>2

\* A core that is passed by has a job or nothing to do.
LEMMA NextNothingWake ==
  ASSUME Quiet, NEW p \in Procs, NextNothing(p)
  PROVE  WakeInv'
<1>1. TypeOK /\ TypeInv /\ PlaceInv /\ ~soft_reseting
  BY QuietFacts DEF Quiet
<1>2. /\ at[p] = "next" /\ AfterNext(p)
      /\ running[CoreOf(p)] # NoJob \/ todo_list[CoreOf(p)] = << >>
      /\ job' = job /\ held' = held /\ running' = running /\ todo_list' = todo_list
      /\ engine' = engine /\ irq' = irq /\ soft_reseting' = soft_reseting
  BY <1>1 DEF NextNothing, coreVars, hwVars, resetVars
<1>3. \A k \in Jobs, q \in Procs, c \in Cores : Taking(q, c, k)' <=> Taking(q, c, k)
  <2>1. \A k \in Jobs, q \in Procs, c \in Cores :
          Taking(q, c, k)' <=> q # p /\ Taking(q, c, k)
    BY <1>1, <1>2, AfterNextTakings
  <2>2. \A k \in Jobs, c \in Cores : ~Taking(p, c, k)
    BY <1>2 DEF Taking
  <2> QED BY <2>1, <2>2
<1>4. ASSUME NEW k \in Jobs PROVE SmoothInv(k)'
  <2>1. Pending(k)' = Pending(k) /\ Remaining(k)' = Remaining(k)
    BY <1>2, <1>3 DEF Pending, Remaining
  <2>2. SmoothInv(k) /\ SamePlaces(k) /\ SameCounts(k)
    BY <1>2, <1>3, <2>1, QuietFacts DEF SamePlaces, SameCounts
  <2>3. GoesOnCalmly(k)
    BY <1>2, AfterNextCalmly
  <2> QED BY <2>2, <2>3, SmoothKept
<1>5. ASSUME NEW c \in Cores PROVE AwakeInv(c)'
  <2>1. AwakeInv(c) /\ (at[c] \in {"status", "done"} => held[c] \in Jobs)
    BY <1>1, HoldsJob, QuietFacts
  <2>2. /\ c # p => at'[c] = at[c]
        /\ c = p => at'[c] = "idle" /\ c = CoreOf(p)
    BY <1>1, <1>2, Apart, AfterNextFacts, CoreAtHand
  <2>3. CASE c = CoreOf(p)
    BY <1>2, <2>1, <2>2, <2>3 DEF AwakeInv
  <2>4. CASE c # CoreOf(p)
    <3>1. \A q \in Jobs : Coming(q, c) => Coming(q, c)'
      BY <1>1, <1>2, <2>4, StillComing
    <3>2. at'[c] = at[c]
      BY <2>2, <2>4
    <3> QED BY <1>1, <1>2, <2>1, <3>1, <3>2, AwakeKept
  <2> QED BY <2>3, <2>4
<1> QED BY <1>2, <1>4, <1>5 DEF WakeInv, Quiet

\* The head of a queue goes to its core; it has not been started yet.
LEMMA NextTakeWake ==
  ASSUME Quiet, NEW p \in Procs, NextTake(p)
  PROVE  WakeInv'
<1>1. TypeOK /\ TypeInv /\ PlaceInv /\ at[p] = "next"
  BY QuietFacts DEF NextTake
<1>2. PICK c \in Cores : c = CoreOf(p)
  BY <1>1, CoreAtHand
<1>3. PICK h : h = Head(todo_list[c])
  OBVIOUS
<1>4. /\ running[c] = NoJob /\ todo_list[c] # << >>
      /\ running' = [running EXCEPT ![c] = h] /\ held' = [held EXCEPT ![p] = h]
      /\ todo_list' = [todo_list EXCEPT ![c] = Tail(todo_list[c])]
      /\ at' = [at EXCEPT ![p] = "commit"] /\ job' = job /\ left' = left
      /\ engine' = engine /\ irq' = irq /\ soft_reseting' = soft_reseting
  BY <1>2, <1>3 DEF NextTake, Goto, hwVars, resetVars
<1>5. /\ h \in Jobs /\ ToSet(todo_list[c]) = ToSet(Tail(todo_list[c])) \cup {h}
      /\ p \in Cores => c = p
  BY <1>1, <1>2, <1>3, <1>4, HeadTail, CoreAtHand DEF TypeInv
<1>6. /\ running'[c] = h /\ todo_list'[c] = Tail(todo_list[c])
      /\ \A d \in Cores \ {c} : running'[d] = running[d] /\ todo_list'[d] = todo_list[d]
      /\ held'[p] = h /\ at'[p] = "commit"
      /\ \A q \in Procs \ {p} : held'[q] = held[q] /\ at'[q] = at[q]
      /\ \A q \in Procs : CoreOf(q)' = CoreOf(q)
      /\ held[p] = NoJob
  <2>1. \A q \in Procs : CoreOf(q)' = CoreOf(q)
    BY <1>4 DEF CoreOf
  <2>2. held[p] = NoJob
    BY <1>1, Apart DEF PlaceInv
  <2> QED BY <1>1, <1>4, <2>1, <2>2 DEF TypeOK, TypeInv
<1>7. \A k \in Jobs, d \in Cores, q \in Procs :
        Taking(q, d, k)' <=> Taking(q, d, k) \/ (q = p /\ d = c /\ k = h)
  BY <1>1, <1>2, <1>6 DEF Taking
<1>8. c \in Pending(h) /\ ~job[h].committed
  BY <1>5, OnTheWay DEF Pending
<1>9. ASSUME NEW k \in Jobs PROVE SmoothInv(k)'
  <2>1. \A d \in Cores : /\ d # c => (k \in ToSet(todo_list'[d]) <=> k \in ToSet(todo_list[d]))
                         /\ k # h => (k \in ToSet(todo_list'[d]) <=> k \in ToSet(todo_list[d]))
                         /\ k \in ToSet(todo_list'[d]) => k \in ToSet(todo_list[d])
    BY <1>5, <1>6
  <2>2. ASSUME NEW d \in Cores PROVE d \in Pending(k)' <=> d \in Pending(k)
    <3>1. CASE k = h /\ d = c
      BY <1>7, <1>8, <3>1 DEF Pending
    <3>2. CASE ~(k = h /\ d = c)
      <4>1. \A q \in Procs : Taking(q, d, k)' <=> Taking(q, d, k)
        BY <1>7, <3>2
      <4>2. k \in ToSet(todo_list'[d]) <=> k \in ToSet(todo_list[d])
        BY <2>1, <3>2
      <4> QED BY <4>1, <4>2 DEF Pending
    <3> QED BY <3>1, <3>2
  <2>3. ASSUME NEW d \in Cores PROVE d \in Remaining(k)' <=> d \in Remaining(k)
    <3>1. CASE k = h /\ d = c
      BY <1>5, <1>6, <3>1 DEF Remaining
    <3>2. CASE ~(k = h /\ d = c)
      <4>1. running'[d] = k <=> running[d] = k
        BY <1>4, <1>5, <1>6, <3>2, Apart
      <4>2. held'[d] = k <=> held[d] = k
        BY <1>5, <1>6, <3>2, Apart
      <4>3. k \in ToSet(todo_list'[d]) <=> k \in ToSet(todo_list[d])
        BY <2>1, <3>2
      <4> QED BY <4>1, <4>2, <4>3 DEF Remaining
    <3> QED BY <3>1, <3>2
  <2>4. Pending(k)' = Pending(k) /\ Remaining(k)' = Remaining(k)
    BY <2>2, <2>3 DEF Pending, Remaining
  <2>5. SamePlaces(k)
    <3>1. \A q \in Procs, d \in Cores : Taking(q, d, k)' => Taking(q, d, k) \/ running'[d] = k
      BY <1>6, <1>7
    <3>2. \A d \in Cores : running[d] = k => running'[d] = k
      BY <1>4, <1>6, Apart
    <3> QED BY <2>4, <3>1, <3>2 DEF SamePlaces
  <2>6. SmoothInv(k) /\ SameCounts(k)
    BY <1>4, QuietFacts DEF SameCounts
  <2>7. GoesOnCalmly(k)
    <3>1. CASE k = p
      BY <1>1, <1>6, <3>1 DEF GoesOnCalmly, Unqueued
    <3>2. CASE k # p
      BY <1>6, <2>6, <3>2, StaysCalmly, Apart
    <3> QED BY <3>1, <3>2
  <2> QED BY <2>5, <2>6, <2>7, SmoothKept
<1>10. ASSUME NEW d \in Cores PROVE AwakeInv(d)'
  <2>1. AwakeInv(d) /\ (at[d] \in {"status", "done"} => held[d] \in Jobs)
    BY <1>1, HoldsJob, QuietFacts
  <2>2. /\ d # p => at'[d] = at[d] /\ held'[d] = held[d]
        /\ d = p => d = c /\ at'[d] = "commit"
    BY <1>5, <1>6, Apart
  <2>3. CASE d = c
    BY <1>4, <1>5, <1>6, <1>8, <2>1, <2>2, <2>3, Apart DEF AwakeInv
  <2>4. CASE d # c
    <3>1. \A q \in Jobs : Coming(q, d) => Coming(q, d)'
      <4>1. ASSUME NEW q \in Jobs, Coming(q, d) PROVE Coming(q, d)'
        <5>1. q \in Procs /\ left'[q] = left[q] /\ CoreOf(q)' = CoreOf(q)
          BY <1>4, <1>6, Apart
        <5>2. CASE q = p
          BY <1>1, <1>2, <1>6, <2>4, <4>1, <5>1, <5>2 DEF Coming
        <5>3. CASE q # p
          BY <1>6, <4>1, <5>1, <5>3 DEF Coming
        <5> QED BY <5>2, <5>3
      <4> QED BY <4>1
    <3>2. at'[d] = at[d] /\ held'[d] = held[d]
      BY <2>2, <2>4
    <3> QED BY <1>1, <1>4, <1>6, <2>1, <2>4, <3>1, <3>2, AwakeKept
  <2> QED BY <2>3, <2>4
<1> QED BY <1>4, <1>9, <1>10 DEF WakeInv, Quiet

\* The last core a job is taken for starts it on all its cores: they all have it.
LEMMA CommitWake ==
  ASSUME Quiet, mishaps' = {}, NEW p \in Procs, Commit(p)
  PROVE  WakeInv'
<1>1. TypeOK /\ TypeInv /\ PlaceInv /\ at[p] = "commit" /\ AfterNext(p)
  BY QuietFacts DEF Commit
<1>2. PICK j \in Jobs : j = held[p]
  BY <1>1, Apart DEF PlaceInv, TypeOK
<1>3. PICK last \in BOOLEAN : last <=> job[j].run_count = 1
  OBVIOUS
<1>4. PICK c \in Cores : c = CoreOf(p)
  BY <1>1, CoreAtHand
<1>5. /\ job' = [job EXCEPT ![j].run_count = @ - 1, ![j].committed = @ \/ last]
      /\ engine' = [d \in Cores |-> IF last /\ d \in job[j].cores THEN j ELSE engine[d]]
      /\ held' = [held EXCEPT ![p] = NoJob]
      /\ last => \A d \in job[j].cores : running[d] = j
      /\ running' = running /\ todo_list' = todo_list /\ irq' = irq
      /\ soft_reseting' = soft_reseting
  <2>1. mishaps' = mishaps \cup (IF last /\ \E d \in job[j].cores : running[d] # j
                                 THEN {"overlap"} ELSE {})
    BY <1>2, <1>3 DEF Commit, Noted, If
  <2> QED BY <1>2, <1>3, <2>1 DEF Commit, coreVars, resetVars
<1>6. /\ Taking(p, c, j) /\ c \in Pending(j) /\ running[c] = j /\ ~Unqueued(j)
      /\ ~job[j].committed /\ job[j].run_count >= 1 /\ job[j] \in JobRecord
      /\ job[j].run_count \in Nat
  <2>1. Taking(p, c, j)
    BY <1>1, <1>2, <1>4 DEF Taking
  <2>2. c \in Pending(j) /\ SmoothInv(j)
    BY <2>1, QuietFacts DEF Pending
  <2>3. job[j] \in JobRecord
    BY <1>1 DEF TypeInv
  <2> QED BY <2>1, <2>2, <2>3, OnTheWay, CoresNumbered DEF SmoothInv, JobRecord
<1>7. /\ job'[j].run_count = job[j].run_count - 1
      /\ job'[j].committed <=> last
      /\ job'[j].interrupt_count = job[j].interrupt_count /\ job'[j].done = job[j].done
      /\ job'[j].nonblock = job[j].nonblock
      /\ \A k \in Jobs \ {j} : job'[k] = job[k]
  <2> DEFINE x == [job[j] EXCEPT !.run_count = @ - 1]
             y == [x EXCEPT !.committed = @ \/ last]
  <2>1. /\ y.run_count = job[j].run_count - 1 /\ (y.committed <=> last)
        /\ y.interrupt_count = job[j].interrupt_count /\ y.done = job[j].done
        /\ y.nonblock = job[j].nonblock
    BY <1>6 DEF JobRecord
  <2>2. job' = [job EXCEPT ![j] = y]
    BY <1>1, <1>5 DEF TypeInv
  <2> HIDE DEF y
  <2> QED BY <1>1, <2>1, <2>2 DEF TypeInv
<1>8. /\ held'[p] = NoJob /\ \A q \in Procs \ {p} : held'[q] = held[q]
      /\ \A q \in Procs \ {p} : at'[q] = at[q]
      /\ p \in Cores => at'[p] = "idle" /\ p = c
  BY <1>1, <1>4, <1>5, AfterNextFacts, CoreAtHand DEF TypeOK
<1>9. \A k \in Jobs, q \in Procs, d \in Cores :
        Taking(q, d, k)' <=> q # p /\ Taking(q, d, k)
  BY <1>1, <1>8, AfterNextTakings
<1>10. \A k \in Jobs : Remaining(k)' = Remaining(k)
  <2>1. ASSUME NEW k \in Jobs, NEW d \in Cores PROVE d \in Remaining(k)' <=> d \in Remaining(k)
    <3>1. CASE d = p
      <4>1. d = c /\ running[d] = j /\ held[d] = j /\ held'[d] = NoJob
        BY <1>2, <1>6, <1>8, <3>1
      <4> QED BY <1>5, <4>1, Apart DEF Remaining
    <3>2. CASE d # p
      BY <1>5, <1>8, <3>2, Apart DEF Remaining
    <3> QED BY <3>1, <3>2
  <2> QED BY <2>1 DEF Remaining
<1>11. \A k \in Jobs : GoesOnCalmly(k)
  BY <1>1, <1>8, AfterNextCalmly
<1>12. \A k \in Jobs \ {j} : SmoothInv(k)'
  <2>1. ASSUME NEW k \in Jobs \ {j} PROVE SmoothInv(k)'
    <3>1. \A q \in Procs, d \in Cores : Taking(q, d, k)' <=> Taking(q, d, k)
      BY <1>2, <1>9 DEF Taking
    <3>2. Pending(k)' = Pending(k)
      BY <1>5, <3>1 DEF Pending
    <3>3. SamePlaces(k) /\ SameCounts(k) /\ SmoothInv(k)
      BY <1>5, <1>7, <1>10, <3>1, <3>2, QuietFacts DEF SamePlaces, SameCounts
    <3> QED BY <1>11, <3>3, SmoothKept
  <2> QED BY <2>1
<1>13. SmoothInv(j)'
  <2>1. SmoothInv(j) /\ OnceInv(j)
    BY QuietFacts
  <2>2. Pending(j)' = Pending(j) \ {c}
    <3>1. ASSUME NEW d \in Cores PROVE d \in Pending(j)' <=> d \in Pending(j) /\ d # c
      <4>1. CASE d = c
        <5>1. j \notin ToSet(todo_list[c]) /\ \A q \in Procs : Taking(q, c, j) => q = p
          BY <1>6, <2>1 DEF OnceInv
        <5> QED BY <1>5, <1>9, <4>1, <5>1 DEF Pending
      <4>2. CASE d # c
        <5>1. ~Taking(p, d, j)
          BY <1>4, <4>2 DEF Taking
        <5> QED BY <1>5, <1>9, <4>2, <5>1 DEF Pending
      <4> QED BY <4>1, <4>2
    <3> QED BY <3>1 DEF Pending
  <2>3. Pending(j) \in SUBSET Cores /\ Cardinality(Pending(j)') = Cardinality(Pending(j)) - 1
    <3>1. Pending(j) \in SUBSET Cores
      BY DEF Pending
    <3> QED BY <1>6, <2>2, <3>1, CoreSets
  <2>4. job[j].run_count = Cardinality(Pending(j)) /\ ~job[j].done
    BY <1>6, <2>1 DEF SmoothInv
  <2>5. \A q \in Procs, d \in Cores : Taking(q, d, j)' => running'[d] = j
    BY <1>5, <1>9, <2>1 DEF SmoothInv
  <2>6. job'[j].committed <=> job'[j].run_count = 0
    BY <1>3, <1>6, <1>7
  <2>7. job'[j].run_count = Cardinality(Pending(j)')
    BY <1>7, <2>3, <2>4
  <2>8. /\ job'[j].interrupt_count = Cardinality(Remaining(j)')
        /\ job'[j].done <=> job'[j].interrupt_count = 0
    BY <1>6, <1>7, <1>10, <2>1 DEF SmoothInv
  <2>9. /\ at'[j] \notin {"flush", "abort", "sleep", "reset", "resetting"}
        /\ at'[j] = "free" \/ (at'[j] = "out" /\ ~job'[j].nonblock) => job'[j].done
    BY <1>7, <1>11 DEF GoesOnCalmly
  <2> QED BY <1>7, <2>4, <2>5, <2>6, <2>7, <2>8, <2>9 DEF SmoothInv
<1>14. ASSUME NEW d \in Cores PROVE AwakeInv(d)'
  <2>1. /\ AwakeInv(d) /\ running[d] \in Jobs \cup {NoJob}
        /\ at[d] \in {"status", "done"} => held[d] \in Jobs
    BY <1>1, HoldsJob, QuietFacts DEF TypeOK
  <2>2. /\ d # p => at'[d] = at[d] /\ held'[d] = held[d]
        /\ d = p => d = c /\ at'[d] = "idle"
    BY <1>8, Apart
  <2>3. ASSUME todo_list[d] # << >>, running[d] = NoJob
        PROVE  at'[d] \in {"done", "next"} \/ \E q \in Jobs : Coming(q, d)'
    <3>1. d # c
      BY <1>6, <2>3, Apart
    <3>2. at[d] \in {"done", "next"} \/ \E q \in Jobs : Coming(q, d)
      BY <2>1, <2>3 DEF AwakeInv
    <3>3. \A q \in Jobs : Coming(q, d) => Coming(q, d)'
      BY <1>1, <1>4, <3>1, StillComing
    <3> QED BY <2>2, <3>1, <3>2, <3>3
  <2>4. ASSUME running[d] # NoJob, job'[running[d]].committed
        PROVE  engine'[d] = running[d] \/ irq[d] = "valid"
    <3>1. CASE running[d] = j
      <4>1. last /\ d \in Remaining(j) /\ OnceInv(j)
        BY <1>7, <2>4, <3>1, QuietFacts DEF Remaining
      <4>2. d \in job[j].cores
        BY <4>1 DEF OnceInv
      <4> QED BY <1>5, <3>1, <4>1, <4>2
    <3>2. CASE running[d] # j
      <4>1. engine'[d] = engine[d] /\ job[running[d]].committed
        BY <1>5, <1>7, <2>1, <2>4, <3>2
      <4> QED BY <2>1, <2>4, <4>1 DEF AwakeInv
    <3> QED BY <3>1, <3>2
  <2>5. ASSUME at'[d] \in {"status", "done"} PROVE job'[held'[d]].committed
    <3>1. at[d] \in {"status", "done"} /\ held'[d] = held[d] /\ held[d] \in Jobs
      BY <2>1, <2>2, <2>5
    <3>2. job[held[d]].committed
      BY <2>1, <3>1 DEF AwakeInv
    <3> QED BY <1>6, <1>7, <3>1, <3>2
  <2> QED BY <1>5, <2>3, <2>4, <2>5 DEF AwakeInv
<1> QED BY <1>5, <1>12, <1>13, <1>14 DEF WakeInv, Quiet

\* An interrupt handler or the hardware of the core c does something.
AtCore(c) ==
  /\ at[c] # "commit" /\ at'[c] # "commit"
  /\ \A q \in Procs \ {c} : at'[q] = at[q] /\ held'[q] = held[q]
  /\ \A d \in Cores \ {c} :
       running'[d] = running[d] /\ engine'[d] = engine[d] /\ irq'[d] = irq[d]
  /\ left' = left /\ todo_list' = todo_list /\ soft_reseting' = soft_reseting
  /\ \A k \in Jobs : job'[k].committed = job[k].committed

LEMMA AtCoreFacts ==
  ASSUME Quiet, NEW c \in Cores, AtCore(c)
  PROVE  /\ \A k \in Jobs, q \in Procs, d \in Cores : Taking(q, d, k)' <=> Taking(q, d, k)
         /\ \A k \in Jobs : Pending(k)' = Pending(k) /\ GoesOnCalmly(k)
         /\ \A q \in Jobs, d \in Cores : Coming(q, d)' <=> Coming(q, d)
         /\ \A d \in Cores \ {c} : AwakeInv(d)'
<1>1. \A q \in Procs : CoreOf(q)' = CoreOf(q)
  BY DEF CoreOf, AtCore
<1>2. \A k \in Jobs, q \in Procs, d \in Cores : Taking(q, d, k)' <=> Taking(q, d, k)
  <2>1. ASSUME NEW k \in Jobs, NEW q \in Procs, NEW d \in Cores
        PROVE  Taking(q, d, k)' <=> Taking(q, d, k)
    <3>1. CASE q = c
      BY <3>1 DEF Taking, AtCore
    <3>2. CASE q # c
      BY <1>1, <3>2 DEF Taking, AtCore
    <3> QED BY <3>1, <3>2
  <2> QED BY <2>1
<1>3. \A k \in Jobs : Pending(k)' = Pending(k)
  BY <1>2 DEF Pending, AtCore
<1>4. \A k \in Jobs : GoesOnCalmly(k)
  BY QuietFacts, StaysCalmly, Apart DEF AtCore
<1>5. \A q \in Jobs, d \in Cores : Coming(q, d)' <=> Coming(q, d)
  <2>1. ASSUME NEW q \in Jobs, NEW d \in Cores PROVE Coming(q, d)' <=> Coming(q, d)
    <3>1. at'[q] = at[q] /\ left' = left /\ CoreOf(q)' = CoreOf(q)
      BY <1>1, Apart DEF AtCore
    <3> QED BY <3>1 DEF Coming
  <2> QED BY <2>1
<1>6. ASSUME NEW d \in Cores \ {c} PROVE AwakeInv(d)'
  <2>1. /\ AwakeInv(d) /\ TypeOK /\ (at[d] \in {"status", "done"} => held[d] \in Jobs)
        /\ at'[d] = at[d] /\ held'[d] = held[d]
    BY QuietFacts, HoldsJob, Apart DEF AtCore
  <2> QED BY <1>5, <2>1, AwakeKept DEF AtCore
<1> QED BY <1>2, <1>3, <1>4, <1>5, <1>6

\* The job that runs on the core keeps it.
LEMMA AtCoreKept ==
  ASSUME Quiet, NEW c \in Cores, AtCore(c), running'[c] = running[c],
         \A k \in Jobs : SameCounts(k),
         \A k \in Jobs : (held'[c] = k <=> held[c] = k) \/ running[c] = k,
         AwakeInv(c)'
  PROVE  WakeInv'
<1>1. ASSUME NEW k \in Jobs PROVE SmoothInv(k)'
  <2>1. Pending(k)' = Pending(k) /\ GoesOnCalmly(k) /\ SmoothInv(k)
    BY AtCoreFacts, QuietFacts
  <2>2. \A d \in Cores : running'[d] = running[d]
    BY DEF AtCore
  <2>3. Remaining(k)' = Remaining(k)
    <3>1. \A d \in Cores : (held'[d] = k <=> held[d] = k) \/ running[d] = k
      BY Apart DEF AtCore
    <3> QED BY <2>2, <3>1 DEF Remaining, AtCore
  <2>4. SamePlaces(k)
    BY <2>1, <2>2, <2>3, AtCoreFacts DEF SamePlaces
  <2> QED BY <2>1, <2>4, SmoothKept
<1>2. \A d \in Cores : AwakeInv(d)'
  BY AtCoreFacts
<1> QED BY <1>1, <1>2 DEF WakeInv, Quiet, AtCore

LEMMA EngineFinishesWake ==
  ASSUME Quiet, mishaps' = {}, NEW c \in Cores, EngineFinishes(c)
  PROVE  WakeInv'
<1>1. TypeOK /\ TypeInv /\ PlaceInv /\ AwakeInv(c) /\ engine[c] # NoJob
  BY QuietFacts DEF EngineFinishes
<1>2. /\ engine' = [engine EXCEPT ![c] = NoJob] /\ irq' = [irq EXCEPT ![c] = "valid"]
      /\ job' = job /\ at' = at /\ held' = held /\ left' = left /\ running' = running
      /\ todo_list' = todo_list /\ soft_reseting' = soft_reseting
  BY DEF EngineFinishes, Mishap, coreVars, resetVars
<1>3. at[c] # "commit"
  <2>1. ASSUME at[c] = "commit" PROVE FALSE
    <3>1. PICK j \in Jobs : j = held[c]
      BY <1>1, <2>1, HoldsJob
    <3>2. Taking(c, c, j)
      BY <2>1, <3>1, Apart DEF Taking, CoreOf
    <3>3. c \in Pending(j) /\ running[c] = j
      BY <3>2, QuietFacts, Apart DEF Pending, SmoothInv
    <3> QED BY <1>1, <3>3, OnTheWay, QuietFacts, Apart
  <2> QED BY <2>1
<1>4. AtCore(c)
  BY <1>1, <1>2, <1>3 DEF AtCore, TypeOK, TypeInv
<1>5. AwakeInv(c)'
  <2>1. irq'[c] = "valid" /\ \A q \in Jobs : Coming(q, c)' <=> Coming(q, c)
    BY <1>1, <1>2, <1>4, AtCoreFacts DEF TypeInv
  <2> QED BY <1>1, <1>2, <2>1 DEF AwakeInv
<1> QED BY <1>2, <1>4, <1>5, AtCoreKept DEF SameCounts

\* Only a job that was started has an interrupt.
LEMMA IrqEnterWake ==
  ASSUME Quiet, NEW c \in Cores, IrqEnter(c)
  PROVE  WakeInv'
<1>1. /\ TypeOK /\ TypeInv /\ PlaceInv /\ AwakeInv(c) /\ at[c] = "idle" /\ irq[c] # "none"
      /\ held[c] = NoJob
  BY QuietFacts DEF IrqEnter, PlaceInv
<1>2. /\ left' = left /\ running' = running /\ todo_list' = todo_list /\ engine' = engine
      /\ soft_reseting' = soft_reseting
  BY DEF IrqEnter, coreVars, resetVars
<1>3. CASE running[c] = NoJob
  <2>1. /\ job' = job /\ held' = held /\ irq' = [irq EXCEPT ![c] = "none"]
        /\ at' = [at EXCEPT ![c] = "next"]
    BY <1>3 DEF IrqEnter, Goto
  <2>2. AtCore(c) /\ at'[c] = "next"
    BY <1>1, <1>2, <2>1, Apart DEF AtCore, TypeOK, TypeInv
  <2>3. AwakeInv(c)'
    BY <1>2, <1>3, <2>2 DEF AwakeInv
  <2> QED BY <1>2, <2>1, <2>2, <2>3, AtCoreKept DEF SameCounts
<1>4. CASE running[c] # NoJob
  <2>1. PICK j \in Jobs : j = running[c]
    BY <1>1, <1>4 DEF TypeOK
  <2>2. /\ job' = [job EXCEPT ![j].irq_entry = @ \cup {c}]
        /\ held' = [held EXCEPT ![c] = j] /\ irq' = irq /\ at' = [at EXCEPT ![c] = "status"]
    BY <1>4, <2>1 DEF IrqEnter, Goto
  <2>3. \A k \in Jobs : SameCounts(k)
    BY <1>1, <2>2 DEF SameCounts, TypeInv, JobRecord
  <2>4. AtCore(c) /\ at'[c] = "status" /\ held'[c] = j
    BY <1>1, <1>2, <2>2, <2>3, Apart DEF AtCore, TypeOK, SameCounts
  <2>5. job[j].committed
    BY <1>1, <1>4, <2>1, QuietFacts
  <2>6. AwakeInv(c)'
    BY <1>1, <1>2, <1>4, <2>1, <2>2, <2>3, <2>4, <2>5 DEF AwakeInv, SameCounts
  <2>7. \A k \in Jobs : (held'[c] = k <=> held[c] = k) \/ running[c] = k
    BY <1>1, <2>1, <2>4, Apart
  <2> QED BY <1>2, <2>3, <2>4, <2>6, <2>7, AtCoreKept
<1> QED BY <1>3, <1>4

\* The job whose interrupt is handled runs on the core.
LEMMA StatusFacts ==
  ASSUME Quiet, NEW c \in Cores, at[c] = "status"
  PROVE  held[c] \in Jobs /\ running[c] = held[c] /\ job[held[c]].committed
<1>1. TypeOK /\ PlaceInv /\ AwakeInv(c)
  BY QuietFacts
<1>2. held[c] \in Jobs
  BY <1>1, HoldsJob
<1> QED BY <1>1, <1>2, QuietFacts DEF AwakeInv

LEMMA IrqInvalidWake ==
  ASSUME Quiet, NEW c \in Cores, IrqInvalid(c)
  PROVE  WakeInv'
<1>1. /\ TypeOK /\ TypeInv /\ AwakeInv(c) /\ at[c] = "status" /\ irq[c] # "valid"
  BY QuietFacts DEF IrqInvalid
<1>2. /\ irq' = [irq EXCEPT ![c] = "none"] /\ held' = [held EXCEPT ![c] = NoJob]
      /\ at' = [at EXCEPT ![c] = "idle"]
      /\ job' = job /\ left' = left /\ running' = running /\ todo_list' = todo_list
      /\ engine' = engine /\ soft_reseting' = soft_reseting
  BY DEF IrqInvalid, Goto, coreVars, resetVars
<1>3. held[c] \in Jobs /\ running[c] = held[c] /\ job[held[c]].committed
  BY <1>1, StatusFacts
<1>4. AtCore(c) /\ at'[c] = "idle" /\ held'[c] = NoJob
  BY <1>1, <1>2, Apart DEF AtCore, TypeOK, TypeInv
<1>5. AwakeInv(c)'
  BY <1>1, <1>2, <1>3, <1>4, Apart DEF AwakeInv
<1>6. \A k \in Jobs : (held'[c] = k <=> held[c] = k) \/ running[c] = k
  BY <1>3, <1>4, Apart
<1> QED BY <1>2, <1>4, <1>5, <1>6, AtCoreKept DEF SameCounts

LEMMA IrqNextBatchWake ==
  ASSUME Quiet, NEW c \in Cores, IrqNextBatch(c)
  PROVE  WakeInv'
<1>1. TypeOK /\ TypeInv /\ AwakeInv(c) /\ at[c] = "status"
  BY QuietFacts DEF IrqNextBatch
<1>2. PICK j : j = held[c]
  OBVIOUS
<1>3. /\ job' = [job EXCEPT ![j].submit_count[c] = @ + 1]
      /\ engine' = [engine EXCEPT ![c] = j] /\ irq' = [irq EXCEPT ![c] = "none"]
      /\ held' = [held EXCEPT ![c] = NoJob] /\ at' = [at EXCEPT ![c] = "idle"]
      /\ left' = left /\ running' = running /\ todo_list' = todo_list
      /\ soft_reseting' = soft_reseting
  BY <1>2 DEF IrqNextBatch, Goto, coreVars, resetVars
<1>4. j \in Jobs /\ running[c] = j
  BY <1>1, <1>2, StatusFacts
<1>5. \A k \in Jobs : SameCounts(k)
  BY <1>1, <1>3 DEF SameCounts, TypeInv, JobRecord
<1>6. AtCore(c) /\ at'[c] = "idle" /\ held'[c] = NoJob /\ engine'[c] = j
  BY <1>1, <1>3, <1>5, Apart DEF AtCore, TypeOK, TypeInv, SameCounts
<1>7. AwakeInv(c)'
  BY <1>3, <1>4, <1>6, Apart DEF AwakeInv
<1>8. \A k \in Jobs : (held'[c] = k <=> held[c] = k) \/ running[c] = k
  BY <1>2, <1>4, <1>6, Apart
<1> QED BY <1>3, <1>5, <1>6, <1>7, <1>8, AtCoreKept

\* The job leaves the core, and the handler goes to rknpu_job_next.
LEMMA IrqLastBatchWake ==
  ASSUME Quiet, NEW c \in Cores, IrqLastBatch(c)
  PROVE  WakeInv'
<1>1. TypeOK /\ TypeInv /\ AwakeInv(c) /\ at[c] = "status"
  BY QuietFacts DEF IrqLastBatch
<1>2. PICK j : j = held[c]
  OBVIOUS
<1>3. /\ job' = [job EXCEPT ![j].submit_count[c] = @ + 1]
      /\ irq' = [irq EXCEPT ![c] = "none"] /\ running' = [running EXCEPT ![c] = NoJob]
      /\ at' = [at EXCEPT ![c] = "done"]
      /\ held' = held /\ left' = left /\ todo_list' = todo_list /\ engine' = engine
      /\ soft_reseting' = soft_reseting
  BY <1>2 DEF IrqLastBatch, Goto, resetVars
<1>4. j \in Jobs /\ running[c] = j /\ job[j].committed
  BY <1>1, <1>2, StatusFacts
<1>5. \A k \in Jobs : SameCounts(k)
  BY <1>1, <1>3 DEF SameCounts, TypeInv, JobRecord
<1>6. AtCore(c) /\ at'[c] = "done" /\ running'[c] = NoJob
  BY <1>1, <1>3, <1>5, Apart DEF AtCore, TypeOK, TypeInv, SameCounts
<1>7. AwakeInv(c)'
  BY <1>2, <1>3, <1>4, <1>5, <1>6 DEF AwakeInv, SameCounts
<1>8. ASSUME NEW k \in Jobs PROVE SmoothInv(k)'
  <2>1. Pending(k)' = Pending(k) /\ GoesOnCalmly(k) /\ SmoothInv(k)
    BY <1>6, AtCoreFacts, QuietFacts
  <2>2. \A d \in Cores : d # c => running'[d] = running[d]
    BY <1>6 DEF AtCore
  <2>3. Remaining(k)' = Remaining(k)
    <3>1. ASSUME NEW d \in Cores PROVE d \in Remaining(k)' <=> d \in Remaining(k)
      <4>1. CASE d = c
        BY <1>2, <1>3, <1>4, <1>6, <4>1, Apart DEF Remaining
      <4>2. CASE d # c
        BY <1>3, <2>2, <4>2 DEF Remaining
      <4> QED BY <4>1, <4>2
    <3> QED BY <3>1 DEF Remaining
  <2>4. \A q \in Procs : Taking(q, c, k) => k # j
    <3>1. ASSUME NEW q \in Procs, Taking(q, c, j) PROVE FALSE
      <4>1. c \in Pending(j)
        BY <3>1 DEF Pending
      <4> QED BY <1>4, <4>1, OnTheWay
    <3> QED BY <3>1
  <2>5. SamePlaces(k)
    <3>1. \A q \in Procs, d \in Cores : Taking(q, d, k) /\ running[d] = k => running'[d] = k
      BY <1>4, <2>2, <2>4
    <3> QED BY <1>6, <2>1, <2>3, <3>1, AtCoreFacts DEF SamePlaces
  <2> QED BY <1>5, <2>1, <2>5, SmoothKept
<1>9. \A d \in Cores : AwakeInv(d)'
  BY <1>6, <1>7, AtCoreFacts
<1> QED BY <1>3, <1>8, <1>9 DEF WakeInv, Quiet

\* The job has one core less before it; the last one completes it.
LEMMA JobDoneWake ==
  ASSUME Quiet, NEW c \in Cores, JobDone(c)
  PROVE  WakeInv'
<1>1. TypeOK /\ TypeInv /\ PlaceInv /\ AwakeInv(c) /\ at[c] = "done"
  BY QuietFacts DEF JobDone
<1>2. PICK j \in Jobs : j = held[c]
  BY <1>1, HoldsJob
<1>3. PICK last \in BOOLEAN : last <=> job[j].interrupt_count = 1
  OBVIOUS
<1>4. /\ job' = [job EXCEPT ![j].interrupt_count = @ - 1, ![j].done = last]
      /\ held' = [held EXCEPT ![c] = NoJob] /\ at' = [at EXCEPT ![c] = "next"]
      /\ left' = left /\ running' = running /\ todo_list' = todo_list
      /\ engine' = engine /\ irq' = irq /\ soft_reseting' = soft_reseting
  BY <1>2, <1>3 DEF JobDone, Goto, coreVars, hwVars, resetVars
<1>5. /\ c \in Remaining(j) /\ ~Unqueued(j) /\ ~job[j].done /\ job[j].interrupt_count >= 1
      /\ job[j].committed /\ job[j] \in JobRecord /\ job[j].interrupt_count \in Nat
      /\ SmoothInv(j) /\ OnceInv(j)
  <2>1. c \in Remaining(j) /\ job[j] \in JobRecord
    BY <1>1, <1>2 DEF Remaining, TypeInv
  <2> QED BY SMTT(30), <1>1, <1>2, <2>1, OnTheWay, QuietFacts, CoresNumbered DEF AwakeInv, JobRecord
<1>6. /\ job'[j].interrupt_count = job[j].interrupt_count - 1 /\ (job'[j].done <=> last)
      /\ job'[j].run_count = job[j].run_count /\ job'[j].nonblock = job[j].nonblock
      /\ job'[j].committed = job[j].committed
      /\ \A k \in Jobs \ {j} : job'[k] = job[k]
  <2> DEFINE x == [job[j] EXCEPT !.interrupt_count = @ - 1]
             y == [x EXCEPT !.done = last]
  <2>1. /\ y.interrupt_count = job[j].interrupt_count - 1 /\ (y.done <=> last)
        /\ y.run_count = job[j].run_count /\ y.nonblock = job[j].nonblock
        /\ y.committed = job[j].committed
    BY <1>5 DEF JobRecord
  <2>2. job' = [job EXCEPT ![j] = y]
    BY <1>1, <1>4 DEF TypeInv
  <2> HIDE DEF y
  <2> QED BY <1>1, <2>1, <2>2 DEF TypeInv
<1>7. AtCore(c) /\ at'[c] = "next" /\ held'[c] = NoJob
  BY <1>1, <1>4, <1>6, Apart DEF AtCore, TypeOK, TypeInv
<1>8. AwakeInv(c)'
  BY ZenonT(60), <1>1, <1>4, <1>6, <1>7, Apart DEF AwakeInv, TypeOK
<1>9. \A k \in Jobs, d \in Cores :
        d \in Remaining(k)' <=> d \in Remaining(k) /\ ~(k = j /\ d = c)
  <2>1. j \notin ToSet(todo_list[c]) /\ running[c] # j
    BY <1>1, <1>2, <1>5 DEF OnceInv
  <2>2. ASSUME NEW k \in Jobs, NEW d \in Cores
        PROVE  d \in Remaining(k)' <=> d \in Remaining(k) /\ ~(k = j /\ d = c)
    <3>1. CASE d = c
      BY <1>2, <1>4, <1>7, <2>1, <3>1, Apart DEF Remaining
    <3>2. CASE d # c
      BY <1>4, <1>7, <3>2, Apart DEF Remaining, AtCore
    <3> QED BY <3>1, <3>2
  <2> QED BY <2>2
<1>10. \A k \in Jobs \ {j} : SmoothInv(k)'
  <2>1. ASSUME NEW k \in Jobs \ {j} PROVE SmoothInv(k)'
    <3>1. Pending(k)' = Pending(k) /\ GoesOnCalmly(k) /\ SmoothInv(k)
      BY <1>7, AtCoreFacts, QuietFacts
    <3>2. Remaining(k)' = Remaining(k)
      BY <1>9 DEF Remaining
    <3>3. SamePlaces(k) /\ SameCounts(k)
      BY <1>4, <1>6, <1>7, <3>1, <3>2, AtCoreFacts DEF SamePlaces, SameCounts
    <3> QED BY <3>1, <3>3, SmoothKept
  <2> QED BY <2>1
<1>11. SmoothInv(j)'
  <2>1. Remaining(j)' = Remaining(j) \ {c} /\ Remaining(j) \in SUBSET Cores
    BY <1>9 DEF Remaining
  <2>2. Cardinality(Remaining(j)') = Cardinality(Remaining(j)) - 1
    BY <1>5, <2>1, CoreSets
  <2>3. job'[j].interrupt_count = Cardinality(Remaining(j)')
    BY <1>5, <1>6, <2>2 DEF SmoothInv
  <2>4. job'[j].done <=> job'[j].interrupt_count = 0
    BY <1>3, <1>5, <1>6
  <2>5. /\ job'[j].run_count = Cardinality(Pending(j)')
        /\ job'[j].committed <=> job'[j].run_count = 0
    BY <1>5, <1>6, <1>7, AtCoreFacts DEF SmoothInv
  <2>6. \A q \in Procs, d \in Cores : Taking(q, d, j)' => running'[d] = j
    BY <1>4, <1>5, <1>7, AtCoreFacts DEF SmoothInv
  <2>7. at'[j] = at[j]
    BY <1>7, Apart DEF AtCore
  <2>8. /\ at'[j] \notin {"flush", "abort", "sleep", "reset", "resetting"}
        /\ ~(at'[j] = "free" \/ (at'[j] = "out" /\ ~job'[j].nonblock))
    BY <1>5, <1>6, <2>7 DEF SmoothInv
  <2> QED BY <1>5, <1>6, <2>3, <2>4, <2>5, <2>6, <2>8 DEF SmoothInv
<1>12. \A d \in Cores : AwakeInv(d)'
  BY <1>7, <1>8, AtCoreFacts
<1> QED BY <1>4, <1>10, <1>11, <1>12 DEF WakeInv, Quiet

\* Nobody gives up, aborts or resets.
LEMMA NobodyGivesUp ==
  ASSUME Quiet, mishaps' = {}, NEW j \in Jobs
  PROVE  /\ ~CleanFlush(j) /\ ~AbortPut(j) /\ ~AbortClear(j)
         /\ ~ResetSkip(j) /\ ~ResetBegin(j) /\ ~ResetEnd(j)
         /\ ~CleanOverdue(j) /\ ~ScheduleFails(j) /\ ~WaitTimesOut(j)
<1>1. SmoothInv(j)
  BY QuietFacts
<1>2. /\ ~CleanFlush(j) /\ ~AbortPut(j) /\ ~AbortClear(j)
      /\ ~ResetSkip(j) /\ ~ResetBegin(j) /\ ~ResetEnd(j)
  BY <1>1 DEF SmoothInv, CleanFlush, AbortPut, AbortClear, ResetSkip, ResetBegin, ResetEnd
<1>3. ~CleanOverdue(j) /\ ~ScheduleFails(j) /\ ~WaitTimesOut(j)
  BY DEF CleanOverdue, ScheduleFails, WaitTimesOut, Mishap, Noted
<1> QED BY <1>2, <1>3

LEMMA NextWake ==
  ASSUME IInv, WakeInv, Next
  PROVE  WakeInv'
<1> SUFFICES ASSUME mishaps' = {} PROVE WakeInv'
  BY DEF WakeInv
<1>1. Quiet
  <2>1. Grown
    BY NextGrows
  <2>2. mishaps = {}
    BY <2>1 DEF Grown
  <2> QED BY <2>2 DEF Quiet, WakeInv
<1>2. ASSUME NEW j \in Jobs,
             \/ Submit(j) \/ CleanSkip(j) \/ ScheduleDomain(j) \/ Enqueue(j)
             \/ WaitWoken(j) \/ Free(j)
      PROVE  WakeInv'
  BY <1>1, <1>2, SubmitWake, CleanSkipWake, ScheduleDomainWake, EnqueueWake, WaitWokenWake,
     FreeWake
<1>3. ASSUME NEW j \in Jobs, CleanupWork(j) PROVE WakeInv'
  BY <1>1, <1>3, SameWake DEF CleanupWork, coreVars, hwVars, resetVars
<1>4. ASSUME NEW p \in Procs, NextNothing(p) \/ NextTake(p) \/ Commit(p)
      PROVE  WakeInv'
  BY <1>1, <1>4, NextNothingWake, NextTakeWake, CommitWake
<1>5. ASSUME NEW c \in Cores,
             \/ IrqEnter(c) \/ IrqInvalid(c) \/ IrqNextBatch(c) \/ IrqLastBatch(c)
             \/ JobDone(c) \/ EngineFinishes(c)
      PROVE  WakeInv'
  BY <1>1, <1>5, IrqEnterWake, IrqInvalidWake, IrqNextBatchWake, IrqLastBatchWake,
     JobDoneWake, EngineFinishesWake
<1> QED BY <1>1, <1>2, <1>3, <1>4, <1>5, NobodyGivesUp, Apart DEF Next, Submitter, Handler

LEMMA StutterWake ==
  ASSUME IInv, WakeInv, UNCHANGED vars
  PROVE  WakeInv'
<1> SUFFICES ASSUME mishaps' = {} PROVE WakeInv'
  BY DEF WakeInv
<1>1. /\ job' = job /\ at' = at /\ held' = held /\ left' = left /\ running' = running
      /\ todo_list' = todo_list /\ engine' = engine /\ irq' = irq
      /\ soft_reseting' = soft_reseting /\ mishaps' = mishaps
  BY DEF vars, coreVars, hwVars, resetVars, endVars
<1>2. Quiet
  BY <1>1 DEF Quiet, WakeInv
<1> QED BY <1>1, <1>2, SameWake

LEMMA InitWake ==
  ASSUME Init
  PROVE  WakeInv
<1>1. /\ ~soft_reseting
      /\ \A p \in Procs : at[p] = "idle"
      /\ \A j \in Jobs : ~job[j].done
      /\ \A c \in Cores : running[c] = NoJob /\ todo_list[c] = << >>
  BY DEF Init, Unsubmitted
<1>2. ASSUME NEW j \in Jobs PROVE SmoothInv(j)
  <2>1. at[j] = "idle" /\ \A p \in Procs, c \in Cores : ~Taking(p, c, j)
    BY <1>1, Apart DEF Taking
  <2> QED BY <1>1, <2>1 DEF SmoothInv, Unqueued
<1>3. ASSUME NEW c \in Cores PROVE AwakeInv(c)
  BY <1>1, Apart DEF AwakeInv
<1> QED BY <1>1, <1>2, <1>3 DEF WakeInv

(***************************************************************************)
(* No job is left behind.                                                  *)
(***************************************************************************)

\* The hardware is idle, and every call waits or has returned.
AtRest ==
  /\ \A j \in Jobs : at[j] \in {"idle", "wait", "out"} \/ NeedsDomain(j)
  /\ \A c \in Cores : engine[c] = NoJob /\ irq[c] = "none" /\ at[c] = "idle"

\* A job that is not done is then still in a queue.
LEMMA StillQueued ==
  ASSUME Quiet, AtRest, NEW k \in Jobs, ~Unqueued(k), ~job[k].done
  PROVE  \E d \in Cores : k \in ToSet(todo_list[d])
<1>1. /\ SmoothInv(k) /\ PlaceInv /\ \A c \in Cores : AwakeInv(c)
  BY QuietFacts
<1>2. \A c \in Cores : held[c] = NoJob /\ engine[c] = NoJob /\ irq[c] = "none"
  BY <1>1 DEF AtRest, PlaceInv
<1>3. \A p \in Procs : at[p] # "commit"
  BY Apart DEF AtRest, NeedsDomain, Scheduling
<1>4. Cardinality({}) = 0
  BY FS_EmptySet
<1>5. PICK c \in Cores : k \in ToSet(todo_list[c]) \/ running[c] = k
  <2>1. Remaining(k) # {}
    BY <1>1, <1>4 DEF SmoothInv
  <2> QED BY <1>2, <2>1, Apart DEF Remaining
<1>6. CASE running[c] = k
  <2>1. ~job[k].committed
    BY <1>1, <1>2, <1>6, Apart DEF AwakeInv
  <2>2. Pending(k) # {}
    BY <1>1, <1>4, <2>1 DEF SmoothInv
  <2> QED BY <1>3, <2>2 DEF Pending, Taking
<1> QED BY <1>5, <1>6

\* The core of a queue has a job then, which is not done either.
LEMMA CoreTaken ==
  ASSUME Quiet, AtRest, NEW k \in Jobs, NEW d \in Cores, k \in ToSet(todo_list[d])
  PROVE  /\ running[d] \in Jobs /\ ~Unqueued(running[d]) /\ ~job[running[d]].done
         /\ Before(d, running[d], k)
<1>1. TypeOK /\ TypeInv /\ AwakeInv(d)
  BY QuietFacts
<1>2. todo_list[d] \in Seq(Jobs) /\ todo_list[d] # << >> /\ running[d] \in Jobs \cup {NoJob}
  BY <1>1 DEF TypeOK, TypeInv, ToSet
<1>3. at[d] = "idle" /\ \A p \in Jobs : ~Coming(p, d)
  BY DEF AtRest, NeedsDomain, Scheduling, Coming
<1>4. running[d] \in Jobs
  BY <1>1, <1>2, <1>3 DEF AwakeInv
<1>5. ~Unqueued(running[d]) /\ ~job[running[d]].done
  BY <1>4, OnTheWay DEF Remaining
<1>6. InOrder(<<running[d]>> \o todo_list[d], running[d], k)
  BY <1>2, <1>4, LineOrder
<1>7. Before(d, running[d], k)
  BY <1>4, <1>6, Apart DEF Before, InOrder, Line
<1> QED BY <1>4, <1>5, <1>7

LEMMA NoneLeftBehind ==
  ASSUME IInv, WakeInv
  PROVE  NoJobLeftBehind
<1> SUFFICES ASSUME mishaps = {}, AtRest
             PROVE  \A j \in Jobs : at[j] = "idle" \/ job[j].done
  BY DEF NoJobLeftBehind, AtRest
<1> DEFINE S == {k \in Jobs : at[k] \in {"wait", "out"} /\ ~job[k].done}
<1>1. Quiet
  BY DEF Quiet, WakeInv
<1>2. S = {}
  <2>1. SUFFICES ASSUME S # {} PROVE FALSE
    OBVIOUS
  <2>2. PICK k \in S : \A m \in S : \A c \in Cores : ~Before(c, m, k)
    <3>1. S \in (SUBSET Jobs) \ {{}}
      BY <2>1
    <3> HIDE DEF S
    <3> QED BY <1>1, <3>1, QuietFacts DEF ConsistentOrder
  <2>3. k \in Jobs /\ ~job[k].done /\ ~Unqueued(k)
    BY DEF Unqueued
  <2>4. PICK d \in Cores : k \in ToSet(todo_list[d])
    BY <1>1, <2>3, StillQueued
  <2>5. PICK m \in Jobs : m = running[d] /\ ~Unqueued(m) /\ ~job[m].done /\ Before(d, m, k)
    BY <1>1, <2>3, <2>4, CoreTaken
  <2>6. at[m] \in {"wait", "out"}
    BY <2>5 DEF AtRest, NeedsDomain, Scheduling, Unqueued
  <2> QED BY <2>2, <2>5, <2>6
<1>3. \A j \in Jobs : ~NeedsDomain(j)
  <2>1. Holders = {}
    <3>1. ASSUME NEW j \in Holders PROVE FALSE
      <4>1. /\ j \in Jobs /\ ~job[j].done
            /\ at[j] \in {"queue", "next", "commit", "wait", "abort", "out"}
        BY DEF Holders
      <4>2. at[j] \in {"wait", "out"}
        BY <4>1 DEF AtRest, NeedsDomain, Scheduling
      <4> QED BY <1>2, <4>1, <4>2
    <3> QED BY <3>1
  <2>2. Clean({"late", "switch", "overdue"}) /\ DomainInv
    BY DEF Clean, IInv
  <2>3. iommu_domain_refcount = 0 /\ attached = iommu_domain_id
    BY <2>1, <2>2, FS_EmptySet DEF DomainInv
  <2> QED BY <2>3 DEF NeedsDomain
<1>4. ASSUME NEW j \in Jobs, at[j] # "idle" PROVE job[j].done
  <2>1. at[j] \in {"wait", "out"}
    BY <1>3, <1>4 DEF AtRest
  <2> QED BY <1>2, <2>1
<1> QED BY <1>4

\* While nothing goes wrong the counts of every job are exact, nobody gives a
\* job up, and a core with a queue and nothing to run is always seen to.
THEOREM AlwaysAwake == Spec => []WakeInv
<1>1. Init => WakeInv
  BY InitWake
<1>2. IInv /\ WakeInv /\ [Next]_vars => WakeInv'
  BY NextWake, StutterWake
<1> QED BY <1>1, <1>2, Invariant, PTL DEF Spec

\* When the hardware is idle and every call waits or has returned, every job is
\* done: no job waits in a queue nobody looks at, jobs on several cores do not
\* wait for each other, and no call waits for a domain nobody uses any more.
THEOREM NothingStuck == Spec => []NoJobLeftBehind
<1>1. IInv /\ WakeInv => NoJobLeftBehind
  BY NoneLeftBehind
<1> QED BY <1>1, Invariant, AlwaysAwake, PTL
=============================================================================
