--------------------------- MODULE NpuDeviceProofs ---------------------------
(***************************************************************************)
(* Proofs about NpuDevice for any number of ioctls and readers.            *)
(* DeviceIInv is inductive; the safety properties of the run follow.       *)
(***************************************************************************)
EXTENDS NpuDevice, FiniteSetTheorems, SequenceTheorems, TLAPS

-----------------------------------------------------------------------------
(* The callers, and how many of them hold a reference.                      *)

LEMMA ProcsAre ==
  /\ Users \subseteq Procs /\ Readers \subseteq Procs
  /\ Debug \in Procs /\ Work \in Procs /\ Debug # Work /\ NoProc \notin Procs
  /\ Debug \notin Users \cup Readers /\ Work \notin Users \cup Readers
  /\ \A p \in Procs : p \in Users \cup Readers \/ p = Debug \/ p = Work
BY PowerAssumption DEF Procs

\* Only the caller that goes on changes its place.
LEMMA Moved ==
  ASSUME pc \in [Procs -> Places], NEW p \in Procs, NEW place, Goto(p, place)
  PROVE  pc'[p] = place /\ \A q \in Procs \ {p} : pc'[q] = pc[q]
BY DEF Goto

LEMMA HoldersFinite == IsFiniteSet(Holders) /\ Cardinality(Holders) \in Nat
<1>1. IsFiniteSet(Users \cup Readers)
  BY PowerAssumption, FS_Union
<1>2. IsFiniteSet(Procs)
  <2>1. IsFiniteSet((Users \cup Readers) \cup {Debug})
    BY <1>1, FS_AddElement
  <2>2. IsFiniteSet(((Users \cup Readers) \cup {Debug}) \cup {Work})
    BY <2>1, FS_AddElement
  <2>3. Procs = ((Users \cup Readers) \cup {Debug}) \cup {Work}
    BY DEF Procs
  <2> QED BY <2>2, <2>3
<1>3. Holders \in SUBSET Procs
  BY DEF Holders
<1> QED BY <1>2, <1>3, FS_Subset, FS_CardinalityType

\* Two different holders make a count of at least two.
LEMMA TwoHolders ==
  ASSUME NEW p \in Holders, NEW q \in Holders, p # q
  PROVE  Cardinality(Holders) >= 2
<1>1. {p, q} \in SUBSET Holders
  OBVIOUS
<1>2. Cardinality({p, q}) = 2
  <2>1. {p, q} = {p} \cup {q}
    OBVIOUS
  <2>2. IsFiniteSet({p}) /\ Cardinality({p}) = 1
    BY FS_Singleton
  <2>3. Cardinality({p} \cup {q}) = IF q \in {p} THEN 1 ELSE 1 + 1
    BY <2>2, FS_AddElement
  <2> QED BY <2>1, <2>3
<1> QED BY <1>1, <1>2, HoldersFinite, FS_Subset

LEMMA OneHolder ==
  ASSUME NEW p \in Holders
  PROVE  Cardinality(Holders) >= 1
<1>1. Holders # {}
  OBVIOUS
<1> QED BY <1>1, HoldersFinite, FS_EmptySet

One(condition) == IF condition THEN 1 ELSE 0

\* A caller that goes from one place to another changes the count by what it
\* holds there.
LEMMA HoldersStep ==
  ASSUME pc \in [Procs -> Places], NEW p \in Procs, NEW place, Goto(p, place)
  PROVE  Cardinality(Holders)' = Cardinality(Holders)
             + One(HoldsAt(p, place)) - One(HoldsAt(p, pc[p]))
<1> USE HoldersFinite DEF One
<1>1. pc'[p] = place /\ \A q \in Procs \ {p} : pc'[q] = pc[q]
  BY DEF Goto
<1>2. p \in Holders <=> HoldsAt(p, pc[p])
  BY DEF Holders
<1>3. Holders' = {q \in Procs : HoldsAt(q, pc'[q])}
  BY DEF Holders, HoldsAt
<1>4. CASE HoldsAt(p, place)
  <2>1. Holders' = Holders \cup {p}
    BY <1>1, <1>3, <1>4 DEF Holders
  <2>2. Cardinality(Holders \cup {p}) =
          IF p \in Holders THEN Cardinality(Holders) ELSE Cardinality(Holders) + 1
    BY HoldersFinite, FS_AddElement
  <2> QED BY <1>2, <1>4, <2>1, <2>2
<1>5. CASE ~ HoldsAt(p, place)
  <2>1. Holders' = Holders \ {p}
    BY <1>1, <1>3, <1>5 DEF Holders
  <2>2. Cardinality(Holders \ {p}) =
          IF p \in Holders THEN Cardinality(Holders) - 1 ELSE Cardinality(Holders)
    BY HoldersFinite, FS_RemoveElement
  <2> QED BY <1>2, <1>5, <2>1, <2>2
<1> QED BY <1>4, <1>5

-----------------------------------------------------------------------------
(* The sequences of steps.                                                  *)

LEMMA ProbeStepsType ==
  /\ ProbeSteps \in Seq(ToSet(ProbeSteps))
  /\ Len(ProbeSteps) = 14 /\ DOMAIN ProbeSteps = 1 .. 14
<1>1. Len(ProbeSteps) = 14 /\ DOMAIN ProbeSteps = 1 .. 14
  BY DEF ProbeSteps
<1>2. ProbeSteps = [i \in 1 .. 14 |-> ProbeSteps[i]]
  BY DEF ProbeSteps
<1>3. ProbeSteps \in [1 .. 14 -> ToSet(ProbeSteps)]
  BY <1>1, <1>2 DEF ToSet
<1> QED BY <1>1, <1>3, SeqDef

LEMMA RemoveStepsType ==
  /\ RemoveSteps \in Seq(ToSet(RemoveSteps))
  /\ Len(RemoveSteps) = 11 /\ DOMAIN RemoveSteps = 1 .. 11
<1>1. Len(RemoveSteps) = 11 /\ DOMAIN RemoveSteps = 1 .. 11
  BY DEF RemoveSteps
<1>2. RemoveSteps = [i \in 1 .. 11 |-> RemoveSteps[i]]
  BY DEF RemoveSteps
<1>3. RemoveSteps \in [1 .. 11 -> ToSet(RemoveSteps)]
  BY <1>1, <1>2 DEF ToSet
<1> QED BY <1>1, <1>3, SeqDef

\* Which step is which.
LEMMA ProbeStepsAre ==
  \A n \in 1 .. 14 :
    /\ ProbeSteps[n] = "power" <=> n = 7
    /\ ProbeSteps[n] = "off" <=> n = 12
    /\ ProbeSteps[n] = "debugger" <=> n = 13
    /\ ProbeSteps[n] = "wq" <=> n = 9
    /\ ProbeSteps[n] = "sram" <=> n = 10
    /\ ProbeSteps[n] \in {"fence", "power"} <=> n \in {5, 7}
BY DEF ProbeSteps

LEMMA RemoveStepsAre ==
  /\ \A n \in 1 .. 11 :
      /\ RemoveSteps[n] = "cancel" <=> n = 1
      /\ RemoveSteps[n] = "wq" <=> n = 2
      /\ RemoveSteps[n] = "debugger" <=> n = 3
      /\ RemoveSteps[n] = "off" <=> n = 10
      /\ RemoveSteps[n] = "pm" <=> n = 11
BY DEF RemoveSteps

LEMMA RemoveStepsDiffer ==
  \A i, j \in 1 .. 11 : RemoveSteps[i] = RemoveSteps[j] => i = j
BY DEF RemoveSteps

LEMMA ProbeStepsDiffer ==
  \A i, j \in 1 .. 14 : ProbeSteps[i] = ProbeSteps[j] => i = j
BY DEF ProbeSteps

LEMMA AllDone == Done(15) = {RemoveSteps[i] : i \in 1 .. 11} \ NoResource
<1>1. Done(15) = {"group", "minor", "pm", "devfreq", "wq", "sram", "domains",
                  "debugger", "timer"}
  BY DEF Done, ProbeSteps, NoResource
<1>2. {RemoveSteps[i] : i \in 1 .. 11} \ NoResource =
         {"group", "minor", "pm", "devfreq", "wq", "sram", "domains",
                  "debugger", "timer"}
  BY DEF RemoveSteps, NoResource
<1> QED BY <1>1, <1>2

\* What is left of a sequence from its n-th element on.
LEMMA Rest ==
  ASSUME NEW S, NEW s \in Seq(S), NEW n \in 1 .. Len(s)
  PROVE  /\ Head(SubSeq(s, n, Len(s))) = s[n]
         /\ Tail(SubSeq(s, n, Len(s))) = SubSeq(s, n + 1, Len(s))
         /\ Len(SubSeq(s, n, Len(s))) = Len(s) - n + 1
         /\ SubSeq(s, n, Len(s)) \in Seq(S)
<1>1. Len(s) \in n .. Len(s) /\ n \in Int /\ Len(s) \in Int
  OBVIOUS
<1>2. \A i \in n .. Len(s) : s[i] \in S
  OBVIOUS
<1>3. /\ SubSeq(s, n, Len(s)) \in Seq(S)
      /\ Len(SubSeq(s, n, Len(s))) = Len(s) - n + 1
  BY <1>1, <1>2, SubSeqProperties
<1>4. /\ Head(SubSeq(s, n, Len(s))) = s[n]
      /\ Tail(SubSeq(s, n, Len(s))) = SubSeq(s, n + 1, Len(s))
  BY <1>1, HeadTailOfSubSeq
<1> QED BY <1>3, <1>4
-----------------------------------------------------------------------------
(* Where probe and remove are.                                              *)

LEMMA ProbingAt ==
  ASSUME DeviceIInv, phase = "probing"
  PROVE  \E n \in 1 .. 14 :
           /\ steps = SubSeq(ProbeSteps, n, 14) /\ have = Done(n)
           /\ Head(steps) = ProbeSteps[n] /\ Len(steps) = 15 - n
           /\ Tail(steps) = SubSeq(ProbeSteps, n + 1, 14)
           /\ n <= 13 => Idle
           /\ n <= 7 => hw = "off"
           /\ n \in 8 .. 12 => hw = "on"
           /\ ~ cancelled /\ ~ PowerCut
<1>1. PICK n \in 1 .. 14 :
           /\ steps = SubSeq(ProbeSteps, n, 14) /\ have = Done(n)
           /\ n <= 13 => Idle
           /\ n <= 7 => hw = "off"
           /\ n \in 8 .. 12 => hw = "on"
           /\ ~ cancelled
  BY DEF DeviceIInv, ProbingInv
<1>2. /\ Head(steps) = ProbeSteps[n] /\ Len(steps) = 15 - n
      /\ Tail(steps) = SubSeq(ProbeSteps, n + 1, 14)
  BY <1>1, ProbeStepsType, Rest
<1>3. ~ PowerCut
  <2>1. ProbeSteps[14] # "pm"
    BY DEF ProbeSteps
  <2>2. Len(<< "pm" >>) = 1 /\ Head(<< "pm" >>) = "pm"
    OBVIOUS
  <2> QED BY <1>2, <2>1, <2>2 DEF PowerCut
<1> QED BY <1>1, <1>2, <1>3

LEMMA RemovingAt ==
  ASSUME DeviceIInv, phase = "removing"
  PROVE  \E n \in 1 .. 11 :
           /\ steps = SubSeq(RemoveSteps, n, 11)
           /\ have = {RemoveSteps[i] : i \in n .. 11} \ NoResource
           /\ GoneInv(n)
           /\ Head(steps) = RemoveSteps[n] /\ Len(steps) = 12 - n
           /\ Tail(steps) = SubSeq(RemoveSteps, n + 1, 11)
           /\ PowerCut <=> n = 11
           /\ steps = RemoveSteps <=> n = 1
<1>1. PICK n \in 1 .. 11 :
           /\ steps = SubSeq(RemoveSteps, n, 11)
           /\ have = {RemoveSteps[i] : i \in n .. 11} \ NoResource
           /\ GoneInv(n)
  BY DEF DeviceIInv, RemovingInv
<1>2. /\ Head(steps) = RemoveSteps[n] /\ Len(steps) = 12 - n
      /\ Tail(steps) = SubSeq(RemoveSteps, n + 1, 11)
      /\ steps \in Seq(ToSet(RemoveSteps))
  <2> DEFINE S == ToSet(RemoveSteps)
  <2>1. RemoveSteps \in Seq(S) /\ n \in 1 .. Len(RemoveSteps) /\ Len(RemoveSteps) = 11
    BY RemoveStepsType
  <2> HIDE DEF S
  <2>2. steps \in Seq(S)
    BY <1>1, <2>1, Rest
  <2>3. /\ Head(steps) = RemoveSteps[n] /\ Len(steps) = 12 - n
        /\ Tail(steps) = SubSeq(RemoveSteps, n + 1, 11)
    BY <1>1, <2>1, Rest
  <2> QED BY <2>2, <2>3 DEF S
<1>3. PowerCut <=> n = 11
  <2>1. ASSUME n = 11 PROVE steps = << "pm" >>
    <3>1. Len(steps) = 1 /\ steps[1] = "pm"
      BY <1>2, <2>1, RemoveStepsAre
    <3> QED BY <1>2, <3>1
  <2>2. Len(<< "pm" >>) = 1
    OBVIOUS
  <2> QED BY <1>2, <2>1, <2>2 DEF PowerCut
<1>4. steps = RemoveSteps <=> n = 1
  <2>1. SubSeq(RemoveSteps, 1, 11) = RemoveSteps
    BY RemoveStepsType, SubSeqFull
  <2>2. n = 1 => steps = RemoveSteps
    BY <1>1, <2>1
  <2>3. steps = RemoveSteps => 12 - n = 11
    BY <1>2, RemoveStepsType
  <2> QED BY <2>2, <2>3
<1> QED BY <1>1, <1>2, <1>3, <1>4

\* The power is cut only by remove.
LEMMA NotCut ==
  ASSUME DeviceIInv, phase \in {"probing", "failed", "bound"}
  PROVE  ~ PowerCut
<1>1. << >> # << "pm" >>
  OBVIOUS
<1> QED BY <1>1, ProbingAt DEF DeviceIInv, FailedInv, BoundInv, PowerCut

\* A step is one of probe, of remove or one of the power management beside them.
LEMMA DeviceSteps ==
  ASSUME DeviceNext
  PROVE  \/ ProbeStep \/ ProbeFails \/ RemoveBegins \/ RemoveStep
         \/ Next /\ UNCHANGED << phase, steps, have, failed_at, cancelled >>
BY DEF DeviceNext, Open, OpenNode, WriteNode, Call, WorkRuns, Beside, Next

-----------------------------------------------------------------------------
(* The inductive invariant holds at the start, and every step keeps it.     *)

LEMMA InitDeviceIInv == DeviceInit => DeviceIInv
<1> SUFFICES ASSUME DeviceInit PROVE DeviceIInv
  OBVIOUS
<1>1. Idle /\ pc \in [Procs -> Places]
  BY DEF DeviceInit, Init, Idle, Places
<1>2. /\ power_put_delay = TRUE /\ power_lock = NoProc /\ hw = "off"
      /\ phase = "probing" /\ steps = ProbeSteps /\ have = {} /\ failed_at = ""
      /\ mishaps = {} /\ pending = FALSE /\ cancelled = FALSE
  BY DEF DeviceInit, Init
<1> USE PowerAssumption
<1>3. DeviceTypeOK
  <2>1. steps \in Seq(ToSet(ProbeSteps) \cup ToSet(RemoveSteps))
    <3>1. ToSet(ProbeSteps) \subseteq ToSet(ProbeSteps) \cup ToSet(RemoveSteps)
      OBVIOUS
    <3> QED BY <1>2, <3>1, ProbeStepsType, SeqMonotonic
  <2>2. TypeOK
    <3>1. power_refcount \in Nat /\ cmdline_power_refcount \in 0 .. MaxOn
      BY <1>1 DEF Idle
    <3> QED BY <1>1, <1>2, <3>1, Zenon DEF TypeOK
  <2> QED BY <1>1, <1>2, <2>1, <2>2 DEF DeviceTypeOK, Idle
<1>4. CallInv
  BY <1>1, <1>2, ProcsAre DEF CallInv, Locked, Idle
<1>5. CountInv
  <2>1. Holders = {}
    BY <1>1 DEF Holders, HoldsAt, Idle
  <2>2. CmdlineReferences = 0
    BY <1>1, ProcsAre DEF CmdlineReferences, Idle
  <2>3. RefcountExact
    BY <1>1, <2>1, <2>2, FS_EmptySet DEF RefcountExact, Idle
  <2> QED BY <1>1, <2>3 DEF CountInv, Idle, Found
<1>6. HwInv
  <2>1. ~ PowerCut
    <3>1. Len(<< "pm" >>) = 1
      OBVIOUS
    <3>2. Len(steps) = 14
      BY <1>2, ProbeStepsType
    <3>3. 14 # 1
      OBVIOUS
    <3>4. steps # << "pm" >>
      BY <3>1, <3>2, <3>3, Zenon
    <3> QED BY <1>2, <3>4 DEF PowerCut
  <2>2. hw = "off" /\ power_refcount = 0 /\ \A p \in Procs : pc[p] = "out"
    BY <1>1, <1>2 DEF Idle
  <2> QED BY ONLY <2>1, <2>2 DEF HwInv
<1>7. ProbingInv
  <2>1. SubSeq(ProbeSteps, 1, 14) = ProbeSteps
    BY ProbeStepsType, SubSeqFull
  <2>2. Done(1) = {}
    BY DEF Done
  <2>3. ~ cancelled
    BY <1>1 DEF Idle
  <2>4. 1 \in 1 .. 14 /\ 1 <= 13 /\ 1 \notin 8 .. 12
    OBVIOUS
  <2> QED BY <1>1, <1>2, <2>1, <2>2, <2>3, <2>4 DEF ProbingInv
<1>8. FailedInv /\ BoundInv /\ RemovingInv
  BY <1>2 DEF FailedInv, BoundInv, RemovingInv
<1> QED BY <1>3, <1>4, <1>5, <1>6, <1>7, <1>8 DEF DeviceIInv

LEMMA Types ==
  ASSUME DeviceIInv
  PROVE  /\ pc \in [Procs -> Places] /\ power_refcount \in Nat
         /\ cmdline_power_refcount \in Nat /\ pending \in BOOLEAN /\ cancelled \in BOOLEAN
         /\ power_lock \in Procs \cup {NoProc} /\ hw \in {"off", "partial", "on"}
         /\ mishaps \subseteq {"ignored", "late"}
<1>1. DeviceTypeOK /\ TypeOK
  BY DEF DeviceIInv, DeviceTypeOK
<1>2. cmdline_power_refcount \in 0 .. MaxOn /\ MaxOn \in Nat
  BY <1>1, PowerAssumption DEF TypeOK
<1>3. cmdline_power_refcount \in Nat
  BY <1>2
<1> QED BY <1>1, <1>3 DEF TypeOK, DeviceTypeOK

LEMMA NextCallInv == DeviceIInv /\ [DeviceNext]_allvars => CallInv'
<1> SUFFICES ASSUME DeviceIInv, [DeviceNext]_allvars PROVE CallInv'
  OBVIOUS
<1>0. /\ CallInv /\ pc \in [Procs -> Places] /\ cmdline_power_refcount \in Nat
      /\ power_lock \in Procs \cup {NoProc}
  BY Types DEF DeviceIInv
<1> USE <1>0, ProcsAre DEF CallInv, Locked
<1>1. CASE ProbeStep
  <2>1. UNCHANGED << pc, power_lock >>
    BY <1>1 DEF ProbeStep
  <2>2. cmdline_power_refcount' # cmdline_power_refcount => Idle
    <3>1. PICK n \in 1 .. 14 : Head(steps) = ProbeSteps[n] /\ (n <= 13 => Idle)
      BY <1>1, ProbingAt DEF ProbeStep
    <3>2. cmdline_power_refcount' # cmdline_power_refcount => ProbeSteps[n] = "off"
      BY <1>1, <3>1 DEF ProbeStep
    <3>3. ProbeSteps[n] = "off" => n <= 13
      BY ProbeStepsAre
    <3> QED BY <3>1, <3>2, <3>3
  <2> QED BY <2>1, <2>2 DEF Idle
<1>2. CASE ProbeFails \/ RemoveBegins \/ RemoveStep
  <2>1. UNCHANGED << pc, power_lock, cmdline_power_refcount >>
    BY <1>2 DEF ProbeFails, RemoveBegins, RemoveStep, vars
  <2> QED BY <2>1
<1>3. ASSUME NEW p \in Procs, Enter(p) PROVE CallInv'
  BY <1>3 DEF Enter, Goto
<1>4. ASSUME NEW p \in Procs, PowerGet(p) PROVE CallInv'
  BY <1>4 DEF PowerGet, Goto, AfterGet
<1>5. ASSUME NEW p \in Procs, PowerOn(p) PROVE CallInv'
  BY <1>5 DEF PowerOn, Goto, AfterGet
<1>6. ASSUME NEW p \in Procs, Leave(p) PROVE CallInv'
  BY <1>6 DEF Leave, Goto
<1>7. ASSUME NEW p \in Procs, PutDelay(p) PROVE CallInv'
  BY <1>7 DEF PutDelay, Goto
<1>8. ASSUME NEW p \in Procs, DelayLock(p) PROVE CallInv'
  BY <1>8 DEF DelayLock, Goto
<1>9. ASSUME NEW p \in Procs, QueueWork(p) \/ DropReference(p) PROVE CallInv'
  BY <1>9 DEF QueueWork, DropReference, Goto
<1>10. ASSUME NEW p \in Procs, PowerPut(p) PROVE CallInv'
  BY <1>10 DEF PowerPut, Goto
<1>11. ASSUME NEW p \in Procs, PowerOff(p) \/ PowerOffFails(p) PROVE CallInv'
  BY <1>11 DEF PowerOff, PowerOffFails, Goto
<1>12. CASE WorkBegin
  BY <1>12 DEF WorkBegin, Goto
<1>13. CASE DebugOn \/ DebugOff \/ DebugSetDelay
  BY <1>13 DEF DebugOn, DebugOff, DebugSetDelay, Goto
<1>14. CASE DebugWriter
  BY <1>14 DEF DebugWriter, DebugOffDec, DebugOffSub, DebugOffClear, Goto
<1>15. CASE UNCHANGED allvars
  BY <1>15 DEF allvars, vars
<1> QED
  BY <1>1, <1>2, <1>3, <1>4, <1>5, <1>6, <1>7, <1>8, <1>9, <1>10, <1>11, <1>12,
     <1>13, <1>14, <1>15, DeviceSteps DEF Next, Caller

\* The part of "on" in the count changes only when Debug gets or subtracts.
LEMMA CmdlineKept ==
  ASSUME UNCHANGED cmdline_power_refcount,
         pc'[Debug] = "get" <=> pc[Debug] = "get",
         pc'[Debug] = "off_clear" <=> pc[Debug] = "off_clear"
  PROVE  CmdlineReferences' = CmdlineReferences
BY DEF CmdlineReferences

LEMMA CmdlineNat ==
  ASSUME DeviceIInv
  PROVE  CmdlineReferences \in Nat
<1>1. cmdline_power_refcount \in Nat /\ (pc[Debug] = "get" => cmdline_power_refcount > 0)
  BY Types DEF DeviceIInv, CallInv
<1> QED BY <1>1 DEF CmdlineReferences

LEMMA NextRefcountExact == DeviceIInv /\ [DeviceNext]_allvars => RefcountExact'
<1> SUFFICES ASSUME DeviceIInv, [DeviceNext]_allvars PROVE RefcountExact'
  OBVIOUS
<1> DEFINE C == Cardinality(Holders)
<1>a. /\ pc \in [Procs -> Places] /\ power_refcount \in Nat
      /\ cmdline_power_refcount \in Nat /\ pending \in BOOLEAN /\ cancelled \in BOOLEAN
  BY Types
<1>b. RefcountExact /\ CallInv
  BY DEF DeviceIInv, CountInv, Found
<1>c. C \in Nat /\ CmdlineReferences \in Nat
  BY HoldersFinite, CmdlineNat
<1>d. power_refcount = C + CmdlineReferences + One(pending) + One(cancelled)
  BY <1>b DEF RefcountExact, One
<1> SUFFICES power_refcount' = C' + CmdlineReferences' + One(pending') + One(cancelled')
  BY DEF RefcountExact, One
<1>e. ASSUME NEW p \in Procs, NEW place, Goto(p, place), UNCHANGED cmdline_power_refcount,
             pc[p] \notin {"get", "off_clear"}, place \notin {"get", "off_clear"}
      PROVE  CmdlineReferences' = CmdlineReferences
  BY <1>a, <1>e, Moved, ProcsAre, CmdlineKept
<1>f. ASSUME NEW p \in Procs, NEW place, Goto(p, place)
      PROVE  C' = C + One(HoldsAt(p, place)) - One(HoldsAt(p, pc[p]))
  BY <1>a, <1>f, HoldersStep
<1> USE <1>a, <1>c, <1>d DEF One
<1>1. CASE UNCHANGED << pc, power_refcount, cmdline_power_refcount, pending, cancelled >>
  BY <1>1 DEF Holders, HoldsAt, CmdlineReferences
<1> HIDE DEF C
<1>2. CASE ProbeStep
  <2>1. PICK n \in 1 .. 14 : Head(steps) = ProbeSteps[n] /\ (n <= 13 => Idle)
    BY <1>2, ProbingAt DEF ProbeStep
  <2>2. CASE ProbeSteps[n] # "off"
    BY <1>1, <1>2, <2>1, <2>2 DEF ProbeStep
  <2>3. CASE ProbeSteps[n] = "off"
    <3>1. n <= 13
      BY <2>3, ProbeStepsAre
    <3>2. UNCHANGED << pc, power_refcount, cmdline_power_refcount, pending, cancelled >>
      BY <1>2, <2>1, <3>1 DEF ProbeStep, Idle
    <3> QED BY <1>1, <3>2
  <2> QED BY <2>2, <2>3
<1>3. CASE ProbeFails \/ RemoveBegins
  BY <1>1, <1>3 DEF ProbeFails, RemoveBegins, vars
<1>4. CASE RemoveStep
  <2>1. PICK n \in 1 .. 11 : Head(steps) = RemoveSteps[n] /\ (n = 1 => ~ cancelled)
    BY <1>4, RemovingAt DEF RemoveStep, GoneInv
  <2>2. UNCHANGED << pc, power_refcount, cmdline_power_refcount >>
    BY <1>4 DEF RemoveStep
  <2>3. C' = C /\ CmdlineReferences' = CmdlineReferences
    BY <2>2 DEF C, Holders, HoldsAt, CmdlineReferences
  <2>4. n = 1 <=> Head(steps) = "cancel"
    BY <2>1, RemoveStepsAre
  <2>5. One(pending') + One(cancelled') = One(pending) + One(cancelled)
    BY <1>4, <2>1, <2>4 DEF RemoveStep
  <2> QED BY <2>2, <2>3, <2>5
<1>5. CASE Next /\ UNCHANGED << phase, steps, have, failed_at, cancelled >>
  <2>0. UNCHANGED cancelled
    BY <1>5
  <2> USE <2>0 DEF HoldsAt
  <2>1. ASSUME NEW p \in Procs, Enter(p)
        PROVE  power_refcount' = C' + CmdlineReferences' + One(pending') + One(cancelled')
    <3>1. p # Debug
      BY <2>1, ProcsAre DEF Enter
    <3>2. CmdlineReferences' = CmdlineReferences
      BY <2>1, <3>1, Moved, ProcsAre, CmdlineKept DEF Enter
    <3> QED BY <2>1, <3>1, <3>2, <1>f DEF Enter
  <2>2. ASSUME NEW p \in Procs, PowerGet(p)
        PROVE  power_refcount' = C' + CmdlineReferences' + One(pending') + One(cancelled')
    <3>0. Goto(p, "powering_on") \/ Goto(p, AfterGet(p))
      BY <2>2 DEF PowerGet
    <3>1. CASE p = Debug
      <4>1. pc[p] = "get" /\ pc'[p] \in {"powering_on", "out"}
        BY <2>2, <3>0, <3>1, Moved DEF PowerGet, AfterGet
      <4>2. CmdlineReferences' = CmdlineReferences + 1
        BY <2>2, <3>1, <4>1 DEF PowerGet, CmdlineReferences
      <4>3. C' = C
        BY <3>0, <3>1, <4>1, <1>f DEF AfterGet
      <4> QED BY <2>2, <4>2, <4>3 DEF PowerGet
    <3>2. CASE p # Debug
      <4>1. CmdlineReferences' = CmdlineReferences
        BY <2>2, <3>0, <3>2, Moved, ProcsAre, CmdlineKept DEF PowerGet
      <4>2. C' = C + 1
        <5>1. pc[p] = "get"
          BY <2>2 DEF PowerGet
        <5> QED BY <3>0, <3>2, <5>1, <1>f DEF AfterGet
      <4> QED BY <2>2, <4>1, <4>2 DEF PowerGet
    <3> QED BY <3>1, <3>2
  <2>3. ASSUME NEW p \in Procs, PowerOn(p)
        PROVE  power_refcount' = C' + CmdlineReferences' + One(pending') + One(cancelled')
    <3>1. AfterGet(p) \notin {"get", "off_clear"} /\ pc[p] = "powering_on"
      BY <2>3 DEF AfterGet, PowerOn
    <3>2. CmdlineReferences' = CmdlineReferences
      BY <2>3, <3>1, <1>e DEF PowerOn
    <3>3. C' = C
      BY <2>3, <3>1, <1>f DEF PowerOn, AfterGet
    <3> QED BY <2>3, <3>2, <3>3 DEF PowerOn
  <2>4. ASSUME NEW p \in Procs, Leave(p) \/ PutDelay(p)
        PROVE  power_refcount' = C' + CmdlineReferences' + One(pending') + One(cancelled')
    <3>1. \E place \in {"put_delay", "put", "delay"} : Goto(p, place)
      BY <2>4 DEF Leave, PutDelay
    <3>2. pc[p] \in {"in", "put_delay"}
      BY <2>4 DEF Leave, PutDelay
    <3>3. CmdlineReferences' = CmdlineReferences
      BY <2>4, <3>1, <3>2, <1>e DEF Leave, PutDelay
    <3>4. C' = C
      BY <3>1, <3>2, <1>f
    <3> QED BY <2>4, <3>3, <3>4 DEF Leave, PutDelay
  <2>5. ASSUME NEW p \in Procs, DelayLock(p)
        PROVE  power_refcount' = C' + CmdlineReferences' + One(pending') + One(cancelled')
    <3>1. \E place \in {"queue", "drop"} : Goto(p, place)
      BY <2>5 DEF DelayLock
    <3>2. pc[p] = "delay"
      BY <2>5 DEF DelayLock
    <3>3. CmdlineReferences' = CmdlineReferences
      BY <2>5, <3>1, <3>2, <1>e DEF DelayLock
    <3>4. C' = C
      BY <3>1, <3>2, <1>f
    <3> QED BY <2>5, <3>3, <3>4 DEF DelayLock
  <2>6. ASSUME NEW p \in Procs, QueueWork(p) \/ DropReference(p)
        PROVE  power_refcount' = C' + CmdlineReferences' + One(pending') + One(cancelled')
    <3>1. Goto(p, "out") /\ pc[p] \in {"queue", "drop"} /\ UNCHANGED cmdline_power_refcount
      BY <2>6 DEF QueueWork, DropReference
    <3>2. CmdlineReferences' = CmdlineReferences
      BY <3>1, <1>e
    <3>3. C' = C - 1 /\ C >= 1
      <4>1. C' = C - 1
        BY <3>1, <1>f
      <4>2. p \in Holders
        BY <3>1 DEF Holders
      <4> QED BY <4>1, <4>2, OneHolder DEF C
    <3>4. ASSUME QueueWork(p) PROVE pending = FALSE
      <4>1. power_refcount = 1
        BY <3>4 DEF QueueWork, DeviceIInv, CountInv, Found
      <4> QED BY <3>3, <4>1
    <3>5. CASE QueueWork(p)
      BY <3>2, <3>3, <3>4, <3>5 DEF QueueWork
    <3>6. CASE DropReference(p)
      BY <3>2, <3>3, <3>6 DEF DropReference, DecIfPositive
    <3> QED BY <2>6, <3>5, <3>6
  <2>7. ASSUME NEW p \in Procs, PowerPut(p)
        PROVE  power_refcount' = C' + CmdlineReferences' + One(pending') + One(cancelled')
    <3>1. \E place \in {"powering_off", "out"} : Goto(p, place)
      BY <2>7 DEF PowerPut
    <3>2. pc[p] = "put" /\ UNCHANGED cmdline_power_refcount
      BY <2>7 DEF PowerPut
    <3>3. CmdlineReferences' = CmdlineReferences
      BY <3>1, <3>2, <1>e
    <3>4. C' = C - 1 /\ C >= 1
      <4>1. C' = C - 1
        BY <3>1, <3>2, <1>f
      <4>2. p \in Holders
        BY <3>2 DEF Holders
      <4> QED BY <4>1, <4>2, OneHolder DEF C
    <3> QED BY <2>7, <3>3, <3>4 DEF PowerPut, DecIfPositive
  <2>8. ASSUME NEW p \in Procs, PowerOff(p) \/ PowerOffFails(p)
        PROVE  power_refcount' = C' + CmdlineReferences' + One(pending') + One(cancelled')
    <3>1. pc[p] = "powering_off" /\ UNCHANGED cmdline_power_refcount
      BY <2>8 DEF PowerOff, PowerOffFails
    <3>2. CASE PowerOff(p)
      <4>1. CmdlineReferences' = CmdlineReferences /\ C' = C
        BY <3>1, <3>2, <1>e, <1>f DEF PowerOff
      <4> QED BY <3>2, <4>1 DEF PowerOff
    <3>3. CASE PowerOffFails(p)
      <4>1. CmdlineReferences' = CmdlineReferences /\ C' = C + 1
        BY <3>1, <3>3, <1>e, <1>f DEF PowerOffFails
      <4> QED BY <3>3, <4>1 DEF PowerOffFails
    <3> QED BY <2>8, <3>2, <3>3
  <2>9. CASE WorkBegin
    <3>1. CmdlineReferences' = CmdlineReferences /\ C' = C + 1
      BY <2>9, <1>e, <1>f, ProcsAre DEF WorkBegin
    <3> QED BY <2>9, <3>1 DEF WorkBegin
  <2>10. CASE DebugOn \/ DebugOff
    <3>1. Debug \in Procs /\ pc[Debug] = "out"
      BY <2>10, ProcsAre DEF DebugOn, DebugOff
    <3>2. \E place \in {"get", "off_dec"} : Goto(Debug, place)
      BY <2>10 DEF DebugOn, DebugOff
    <3>3. C' = C
      BY <3>1, <3>2, <1>f
    <3>4. CmdlineReferences' = CmdlineReferences
      BY <2>10, <3>1, Moved DEF DebugOn, DebugOff, CmdlineReferences
    <3> QED BY <2>10, <3>3, <3>4 DEF DebugOn, DebugOff
  <2>11. CASE DebugOffDec
    <3>1. Debug \in Procs /\ pc[Debug] = "off_dec"
      BY <2>11, ProcsAre DEF DebugOffDec
    <3>2. CASE cmdline_power_refcount > 0
      <4>1. Goto(Debug, "off_sub") /\ cmdline_power_refcount' = cmdline_power_refcount - 1
        BY <2>11, <3>2 DEF DebugOffDec, DecIfPositive
      <4>2. CmdlineReferences' = CmdlineReferences - 1
        BY <3>1, <4>1, Moved DEF CmdlineReferences
      <4>3. C' = C + 1
        BY <3>1, <4>1, <1>f
      <4> QED BY <2>11, <4>2, <4>3 DEF DebugOffDec
    <3>3. CASE ~ (cmdline_power_refcount > 0)
      <4>1. Goto(Debug, "out") /\ cmdline_power_refcount' = cmdline_power_refcount
        BY <2>11, <3>3 DEF DebugOffDec, DecIfPositive
      <4>2. CmdlineReferences' = CmdlineReferences
        BY <3>1, <4>1, Moved DEF CmdlineReferences
      <4>3. C' = C
        BY <3>1, <4>1, <1>f
      <4> QED BY <2>11, <4>2, <4>3 DEF DebugOffDec
    <3> QED BY <3>2, <3>3
  <2>12. CASE DebugOffSub
    <3>1. Debug \in Procs /\ pc[Debug] = "off_sub" /\ Goto(Debug, "off_clear")
      BY <2>12, ProcsAre DEF DebugOffSub
    <3>2. CmdlineReferences = cmdline_power_refcount /\ CmdlineReferences' = 0
      BY <3>1, Moved DEF CmdlineReferences
    <3>3. C' = C
      BY <3>1, <1>f
    <3> QED BY <2>12, <3>2, <3>3 DEF DebugOffSub
  <2>13. CASE DebugOffClear
    <3>1. Debug \in Procs /\ pc[Debug] = "off_clear" /\ Goto(Debug, "put")
      BY <2>13, ProcsAre DEF DebugOffClear
    <3>2. CmdlineReferences = 0 /\ CmdlineReferences' = 0
      BY <2>13, <3>1, Moved DEF CmdlineReferences, DebugOffClear
    <3>3. C' = C
      BY <3>1, <1>f
    <3> QED BY <2>13, <3>2, <3>3 DEF DebugOffClear
  <2>14. CASE DebugSetDelay
    BY <1>1, <2>14 DEF DebugSetDelay
  <2> QED
    BY <1>5, <2>1, <2>2, <2>3, <2>4, <2>5, <2>6, <2>7, <2>8, <2>9, <2>10, <2>11,
       <2>12, <2>13, <2>14 DEF Next, Caller, DebugWriter
<1>6. CASE UNCHANGED allvars
  BY <1>1, <1>6 DEF allvars, vars, device
<1> QED BY <1>2, <1>3, <1>4, <1>5, <1>6, DeviceSteps

LEMMA NextFound == DeviceIInv /\ [DeviceNext]_allvars => \A q \in Procs : Found(q)'
<1> SUFFICES ASSUME DeviceIInv, [DeviceNext]_allvars, NEW q \in Procs PROVE Found(q)'
  OBVIOUS
<1>a. /\ pc \in [Procs -> Places] /\ power_refcount \in Nat
      /\ cmdline_power_refcount \in Nat /\ pending \in BOOLEAN /\ cancelled \in BOOLEAN
  BY Types
<1>b. /\ \A p \in Procs : Found(p)
      /\ \A p \in Procs : pc[p] \in Locked <=> power_lock = p
      /\ CallInv /\ RefcountExact
  BY DEF DeviceIInv, CountInv, CallInv, Found
<1>c. Cardinality(Holders) \in Nat /\ CmdlineReferences \in Nat
  BY HoldersFinite, CmdlineNat
<1>d. power_refcount = Cardinality(Holders) + CmdlineReferences + One(pending) + One(cancelled)
  BY <1>b DEF RefcountExact, One
<1>e. ASSUME NEW p \in Holders PROVE power_refcount >= 1
  BY <1>a, <1>c, <1>d, <1>e, OneHolder DEF One
<1>f. ASSUME NEW p \in Holders, NEW r \in Holders, p # r PROVE power_refcount >= 2
  BY <1>a, <1>c, <1>d, <1>f, TwoHolders DEF One
<1>1. CASE UNCHANGED << pc, power_refcount >>
  BY <1>1, <1>b DEF Found
<1>2. CASE ProbeStep
  <2>1. PICK n \in 1 .. 14 : Head(steps) = ProbeSteps[n] /\ (n <= 13 => Idle)
    BY <1>2, ProbingAt DEF ProbeStep
  <2>2. ProbeSteps[n] = "off" => n <= 13
    BY ProbeStepsAre
  <2>3. UNCHANGED << pc, power_refcount >>
    BY <1>2, <2>1, <2>2 DEF ProbeStep, Idle
  <2> QED BY <1>1, <2>3
<1>3. CASE ProbeFails \/ RemoveBegins \/ RemoveStep
  BY <1>1, <1>3 DEF ProbeFails, RemoveBegins, RemoveStep, vars
\* Somebody takes the lock: nobody is in a place that has it.
<1>4. ASSUME NEW p \in Procs, NEW place, Goto(p, place), power_lock = NoProc,
             place = "powering_on" => power_refcount' = 1,
             place \notin {"queue", "drop", "powering_off"}
      PROVE  Found(q)'
  BY <1>4, <1>a, <1>b, Moved, ProcsAre DEF Found, Locked
\* The count stays as it is, and nobody comes to a place that has the lock.
<1>5. ASSUME NEW p \in Procs, NEW place, Goto(p, place), place \notin Locked,
             UNCHANGED power_refcount
      PROVE  Found(q)'
  BY <1>5, <1>a, <1>b, Moved DEF Found, Locked
\* The holder of the lock gives it back.
<1>6. ASSUME NEW p \in Procs, NEW place, Goto(p, place), place \notin Locked,
             pc[p] \in Locked
      PROVE  Found(q)'
  BY <1>6, <1>a, <1>b, Moved, ProcsAre DEF Found, Locked
<1>7. ASSUME NEW p \in Procs, Enter(p) \/ Leave(p) \/ PutDelay(p) PROVE Found(q)'
  <2>1. \E place \in {"get", "put_delay", "put", "delay"} : Goto(p, place)
    BY <1>7 DEF Enter, Leave, PutDelay
  <2> QED BY <1>7, <2>1, <1>5 DEF Enter, Leave, PutDelay, Locked
<1>8. ASSUME NEW p \in Procs, PowerGet(p) PROVE Found(q)'
  <2>1. AfterGet(p) \in {"in", "out"}
    BY DEF AfterGet
  <2>2. CASE power_refcount = 0
    BY <1>8, <2>2, <1>4 DEF PowerGet
  <2>3. CASE power_refcount # 0
    BY <1>8, <2>1, <2>3, <1>4 DEF PowerGet
  <2> QED BY <2>2, <2>3
<1>9. ASSUME NEW p \in Procs, PowerOn(p) \/ QueueWork(p) \/ DropReference(p)
                              \/ PowerOff(p) \/ PowerOffFails(p)
      PROVE  Found(q)'
  <2>1. pc[p] \in Locked
    BY <1>9 DEF PowerOn, QueueWork, DropReference, PowerOff, PowerOffFails, Locked
  <2>2. \E place \in {"in", "out", "put_delay"} : Goto(p, place)
    BY <1>9 DEF PowerOn, AfterGet, QueueWork, DropReference, PowerOff, PowerOffFails
  <2> QED BY <2>1, <2>2, <1>6 DEF Locked
<1>10. ASSUME NEW p \in Procs, DelayLock(p) PROVE Found(q)'
  <2>1. p \in Holders
    BY <1>10 DEF DelayLock, Holders, HoldsAt
  <2>2. power_refcount >= 1
    BY <2>1, <1>e
  <2> QED BY <1>10, <2>2, <1>a, <1>b, Moved, ProcsAre DEF DelayLock, Found, Locked
<1>11. ASSUME NEW p \in Procs, PowerPut(p) PROVE Found(q)'
  <2>1. p \in Holders
    BY <1>11 DEF PowerPut, Holders, HoldsAt
  <2>2. power_refcount >= 1
    BY <2>1, <1>e
  <2> QED BY <1>11, <2>2, <1>a, <1>b, Moved, ProcsAre DEF PowerPut, DecIfPositive, Found, Locked
<1>12. CASE WorkBegin
  BY <1>12, <1>5, ProcsAre DEF WorkBegin, Locked
<1>13. CASE DebugOn \/ DebugOff
  BY <1>13, <1>5, ProcsAre DEF DebugOn, DebugOff, Locked
<1>14. CASE DebugOffDec \/ DebugOffClear
  <2>1. \E place \in {"off_sub", "out", "put"} : Goto(Debug, place)
    BY <1>14 DEF DebugOffDec, DebugOffClear
  <2> QED BY <1>14, <2>1, <1>5, ProcsAre DEF DebugOffDec, DebugOffClear, Locked
\* "off" subtracts without the lock, but it has a reference itself.
<1>15. CASE DebugOffSub
  <2>1. Debug \in Holders /\ pc[Debug] = "off_sub" /\ Goto(Debug, "off_clear")
    BY <1>15, ProcsAre DEF DebugOffSub, Holders, HoldsAt
  <2>2. CASE q = Debug
    BY <1>a, <2>1, <2>2, Moved DEF Found
  <2>3. CASE q # Debug
    <3>1. pc'[q] = pc[q]
      BY <1>a, <2>1, <2>3, Moved, ProcsAre
    <3>2. q \in Holders <=> HoldsAt(q, pc[q])
      BY DEF Holders
    <3>3. pc[q] \notin {"powering_on", "queue"}
      <4>1. ASSUME pc[q] \in {"powering_on", "queue"} PROVE FALSE
        <5>1. q \in Holders
          BY <2>3, <3>2, <4>1 DEF HoldsAt
        <5>2. power_refcount >= 2 /\ power_refcount = 1
          BY <1>b, <1>f, <2>1, <2>3, <4>1, <5>1 DEF Found
        <5> QED BY <5>2
      <4> QED BY <4>1
    <3>4. pc[q] # "powering_off"
      BY <1>b, <1>e, <2>1 DEF Found
    <3>5. ASSUME pc[q] = "drop" PROVE power_refcount' >= 2
      <4>1. q \in Holders
        BY <3>2, <3>5 DEF HoldsAt
      <4>2. Cardinality(Holders) >= 2
        BY <2>1, <2>3, <4>1, TwoHolders
      <4>3. power_refcount' = power_refcount - CmdlineReferences
        BY <1>15, <2>1 DEF DebugOffSub, CmdlineReferences
      <4> QED BY <1>a, <1>c, <1>d, <4>2, <4>3 DEF One
    <3> QED BY <3>1, <3>3, <3>4, <3>5 DEF Found
  <2> QED BY <2>2, <2>3
<1>16. CASE DebugSetDelay
  BY <1>1, <1>16 DEF DebugSetDelay
<1>17. CASE UNCHANGED allvars
  BY <1>1, <1>17 DEF allvars, vars
<1> QED
  BY <1>2, <1>3, <1>7, <1>8, <1>9, <1>10, <1>11, <1>12, <1>13, <1>14, <1>15, <1>16,
     <1>17, DeviceSteps DEF Next, Caller, DebugWriter

-----------------------------------------------------------------------------
(* The steps beside probe and remove.                                       *)

\* Who may begin: an ioctl while the driver is bound, a node while it is there,
\* the work when it is pending.
MayBegin(p) ==
  \/ p \in Users /\ phase = "bound"
  \/ p \in Readers \cup {Debug} /\ "debugger" \in have
  \/ p = Work /\ pending

LEMMA CallerHasBegun ==
  ASSUME NEW p \in Procs, Caller(p)
  PROVE  /\ pc[p] # "out"
         /\ \E place \in Places : Goto(p, place)
         /\ pending' # pending => pc[p] = "queue"
<1> USE DEF Places
<1>1. CASE PowerGet(p) \/ PowerOn(p) \/ Leave(p)
  BY <1>1 DEF PowerGet, PowerOn, Leave, AfterGet
<1>2. CASE PutDelay(p) \/ DelayLock(p) \/ QueueWork(p) \/ DropReference(p)
  BY <1>2 DEF PutDelay, DelayLock, QueueWork, DropReference
<1>3. CASE PowerPut(p) \/ PowerOff(p) \/ PowerOffFails(p)
  BY <1>3 DEF PowerPut, PowerOff, PowerOffFails
<1> QED BY <1>1, <1>2, <1>3 DEF Caller

LEMMA BesideStep ==
  ASSUME DeviceIInv, DeviceNext, ~ (ProbeStep \/ ProbeFails \/ RemoveBegins \/ RemoveStep)
  PROVE  /\ Next /\ UNCHANGED << phase, steps, have, failed_at, cancelled >>
         /\ mishaps' = mishaps \cup IF phase = "removing" /\ steps # RemoveSteps
                                       /\ pending' /\ ~ pending THEN {"late"} ELSE {}
         /\ \A q \in Procs : pc[q] = "out" /\ pc'[q] # "out" => MayBegin(q)
         /\ pending' /\ ~ pending => \E p \in Procs : pc[p] = "queue"
<1> DEFINE Begun == \A q \in Procs : pc[q] = "out" /\ pc'[q] # "out" => MayBegin(q)
           Queued == pending' /\ ~ pending => \E p \in Procs : pc[p] = "queue"
<1>1. Next /\ UNCHANGED << phase, steps, have, failed_at, cancelled >>
  BY DeviceSteps
<1>2. mishaps' = mishaps \cup IF phase = "removing" /\ steps # RemoveSteps
                                 /\ pending' /\ ~ pending THEN {"late"} ELSE {}
  BY DEF DeviceNext, Open, OpenNode, WriteNode, Call, WorkRuns, Beside
<1>3. pc \in [Procs -> Places]
  BY Types
<1>4. ASSUME NEW p \in Procs, NEW place, Goto(p, place), pc[p] # "out" \/ MayBegin(p)
      PROVE  Begun
  BY <1>3, <1>4, Moved
<1>5. ASSUME NEW p \in Procs, Open(p) \/ OpenNode(p) PROVE Begun /\ Queued
  BY <1>4, <1>5 DEF Open, OpenNode, Beside, Enter, MayBegin
<1>6. ASSUME NEW p \in Procs, Caller(p) PROVE Begun /\ Queued
  BY <1>4, <1>6, CallerHasBegun
<1>7. ASSUME DebugWriter PROVE Begun /\ Queued
  <2>1. Debug \in Procs
    BY ProcsAre
  <2>2. pc[Debug] # "out"
    BY <1>7 DEF DebugWriter, DebugOffDec, DebugOffSub, DebugOffClear
  <2>3. PICK place : Goto(Debug, place)
    BY <1>7 DEF DebugWriter, DebugOffDec, DebugOffSub, DebugOffClear
  <2>4. Queued
    BY <1>7 DEF DebugWriter, DebugOffDec, DebugOffSub, DebugOffClear
  <2>5. Begun
    BY ONLY <1>4, <2>1, <2>2, <2>3
  <2> QED BY <2>4, <2>5
<1>8. ASSUME WriteNode PROVE Begun /\ Queued
  <2>1. Debug \in Procs /\ MayBegin(Debug)
    BY <1>8, ProcsAre DEF WriteNode, MayBegin
  <2>2. Queued
    BY <1>8 DEF WriteNode, Beside, DebugOn, DebugOff, DebugSetDelay
  <2>3. CASE UNCHANGED pc
    BY <2>2, <2>3
  <2>4. CASE Goto(Debug, "get") \/ Goto(Debug, "off_dec")
    <3>1. Begun
      BY ONLY <1>4, <2>1, <2>4
    <3> QED BY <2>2, <3>1
  <2> QED BY <1>8, <2>3, <2>4 DEF WriteNode, Beside, DebugOn, DebugOff, DebugSetDelay
<1>9. ASSUME WorkRuns PROVE Begun /\ Queued
  <2>1. Work \in Procs /\ MayBegin(Work) /\ Goto(Work, "put")
    BY <1>9, ProcsAre DEF WorkRuns, Beside, WorkBegin, MayBegin
  <2>2. Begun
    BY ONLY <1>4, <2>1
  <2> QED BY <1>9, <2>2 DEF WorkRuns, Beside, WorkBegin
<1>10. Begun /\ Queued
  BY <1>5, <1>6, <1>7, <1>8, <1>9 DEF DeviceNext, Call, Beside
<1> QED BY <1>1, <1>2, <1>10

-----------------------------------------------------------------------------
(* The phases.                                                              *)

\* What a step of probe does to where probe is.
LEMMA ProbeStepAt ==
  ASSUME DeviceIInv, ProbeStep
  PROVE  \E n \in 1 .. 14 :
           /\ n <= 13 => Idle /\ Idle' /\ phase' = "probing"
           /\ n = 14 => phase' = "bound" /\ UNCHANGED << hw, mishaps >>
           /\ steps' = SubSeq(ProbeSteps, n + 1, 14) /\ have' = Done(n + 1)
           /\ Len(steps) = 15 - n /\ (n <= 13 => Len(steps') = 14 - n)
           /\ n <= 6 => hw' = "off"
           /\ n \in 7 .. 11 => hw' = "on"
           /\ n = 12 => hw' \in {"off", hw} /\ (hw' = "off" \/ "ignored" \in mishaps')
           /\ n # 12 => mishaps' = mishaps
           /\ n = 13 => hw' = hw
           /\ UNCHANGED << failed_at, pc, power_lock, pending, power_refcount >>
           /\ cancelled' = FALSE /\ ~ PowerCut /\ ~ PowerCut'
<1>1. PICK n \in 1 .. 14 :
           /\ steps = SubSeq(ProbeSteps, n, 14) /\ have = Done(n)
           /\ Head(steps) = ProbeSteps[n] /\ Len(steps) = 15 - n
           /\ Tail(steps) = SubSeq(ProbeSteps, n + 1, 14)
           /\ n <= 13 => Idle
           /\ n <= 7 => hw = "off"
           /\ n \in 8 .. 12 => hw = "on"
           /\ ~ cancelled /\ ~ PowerCut
  BY ProbingAt DEF ProbeStep
<1>2. /\ ProbeSteps[n] = "power" <=> n = 7
      /\ ProbeSteps[n] = "off" <=> n = 12
  BY ProbeStepsAre
<1>3. n <= 13 => Idle'
  BY <1>1 DEF ProbeStep, Idle
<1>4. (n <= 13 => phase' = "probing") /\ (n = 14 => phase' = "bound")
  BY <1>1 DEF ProbeStep, Advance
<1>5. steps' = SubSeq(ProbeSteps, n + 1, 14)
  BY <1>1 DEF ProbeStep, Advance
<1>6. n <= 13 => Len(steps') = 14 - n /\ Head(steps') = ProbeSteps[n + 1]
  BY <1>5, ProbeStepsType, Rest
<1>7. have' = Done(n + 1)
  <2>1. have' = have \cup ({ProbeSteps[n]} \ NoResource)
    BY <1>1 DEF ProbeStep
  <2>2. 1 .. (n + 1) - 1 = (1 .. n - 1) \cup {n}
    OBVIOUS
  <2> QED BY <1>1, <2>1, <2>2 DEF Done
<1>8. /\ n <= 6 => hw' = "off"
      /\ n \in 7 .. 11 => hw' = "on"
      /\ n = 12 => hw' \in {"off", hw}
      /\ n \in {13, 14} => hw' = hw
  BY <1>1, <1>2 DEF ProbeStep
<1>9. /\ n = 12 => hw' = "off" \/ "ignored" \in mishaps'
      /\ n # 12 => mishaps' = mishaps
  <2>1. mishaps' = mishaps \cup IgnoredIf(ProbeSteps[n] = "off" /\ hw' = "on")
    BY <1>1 DEF ProbeStep
  <2> QED BY <1>1, <1>2, <1>8, <2>1 DEF IgnoredIf
<1>10. ~ PowerCut'
  <2>1. ProbeSteps[14] # "pm"
    BY DEF ProbeSteps
  <2>2. Len(<< "pm" >>) = 1 /\ Head(<< "pm" >>) = "pm"
    OBVIOUS
  <2>3. << >> # << "pm" >>
    OBVIOUS
  <2>4. n = 14 => steps' = << >>
    BY <1>5, SubSeqEmpty
  <2>5. ASSUME n <= 13, steps' = << "pm" >> PROVE FALSE
    <3>1. Len(steps') = 14 - n /\ Head(steps') = ProbeSteps[n + 1]
      BY <1>6, <2>5
    <3>2. n = 13 /\ ProbeSteps[14] = "pm"
      BY <2>2, <2>5, <3>1
    <3> QED BY <2>1, <3>2
  <2>6. n = 14 \/ n <= 13
    OBVIOUS
  <2>7. steps' # << "pm" >>
    BY <2>3, <2>4, <2>5, <2>6
  <2> QED BY <1>4, <2>6, <2>7 DEF PowerCut
<1>11. /\ UNCHANGED << failed_at, pc, power_lock, pending >> /\ cancelled' = FALSE
       /\ UNCHANGED power_refcount
  <2>1. cancelled = FALSE
    <3>1. ~ cancelled
      BY <1>1
    <3>2. cancelled \in BOOLEAN
      BY Types
    <3> QED BY ONLY <3>1, <3>2
  <2> QED BY <1>1, <1>2, <2>1 DEF ProbeStep, Idle
<1>12. /\ n = 14 => UNCHANGED << hw, mishaps >>
       /\ n = 13 => hw' = hw
  BY <1>8, <1>9
<1> WITNESS n \in 1 .. 14
<1> QED BY <1>1, <1>3, <1>4, <1>5, <1>6, <1>7, <1>8, <1>9, <1>10, <1>11, <1>12

\* What a failing probe leaves behind.
LEMMA ProbeFailsAt ==
  ASSUME DeviceIInv, ProbeFails
  PROVE  /\ Idle /\ Idle' /\ have' \subseteq {"group", "minor", "pm"}
         /\ "minor" \in have' => failed_at' = "heap"
         /\ "pm" \in have' \/ hw' # "off" => failed_at' \in {"power", "wq", "sram"}
<1>1. PICK n \in 1 .. 14 :
           /\ have = Done(n) /\ Head(steps) = ProbeSteps[n]
           /\ n <= 13 => Idle
           /\ n <= 7 => hw = "off"
  BY ProbingAt DEF ProbeFails
<1>2. /\ ProbeSteps[n] \in Failing /\ failed_at' = ProbeSteps[n]
      /\ have' = Done(n) \ Undone(ProbeSteps[n])
      /\ hw' = IF ProbeSteps[n] = "power" THEN "partial" ELSE hw
  BY <1>1 DEF ProbeFails
<1>3. \/ n \in {1, 2, 3, 4} \/ n \in {5, 7} \/ n = 9 \/ n = 10
  BY <1>2 DEF ProbeSteps, Failing
<1>4. Idle /\ Idle'
  BY <1>1, <1>3 DEF ProbeFails, Idle
<1>5. /\ have' \subseteq {"group", "minor", "pm"}
      /\ "minor" \in have' => failed_at' = "heap"
      /\ "pm" \in have' => failed_at' \in {"power", "wq", "sram"}
  <2>1. CASE n \in {1, 2, 3}
    <3>1. Done(n) \subseteq {"group"}
      BY <2>1 DEF Done, ProbeSteps, NoResource
    <3> QED BY <1>2, <3>1
  <2>2. CASE n = 4
    <3>1. Done(n) \subseteq {"group", "minor"} /\ ProbeSteps[n] = "heap"
      BY <2>2 DEF Done, ProbeSteps, NoResource
    <3> QED BY <1>2, <3>1
  <2>3. CASE n = 5
    <3>1. Done(n) \subseteq {"group", "minor"} /\ ProbeSteps[n] = "fence"
      BY <2>3 DEF Done, ProbeSteps, NoResource
    <3> QED BY <1>2, <3>1 DEF Undone
  <2>4. CASE n = 7
    <3>1. Done(n) \subseteq {"group", "minor", "pm"} /\ ProbeSteps[n] = "power"
      BY <2>4 DEF Done, ProbeSteps, NoResource
    <3> QED BY <1>2, <3>1 DEF Undone
  <2>5. CASE n = 9
    <3>1. Done(n) \subseteq {"group", "minor", "pm", "devfreq"} /\ ProbeSteps[n] = "wq"
      BY <2>5 DEF Done, ProbeSteps, NoResource
    <3> QED BY <1>2, <3>1 DEF Undone
  <2>6. CASE n = 10
    <3>1. /\ Done(n) \subseteq {"group", "minor", "pm", "devfreq", "wq"}
          /\ ProbeSteps[n] = "sram"
      BY <2>6 DEF Done, ProbeSteps, NoResource
    <3> QED BY <1>2, <3>1 DEF Undone
  <2> QED BY <1>3, <2>1, <2>2, <2>3, <2>4, <2>5, <2>6
<1>6. hw' # "off" => failed_at' \in {"power", "wq", "sram"}
  <2>1. n = 9 => ProbeSteps[n] = "wq"
    BY ProbeStepsAre
  <2>2. n = 10 => ProbeSteps[n] = "sram"
    BY ProbeStepsAre
  <2> QED BY <1>1, <1>2, <1>3, <2>1, <2>2
<1> QED BY <1>4, <1>5, <1>6

\* What a step of remove does to where remove is.
LEMMA RemoveStepAt ==
  ASSUME DeviceIInv, RemoveStep
  PROVE  \E n \in 1 .. 11 :
           /\ n <= 10 => phase' = "removing"
           /\ n = 11 => phase' = "removed" /\ steps' = << >> /\ have' = {}
           /\ steps' = SubSeq(RemoveSteps, n + 1, 11)
           /\ have' = {RemoveSteps[i] : i \in n + 1 .. 11} \ NoResource
           /\ GoneInv(n) /\ GoneInv(n + 1)'
           /\ UNCHANGED << pc, power_refcount, power_lock, cmdline_power_refcount >>
           /\ n # 10 => UNCHANGED << hw, mishaps >>
           /\ n = 10 => /\ power_lock = NoProc /\ hw' \in {"off", hw}
                        /\ mishaps \subseteq mishaps'
                        /\ power_refcount > 0 => hw' = "off" \/ "ignored" \in mishaps'
                        /\ ~ (power_refcount > 0) => UNCHANGED << hw, mishaps >>
           /\ PowerCut <=> n = 11
           /\ PowerCut' <=> n \in {10, 11}
<1>1. PICK n \in 1 .. 11 :
           /\ steps = SubSeq(RemoveSteps, n, 11)
           /\ have = {RemoveSteps[i] : i \in n .. 11} \ NoResource
           /\ GoneInv(n)
           /\ Head(steps) = RemoveSteps[n] /\ Len(steps) = 12 - n
           /\ Tail(steps) = SubSeq(RemoveSteps, n + 1, 11)
           /\ PowerCut <=> n = 11
  BY RemovingAt DEF RemoveStep
<1>2. /\ RemoveSteps[n] = "cancel" <=> n = 1
      /\ RemoveSteps[n] = "debugger" <=> n = 3
      /\ RemoveSteps[n] = "off" <=> n = 10
  BY RemoveStepsAre
<1>3. (n <= 10 => phase' = "removing") /\ (n = 11 => phase' = "removed")
  BY <1>1 DEF RemoveStep, Advance
<1>4. steps' = SubSeq(RemoveSteps, n + 1, 11)
  BY <1>1 DEF RemoveStep, Advance
<1>5. n <= 10 => Len(steps') = 11 - n /\ Head(steps') = RemoveSteps[n + 1]
  BY <1>4, RemoveStepsType, Rest
<1>6. have' = {RemoveSteps[i] : i \in n + 1 .. 11} \ NoResource
  <2>1. have' = have \ {RemoveSteps[n]}
    BY <1>1 DEF RemoveStep
  <2>2. \A i \in n .. 11 : i \in n + 1 .. 11 \/ i = n
    OBVIOUS
  <2>3. \A i \in n + 1 .. 11 : i \in n .. 11 /\ RemoveSteps[i] # RemoveSteps[n]
    BY RemoveStepsDiffer
  <2> QED BY <1>1, <2>1, <2>2, <2>3
<1>7. UNCHANGED << pc, power_refcount, power_lock, cmdline_power_refcount >>
  BY DEF RemoveStep
<1>8. /\ n # 10 => UNCHANGED << hw, mishaps >>
      /\ n = 10 => /\ hw' \in {"off", hw} /\ mishaps \subseteq mishaps'
                   /\ power_refcount > 0 => hw' = "off" \/ "ignored" \in mishaps'
                   /\ ~ (power_refcount > 0) => UNCHANGED << hw, mishaps >>
  <2>1. /\ hw' \in IF n = 10 /\ power_refcount > 0 THEN {"off", hw} ELSE {hw}
        /\ mishaps' = mishaps \cup IgnoredIf(n = 10 /\ power_refcount > 0 /\ hw' # "off")
    BY <1>1, <1>2 DEF RemoveStep
  <2> QED BY <2>1 DEF IgnoredIf
<1>9. n = 10 => power_lock = NoProc
  BY <1>1, <1>2 DEF RemoveStep, Waited
<1>10. PowerCut' <=> n \in {10, 11}
  <2>1. Len(<< "pm" >>) = 1
    OBVIOUS
  <2>2. CASE n = 11
    BY <1>3, <2>2 DEF PowerCut
  <2>3. CASE n = 10
    <3>1. Len(steps') = 1 /\ steps'[1] = "pm"
      BY <1>5, <2>3, RemoveStepsAre
    <3>2. steps' \in Seq(ToSet(RemoveSteps))
      <4> DEFINE S == ToSet(RemoveSteps)
      <4>1. RemoveSteps \in Seq(S) /\ n + 1 \in 1 .. Len(RemoveSteps) /\ Len(RemoveSteps) = 11
        BY <2>3, RemoveStepsType
      <4> HIDE DEF S
      <4>2. steps' \in Seq(S)
        BY <1>4, <4>1, Rest
      <4> QED BY <4>2 DEF S
    <3>3. steps' = << "pm" >>
      BY <3>1, <3>2
    <3> QED BY <2>3, <3>3 DEF PowerCut
  <2>4. CASE n <= 9
    <3>1. n <= 10 /\ 11 - n # 1 /\ n \notin {10, 11} /\ n # 11
      BY <2>4
    <3>2. Len(steps') # 1
      BY <1>5, <3>1
    <3>3. steps' # << "pm" >>
      BY <2>1, <3>2
    <3> QED BY <1>3, <3>1, <3>3 DEF PowerCut
  <2> QED BY <2>2, <2>3, <2>4
<1>11. GoneInv(n + 1)'
  <2>1. mishaps \subseteq mishaps'
    BY <1>8
  <2>2. Closed'
    BY <1>1, <1>7 DEF GoneInv, Closed
  <2>3. "late" \notin mishaps' => ~ pending' /\ pc'[Work] = "out"
    <3>1. CASE n = 1
      BY <1>1, <1>2, <1>7, <3>1 DEF RemoveStep, Waited
    <3>2. CASE n # 1
      <4>1. n > 1
        BY <3>2
      <4>2. "late" \notin mishaps => ~ pending /\ pc[Work] = "out"
        BY <1>1, <4>1 DEF GoneInv
      <4>3. ~ pending => ~ pending'
        BY DEF RemoveStep
      <4> QED BY <1>7, <2>1, <4>2, <4>3
    <3> QED BY <3>1, <3>2
  <2>4. n + 1 > 3 => Quiet'
    <3>1. CASE n = 3
      BY <1>1, <1>2, <1>7, <2>2, <3>1 DEF RemoveStep, Waited, Quiet, Closed
    <3>2. CASE n > 3
      BY <1>1, <1>7, <3>2 DEF GoneInv, Quiet
    <3> QED BY <3>1, <3>2
  <2> QED BY <2>2, <2>3, <2>4 DEF GoneInv
<1>12. n = 11 => steps' = << >> /\ have' = {}
  BY <1>4, <1>6, SubSeqEmpty
<1> WITNESS n \in 1 .. 11
<1> QED BY <1>1, <1>3, <1>4, <1>6, <1>7, <1>8, <1>9, <1>10, <1>11, <1>12

\* The other steps leave what is gone as it is.
LEMMA BesideGone ==
  ASSUME DeviceIInv, DeviceNext, ~ (ProbeStep \/ ProbeFails \/ RemoveBegins \/ RemoveStep),
         NEW n \in 1 .. 12, GoneInv(n), phase # "bound",
         n > 3 => "debugger" \notin have,
         \/ phase = "removing" /\ (steps = RemoveSteps <=> n = 1)
         \/ phase = "removed" /\ n = 12
  PROVE  GoneInv(n)'
<1>1. /\ UNCHANGED cancelled
      /\ mishaps' = mishaps \cup IF phase = "removing" /\ steps # RemoveSteps
                                    /\ pending' /\ ~ pending THEN {"late"} ELSE {}
      /\ \A q \in Procs : pc[q] = "out" /\ pc'[q] # "out" => MayBegin(q)
      /\ pending' /\ ~ pending => \E p \in Procs : pc[p] = "queue"
  BY BesideStep
<1>2. Closed'
  BY <1>1, ProcsAre, PowerAssumption DEF MayBegin, GoneInv, Closed
<1>3. n > 3 => Quiet'
  BY <1>1, ProcsAre DEF MayBegin, GoneInv, Quiet
<1>4. ASSUME n > 1, "late" \notin mishaps' PROVE ~ pending' /\ pc'[Work] = "out"
  <2>1. ~ pending /\ pc[Work] = "out"
    BY <1>1, <1>4 DEF GoneInv
  <2>2. pc'[Work] = "out"
    BY <1>1, <2>1, ProcsAre DEF MayBegin
  <2>3. CASE phase = "removing"
    BY <1>1, <1>4, <2>1, <2>2, <2>3
  <2>4. CASE phase = "removed" /\ n = 12
    <3>1. \A p \in Procs : pc[p] = "out"
      BY <2>1, <2>4, ProcsAre DEF GoneInv, Quiet
    <3> QED BY <1>1, <2>1, <2>2, <3>1
  <2> QED BY <2>3, <2>4
<1>5. n = 1 => ~ cancelled'
  BY <1>1 DEF GoneInv
<1> QED BY <1>2, <1>3, <1>4, <1>5 DEF GoneInv

\* While nobody has called anything and nobody may begin, only probe and remove
\* go on.
LEMMA Asleep ==
  ASSUME DeviceNext, ~ (ProbeStep \/ ProbeFails \/ RemoveBegins \/ RemoveStep),
         Idle, phase # "bound", "debugger" \notin have
  PROVE  FALSE
<1>1. ASSUME NEW p \in Procs, Open(p) \/ OpenNode(p) PROVE FALSE
  BY <1>1 DEF Open, OpenNode
<1>2. ASSUME NEW p \in Procs, Call(p) PROVE FALSE
  <2>1. CASE Caller(p)
    BY <2>1, CallerHasBegun DEF Idle
  <2>2. CASE DebugWriter
    BY <2>2, ProcsAre DEF Idle, DebugWriter, DebugOffDec, DebugOffSub, DebugOffClear
  <2> QED BY <1>2, <2>1, <2>2 DEF Call, Beside
<1>3. ~ WriteNode /\ ~ WorkRuns
  BY DEF WriteNode, WorkRuns, Beside, WorkBegin, Idle
<1> QED BY <1>1, <1>2, <1>3 DEF DeviceNext

LEMMA NextPhases ==
  DeviceIInv /\ [DeviceNext]_allvars => (ProbingInv /\ FailedInv /\ BoundInv /\ RemovingInv)'
<1> SUFFICES ASSUME DeviceIInv, [DeviceNext]_allvars
             PROVE  (ProbingInv /\ FailedInv /\ BoundInv /\ RemovingInv)'
  OBVIOUS
<1>a. ProbingInv /\ FailedInv /\ BoundInv /\ RemovingInv
  BY DEF DeviceIInv
<1>1. CASE ProbeStep
  <2>1. PICK n \in 1 .. 14 :
           /\ n <= 13 => Idle' /\ phase' = "probing"
           /\ n = 14 => phase' = "bound"
           /\ steps' = SubSeq(ProbeSteps, n + 1, 14) /\ have' = Done(n + 1)
           /\ n <= 6 => hw' = "off"
           /\ n \in 7 .. 11 => hw' = "on"
           /\ cancelled' = FALSE
    BY <1>1, ProbeStepAt
  <2>2. CASE n <= 13
    <3>1. n + 1 \in 1 .. 14
      BY <2>2
    <3>2. /\ n + 1 <= 7 => hw' = "off"
          /\ n + 1 \in 8 .. 12 => hw' = "on"
      BY <2>1
    <3>3. ProbingInv'
      BY <2>1, <2>2, <3>1, <3>2 DEF ProbingInv
    <3> QED BY <2>1, <2>2, <3>3 DEF FailedInv, BoundInv, RemovingInv
  <2>3. CASE n = 14
    <3>1. steps' = << >> /\ phase' = "bound" /\ have' = Done(15)
      BY <2>1, <2>3, SubSeqEmpty
    <3> QED BY <2>1, <3>1 DEF ProbingInv, FailedInv, BoundInv, RemovingInv
  <2> QED BY <2>2, <2>3
<1>2. CASE ProbeFails
  <2>1. phase' = "failed" /\ steps' = << >>
    BY <1>2 DEF ProbeFails
  <2> QED BY <1>2, <2>1, ProbeFailsAt DEF ProbingInv, FailedInv, BoundInv, RemovingInv
<1>3. CASE RemoveBegins
  <2>1. /\ phase = "bound" /\ phase' = "removing" /\ steps' = RemoveSteps /\ Closed
        /\ UNCHANGED << pc, have, cancelled >>
    BY <1>3 DEF RemoveBegins, vars
  <2>2. steps' = SubSeq(RemoveSteps, 1, 11)
    BY <2>1, RemoveStepsType, SubSeqFull
  <2>3. have' = {RemoveSteps[i] : i \in 1 .. 11} \ NoResource
    BY <1>a, <2>1, AllDone DEF BoundInv
  <2>4. GoneInv(1)'
    BY <1>a, <2>1 DEF BoundInv, GoneInv, Closed
  <2>5. RemovingInv'
    BY <2>1, <2>2, <2>3, <2>4 DEF RemovingInv
  <2> QED BY <2>1, <2>5 DEF ProbingInv, FailedInv, BoundInv
<1>4. CASE RemoveStep
  <2>1. PICK n \in 1 .. 11 :
           /\ n <= 10 => phase' = "removing"
           /\ n = 11 => phase' = "removed" /\ steps' = << >> /\ have' = {}
           /\ steps' = SubSeq(RemoveSteps, n + 1, 11)
           /\ have' = {RemoveSteps[i] : i \in n + 1 .. 11} \ NoResource
           /\ GoneInv(n + 1)'
    BY <1>4, RemoveStepAt
  <2>2. CASE n <= 10
    <3>1. n + 1 \in 1 .. 11
      BY <2>2
    <3> QED BY <2>1, <2>2, <3>1 DEF ProbingInv, FailedInv, BoundInv, RemovingInv
  <2>3. CASE n = 11
    <3>1. GoneInv(12)'
      BY <2>1, <2>3
    <3> QED BY <2>1, <2>3, <3>1 DEF ProbingInv, FailedInv, BoundInv, RemovingInv
  <2> QED BY <2>2, <2>3
<1>5. CASE DeviceNext /\ ~ (ProbeStep \/ ProbeFails \/ RemoveBegins \/ RemoveStep)
  <2>1. UNCHANGED << phase, steps, have, failed_at, cancelled >>
    BY <1>5, BesideStep
  <2>2. CASE phase = "probing"
    <3>1. PICK n \in 1 .. 14 :
            /\ steps = SubSeq(ProbeSteps, n, 14) /\ have = Done(n)
            /\ n <= 13 => Idle
            /\ ~ cancelled
      BY <1>a, <2>2 DEF ProbingInv
    <3>2. n = 14
      <4>1. n <= 13 => "debugger" \notin Done(n)
        BY ProbeStepsAre DEF Done
      <4> QED BY <1>5, <2>2, <3>1, <4>1, Asleep
    <3>3. 14 \in 1 .. 14 /\ ~ (14 <= 13) /\ ~ (14 <= 7) /\ 14 \notin 8 .. 12
      OBVIOUS
    <3>4. ProbingInv'
      BY <2>1, <3>1, <3>2, <3>3 DEF ProbingInv
    <3> QED BY <2>1, <2>2, <3>4 DEF FailedInv, BoundInv, RemovingInv
  <2>3. CASE phase = "failed"
    <3>1. Idle /\ "debugger" \notin have
      BY <1>a, <2>3 DEF FailedInv
    <3> QED BY <1>5, <2>3, <3>1, Asleep
  <2>4. CASE phase = "bound"
    BY <1>a, <2>1, <2>4 DEF ProbingInv, FailedInv, BoundInv, RemovingInv
  <2>5. CASE phase = "removing"
    <3>1. PICK n \in 1 .. 11 :
            /\ steps = SubSeq(RemoveSteps, n, 11)
            /\ have = {RemoveSteps[i] : i \in n .. 11} \ NoResource
            /\ GoneInv(n)
            /\ steps = RemoveSteps <=> n = 1
      BY <2>5, RemovingAt
    <3>2. n > 3 => "debugger" \notin have
      <4>1. \A i \in n .. 11 : n > 3 => RemoveSteps[i] # "debugger"
        BY RemoveStepsAre
      <4> QED BY <3>1, <4>1
    <3>3. n \in 1 .. 12 /\ phase # "bound"
      BY <2>5
    <3>4. GoneInv(n)'
      <4>1. steps = RemoveSteps <=> n = 1
        BY <3>1
      <4>2. GoneInv(n)
        BY <3>1
      <4> QED BY ONLY DeviceIInv, <1>5, <2>5, <3>2, <3>3, <4>1, <4>2, BesideGone
    <3>5. RemovingInv'
      BY <2>1, <2>5, <3>1, <3>4 DEF RemovingInv
    <3> QED BY <2>1, <2>5, <3>5 DEF ProbingInv, FailedInv, BoundInv
  <2>6. CASE phase = "removed"
    <3>1. steps = << >> /\ have = {} /\ GoneInv(12)
      BY <1>a, <2>6 DEF RemovingInv
    <3>2. GoneInv(12)'
      <4>1. 12 \in 1 .. 12 /\ phase # "bound" /\ "debugger" \notin have
        BY <2>6, <3>1
      <4> QED BY <1>5, <2>6, <3>1, <4>1, BesideGone
    <3> QED BY <2>1, <2>6, <3>1, <3>2 DEF ProbingInv, FailedInv, BoundInv, RemovingInv
  <2>7. phase \in {"probing", "failed", "bound", "removing", "removed"}
    BY DEF DeviceIInv, DeviceTypeOK
  <2> QED BY <2>2, <2>3, <2>4, <2>5, <2>6, <2>7
<1>6. CASE UNCHANGED allvars
  <2>1. UNCHANGED << phase, steps, have, failed_at, cancelled, mishaps, hw, pc, pending,
                     power_refcount, cmdline_power_refcount >>
    BY <1>6 DEF allvars, vars, device
  <2>2. (\A n \in 1 .. 12 : GoneInv(n)' = GoneInv(n)) /\ Idle' = Idle
    BY <2>1 DEF GoneInv, Closed, Quiet, Idle
  <2>3. ProbingInv' /\ FailedInv' /\ BoundInv'
    BY <1>a, <2>1, <2>2 DEF ProbingInv, FailedInv, BoundInv
  <2>4. RemovingInv'
    BY <1>a, <2>1, <2>2 DEF RemovingInv
  <2> QED BY <2>3, <2>4
<1> QED BY <1>1, <1>2, <1>3, <1>4, <1>5, <1>6

-----------------------------------------------------------------------------
(* The count and the hardware.                                              *)

LEMMA NextHwInv == DeviceIInv /\ [DeviceNext]_allvars => HwInv'
<1> SUFFICES ASSUME DeviceIInv, [DeviceNext]_allvars PROVE HwInv'
  OBVIOUS
<1>a. /\ pc \in [Procs -> Places] /\ power_refcount \in Nat
      /\ hw \in {"off", "partial", "on"}
  BY Types
<1>b. /\ HwInv /\ \A p \in Procs : Found(p)
      /\ \A p \in Procs : pc[p] \in Locked <=> power_lock = p
  BY DEF DeviceIInv, CountInv, CallInv, Found
<1>c. ASSUME NEW p \in Holders PROVE power_refcount >= 1
  <2>1. Cardinality(Holders) >= 1 /\ Cardinality(Holders) \in Nat
    BY <1>c, OneHolder, HoldersFinite
  <2>2. CmdlineReferences \in Nat
    BY CmdlineNat
  <2>3. power_refcount = Cardinality(Holders) + CmdlineReferences + One(pending) + One(cancelled)
    BY DEF DeviceIInv, CountInv, RefcountExact, One, Found
  <2> QED BY <2>1, <2>2, <2>3 DEF One
\* Past the power_off of remove only the work can still run.
<1>d. ASSUME PowerCut, NEW p \in Procs PROVE pc[p] \notin {"powering_on", "get"}
  <2>1. Quiet
    <3>1. CASE phase = "removing"
      BY <1>d, <3>1, RemovingAt DEF GoneInv
    <3>2. CASE phase = "removed"
      BY <3>2 DEF DeviceIInv, RemovingInv, GoneInv
    <3>3. phase \in {"probing", "failed", "bound", "removing", "removed"}
      BY DEF DeviceIInv, DeviceTypeOK
    <3> QED BY <1>d, <3>1, <3>2, <3>3, NotCut
  <2>2. pc[p] \in {"powering_on", "get"} => p # Work
    BY DEF DeviceIInv, CallInv
  <2> QED BY <2>1, <2>2, ProcsAre DEF Quiet
<1>1. CASE ProbeStep
  <2>1. PICK n \in 1 .. 14 :
           /\ n <= 13 => Idle /\ Idle' /\ phase' = "probing"
           /\ n = 14 => phase' = "bound" /\ UNCHANGED << hw, mishaps >>
           /\ Len(steps) = 15 - n /\ (n <= 13 => Len(steps') = 14 - n)
           /\ n = 12 => hw' \in {"off", hw} /\ (hw' = "off" \/ "ignored" \in mishaps')
           /\ n # 12 => mishaps' = mishaps
           /\ n = 13 => hw' = hw
           /\ UNCHANGED << pc, power_refcount >>
           /\ ~ PowerCut /\ ~ PowerCut'
    BY <1>1, ProbeStepAt
  <2>2. CASE n <= 13
    <3>1. Idle' /\ phase' = "probing" /\ ~ PowerCut'
      BY <2>1, <2>2
    <3>2. power_refcount' = 0 /\ hw' # "off" /\ SetUp' => "ignored" \in mishaps'
      <4>1. CASE n <= 11
        BY <2>1, <3>1, <4>1 DEF SetUp
      <4>2. CASE n = 12
        BY <2>1, <4>2
      <4>3. CASE n = 13
        <5>1. SetUp /\ hw' = hw /\ mishaps' = mishaps
          BY <1>1, <2>1, <4>3 DEF SetUp, ProbeStep
        <5>2. Idle
          BY <2>1, <4>3
        <5>3. hw # "off" => "ignored" \in mishaps
          BY <1>b, <5>1, <5>2 DEF HwInv, Idle
        <5> QED BY <5>1, <5>3
      <4> QED BY <2>2, <4>1, <4>2, <4>3
    <3> QED BY <3>1, <3>2 DEF HwInv, Idle
  <2>3. CASE n = 14
    <3>1. UNCHANGED << pc, power_refcount, hw, mishaps >> /\ ~ PowerCut /\ ~ PowerCut'
      BY <2>1, <2>3
    <3>2. SetUp
      BY <1>1, <2>1, <2>3 DEF ProbeStep, SetUp
    <3> QED BY <1>b, <3>1, <3>2 DEF HwInv
  <2> QED BY <2>2, <2>3
<1>2. CASE ProbeFails
  <2>1. Idle' /\ phase' = "failed" /\ steps' = << >>
    BY <1>2, ProbeFailsAt DEF ProbeFails
  <2>2. << >> # << "pm" >>
    OBVIOUS
  <2>3. ~ PowerCut' /\ ~ SetUp'
    BY <2>1, <2>2 DEF PowerCut, SetUp
  <2> QED BY <2>1, <2>3 DEF HwInv, Idle
<1>3. CASE RemoveBegins
  <2>1. /\ UNCHANGED << pc, power_refcount, hw, mishaps >> /\ phase = "bound"
        /\ phase' = "removing" /\ steps' = RemoveSteps
    BY <1>3 DEF RemoveBegins, vars
  <2>2. Len(<< "pm" >>) = 1
    OBVIOUS
  <2>3. ~ PowerCut'
    BY <2>1, <2>2, RemoveStepsType DEF PowerCut
  <2>4. ~ PowerCut /\ SetUp
    BY <2>1, NotCut DEF SetUp
  <2> QED BY <1>b, <2>1, <2>3, <2>4 DEF HwInv
<1>4. CASE RemoveStep
  <2>1. PICK n \in 1 .. 11 :
           /\ UNCHANGED << pc, power_refcount >>
           /\ n # 10 => UNCHANGED << hw, mishaps >>
           /\ n = 10 => /\ power_lock = NoProc /\ hw' \in {"off", hw}
                        /\ mishaps \subseteq mishaps'
                        /\ power_refcount > 0 => hw' = "off" \/ "ignored" \in mishaps'
                        /\ ~ (power_refcount > 0) => UNCHANGED << hw, mishaps >>
           /\ PowerCut <=> n = 11
           /\ PowerCut' <=> n \in {10, 11}
    BY <1>4, RemoveStepAt
  <2>2. SetUp
    BY <1>4 DEF RemoveStep, SetUp
  <2>3. CASE n # 10
    <3>1. UNCHANGED << pc, power_refcount, hw, mishaps >> /\ (PowerCut' <=> PowerCut)
      BY <2>1, <2>3
    <3> QED BY <1>b, <2>2, <3>1 DEF HwInv
  <2>4. CASE n = 10
    <3>1. /\ PowerCut' /\ ~ PowerCut /\ UNCHANGED << pc, power_refcount >>
          /\ hw' \in {"off", hw} /\ mishaps \subseteq mishaps'
      BY <2>1, <2>4
    <3>2. \A p \in Procs : pc[p] # "powering_off"
      BY <1>b, <2>1, <2>4, ProcsAre DEF Locked
    <3>3. hw' # "off" => "ignored" \in mishaps'
      <4>1. CASE power_refcount > 0
        BY <2>1, <2>4, <4>1
      <4>2. CASE ~ (power_refcount > 0)
        <5>1. power_refcount = 0
          BY <1>a, <4>2
        <5>2. UNCHANGED << hw, mishaps >>
          BY <2>1, <2>4, <4>2
        <5> QED BY <1>b, <2>2, <3>2, <5>1, <5>2 DEF HwInv
      <4> QED BY <4>1, <4>2
    <3> QED BY <3>1, <3>3 DEF HwInv
  <2> QED BY <2>3, <2>4
<1>5. CASE DeviceNext /\ ~ (ProbeStep \/ ProbeFails \/ RemoveBegins \/ RemoveStep)
  <2>0. /\ Next /\ UNCHANGED << phase, steps >> /\ mishaps \subseteq mishaps'
    BY <1>5, BesideStep
  <2>1. PowerCut' = PowerCut /\ SetUp' = SetUp
    BY <2>0 DEF PowerCut, SetUp
  \* The count and the hardware stay as they are, and nobody takes the lock for
  \* the power or gives it back.
  <2>2. ASSUME NEW p \in Procs, NEW place, Goto(p, place), UNCHANGED << power_refcount, hw >>,
               pc[p] \notin {"powering_on", "powering_off"}, place # "powering_off"
        PROVE  HwInv'
    <3>1. \A q \in Procs : /\ pc[q] = "powering_on" => pc'[q] = "powering_on"
                           /\ pc[q] = "powering_off" <=> pc'[q] = "powering_off"
      BY <1>a, <2>2, Moved
    <3>2. /\ power_refcount > 0 /\ hw = "off" =>
               PowerCut \/ \E q \in Procs : pc'[q] = "powering_on"
          /\ power_refcount = 0 /\ hw # "off" /\ SetUp /\ "ignored" \notin mishaps =>
               \E q \in Procs : pc'[q] = "powering_off"
      BY <1>b, <3>1 DEF HwInv
    <3>3. /\ \A q \in Procs : pc'[q] = "powering_off" /\ ~ PowerCut => hw # "off"
          /\ PowerCut /\ hw # "off" => "ignored" \in mishaps
      BY <1>b, <3>1 DEF HwInv
    <3> QED BY <2>0, <2>1, <2>2, <3>2, <3>3 DEF HwInv
  \* A reference is counted or given back, and others are left.
  <2>3. ASSUME NEW p \in Procs, NEW place, Goto(p, place), hw' = hw,
               power_refcount > 0, power_refcount' > 0,
               pc[p] # "powering_on", place # "powering_off"
        PROVE  HwInv'
    <3>1. \A q \in Procs : /\ pc[q] = "powering_on" => pc'[q] = "powering_on"
                           /\ pc'[q] = "powering_off" => pc[q] = "powering_off"
      BY <1>a, <2>3, Moved
    <3>2. hw = "off" => PowerCut \/ \E q \in Procs : pc'[q] = "powering_on"
      BY <1>b, <2>3, <3>1 DEF HwInv
    <3>3. /\ \A q \in Procs : pc'[q] = "powering_off" /\ ~ PowerCut => hw # "off"
          /\ PowerCut /\ hw # "off" => "ignored" \in mishaps
      BY <1>b, <3>1 DEF HwInv
    <3>4. power_refcount' # 0
      BY <2>3
    <3> QED BY <2>0, <2>1, <2>3, <3>2, <3>3, <3>4 DEF HwInv
  <2>4. ASSUME NEW p \in Procs, Enter(p) \/ Leave(p) \/ PutDelay(p) \/ DelayLock(p)
        PROVE  HwInv'
    <3>1. \E place \in {"get", "put_delay", "put", "delay", "queue", "drop"} : Goto(p, place)
      BY <2>4 DEF Enter, Leave, PutDelay, DelayLock
    <3> QED BY <2>2, <2>4, <3>1 DEF Enter, Leave, PutDelay, DelayLock
  <2>5. ASSUME NEW p \in Procs, PowerGet(p) PROVE HwInv'
    <3>1. hw' = hw /\ power_refcount' = power_refcount + 1 /\ pc[p] = "get"
      BY <2>5 DEF PowerGet
    <3>2. CASE power_refcount = 0
      <4>1. Goto(p, "powering_on") /\ power_lock = NoProc
        BY <2>5, <3>2 DEF PowerGet
      <4>2. \A q \in Procs : pc'[q] # "powering_off"
        BY <1>a, <1>b, <4>1, Moved, ProcsAre DEF Locked
      <4>3. pc'[p] = "powering_on"
        BY <1>a, <4>1, Moved
      <4>4. ~ PowerCut
        BY <1>d, <3>1
      <4>5. power_refcount' # 0
        BY <3>1, <3>2
      <4> QED BY <2>1, <4>2, <4>3, <4>4, <4>5 DEF HwInv
    <3>3. CASE power_refcount # 0
      <4>1. Goto(p, AfterGet(p)) /\ AfterGet(p) \in {"in", "out"}
        BY <2>5, <3>3 DEF PowerGet, AfterGet
      <4>2. power_refcount > 0 /\ power_refcount' > 0
        BY <1>a, <3>1, <3>3
      <4> QED BY <2>3, <3>1, <4>1, <4>2
    <3> QED BY <3>2, <3>3
  <2>6. ASSUME NEW p \in Procs, PowerOn(p) PROVE HwInv'
    <3>1. /\ pc[p] = "powering_on" /\ hw' # "off" /\ UNCHANGED power_refcount
          /\ Goto(p, AfterGet(p)) /\ AfterGet(p) \in {"in", "out"}
      BY <2>6 DEF PowerOn, AfterGet
    <3>2. power_refcount' # 0
      BY <1>b, <3>1 DEF Found
    <3>3. ~ PowerCut'
      BY <1>d, <2>1, <3>1
    <3> QED BY <3>1, <3>2, <3>3 DEF HwInv
  <2>7. ASSUME NEW p \in Procs, QueueWork(p) PROVE HwInv'
    BY <2>2, <2>7 DEF QueueWork
  <2>8. ASSUME NEW p \in Procs, DropReference(p) PROVE HwInv'
    <3>1. /\ pc[p] = "drop" /\ hw' = hw /\ Goto(p, "out")
          /\ power_refcount' = DecIfPositive(power_refcount)
      BY <2>8 DEF DropReference
    <3>2. power_refcount >= 2
      BY <1>b, <3>1 DEF Found
    <3>3. power_refcount > 0 /\ power_refcount' > 0
      BY <1>a, <3>1, <3>2 DEF DecIfPositive
    <3> QED BY <2>3, <3>1, <3>3
  <2>9. ASSUME NEW p \in Procs, PowerPut(p) PROVE HwInv'
    <3>1. /\ pc[p] = "put" /\ hw' = hw /\ power_lock = NoProc
          /\ power_refcount' = DecIfPositive(power_refcount)
      BY <2>9 DEF PowerPut
    <3>2. power_refcount >= 1
      <4>1. p \in Holders
        BY <3>1 DEF Holders, HoldsAt
      <4> QED BY <4>1, <1>c
    <3>3. CASE power_refcount = 1
      <4>1. Goto(p, "powering_off") /\ power_refcount' = 0
        BY <2>9, <3>1, <3>3 DEF PowerPut, DecIfPositive
      <4>2. pc'[p] = "powering_off"
        BY <1>a, <4>1, Moved
      <4>3. \A q \in Procs : pc[q] # "powering_on"
        BY <1>b, <3>1, ProcsAre DEF Locked
      <4>4. hw = "off" => PowerCut
        BY <1>b, <3>3, <4>3 DEF HwInv
      <4>5. PowerCut /\ hw # "off" => "ignored" \in mishaps
        BY <1>b DEF HwInv
      <4>6. ~ (power_refcount' > 0)
        BY <4>1
      <4> QED BY <2>0, <2>1, <3>1, <4>2, <4>4, <4>5, <4>6 DEF HwInv
    <3>4. CASE power_refcount # 1
      <4>1. Goto(p, "out") /\ power_refcount > 0 /\ power_refcount' > 0
        BY <1>a, <2>9, <3>1, <3>2, <3>4 DEF PowerPut, DecIfPositive
      <4> QED BY <2>3, <3>1, <4>1
    <3> QED BY <3>3, <3>4
  <2>10. ASSUME NEW p \in Procs, PowerOff(p) PROVE HwInv'
    <3>1. pc[p] = "powering_off" /\ hw' = "off" /\ UNCHANGED power_refcount /\ Goto(p, "out")
      BY <2>10 DEF PowerOff
    <3>2. ~ (power_refcount' > 0)
      BY <1>b, <3>1 DEF Found
    <3>3. \A q \in Procs : pc'[q] # "powering_off"
      BY <1>a, <1>b, <3>1, Moved DEF Locked
    <3> QED BY <3>1, <3>2, <3>3 DEF HwInv
  <2>11. ASSUME NEW p \in Procs, PowerOffFails(p) PROVE HwInv'
    <3>1. /\ pc[p] = "powering_off" /\ hw' = hw /\ power_refcount' = power_refcount + 1
          /\ Goto(p, "put_delay")
      BY <2>11 DEF PowerOffFails
    <3>2. power_refcount' # 0
      BY <1>b, <3>1 DEF Found
    <3>3. \A q \in Procs : pc'[q] # "powering_off"
      BY <1>a, <1>b, <3>1, Moved DEF Locked
    <3>4. hw = "off" => PowerCut
      BY <1>b, <3>1 DEF HwInv
    <3>5. PowerCut /\ hw # "off" => "ignored" \in mishaps
      BY <1>b DEF HwInv
    <3> QED BY <2>0, <2>1, <3>1, <3>2, <3>3, <3>4, <3>5 DEF HwInv
  <2>12. CASE WorkBegin
    BY <2>2, <2>12, ProcsAre DEF WorkBegin
  <2>13. CASE DebugOn \/ DebugOff
    BY <2>2, <2>13, ProcsAre DEF DebugOn, DebugOff
  <2>14. CASE DebugOffDec \/ DebugOffClear
    <3>1. \E place \in {"off_sub", "out", "put"} : Goto(Debug, place)
      BY <2>14 DEF DebugOffDec, DebugOffClear
    <3> QED BY <2>2, <2>14, <3>1, ProcsAre DEF DebugOffDec, DebugOffClear
  <2>15. CASE DebugOffSub
    <3>1. /\ pc[Debug] = "off_sub" /\ hw' = hw /\ Goto(Debug, "off_clear") /\ Debug \in Holders
          /\ power_refcount' = power_refcount - CmdlineReferences
      BY <2>15, ProcsAre DEF DebugOffSub, CmdlineReferences, Holders, HoldsAt
    <3>2. Cardinality(Holders) \in Nat /\ Cardinality(Holders) >= 1
      BY <3>1, OneHolder, HoldersFinite
    <3>3. power_refcount = Cardinality(Holders) + CmdlineReferences + One(pending) + One(cancelled)
      BY DEF DeviceIInv, CountInv, RefcountExact, One, Found
    <3>4. power_refcount > 0 /\ power_refcount' > 0
      BY <3>1, <3>2, <3>3, CmdlineNat DEF One
    <3> QED BY <2>3, <3>1, <3>4, ProcsAre
  <2>16. CASE DebugSetDelay
    <3>1. UNCHANGED << pc, hw, power_refcount >>
      BY <2>16 DEF DebugSetDelay
    <3> QED BY <1>b, <2>0, <2>1, <3>1 DEF HwInv
  <2> QED
    BY <2>0, <2>4, <2>5, <2>6, <2>7, <2>8, <2>9, <2>10, <2>11, <2>12, <2>13, <2>14, <2>15,
       <2>16 DEF Next, Caller, DebugWriter
<1>6. CASE UNCHANGED allvars
  <2>1. UNCHANGED << phase, steps, mishaps, hw, pc, power_refcount >>
    BY <1>6 DEF allvars, vars, device
  <2>2. PowerCut' = PowerCut /\ SetUp' = SetUp
    BY <2>1 DEF PowerCut, SetUp
  <2> QED BY <1>b, <2>1, <2>2 DEF HwInv
<1> QED BY <1>1, <1>2, <1>3, <1>4, <1>5, <1>6

-----------------------------------------------------------------------------
(* The types.                                                               *)

LEMMA NextPowerTypes ==
  ASSUME DeviceIInv, Next
  PROVE  TypeOK'
<1>a. /\ TypeOK /\ MaxOn \in Nat /\ cmdline_power_refcount \in Nat
      /\ Debug \in Procs /\ Work \in Procs
  BY Types, ProcsAre, PowerAssumption DEF DeviceIInv, DeviceTypeOK
<1>b. ASSUME NEW p \in Procs, NEW place \in Places, Goto(p, place)
      PROVE  pc' \in [Procs -> Places]
  BY <1>a, <1>b DEF TypeOK, Goto
<1>c. DecIfPositive(power_refcount) \in Nat /\ DecIfPositive(cmdline_power_refcount) \in 0 .. MaxOn
  BY <1>a DEF TypeOK, DecIfPositive
<1>1. ASSUME NEW p \in Procs, Enter(p) PROVE TypeOK'
  <2>1. "get" \in Places
    BY DEF Places
  <2>2. pc' \in [Procs -> Places]
    BY <1>1, <1>b, <2>1 DEF Enter
  <2> QED BY <1>1, <1>a, <2>2 DEF TypeOK, Enter
<1>2. ASSUME NEW p \in Procs, Caller(p) PROVE TypeOK'
  <2>1. pc' \in [Procs -> Places]
    BY <1>2, <1>b, CallerHasBegun
  <2>2. CASE PowerGet(p) \/ PowerOn(p) \/ Leave(p)
    BY <1>a, <2>1, <2>2 DEF TypeOK, PowerGet, PowerOn, Leave
  <2>3. CASE PutDelay(p) \/ DelayLock(p) \/ QueueWork(p) \/ DropReference(p)
    BY <1>a, <1>c, <2>1, <2>3 DEF TypeOK, PutDelay, DelayLock, QueueWork, DropReference
  <2>4. CASE PowerPut(p) \/ PowerOff(p) \/ PowerOffFails(p)
    BY <1>a, <1>c, <2>1, <2>4 DEF TypeOK, PowerPut, PowerOff, PowerOffFails
  <2> QED BY <1>2, <2>2, <2>3, <2>4 DEF Caller
<1>3. CASE WorkBegin
  <2>1. "put" \in Places
    BY DEF Places
  <2>2. pc' \in [Procs -> Places]
    BY <1>3, <1>a, <1>b, <2>1 DEF WorkBegin
  <2> QED BY <1>3, <1>a, <2>2 DEF TypeOK, WorkBegin
<1>4. CASE DebugOn \/ DebugOff
  <2>1. "get" \in Places /\ "off_dec" \in Places
    BY DEF Places
  <2>2. pc' \in [Procs -> Places]
    BY <1>4, <1>a, <1>b, <2>1 DEF DebugOn, DebugOff
  <2> QED BY <1>4, <1>a, <2>2 DEF TypeOK, DebugOn, DebugOff
<1>5. CASE DebugWriter
  <2>1. "off_sub" \in Places /\ "out" \in Places /\ "off_clear" \in Places /\ "put" \in Places
    BY DEF Places
  <2>2. pc' \in [Procs -> Places]
    BY <1>5, <1>a, <1>b, <2>1 DEF DebugWriter, DebugOffDec, DebugOffSub, DebugOffClear
  <2>3. CASE DebugOffDec \/ DebugOffClear
    BY <1>a, <1>c, <2>2, <2>3 DEF TypeOK, DebugOffDec, DebugOffClear
  <2>4. CASE DebugOffSub
    <3>1. power_refcount = Cardinality(Holders) + CmdlineReferences + One(pending) + One(cancelled)
      BY DEF DeviceIInv, CountInv, RefcountExact, One, Found
    <3>2. power_refcount' = power_refcount - CmdlineReferences
      BY <2>4 DEF DebugOffSub, CmdlineReferences
    <3>3. power_refcount' \in Nat
      BY <3>1, <3>2, CmdlineNat, HoldersFinite DEF One
    <3> QED BY <1>a, <2>2, <2>4, <3>3 DEF TypeOK, DebugOffSub
  <2> QED BY <1>5, <2>3, <2>4 DEF DebugWriter
<1>6. CASE DebugSetDelay
  BY <1>6, <1>a DEF TypeOK, DebugSetDelay
<1> QED BY <1>1, <1>2, <1>3, <1>4, <1>5, <1>6 DEF Next

LEMMA NextDeviceTypeOK == DeviceIInv /\ [DeviceNext]_allvars => DeviceTypeOK'
<1> SUFFICES ASSUME DeviceIInv, [DeviceNext]_allvars PROVE DeviceTypeOK'
  OBVIOUS
<1>a. DeviceTypeOK /\ TypeOK /\ MaxOn \in Nat
  BY PowerAssumption DEF DeviceIInv, DeviceTypeOK
<1> DEFINE S == ToSet(ProbeSteps) \cup ToSet(RemoveSteps)
<1>b. /\ << >> \in Seq(S) /\ RemoveSteps \in Seq(S)
      /\ steps \in Seq(S) /\ (Len(steps) >= 1 => Tail(steps) \in Seq(S))
  <2>1. steps \in Seq(S)
    BY <1>a DEF DeviceTypeOK
  <2>2. ToSet(RemoveSteps) \subseteq S
    OBVIOUS
  <2>3. RemoveSteps \in Seq(S)
    BY <2>2, RemoveStepsType, SeqMonotonic
  <2> HIDE DEF S
  <2>4. Len(steps) >= 1 => steps # << >>
    BY EmptySeq
  <2>5. steps # << >> => Tail(steps) \in Seq(S)
    BY <2>1, HeadTailProperties
  <2> QED BY <2>1, <2>3, <2>4, <2>5, EmptySeq
<1>1. CASE ProbeStep
  <2>1. PICK n \in 1 .. 14 : Head(steps) = ProbeSteps[n] /\ Len(steps) = 15 - n
    BY <1>1, ProbingAt DEF ProbeStep
  <2>2. ProbeSteps[n] \in ToSet(ProbeSteps)
    BY ProbeStepsType DEF ToSet
  <2>3. Tail(steps) \in Seq(S)
    BY <1>b, <2>1
  <2>4. have' \subseteq ToSet(ProbeSteps) \ NoResource /\ steps' \in Seq(S)
    BY <1>1, <1>a, <2>1, <2>2, <2>3 DEF ProbeStep, Advance, DeviceTypeOK
  <2>5. /\ phase' \in {"probing", "failed", "bound", "removing", "removed"}
        /\ mishaps' \subseteq {"ignored", "late"}
        /\ hw' \in {"off", "partial", "on"}
    BY <1>1, <1>a DEF ProbeStep, Advance, IgnoredIf, DeviceTypeOK, TypeOK
  <2>6. power_refcount' \in Nat /\ cmdline_power_refcount' \in 0 .. MaxOn
    BY <1>1, <1>a DEF ProbeStep, TypeOK
  <2>7. TypeOK'
    BY <1>1, <1>a, <2>5, <2>6 DEF ProbeStep, TypeOK
  <2> QED BY <1>1, <1>a, <2>4, <2>5, <2>7 DEF ProbeStep, DeviceTypeOK
<1>2. CASE ProbeFails
  <2>1. TypeOK'
    BY <1>2, <1>a DEF ProbeFails, TypeOK
  <2> QED BY <1>2, <1>a, <1>b, <2>1 DEF ProbeFails, DeviceTypeOK
<1>3. CASE RemoveBegins
  <2>1. TypeOK'
    BY <1>3, <1>a DEF RemoveBegins, vars, TypeOK
  <2> QED BY <1>3, <1>a, <1>b, <2>1 DEF RemoveBegins, DeviceTypeOK
<1>4. CASE RemoveStep
  <2>1. \E n \in 1 .. 11 : Len(steps) = 12 - n
    BY <1>4, RemovingAt DEF RemoveStep
  <2>2. steps' \in Seq(S)
    BY <1>4, <1>b, <2>1 DEF RemoveStep, Advance
  <2>3. /\ phase' \in {"probing", "failed", "bound", "removing", "removed"}
        /\ mishaps' \subseteq {"ignored", "late"}
        /\ have' \subseteq ToSet(ProbeSteps) \ NoResource
        /\ hw' \in {"off", "partial", "on"}
    BY <1>4, <1>a DEF RemoveStep, Advance, IgnoredIf, DeviceTypeOK, TypeOK
  <2>4. pending' \in BOOLEAN /\ cancelled' \in BOOLEAN
    BY <1>4, <1>a DEF RemoveStep, TypeOK, DeviceTypeOK
  <2>5. TypeOK'
    BY <1>4, <1>a, <2>3, <2>4 DEF RemoveStep, TypeOK
  <2> QED BY <1>4, <1>a, <2>2, <2>3, <2>4, <2>5 DEF RemoveStep, DeviceTypeOK
<1>5. CASE DeviceNext /\ ~ (ProbeStep \/ ProbeFails \/ RemoveBegins \/ RemoveStep)
  <2>1. /\ Next /\ UNCHANGED << phase, steps, have, failed_at, cancelled >>
        /\ mishaps' \subseteq mishaps \cup {"late"}
    BY <1>5, BesideStep
  <2>2. TypeOK'
    BY <2>1, NextPowerTypes
  <2> QED BY <1>a, <2>1, <2>2 DEF DeviceTypeOK
<1>6. CASE UNCHANGED allvars
  <2>1. TypeOK'
    BY <1>6, <1>a DEF allvars, vars, TypeOK
  <2> QED BY <1>6, <1>a, <2>1 DEF allvars, device, DeviceTypeOK
<1> QED BY <1>1, <1>2, <1>3, <1>4, <1>5, <1>6

-----------------------------------------------------------------------------
(* The theorems.                                                            *)

\* The inductive invariant holds in every state.
LEMMA Invariance == DeviceSpec => []DeviceIInv
<1>1. DeviceIInv /\ [DeviceNext]_allvars => DeviceIInv'
  <2> SUFFICES ASSUME DeviceIInv, [DeviceNext]_allvars PROVE DeviceIInv'
    OBVIOUS
  <2>1. CountInv'
    BY NextRefcountExact, NextFound DEF CountInv, Found
  <2> QED BY <2>1, NextDeviceTypeOK, NextCallInv, NextHwInv, NextPhases DEF DeviceIInv
<1> QED BY <1>1, InitDeviceIInv, PTL DEF DeviceSpec

\* The variables of the device and of its power management keep their types; in
\* particular the count never becomes negative, although "off" subtracts from
\* it without the lock (rknpu_debugger.c 114-121).
THEOREM DeviceTypeCorrect == DeviceSpec => []DeviceTypeOK
<1>1. DeviceIInv => DeviceTypeOK
  BY DEF DeviceIInv
<1> QED BY <1>1, Invariance, PTL

\* Every get is matched by exactly one put: of a caller, of the delayed work or
\* of the work that remove has cancelled, for any number of callers and whatever
\* the debugger writes (rknpu_drv.c 327-390, 1525; rknpu_debugger.c 97-126).
THEOREM ReferencesMatched == DeviceSpec => []RefcountExact
<1>1. DeviceIInv => RefcountExact
  BY DEF DeviceIInv, CountInv, Found
<1> QED BY <1>1, Invariance, PTL

\* Whoever uses the hardware finds it switched on as far as power_on could, and
\* without a reference it is off (rknpu_drv.c 357-373, 650-660, 1502).
THEOREM PowerFollowsTheCount == DeviceSpec => []PoweredAsCounted
<1>1. ASSUME DeviceIInv PROVE PoweredAsCounted
  <2>a. /\ HwInv /\ CallInv /\ power_refcount \in Nat /\ cmdline_power_refcount \in Nat
        /\ power_refcount = Cardinality(Holders) + CmdlineReferences + One(pending) + One(cancelled)
        /\ Cardinality(Holders) \in Nat /\ CmdlineReferences \in Nat
    BY <1>1, Types, HoldersFinite, CmdlineNat DEF DeviceIInv, CountInv, RefcountExact, One, Found
  <2>b. \A p \in Procs : pc[p] = "powering_on" => power_refcount = 1
    BY <1>1 DEF DeviceIInv, CountInv, Found
  <2>1. ASSUME NEW p \in Users \cup Readers, pc[p] = "in" PROVE hw # "off"
    <3>1. p \in Holders /\ p \in Procs /\ p # Debug
      BY <2>1, ProcsAre DEF Holders, HoldsAt
    <3>2. power_refcount > 0
      <4>1. Cardinality(Holders) >= 1
        BY <3>1, OneHolder
      <4> QED BY <2>a, <4>1 DEF One
    <3>3. ~ PowerCut
      <4>1. CASE phase = "removing"
        BY <1>1, <2>1, <3>1, <4>1, RemovingAt DEF GoneInv, Quiet
      <4>2. CASE phase = "removed"
        BY <1>1, <2>1, <3>1, <4>2 DEF DeviceIInv, RemovingInv, GoneInv, Quiet
      <4>3. phase \in {"probing", "failed", "bound", "removing", "removed"}
        BY <1>1 DEF DeviceIInv, DeviceTypeOK
      <4> QED BY <1>1, <4>1, <4>2, <4>3, NotCut
    <3>4. \A q \in Procs : pc[q] # "powering_on"
      <4>1. ASSUME NEW q \in Procs, pc[q] = "powering_on" PROVE FALSE
        <5>1. power_refcount = 1 /\ q # p
          BY <2>1, <2>b, <4>1
        <5>2. CASE q = Debug
          <6>1. CmdlineReferences = cmdline_power_refcount /\ cmdline_power_refcount > 0
            BY <2>a, <4>1, <5>2 DEF CmdlineReferences, CallInv
          <6>2. Cardinality(Holders) >= 1
            BY <3>1, OneHolder
          <6> QED BY <2>a, <5>1, <6>1, <6>2 DEF One
        <5>3. CASE q # Debug
          <6>1. q \in Holders
            BY <4>1, <5>3 DEF Holders, HoldsAt
          <6>2. Cardinality(Holders) >= 2
            BY <3>1, <5>1, <6>1, TwoHolders
          <6> QED BY <2>a, <5>1, <6>2 DEF One
        <5> QED BY <5>2, <5>3
      <4> QED BY <4>1
    <3> QED BY <2>a, <3>2, <3>3, <3>4 DEF HwInv
  <2>2. ASSUME cmdline_power_refcount > 0, pc[Debug] = "out", ~ PowerCut PROVE hw # "off"
    <3>1. CmdlineReferences = cmdline_power_refcount
      BY <2>2 DEF CmdlineReferences
    <3>2. power_refcount > 0
      BY <2>a, <2>2, <3>1 DEF One
    <3>3. ASSUME NEW q \in Procs, pc[q] = "powering_on" PROVE FALSE
      <4>1. q \in Holders
        BY <2>2, <3>3 DEF Holders, HoldsAt
      <4>2. Cardinality(Holders) >= 1 /\ power_refcount = 1
        BY <2>b, <3>3, <4>1, OneHolder
      <4> QED BY <2>a, <2>2, <3>1, <4>2 DEF One
    <3> QED BY <2>a, <2>2, <3>2, <3>3 DEF HwInv
  <2>3. ASSUME power_refcount = 0, hw # "off", phase \in {"bound", "removing", "removed"},
               "ignored" \notin mishaps
        PROVE  \E p \in Procs : power_lock = p /\ pc[p] = "powering_off"
    BY <2>a, <2>3 DEF HwInv, SetUp, CallInv, Locked
  <2> QED BY <2>1, <2>2, <2>3 DEF PoweredAsCounted
<1> QED BY <1>1, Invariance, PTL

\* Nothing that probe has set up outlives a remove, what a failed probe leaves
\* is known, and the work runs neither on a queue nor for a device that is gone
\* (rknpu_drv.c 1416-1424, 1459-1473, 1510-1588).
THEOREM DeviceGoesCleanly == DeviceSpec => []NothingOutlivesTheDevice
<1>1. ASSUME DeviceIInv PROVE NothingOutlivesTheDevice
  <2>a. FailedInv /\ RemovingInv /\ HwInv
    BY <1>1 DEF DeviceIInv
  <2>1. phase = "failed" =>
          /\ have \subseteq {"group", "minor", "pm"}
          /\ "minor" \in have => failed_at = "heap"
          /\ "pm" \in have => failed_at \in {"power", "wq", "sram"}
          /\ hw # "off" => failed_at \in {"power", "wq", "sram"}
    BY <2>a DEF FailedInv
  <2>2. phase = "removed" => have = {} /\ Quiet
    BY <2>a DEF RemovingInv, GoneInv
  <2>3. ASSUME phase \in {"removing", "removed"}, "wq" \notin have, "late" \notin mishaps
        PROVE  ~ pending /\ pc[Work] = "out"
    <3>1. CASE phase = "removing"
      <4>1. PICK n \in 1 .. 11 :
              have = {RemoveSteps[i] : i \in n .. 11} \ NoResource /\ GoneInv(n)
        BY <1>1, <3>1, RemovingAt
      <4>2. n # 1
        <5>1. RemoveSteps[2] = "wq" /\ "wq" \notin NoResource
          BY RemoveStepsAre DEF NoResource
        <5>2. ASSUME n = 1 PROVE FALSE
          <6>1. 2 \in n .. 11
            BY <5>2
          <6> QED BY <2>3, <4>1, <5>1, <6>1
        <5> QED BY <5>2
      <4> QED BY <2>3, <4>1, <4>2 DEF GoneInv
    <3>2. CASE phase = "removed"
      BY <2>a, <2>3, <3>2 DEF RemovingInv, GoneInv
    <3> QED BY <2>3, <3>1, <3>2
  <2>4. phase = "removed" /\ hw # "off" => "ignored" \in mishaps
    BY <2>a DEF HwInv, PowerCut
  <2> QED BY <2>1, <2>2, <2>3, <2>4 DEF NothingOutlivesTheDevice
<1> QED BY <1>1, Invariance, PTL
=============================================================================
