-------------------------- MODULE NpuDevfreqProofs --------------------------
(***************************************************************************)
(* Proofs about NpuDevfreq for any number of operating points.             *)
(***************************************************************************)
EXTENDS NpuDevfreq, TLAPS

\* What is asked of the constants: the rate of a suspended clock is an operating
\* point, the lowest.
IsTable ==
  /\ MaxRate \in Nat
  /\ POWER_DOWN_FREQ \in Rates /\ \A r \in Rates : POWER_DOWN_FREQ <= r

(***************************************************************************)
(* The steps still to come, by name.                                       *)
(***************************************************************************)

Idle == << >>
Core == << "core" >>
Done == << "done" >>
Failed == << "failed" >>

\* Scaling up, down, and the way back.
UpMem == << "mem", "vdd", "rm", "clk", "done" >>
UpVdd == << "vdd", "rm", "clk", "done" >>
UpRm == << "rm", "clk", "done" >>
UpClk == << "clk", "done" >>
DownRm == << "rm", "clk", "vdd", "mem", "done" >>
DownClk == << "clk", "vdd", "mem", "done" >>
DownVdd == << "vdd", "mem", "done" >>
DownMem == << "mem", "done" >>
BackClk == << "old_clk", "old_rm", "old_mem", "old_vdd", "failed" >>
BackRm == << "old_rm", "old_mem", "old_vdd", "failed" >>
BackMem == << "old_mem", "old_vdd", "failed" >>
BackVdd == << "old_vdd", "failed" >>

Raising == {UpMem, UpVdd}
Raised == {UpRm, UpClk}
Lowering == {DownRm, DownClk}
Lowered == {DownVdd, DownMem}
Restoring == {BackClk, BackRm, BackMem, BackVdd}
Resting == {Idle, Core, Failed} \cup Restoring \cup Lowering
Todos == Resting \cup Raising \cup Raised \cup Lowered \cup {Done}

\* What each of them does first, and what it leaves.
Is(s, length, head) == Len(s) = length /\ (length > 0 => Head(s) = head)

LEMMA Names ==
  /\ Is(Idle, 0, "") /\ Is(Core, 1, "core") /\ Is(Done, 1, "done")
  /\ Is(Failed, 1, "failed")
  /\ Is(UpMem, 5, "mem") /\ Is(UpVdd, 4, "vdd") /\ Is(UpRm, 3, "rm") /\ Is(UpClk, 2, "clk")
  /\ Is(DownRm, 5, "rm") /\ Is(DownClk, 4, "clk") /\ Is(DownVdd, 3, "vdd")
  /\ Is(DownMem, 2, "mem")
  /\ Is(BackClk, 5, "old_clk") /\ Is(BackRm, 4, "old_rm") /\ Is(BackMem, 3, "old_mem")
  /\ Is(BackVdd, 2, "old_vdd")
<1>1. Is(Idle, 0, "") /\ Is(Core, 1, "core") /\ Is(Done, 1, "done") /\ Is(Failed, 1, "failed")
  BY DEF Is, Idle, Core, Done, Failed
<1>2. /\ Is(UpMem, 5, "mem") /\ Is(UpVdd, 4, "vdd") /\ Is(UpRm, 3, "rm")
      /\ Is(UpClk, 2, "clk")
  BY DEF Is, UpMem, UpVdd, UpRm, UpClk
<1>3. /\ Is(DownRm, 5, "rm") /\ Is(DownClk, 4, "clk") /\ Is(DownVdd, 3, "vdd")
      /\ Is(DownMem, 2, "mem")
  BY DEF Is, DownRm, DownClk, DownVdd, DownMem
<1>4. /\ Is(BackClk, 5, "old_clk") /\ Is(BackRm, 4, "old_rm") /\ Is(BackMem, 3, "old_mem")
      /\ Is(BackVdd, 2, "old_vdd")
  BY DEF Is, BackClk, BackRm, BackMem, BackVdd
<1> QED BY <1>1, <1>2, <1>3, <1>4

\* A number for each, which keeps them apart.
HeadNumber(head) ==
  CASE head = "core" -> 1 [] head = "done" -> 2 [] head = "failed" -> 3
    [] head = "mem" -> 4 [] head = "vdd" -> 5 [] head = "rm" -> 6 [] head = "clk" -> 7
    [] head = "old_clk" -> 8 [] head = "old_rm" -> 9 [] head = "old_mem" -> 10
    [] head = "old_vdd" -> 11

Number(s) == 100 * Len(s) + (IF Len(s) = 0 THEN 0 ELSE HeadNumber(Head(s)))

LEMMA HeadNumbers ==
  /\ HeadNumber("core") = 1
  /\ HeadNumber("done") = 2
  /\ HeadNumber("failed") = 3
  /\ HeadNumber("mem") = 4
  /\ HeadNumber("vdd") = 5
  /\ HeadNumber("rm") = 6
  /\ HeadNumber("clk") = 7
  /\ HeadNumber("old_clk") = 8
  /\ HeadNumber("old_rm") = 9
  /\ HeadNumber("old_mem") = 10
  /\ HeadNumber("old_vdd") = 11
BY DEF HeadNumber

LEMMA Numbers ==
  /\ Number(Idle) = 0 /\ Number(Core) = 101 /\ Number(Done) = 102 /\ Number(Failed) = 103
  /\ Number(UpMem) = 504 /\ Number(UpVdd) = 405 /\ Number(UpRm) = 306 /\ Number(UpClk) = 207
  /\ Number(DownRm) = 506 /\ Number(DownClk) = 407 /\ Number(DownVdd) = 305 /\ Number(DownMem) = 204
  /\ Number(BackClk) = 508 /\ Number(BackRm) = 409 /\ Number(BackMem) = 310 /\ Number(BackVdd) = 211
<1>1. /\ Number(Idle) = 0
      /\ Number(Core) = 101
      /\ Number(Done) = 102
      /\ Number(Failed) = 103
  BY Names, HeadNumbers DEF Number, Is
<1>2. /\ Number(UpMem) = 504
      /\ Number(UpVdd) = 405
      /\ Number(UpRm) = 306
      /\ Number(UpClk) = 207
  BY Names, HeadNumbers DEF Number, Is
<1>3. /\ Number(DownRm) = 506
      /\ Number(DownClk) = 407
      /\ Number(DownVdd) = 305
      /\ Number(DownMem) = 204
  BY Names, HeadNumbers DEF Number, Is
<1>4. /\ Number(BackClk) = 508
      /\ Number(BackRm) = 409
      /\ Number(BackMem) = 310
      /\ Number(BackVdd) = 211
  BY Names, HeadNumbers DEF Number, Is
<1> QED BY <1>1, <1>2, <1>3, <1>4

LEMMA Tails ==
  /\ Tail(UpMem) = UpVdd /\ Tail(UpVdd) = UpRm /\ Tail(UpRm) = UpClk /\ Tail(UpClk) = Done
  /\ Tail(DownRm) = DownClk /\ Tail(DownClk) = DownVdd /\ Tail(DownVdd) = DownMem
  /\ Tail(DownMem) = Done
  /\ Tail(BackClk) = BackRm /\ Tail(BackRm) = BackMem /\ Tail(BackMem) = BackVdd
  /\ Tail(BackVdd) = Failed
<1>1. /\ Tail(UpMem) = UpVdd /\ Tail(UpVdd) = UpRm /\ Tail(UpRm) = UpClk
      /\ Tail(UpClk) = Done
  BY DEF UpMem, UpVdd, UpRm, UpClk, Done
<1>2. /\ Tail(DownRm) = DownClk /\ Tail(DownClk) = DownVdd /\ Tail(DownVdd) = DownMem
      /\ Tail(DownMem) = Done
  BY DEF DownRm, DownClk, DownVdd, DownMem, Done
<1>3. /\ Tail(BackClk) = BackRm /\ Tail(BackRm) = BackMem /\ Tail(BackMem) = BackVdd
      /\ Tail(BackVdd) = Failed
  BY DEF BackClk, BackRm, BackMem, BackVdd, Failed
<1> QED BY <1>1, <1>2, <1>3

(***************************************************************************)
(* The inductive invariant.                                                *)
(***************************************************************************)

TypeInv ==
  /\ build \in {"old", "new"} /\ scmi_clk \in BOOLEAN /\ active \in BOOLEAN
  /\ have \subseteq Everything
  /\ clk \in Rates /\ vdd \in Rates /\ mem \in Rates
  /\ current_freq \in Rates \cup {Unset} /\ ondemand_freq \in Rates \cup {Unset}
  /\ todo \in Todos
  /\ todo # Idle => change.old \in Rates /\ change.new \in Rates

\* Changes, suspend and resume keep apart.
LockInv ==
  /\ todo # Idle => {"devfreq", "table"} \subseteq have
  /\ "mdev" \in have => "devfreq" \in have
  /\ HasLock => (todo # Idle <=> dvfs_lock = "target")
  /\ "devfreq" \in have <=> current_freq # Unset
  /\ "devfreq" \in have => ondemand_freq # Unset
  /\ "devfreq" \notin have => dvfs_lock = "free" /\ clk <= vdd /\ clk <= mem

\* The clock can be set, or cannot have been powered down.
Live == active \/ ~ scmi_clk

\* What the supplies suffice for: the noted rate, also while the clock is below
\* it, and the new rate as soon as the clock is set to it.
SupplyInv ==
  HasLock /\ slips = {} =>
    /\ todo # Idle => change.set_clk = Live /\ (Live => change.old <= current_freq)
    /\ todo \in Resting => vdd >= current_freq /\ mem >= current_freq
    /\ todo \in Resting /\ Live => clk <= current_freq
    /\ todo \in Restoring => change.old >= current_freq
    /\ todo \in Raising \cup Raised => change.new >= change.old
    /\ todo \in Raising \cup Raised /\ Live => clk <= change.old
    /\ todo \in Raising => vdd >= current_freq
    /\ todo = UpMem => mem >= current_freq
    /\ todo = UpVdd => mem = change.new
    /\ todo \in Raised \cup {Done} => vdd = change.new /\ mem = change.new
    /\ todo \in Lowering \cup Lowered => change.new < change.old
    /\ todo \in Lowered \cup {Done} /\ Live => clk = change.new
    /\ todo \in Lowered => mem >= current_freq
    /\ todo = DownVdd => vdd >= current_freq
    /\ todo = DownMem => vdd = change.new

IInv == TypeInv /\ LockInv /\ SupplyInv

-----------------------------------------------------------------------------
THEOREM InitEstablishes ==
  Init => IInv
<1> SUFFICES ASSUME Init PROVE IInv
  OBVIOUS
<1>1. TypeInv
  BY DEF Init, TypeInv, Todos, Resting, Idle, Everything
<1>2. LockInv /\ SupplyInv
  BY DEF Init, LockInv, SupplyInv, HasLock, Unset, Rates, Idle
<1> QED BY <1>1, <1>2 DEF IInv

\* The steps of a change.
LEMMA ChangeStepCases ==
  ASSUME TypeInv, ChangeStep
  PROVE  \/ todo = UpMem /\ todo' = UpVdd /\ mem' = change.new /\ vdd' = vdd /\ clk' = clk
         \/ todo = UpVdd /\ todo' = UpRm /\ mem' = mem /\ vdd' = change.new /\ clk' = clk
         \/ todo = UpRm /\ todo' = UpClk /\ mem' = mem /\ vdd' = vdd /\ clk' = clk
         \/ /\ todo = UpClk /\ todo' = Done /\ mem' = mem /\ vdd' = vdd
            /\ clk' = IF change.set_clk THEN change.new ELSE clk
         \/ todo = DownRm /\ todo' = DownClk /\ mem' = mem /\ vdd' = vdd /\ clk' = clk
         \/ /\ todo = DownClk /\ todo' = DownVdd /\ mem' = mem /\ vdd' = vdd
            /\ clk' = IF change.set_clk THEN change.new ELSE clk
         \/ todo = DownVdd /\ todo' = DownMem /\ mem' = mem /\ vdd' = change.new /\ clk' = clk
         \/ todo = DownMem /\ todo' = Done /\ mem' = change.new /\ vdd' = vdd /\ clk' = clk
<1>1. todo \in Raising \cup Raised \cup Lowering \cup Lowered
  BY Names DEF TypeInv, ChangeStep, Todos, Resting, Restoring, Is
<1>2. CASE todo = UpMem
  BY <1>2, Names, Tails DEF ChangeStep, Is
<1>3. CASE todo = UpVdd
  BY <1>3, Names, Tails DEF ChangeStep, Is
<1>4. CASE todo = UpRm
  BY <1>4, Names, Tails DEF ChangeStep, Is
<1>5. CASE todo = UpClk
  BY <1>5, Names, Tails DEF ChangeStep, Is
<1>6. CASE todo = DownRm
  BY <1>6, Names, Tails DEF ChangeStep, Is
<1>7. CASE todo = DownClk
  BY <1>7, Names, Tails DEF ChangeStep, Is
<1>8. CASE todo = DownVdd
  BY <1>8, Names, Tails DEF ChangeStep, Is
<1>9. CASE todo = DownMem
  BY <1>9, Names, Tails DEF ChangeStep, Is
<1> QED BY <1>1, <1>2, <1>3, <1>4, <1>5, <1>6, <1>7, <1>8, <1>9
  DEF Raising, Raised, Lowering, Lowered

LEMMA RestoreStepCases ==
  ASSUME TypeInv, RestoreStep
  PROVE  /\ \/ todo = BackClk /\ todo' = BackRm
            \/ todo = BackRm /\ todo' = BackMem
            \/ todo = BackMem /\ todo' = BackVdd
            \/ todo = BackVdd /\ todo' = Failed
         /\ clk' = clk \/ (change.set_clk /\ clk' = change.old)
         /\ mem' \in {mem, change.old} /\ vdd' \in {vdd, change.old}
<1>1. todo \in Restoring
  BY Names DEF TypeInv, RestoreStep, Todos, Resting, Raising, Raised, Lowering, Lowered, Is
<1>2. \/ todo = BackClk /\ todo' = BackRm
      \/ todo = BackRm /\ todo' = BackMem
      \/ todo = BackMem /\ todo' = BackVdd
      \/ todo = BackVdd /\ todo' = Failed
  BY <1>1, Tails DEF RestoreStep, Restoring
<1>3. clk' = clk \/ (change.set_clk /\ clk' = change.old)
  BY DEF RestoreStep
<1>4. mem' \in {mem, change.old} /\ vdd' \in {vdd, change.old}
  BY DEF RestoreStep
<1> QED BY <1>2, <1>3, <1>4

\* Where a step that fails leads to.
LEMMA ChangeFailsCases ==
  ASSUME TypeInv, LockInv, ChangeFails
  PROVE  /\ todo \in {UpMem, UpVdd, UpClk, DownClk, DownVdd, DownMem}
         /\ todo' \in {BackClk, BackRm, BackMem}
         /\ todo \in {UpMem, UpVdd} /\ change.new >= change.old => todo' = BackMem
         /\ todo \in {UpClk, DownClk} => todo' = BackRm /\ change.set_clk
         /\ todo \in {DownVdd, DownMem} /\ change.new < change.old => todo' = BackClk
         /\ slips' = {} => /\ slips = {} /\ change.old >= current_freq
                           /\ todo = DownMem => ~ change.new < change.old
<1>1. todo \in {UpMem, UpVdd, UpClk, DownClk, DownVdd, DownMem}
  BY Names DEF TypeInv, ChangeFails, Todos, Resting, Restoring, Raising, Raised, Lowering,
     Lowered, Is
<1>2. /\ todo \in {UpMem, DownMem} => Head(todo) = "mem"
      /\ todo \in {UpVdd, DownVdd} => Head(todo) = "vdd"
      /\ todo \in {UpClk, DownClk} => Head(todo) = "clk"
  BY Names DEF Is
<1>3. /\ Head(todo) = "clk" => todo' = BackRm /\ change.set_clk
      /\ Head(todo) \in {"mem", "vdd"} /\ change.new < change.old => todo' = BackClk
      /\ Head(todo) \in {"mem", "vdd"} /\ ~ change.new < change.old => todo' = BackMem
  BY DEF ChangeFails, Restore, BackClk, BackRm, BackMem
<1>4. change.old \in Int /\ change.new \in Int /\ current_freq \in Int
  BY <1>1, Names DEF TypeInv, Rates, Unset, Is
<1>5. ASSUME slips' = {}
      PROVE  /\ slips = {} /\ change.old >= current_freq
             /\ Head(todo) = "mem" => ~ change.new < change.old
  <2>1. slips = {} /\ ChangeSlips = {}
    BY <1>5 DEF ChangeFails
  <2>2. "low" \notin ChangeSlips /\ "half" \notin ChangeSlips
    BY <2>1
  <2> QED BY <1>4, <2>1, <2>2 DEF ChangeSlips
<1> QED BY <1>1, <1>2, <1>3, <1>4, <1>5

-----------------------------------------------------------------------------
LEMMA TypesHold ==
  ASSUME IsTable, IInv, [Next]_vars
  PROVE  TypeInv'
<1> USE DEF IInv, TypeInv
<1>1. CASE DevfreqInit
  BY <1>1 DEF DevfreqInit, OldSetUp, NewSetUp, Everything, hardware
<1>2. CASE DevfreqRemove
  BY <1>2 DEF DevfreqRemove, hardware, fields
<1>3. CASE \E freq \in Rates : FreqSet(freq)
  BY <1>3 DEF FreqSet, hardware
<1>4. CASE TargetBegins
  <2>1. clk \in Rates /\ current_freq \in Rates /\ ondemand_freq \in Rates
    BY <1>4 DEF TargetBegins, LockInv
  <2>2. change'.old \in Rates /\ change'.new \in Rates
    BY <1>4, <2>1 DEF TargetBegins
  <2>3. todo' \in Todos
    BY <1>4 DEF TargetBegins, Steps, Todos, Resting, Raising, Lowering, UpMem, DownRm, Core
  <2> QED BY <1>4, <2>2, <2>3 DEF TargetBegins, hardware
<1>5. CASE ChangeStep
  <2>1. todo # Idle
    BY <1>5 DEF ChangeStep, Idle
  <2>2. todo' \in Todos
    BY <1>5, ChangeStepCases DEF Todos, Resting, Raising, Raised, Lowering, Lowered
  <2>3. clk' \in Rates /\ vdd' \in Rates /\ mem' \in Rates
    BY <1>5, <2>1 DEF ChangeStep
  <2> QED BY <1>5, <2>1, <2>2, <2>3 DEF ChangeStep
<1>6. CASE ChangeFails
  <2>1. todo # Idle
    BY <1>6 DEF ChangeFails, Idle
  <2>2. todo' \in Todos
    BY <1>6, ChangeFailsCases DEF Todos, Resting, Restoring
  <2> QED BY <1>6, <2>1, <2>2 DEF ChangeFails, hardware, fields
<1>7. CASE RestoreStep
  <2>1. todo # Idle
    BY <1>7 DEF RestoreStep, Idle
  <2>2. todo' \in Todos
    BY <1>7, RestoreStepCases DEF Todos, Resting, Restoring
  <2>3. clk' \in Rates /\ vdd' \in Rates /\ mem' \in Rates
    BY <1>7, <2>1, RestoreStepCases
  <2> QED BY <1>7, <2>1, <2>2, <2>3 DEF RestoreStep
<1>8. CASE CoreSetsRate
  <2>1. todo = Core /\ todo # Idle
    BY <1>8, Names DEF CoreSetsRate, Core, Is
  <2>2. todo' \in Todos
    BY <1>8 DEF CoreSetsRate, Todos, Resting, Done, Failed
  <2>3. clk' \in Rates /\ vdd' \in Rates /\ mem' \in Rates
    BY <1>8, <2>1 DEF CoreSetsRate, hardware
  <2> QED BY <1>8, <2>1, <2>2, <2>3 DEF CoreSetsRate
<1>9. CASE TargetEnds
  <2>1. todo # Idle
    BY <1>9, Names DEF TargetEnds, Done, Failed, Is
  <2>2. todo' = Idle /\ todo' \in Todos
    BY <1>9 DEF TargetEnds, Idle, Todos, Resting
  <2> QED BY <1>9, <2>1, <2>2 DEF TargetEnds, hardware
<1>10. CASE PowerLock \/ PowerUnlock
  BY <1>10 DEF PowerLock, PowerUnlock, hardware, fields
<1>11. CASE RuntimeSuspend
  BY <1>11 DEF RuntimeSuspend, IsTable
<1>12. CASE RuntimeResume
  BY <1>12 DEF RuntimeResume
<1>13. CASE UNCHANGED vars
  BY <1>13 DEF vars, hardware, fields
<1> QED
  BY <1>1, <1>2, <1>3, <1>4, <1>5, <1>6, <1>7, <1>8, <1>9, <1>10, <1>11, <1>12, <1>13 DEF Next

LEMMA LocksHold ==
  ASSUME IsTable, IInv, [Next]_vars
  PROVE  LockInv'
<1> USE DEF IInv, LockInv, HasLock, DevfreqLock, DevfreqUnlock
<1>1. CASE DevfreqInit
  <2>1. todo = Idle /\ todo' = Idle
    BY <1>1 DEF DevfreqInit
  <2>2. "devfreq" \in have' \/ have' \subseteq {"regulators", "helper"}
    BY <1>1 DEF DevfreqInit, OldSetUp, NewSetUp
  <2>3. clk \in Rates
    BY DEF TypeInv
  <2> QED BY <1>1, <2>1, <2>2, <2>3 DEF DevfreqInit, Rates, Unset, hardware
<1>2. CASE DevfreqRemove
  BY <1>2 DEF DevfreqRemove, hardware, fields, Idle
<1>3. CASE \E freq \in Rates : FreqSet(freq)
  BY <1>3 DEF FreqSet, hardware, Rates, Unset
<1>4. CASE TargetBegins
  <2>1. todo' # Idle
    BY <1>4, Names DEF TargetBegins, Steps, UpMem, DownRm, Core, Is
  <2> QED BY <1>4, <2>1 DEF TargetBegins, hardware, Idle
<1>5. CASE ChangeStep
  <2>1. todo # Idle /\ todo' # Idle
    BY <1>5, ChangeStepCases, Names DEF Is
  <2> QED BY <1>5, <2>1 DEF ChangeStep
<1>6. CASE ChangeFails
  <2>1. todo # Idle /\ todo' # Idle
    BY <1>6, ChangeFailsCases, Names DEF Is
  <2> QED BY <1>6, <2>1 DEF ChangeFails, hardware, fields
<1>7. CASE RestoreStep
  <2>1. todo # Idle /\ todo' # Idle
    BY <1>7, RestoreStepCases, Names DEF Is
  <2> QED BY <1>7, <2>1 DEF RestoreStep
<1>8. CASE CoreSetsRate
  <2>1. todo # Idle /\ todo' # Idle
    BY <1>8, Names DEF CoreSetsRate, Core, Done, Failed, Is
  <2> QED BY <1>8, <2>1 DEF CoreSetsRate
<1>9. CASE TargetEnds
  <2>1. todo # Idle /\ todo' = Idle
    BY <1>9, Names DEF TargetEnds, Done, Failed, Idle, Is
  <2>2. todo = Done => change.new \in Rates
    BY <2>1 DEF TypeInv
  <2>3. current_freq' \in {current_freq, change.new} /\ change.new \in Rates
    BY <1>9, <2>1 DEF TargetEnds, TypeInv
  <2> QED BY <1>9, <2>1, <2>3 DEF TargetEnds, hardware, Rates, Unset
<1>10. CASE PowerLock \/ PowerUnlock
  BY <1>10 DEF PowerLock, PowerUnlock, hardware, fields
<1>11. CASE RuntimeSuspend
  <2>1. POWER_DOWN_FREQ <= vdd /\ POWER_DOWN_FREQ <= mem
    BY DEF IsTable, TypeInv
  <2> QED BY <1>11, <2>1 DEF RuntimeSuspend
<1>12. CASE RuntimeResume
  BY <1>12 DEF RuntimeResume
<1>13. CASE UNCHANGED vars
  BY <1>13 DEF vars, hardware, fields
<1> QED
  BY <1>1, <1>2, <1>3, <1>4, <1>5, <1>6, <1>7, <1>8, <1>9, <1>10, <1>11, <1>12, <1>13 DEF Next

-----------------------------------------------------------------------------
(* The supplies, action by action.                                           *)

LEMMA NumbersOf ==
  ASSUME TypeInv
  PROVE  /\ clk \in Int /\ vdd \in Int /\ mem \in Int /\ current_freq \in Int
         /\ todo # Idle => change.old \in Int /\ change.new \in Int
BY DEF TypeInv, Rates, Unset

\* What changes neither lock nor devfreq keeps a lock that is there.
LEMMA SuppliesWithoutChange ==
  ASSUME IInv, UNCHANGED << build, have, vdd, mem, clk, current_freq, active, scmi_clk,
                            change, todo, slips >>
  PROVE  SupplyInv'
BY DEF IInv, SupplyInv, HasLock, Live

LEMMA SuppliesInit ==
  ASSUME IInv, TypeInv', DevfreqInit
  PROVE  SupplyInv'
<1>1. todo' = Idle /\ todo = Idle
  BY DEF IInv, LockInv, DevfreqInit
<1>2. ASSUME HasLock'
      PROVE  current_freq' = clk
  BY <1>2 DEF DevfreqInit, HasLock, OldSetUp, NewSetUp
<1>3. clk' = clk /\ vdd' = vdd /\ mem' = mem /\ clk <= vdd /\ clk <= mem
  BY DEF DevfreqInit, hardware, IInv, LockInv
<1>4. todo' \in Resting
  BY <1>1 DEF Resting
<1> QED
  BY <1>1, <1>2, <1>3, <1>4, Numbers, NumbersOf
  DEF SupplyInv, Resting, Restoring, Raising, Raised, Lowering, Lowered, IInv

LEMMA SuppliesRemove ==
  ASSUME IInv, DevfreqRemove
  PROVE  SupplyInv'
<1>1. HasLock' => HasLock
  BY DEF DevfreqRemove, HasLock
<1> QED BY <1>1 DEF IInv, SupplyInv, DevfreqRemove, hardware, fields, Live

LEMMA SuppliesBegin ==
  ASSUME IInv, TypeInv', TargetBegins
  PROVE  SupplyInv'
<1>1. todo = Idle /\ todo \in Resting
  BY DEF TargetBegins, Idle, Resting
<1>2. todo' \in {UpMem, DownRm, Core} /\ change'.new = ondemand_freq
      /\ change'.old \in {clk, current_freq}
  BY DEF TargetBegins, Steps, UpMem, DownRm, Core
<1>3. change'.set_clk = Live' /\ Live' = Live
  BY DEF TargetBegins, Live, IInv, TypeInv
<1>4. /\ todo' = UpMem => change'.new >= change'.old
      /\ todo' = DownRm => change'.new < change'.old
  <2>1. change'.old \in Int /\ change'.new \in Int
    BY <1>2, Numbers, NumbersOf DEF TypeInv, Rates, Unset, IInv, Is
  <2>2. change'.new >= change'.old \/ change'.new < change'.old
    BY <2>1
  <2>3. todo' \in {Core, Steps(change'.old, change'.new)}
    BY DEF TargetBegins, Core
  <2> QED BY <2>1, <2>2, <2>3, Names DEF Steps, UpMem, DownRm, Is
<1> QED
  BY SMTT(30), <1>1, <1>2, <1>3, <1>4, Numbers, NumbersOf
  DEF SupplyInv, HasLock, TargetBegins, hardware, Resting, Restoring, Raising, Raised,
      Lowering, Lowered, IInv

LEMMA SuppliesStep ==
  ASSUME IInv, ChangeStep
  PROVE  SupplyInv'
<1>1. SUFFICES ASSUME HasLock, slips = {} PROVE SupplyInv'
  BY DEF ChangeStep, SupplyInv, HasLock
<1>2. /\ UNCHANGED << current_freq, change, slips, active, scmi_clk >>
      /\ Live' = Live
  BY DEF ChangeStep, Live
<1>3. TypeInv
  BY DEF IInv
<1>4. todo # Idle
  BY DEF ChangeStep, Idle
<1>5. SupplyInv
  BY DEF IInv
<1>6. CASE todo = UpMem
  <2>1. /\ todo' = UpVdd
        /\ mem' = change.new
        /\ vdd' = vdd
        /\ clk' = clk
    BY <1>6, <1>3, ChangeStepCases, Numbers
  <2> QED
    BY <1>1, <1>2, <1>3, <1>4, <1>5, <1>6, <2>1, Numbers, NumbersOf
    DEF SupplyInv, Resting, Restoring, Raising, Raised, Lowering, Lowered
<1>7. CASE todo = UpVdd
  <2>1. /\ todo' = UpRm
        /\ mem' = mem
        /\ vdd' = change.new
        /\ clk' = clk
    BY <1>7, <1>3, ChangeStepCases, Numbers
  <2> QED
    BY <1>1, <1>2, <1>3, <1>4, <1>5, <1>7, <2>1, Numbers, NumbersOf
    DEF SupplyInv, Resting, Restoring, Raising, Raised, Lowering, Lowered
<1>8. CASE todo = UpRm
  <2>1. /\ todo' = UpClk
        /\ mem' = mem
        /\ vdd' = vdd
        /\ clk' = clk
    BY <1>8, <1>3, ChangeStepCases, Numbers
  <2> QED
    BY <1>1, <1>2, <1>3, <1>4, <1>5, <1>8, <2>1, Numbers, NumbersOf
    DEF SupplyInv, Resting, Restoring, Raising, Raised, Lowering, Lowered
<1>9. CASE todo = UpClk
  <2>1. /\ todo' = Done
        /\ mem' = mem
        /\ vdd' = vdd
        /\ clk' = IF change.set_clk THEN change.new ELSE clk
    BY <1>9, <1>3, ChangeStepCases, Numbers
  <2> QED
    BY <1>1, <1>2, <1>3, <1>4, <1>5, <1>9, <2>1, Numbers, NumbersOf
    DEF SupplyInv, Resting, Restoring, Raising, Raised, Lowering, Lowered
<1>10. CASE todo = DownRm
  <2>1. /\ todo' = DownClk
        /\ mem' = mem
        /\ vdd' = vdd
        /\ clk' = clk
    BY <1>10, <1>3, ChangeStepCases, Numbers
  <2> QED
    BY <1>1, <1>2, <1>3, <1>4, <1>5, <1>10, <2>1, Numbers, NumbersOf
    DEF SupplyInv, Resting, Restoring, Raising, Raised, Lowering, Lowered
<1>11. CASE todo = DownClk
  <2>1. /\ todo' = DownVdd
        /\ mem' = mem
        /\ vdd' = vdd
        /\ clk' = IF change.set_clk THEN change.new ELSE clk
    BY <1>11, <1>3, ChangeStepCases, Numbers
  <2> QED
    BY <1>1, <1>2, <1>3, <1>4, <1>5, <1>11, <2>1, Numbers, NumbersOf
    DEF SupplyInv, Resting, Restoring, Raising, Raised, Lowering, Lowered
<1>12. CASE todo = DownVdd
  <2>1. /\ todo' = DownMem
        /\ mem' = mem
        /\ vdd' = change.new
        /\ clk' = clk
    BY <1>12, <1>3, ChangeStepCases, Numbers
  <2> QED
    BY <1>1, <1>2, <1>3, <1>4, <1>5, <1>12, <2>1, Numbers, NumbersOf
    DEF SupplyInv, Resting, Restoring, Raising, Raised, Lowering, Lowered
<1>13. CASE todo = DownMem
  <2>1. /\ todo' = Done
        /\ mem' = change.new
        /\ vdd' = vdd
        /\ clk' = clk
    BY <1>13, <1>3, ChangeStepCases, Numbers
  <2> QED
    BY <1>1, <1>2, <1>3, <1>4, <1>5, <1>13, <2>1, Numbers, NumbersOf
    DEF SupplyInv, Resting, Restoring, Raising, Raised, Lowering, Lowered
<1> QED
  BY <1>3, <1>6, <1>7, <1>8, <1>9, <1>10, <1>11, <1>12, <1>13, ChangeStepCases

LEMMA SuppliesFail ==
  ASSUME IInv, ChangeFails
  PROVE  SupplyInv'
<1>1. SUFFICES ASSUME HasLock, slips' = {} PROVE SupplyInv'
  BY DEF ChangeFails, SupplyInv, HasLock
<1>2. /\ UNCHANGED << current_freq, change, vdd, mem, clk >>
      /\ Live' = Live
  BY DEF ChangeFails, Live, hardware, fields
<1>3. TypeInv /\ LockInv /\ SupplyInv
  BY DEF IInv
<1>4. slips = {} /\ change.old >= current_freq /\ (todo = DownMem => ~ change.new < change.old)
  BY <1>1, <1>3, ChangeFailsCases
<1>5. todo' \in Restoring
  BY <1>3, ChangeFailsCases DEF Restoring
<1>6. todo # Idle /\ todo' # Idle
  BY <1>5, Numbers DEF ChangeFails, Idle, Restoring
<1>7. /\ vdd >= current_freq /\ mem >= current_freq
      /\ Live => clk <= current_freq
  <2>1. todo \in {UpMem, UpVdd, UpClk, DownClk, DownVdd, DownMem}
    BY <1>3, ChangeFailsCases
  <2>2. todo # DownMem
    BY <1>1, <1>3, <1>4 DEF SupplyInv, Lowered
  <2>3. CASE todo \in {UpMem, UpVdd, UpClk}
    BY <1>1, <1>3, <1>4, <1>6, <2>3, Numbers, NumbersOf DEF SupplyInv, Raising, Raised
  <2>4. CASE todo = DownClk
    BY <1>1, <1>3, <1>4, <2>4, NumbersOf DEF SupplyInv, Resting, Lowering
  <2>5. CASE todo = DownVdd
    BY <1>1, <1>3, <1>4, <1>6, <2>5, NumbersOf DEF SupplyInv, Lowered
  <2> QED BY <2>1, <2>2, <2>3, <2>4, <2>5
<1> QED
  BY <1>1, <1>2, <1>3, <1>4, <1>5, <1>6, <1>7, Numbers, NumbersOf
  DEF SupplyInv, Resting, Restoring, Raising, Raised, Lowering, Lowered

LEMMA SuppliesRestore ==
  ASSUME IInv, RestoreStep
  PROVE  SupplyInv'
<1>1. SUFFICES ASSUME HasLock, slips = {} PROVE SupplyInv'
  BY DEF RestoreStep, SupplyInv, HasLock
<1>2. /\ UNCHANGED << current_freq, change, slips >>
      /\ Live' = Live
  BY DEF RestoreStep, Live
<1>3. TypeInv /\ SupplyInv
  BY DEF IInv
<1>4. todo \in Restoring /\ todo' \in Restoring \cup {Failed}
  BY <1>3, RestoreStepCases DEF Restoring
<1>5. /\ clk' = clk \/ (change.set_clk /\ clk' = change.old)
      /\ mem' \in {mem, change.old} /\ vdd' \in {vdd, change.old}
  BY <1>3, RestoreStepCases
<1>6. todo # Idle /\ todo' # Idle
  BY <1>4, Numbers DEF Restoring
<1>7. /\ change.old >= current_freq
      /\ Live => change.old <= current_freq /\ clk <= current_freq
      /\ vdd >= current_freq /\ mem >= current_freq /\ change.set_clk = Live
  BY <1>1, <1>3, <1>4, <1>6 DEF SupplyInv, Resting
<1>8. /\ vdd' >= current_freq /\ mem' >= current_freq
      /\ Live => clk' <= current_freq
  BY <1>3, <1>5, <1>6, <1>7, NumbersOf
<1> QED
  BY <1>1, <1>2, <1>4, <1>7, <1>8, Numbers
  DEF SupplyInv, Resting, Restoring, Raising, Raised, Lowering, Lowered

LEMMA SuppliesCore ==
  ASSUME IInv, CoreSetsRate
  PROVE  SupplyInv'
<1>1. SUFFICES ASSUME HasLock, slips = {} PROVE SupplyInv'
  BY DEF CoreSetsRate, SupplyInv, HasLock
<1>2. /\ UNCHANGED << current_freq, change, slips >>
      /\ Live' = Live
  BY DEF CoreSetsRate, Live
<1>3. TypeInv /\ SupplyInv
  BY DEF IInv
<1>4. todo = Core /\ todo # Idle
  BY Numbers DEF CoreSetsRate, Core
<1>5. \/ /\ todo' = Done /\ vdd' = change.new /\ mem' = change.new
         /\ clk' = IF change.set_clk THEN change.new ELSE clk
      \/ todo' = Failed /\ vdd' = vdd /\ mem' = mem /\ clk' = clk
  BY DEF CoreSetsRate, Done, Failed, hardware
<1> QED
  BY <1>1, <1>2, <1>3, <1>4, <1>5, Numbers, NumbersOf
  DEF SupplyInv, Resting, Restoring, Raising, Raised, Lowering, Lowered

LEMMA SuppliesEnd ==
  ASSUME IInv, TargetEnds
  PROVE  SupplyInv'
<1>1. SUFFICES ASSUME HasLock, slips = {} PROVE SupplyInv'
  BY DEF TargetEnds, SupplyInv, HasLock
<1>2. /\ UNCHANGED << vdd, mem, clk, slips >>
      /\ Live' = Live
  BY DEF TargetEnds, Live, hardware
<1>3. TypeInv /\ SupplyInv
  BY DEF IInv
<1>4. todo \in {Done, Failed} /\ todo # Idle /\ todo' = Idle
  BY Numbers DEF TargetEnds, Done, Failed, Idle
<1>5. current_freq' = IF todo = Done THEN change.new ELSE current_freq
  BY <1>4, Names, Numbers DEF TargetEnds, Is
<1> QED
  BY <1>1, <1>2, <1>3, <1>4, <1>5, Numbers, NumbersOf
  DEF SupplyInv, Resting, Restoring, Raising, Raised, Lowering, Lowered

LEMMA SuppliesSuspend ==
  ASSUME IsTable, IInv, RuntimeSuspend
  PROVE  SupplyInv'
<1>1. SUFFICES ASSUME HasLock, slips = {} PROVE SupplyInv'
  BY DEF RuntimeSuspend, SupplyInv, HasLock
<1>2. todo = Idle /\ todo' = Idle
  BY <1>1 DEF RuntimeSuspend, UnderLock, IInv, LockInv
<1>3. TypeInv /\ SupplyInv
  BY DEF IInv
<1>4. UNCHANGED << current_freq, vdd, mem >>
  BY DEF RuntimeSuspend
<1>5. Live' => clk' = clk /\ Live
  BY <1>3 DEF RuntimeSuspend, Live, TypeInv
<1> QED
  BY <1>1, <1>2, <1>3, <1>4, <1>5, Numbers
  DEF SupplyInv, Resting, Restoring, Raising, Raised, Lowering, Lowered

LEMMA SuppliesResume ==
  ASSUME IInv, RuntimeResume
  PROVE  SupplyInv'
<1>1. SUFFICES ASSUME HasLock, slips' = {} PROVE SupplyInv'
  BY DEF RuntimeResume, SupplyInv, HasLock
<1>2. todo = Idle /\ todo' = Idle
  BY <1>1 DEF RuntimeResume, UnderLock, IInv, LockInv
<1>3. TypeInv /\ LockInv /\ SupplyInv
  BY DEF IInv
<1>4. UNCHANGED << current_freq, vdd, mem >> /\ slips = {}
  BY <1>1 DEF RuntimeResume
<1>5. current_freq # Unset
  BY <1>1, <1>3 DEF LockInv, HasLock
<1>6. clk' \in {clk, current_freq} /\ ~ clk' > current_freq
  BY <1>1, <1>5 DEF RuntimeResume
<1>7. clk' <= current_freq
  BY <1>3, <1>6, NumbersOf
<1> QED
  BY <1>1, <1>2, <1>3, <1>4, <1>7, Numbers
  DEF SupplyInv, Resting, Restoring, Raising, Raised, Lowering, Lowered

LEMMA SuppliesHold ==
  ASSUME IsTable, IInv, TypeInv', [Next]_vars
  PROVE  SupplyInv'
<1>1. CASE \E freq \in Rates : FreqSet(freq)
  BY <1>1, SuppliesWithoutChange DEF FreqSet, hardware
<1>2. CASE PowerLock \/ PowerUnlock
  BY <1>2, SuppliesWithoutChange DEF PowerLock, PowerUnlock, hardware, fields
<1>3. CASE UNCHANGED vars
  BY <1>3, SuppliesWithoutChange DEF vars, hardware, fields
<1> QED
  BY <1>1, <1>2, <1>3, SuppliesInit, SuppliesRemove, SuppliesBegin, SuppliesStep, SuppliesFail,
     SuppliesRestore, SuppliesCore, SuppliesEnd, SuppliesSuspend, SuppliesResume DEF Next

-----------------------------------------------------------------------------
LEMMA Enough ==
  ASSUME IInv
  PROVE  SuppliesSuffice
<1>1. SUFFICES ASSUME HasLock, active, slips = {} PROVE clk <= vdd /\ clk <= mem
  BY DEF SuppliesSuffice
<1>2. TypeInv /\ SupplyInv /\ Live
  BY <1>1 DEF IInv, Live
<1>3. CASE todo \in Resting
  BY <1>1, <1>2, <1>3, NumbersOf DEF SupplyInv
<1>4. CASE todo \in Raising
  <2>1. todo # Idle
    BY <1>4, Numbers DEF Raising
  <2> QED
    BY <1>1, <1>2, <1>4, <2>1, Numbers, NumbersOf DEF SupplyInv, Raising
<1>5. CASE todo \in Raised
  <2>1. todo # Idle
    BY <1>5, Numbers DEF Raised
  <2> QED BY <1>1, <1>2, <1>5, <2>1, NumbersOf DEF SupplyInv
<1>6. CASE todo \in Lowered
  <2>1. todo # Idle
    BY <1>6, Numbers DEF Lowered
  <2> QED
    BY <1>1, <1>2, <1>6, <2>1, Numbers, NumbersOf DEF SupplyInv, Lowered
<1>7. CASE todo = Done
  <2>1. todo # Idle
    BY <1>7, Numbers
  <2> QED BY <1>1, <1>2, <1>7, <2>1, NumbersOf DEF SupplyInv
<1> QED BY <1>2, <1>3, <1>4, <1>5, <1>6, <1>7 DEF TypeInv, Todos

THEOREM NextPreserves ==
  ASSUME IsTable
  PROVE  IInv /\ [Next]_vars => IInv'
BY TypesHold, LocksHold, SuppliesHold DEF IInv

\* Whichever of the clock and regulator calls fail, in a change or on its way
\* back, and wherever suspend and resume fall, both supplies suffice for the
\* running clock, but for the three slips: for any table of operating points
\* whose lowest is the one of a suspended clock.
THEOREM SuppliesCorrect ==
  ASSUME IsTable
  PROVE  Spec => []SuppliesSuffice
<1>1. IInv /\ [Next]_vars => IInv'
  BY NextPreserves
<1> QED BY <1>1, InitEstablishes, Enough, PTL DEF Spec
=============================================================================
