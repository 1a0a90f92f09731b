----------------------------- MODULE NpuDevfreq -----------------------------
(***************************************************************************)
(* Frequency and voltage of the NPU (rknpu_devfreq.c): the set-up of the   *)
(* OPP table, governor and monitor with every step failing in turn, the    *)
(* target callback that moves clock, supplies and read margin from one     *)
(* operating point to the next, the same under runtime suspend and resume, *)
(* which the power-management calls of the driver enter under the lock     *)
(* that target takes, and the removal.                                     *)
(*                                                                         *)
(* Rates are 1 .. MaxRate; rate r needs a supply of at least r and, for a  *)
(* supply of v, the read margin v.  A regulator or clock call may fail,    *)
(* and then leaves what it should have changed as it was.                  *)
(***************************************************************************)
EXTENDS Integers, Sequences

CONSTANTS
  MaxRate,         \* the highest operating point
  POWER_DOWN_FREQ  \* the rate of an SCMI clock while suspended

Rates == 1 .. MaxRate
Unset == 0         \* a field that was never written, and UINT_MAX of a margin

VARIABLES
  build,         \* "old" (before 6.1: npu_opp_helper) or "new"
  scmi_clk,      \* the clock is set through the firmware
  have,          \* what init has set up: see Everything
  clk, vdd, mem, \* the rate and the two supplies of the hardware
  read_margin,   \* in the registers; Unset after the power was off
  current_rm, target_rm, current_freq, ondemand_freq,
  active,        \* the runtime power state
  dvfs_lock,     \* "free", or held by "target" or by "power"
  change,        \* the operating points of the running target call
  todo,          \* its steps still to come
  slips          \* auxiliary: what went wrong in a way that is not put right

hardware == << clk, vdd, mem, read_margin >>
fields == << current_rm, target_rm, current_freq, ondemand_freq >>
vars == << build, scmi_clk, have, hardware, fields, active, dvfs_lock, change, todo, slips >>

Everything == {"regulators", "helper", "table", "governor", "devfreq", "mdev"}
NoChange == [old |-> Unset, new |-> Unset, set_rm |-> FALSE, set_clk |-> FALSE]

Init ==
  /\ build \in {"old", "new"}
  /\ scmi_clk \in BOOLEAN
  /\ have = {}
  /\ clk \in Rates /\ vdd = clk /\ mem = clk
  /\ read_margin = Unset /\ current_rm = Unset /\ target_rm = Unset
  /\ current_freq = Unset /\ ondemand_freq = Unset
  /\ active = TRUE
  /\ dvfs_lock = "free"
  /\ change = NoChange
  /\ todo = << >>
  /\ slips = {}

----------------------------------------------------------------------------
(* rknpu_devfreq_init and rknpu_devfreq_remove.                             *)

\* The old build asks for the supplies and the helper first; when the table
\* fails it gives neither of them back.  A board with one supply has no
\* helper; it is not modelled.
OldSetUp ==
  { {}, {"regulators", "helper"},
    {"regulators", "helper", "table", "governor", "devfreq", "mdev"},
    {"regulators", "helper", "table", "governor", "devfreq"} }

NewSetUp == { {}, {"table", "governor", "devfreq"},
              {"table", "governor", "devfreq", "mdev"} }

DevfreqInit ==
  /\ have = {} /\ current_freq = Unset
  /\ have' \in IF build = "old" THEN OldSetUp ELSE NewSetUp
  /\ IF "devfreq" \in have'
       THEN current_freq' = clk /\ ondemand_freq' = clk
       ELSE UNCHANGED << current_freq, ondemand_freq >>
  /\ UNCHANGED << build, scmi_clk, hardware, current_rm, target_rm, active,
                  dvfs_lock, change, todo, slips >>

\* The devfreq device itself goes with the platform device, later.
DevfreqRemove ==
  /\ "table" \in have /\ todo = << >>
  /\ have' = have \ {"mdev", "governor", "table"}
  /\ UNCHANGED << build, scmi_clk, hardware, fields, active, dvfs_lock, change, todo, slips >>

\* Without a monitor the old build has no mutex to take, without a device
\* the new one does not take its own.
HasLock == IF build = "old" THEN "mdev" \in have ELSE "devfreq" \in have

DevfreqLock(who) ==
  IF HasLock THEN dvfs_lock = "free" /\ dvfs_lock' = who ELSE UNCHANGED dvfs_lock

DevfreqUnlock == dvfs_lock' = IF HasLock THEN "free" ELSE dvfs_lock

----------------------------------------------------------------------------
(* npu_devfreq_target.  The new build leaves the change to the OPP core.    *)

\* The debugger's "freq" node chooses for the governor.
FreqSet(freq) ==
  /\ "devfreq" \in have /\ freq # clk
  /\ ondemand_freq' = freq
  /\ UNCHANGED << build, scmi_clk, have, hardware, current_rm, target_rm,
                  current_freq, active, dvfs_lock, change, todo, slips >>

\* The order of npu_opp_helper: "Scaling up? Scale voltage before frequency",
\* "Scaling down? Scale voltage after frequency".
Steps(old, new) ==
  IF new >= old THEN << "mem", "vdd", "rm", "clk", "done" >>
                ELSE << "rm", "clk", "vdd", "mem", "done" >>

\* "half": scaling down, vdd is at the new voltage already when the old rate is
\* restored.  "low": the old operating point is that of a clock that is below the
\* noted rate, powered down or not raised again by the last resume; the supplies
\* go back to that point, and a resume sets the noted rate.
ChangeSlips ==
  {s \in {"half", "low"} :
     \/ s = "half" /\ Head(todo) = "mem" /\ change.new < change.old
     \/ s = "low" /\ change.old < current_freq}

\* The labels restore_freq, restore_rm and restore_voltage.
Restore(step, old, new) ==
  CASE step \in {"mem", "vdd"} /\ new < old ->
         << "old_clk", "old_rm", "old_mem", "old_vdd", "failed" >>
    [] step = "clk" -> << "old_rm", "old_mem", "old_vdd", "failed" >>
    [] OTHER -> << "old_mem", "old_vdd", "failed" >>

\* The old point is the clock's, or the last one that was set.
TargetBegins ==
  /\ {"devfreq", "table"} \subseteq have /\ todo = << >>
  /\ ondemand_freq # IF build = "old" THEN clk ELSE current_freq
  /\ DevfreqLock("target")
  /\ \E old \in {clk, current_freq} :
       /\ change' = [old |-> old, new |-> ondemand_freq, set_rm |-> active,
                     set_clk |-> active \/ ~ scmi_clk]
       /\ todo' = IF build = "old" THEN Steps(old, ondemand_freq) ELSE << "core" >>
  /\ target_rm' = IF build = "old" THEN ondemand_freq ELSE target_rm
  /\ UNCHANGED << build, scmi_clk, have, hardware, current_rm, current_freq,
                  ondemand_freq, active, slips >>

\* set_read_margin of the RK3588: nothing for the margin it knows as current.
SetReadMargin(margin) ==
  IF margin \in {current_rm, Unset} THEN UNCHANGED << read_margin, current_rm >>
  ELSE read_margin' = margin /\ current_rm' = margin

ChangeStep ==
  LET step == Head(todo) IN
  /\ todo # << >> /\ step \in {"mem", "vdd", "rm", "clk"}
  /\ todo' = Tail(todo)
  /\ mem' = IF step = "mem" THEN change.new ELSE mem
  /\ vdd' = IF step = "vdd" THEN change.new ELSE vdd
  /\ clk' = IF step = "clk" /\ change.set_clk THEN change.new ELSE clk
  /\ IF step = "rm" /\ change.set_rm THEN SetReadMargin(target_rm)
                                     ELSE UNCHANGED << read_margin, current_rm >>
  /\ UNCHANGED << build, scmi_clk, have, target_rm, current_freq, ondemand_freq,
                  active, dvfs_lock, change, slips >>

ChangeFails ==
  /\ todo # << >>
  /\ Head(todo) \in {"mem", "vdd"} \/ (Head(todo) = "clk" /\ change.set_clk)
  /\ todo' = Restore(Head(todo), change.old, change.new)
  /\ slips' = slips \cup ChangeSlips
  /\ UNCHANGED << build, scmi_clk, have, hardware, fields, active, dvfs_lock, change >>

\* A restoring step, whose result nobody looks at.  restore_rm sets the
\* margin that is current already: it changes target_rm, not the registers.
RestoreStep ==
  LET step == Head(todo) IN
  /\ todo # << >> /\ step \in {"old_clk", "old_rm", "old_mem", "old_vdd"}
  /\ todo' = Tail(todo)
  /\ clk' \in IF step = "old_clk" /\ change.set_clk THEN {clk, change.old} ELSE {clk}
  /\ mem' \in IF step = "old_mem" THEN {mem, change.old} ELSE {mem}
  /\ vdd' \in IF step = "old_vdd" THEN {vdd, change.old} ELSE {vdd}
  /\ target_rm' = IF step = "old_rm" THEN change.old ELSE target_rm
  /\ UNCHANGED << build, scmi_clk, have, read_margin, current_rm, current_freq,
                  ondemand_freq, active, dvfs_lock, change, slips >>

\* dev_pm_opp_set_rate of the new build changes everything or nothing.
CoreSetsRate ==
  /\ todo = << "core" >>
  /\ \/ /\ clk' = IF change.set_clk THEN change.new ELSE clk
        /\ vdd' = change.new /\ mem' = change.new
        /\ target_rm' = change.new
        /\ IF change.set_rm THEN SetReadMargin(change.new)
                            ELSE UNCHANGED << read_margin, current_rm >>
        /\ todo' = << "done" >>
     \/ /\ UNCHANGED << hardware, current_rm, target_rm >>
        /\ todo' = << "failed" >>
  /\ UNCHANGED << build, scmi_clk, have, current_freq, ondemand_freq, active,
                  dvfs_lock, change, slips >>

TargetEnds ==
  /\ todo \in { << "done" >>, << "failed" >> }
  /\ current_freq' = IF Head(todo) = "done" THEN change.new ELSE current_freq
  /\ DevfreqUnlock
  /\ todo' = << >> /\ change' = NoChange
  /\ UNCHANGED << build, scmi_clk, have, hardware, current_rm, target_rm,
                  ondemand_freq, active, slips >>

----------------------------------------------------------------------------
(* rknpu_power_on and rknpu_power_off reach the runtime callbacks between   *)
(* rknpu_devfreq_lock and rknpu_devfreq_unlock.                             *)

PowerLock ==
  /\ HasLock /\ DevfreqLock("power")
  /\ UNCHANGED << build, scmi_clk, have, hardware, fields, active, change, todo, slips >>

PowerUnlock ==
  /\ dvfs_lock = "power" /\ DevfreqUnlock
  /\ UNCHANGED << build, scmi_clk, have, hardware, fields, active, change, todo, slips >>

UnderLock == HasLock => dvfs_lock = "power"

\* rknpu_devfreq_runtime_suspend; the registers lose the margin.
RuntimeSuspend ==
  /\ active /\ UnderLock
  /\ active' = FALSE
  /\ clk' \in IF scmi_clk THEN {clk, POWER_DOWN_FREQ} ELSE {clk}
  /\ current_rm' = Unset /\ read_margin' = Unset
  /\ UNCHANGED << build, scmi_clk, have, vdd, mem, target_rm, current_freq,
                  ondemand_freq, dvfs_lock, change, todo, slips >>

\* rknpu_devfreq_runtime_resume: the margin first, then the rate; it returns
\* early when init has not noted a rate, or when a clock cannot be enabled,
\* and then the device stays suspended.  "stale": neither suspend nor resume could
\* set the clock, and the rate has been lowered in between.
RuntimeResume ==
  /\ ~ active /\ UnderLock
  /\ active' = TRUE
  /\ IF current_freq = Unset THEN UNCHANGED << clk, read_margin, current_rm >>
     ELSE /\ SetReadMargin(target_rm)
          /\ clk' \in IF scmi_clk THEN {clk, current_freq} ELSE {clk}
  /\ slips' = IF current_freq # Unset /\ clk' > current_freq THEN slips \cup {"stale"}
              ELSE slips
  /\ UNCHANGED << build, scmi_clk, have, vdd, mem, target_rm, current_freq,
                  ondemand_freq, dvfs_lock, change, todo >>

Next ==
  \/ DevfreqInit \/ DevfreqRemove
  \/ \E freq \in Rates : FreqSet(freq)
  \/ TargetBegins \/ ChangeStep \/ ChangeFails \/ RestoreStep \/ CoreSetsRate \/ TargetEnds
  \/ PowerLock \/ PowerUnlock \/ RuntimeSuspend \/ RuntimeResume

Spec == Init /\ [][Next]_vars

----------------------------------------------------------------------------
\* While the lock is there to keep suspend and resume apart from a change,
\* both supplies suffice for the rate of the running clock after every step of
\* a change, the ones of its error path included: "Scale voltage before
\* frequency" (rknpu_devfreq.c 501-570).
VoltageBeforeFrequency ==
  HasLock /\ active => clk <= vdd /\ clk <= mem

\* Whichever calls fail, both supplies suffice for the running clock after every
\* step of a change, of its error path, of suspend and of resume, apart from the
\* three slips (rknpu_devfreq.c 501-570, 415, 433-441).
SuppliesSuffice ==
  HasLock /\ active /\ slips = {} => clk <= vdd /\ clk <= mem
=============================================================================
