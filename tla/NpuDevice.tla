------------------------------ MODULE NpuDevice ------------------------------
(***************************************************************************)
(* The life of the NPU device (rknpu_drv.c): rknpu_probe with every step   *)
(* failing in turn and the labels that undo it, the power management of    *)
(* NpuPower while the device is bound, and rknpu_remove, which runs beside *)
(* the debugger's nodes and the delayed work until it has taken them away. *)
(*                                                                         *)
(* The device has an IOMMU and several power domains (RK3588).  Nobody has *)
(* the device open during probe, and rknpu_remove begins when nobody has   *)
(* it open: an open file holds the module.                                 *)
(***************************************************************************)
EXTENDS NpuPower, Sequences, SequencesExt

VARIABLES
  phase,       \* "probing", "failed", "bound", "removing" or "removed"
  steps,       \* the steps of probe or remove still to come
  have,        \* what probe has set up and nobody has given back
  failed_at,   \* the step at which probe failed, or ""
  cancelled,   \* remove has cancelled a work that had the last reference
  mishaps      \* what went wrong unseen: "ignored", a failed power_off of probe
               \* or remove; "late", the work queued after remove cancelled it

device == << phase, steps, have, failed_at, cancelled, mishaps >>
allvars == << vars, device >>

ProbeSteps == << "group", "resources", "minor", "heap", "fence", "pm", "power",
                 "devfreq", "wq", "sram", "domains", "off", "debugger", "timer" >>
RemoveSteps == << "cancel", "wq", "debugger", "timer", "sram", "domains", "group",
                  "minor", "devfreq", "off", "pm" >>

\* Only these may fail and end probe: "resources" are clocks, regulators,
\* registers and interrupts; the heap is looked for by one build only.
Failing == {"group", "resources", "minor", "heap", "fence", "power", "wq", "sram"}
NoResource == {"resources", "heap", "fence", "power", "off", "cancel"}

DeviceInit ==
  /\ Init
  /\ phase = "probing" /\ steps = ProbeSteps
  /\ have = {} /\ failed_at = ""
  /\ cancelled = FALSE /\ mishaps = {}

IgnoredIf(condition) == IF condition THEN {"ignored"} ELSE {}

Advance(last) ==
  /\ steps' = Tail(steps)
  /\ phase' = IF Len(steps) = 1 THEN last ELSE phase

----------------------------------------------------------------------------
(* rknpu_probe.                                                             *)

\* power_on for the set-up, and power_off with the counters after it: a
\* power_off that fails leaves the power on with the count at zero.
ProbeStep ==
  LET step == Head(steps) IN
  /\ phase = "probing"
  /\ Advance("bound")
  /\ have' = have \cup ({step} \ NoResource)
  /\ hw' \in CASE step = "power" -> {"on"}
               [] step = "off" -> {"off", hw}
               [] OTHER -> {hw}
  /\ power_refcount' = IF step = "off" THEN 0 ELSE power_refcount
  /\ cmdline_power_refcount' = IF step = "off" THEN 0 ELSE cmdline_power_refcount
  /\ mishaps' = mishaps \cup IgnoredIf(step = "off" /\ hw' = "on")
  /\ UNCHANGED << failed_at, cancelled, power_put_delay, power_lock, pending, pc >>

\* The labels err_remove_wq, err_devfreq_remove and err_remove_drv; a step
\* before the fence just returns.
Undone(step) ==
  CASE step \in {"fence", "power"} -> {"minor"}
    [] step = "wq" -> {"minor", "devfreq"}
    [] step = "sram" -> {"minor", "devfreq", "wq"}
    [] OTHER -> {}

ProbeFails ==
  LET step == Head(steps) IN
  /\ phase = "probing" /\ step \in Failing
  /\ phase' = "failed" /\ steps' = << >>
  /\ have' = have \ Undone(step)
  /\ failed_at' = step
  /\ hw' = IF step = "power" THEN "partial" ELSE hw
  /\ UNCHANGED << cancelled, mishaps, power_refcount, cmdline_power_refcount,
                  power_put_delay, power_lock, pending, pc >>

----------------------------------------------------------------------------
(* rknpu_remove.                                                            *)

Closed == \A p \in Users : pc[p] = "out"

RemoveBegins ==
  /\ phase = "bound" /\ Closed
  /\ phase' = "removing" /\ steps' = RemoveSteps
  /\ UNCHANGED << vars, have, failed_at, cancelled, mishaps >>

\* What a step waits for: the running work, and the nodes that are open.
Waited(step) ==
  CASE step = "cancel" -> pc[Work] = "out"
    [] step = "debugger" -> \A p \in Readers \cup {Debug} : pc[p] = "out"
    [] step = "off" -> power_lock = NoProc
    [] OTHER -> TRUE

\* Mutant of RemoveStep: the work is not cancelled.
RemoveStepLeavesWork ==
  LET step == Head(steps) IN
  /\ phase = "removing" /\ Waited(step)
  /\ Advance("removed")
  /\ have' = have \ {step}
  /\ hw' \in IF step = "off" /\ power_refcount > 0 THEN {"off", hw} ELSE {hw}
  /\ mishaps' = mishaps \cup IgnoredIf(step = "off" /\ power_refcount > 0 /\ hw' # "off")
  /\ UNCHANGED << cancelled, pending, failed_at, power_refcount, cmdline_power_refcount,
                  power_put_delay, power_lock, pc >>

\* The work is cancelled before its queue goes; the reference it had stays
\* counted, which makes the last power_off run.
RemoveStep ==
  LET step == Head(steps) IN
  /\ phase = "removing" /\ Waited(step)
  /\ Advance("removed")
  /\ have' = have \ {step}
  /\ pending' = (pending /\ step # "cancel")
  /\ cancelled' = (cancelled \/ (step = "cancel" /\ pending))
  /\ hw' \in IF step = "off" /\ power_refcount > 0 THEN {"off", hw} ELSE {hw}
  /\ mishaps' = mishaps \cup IgnoredIf(step = "off" /\ power_refcount > 0 /\ hw' # "off")
  /\ UNCHANGED << failed_at, power_refcount, cmdline_power_refcount,
                  power_put_delay, power_lock, pc >>

----------------------------------------------------------------------------
(* The callers of NpuPower: the device node is there for them while the     *)
(* driver is bound, the debugger's nodes until remove takes them away.      *)

\* Once remove has cancelled the work only a power_off that fails queues it
\* again, on a queue that may be gone (rknpu_drv.c 369-372).
Beside(action) ==
  /\ action
  /\ mishaps' = mishaps \cup IF phase = "removing" /\ steps # RemoveSteps
                                /\ pending' /\ ~ pending THEN {"late"} ELSE {}
  /\ UNCHANGED << phase, steps, have, failed_at, cancelled >>

Open(p) == phase = "bound" /\ p \in Users /\ Beside(Enter(p))

OpenNode(p) == "debugger" \in have /\ p \in Readers /\ Beside(Enter(p))

WriteNode == "debugger" \in have /\ Beside(DebugOn \/ DebugOff \/ DebugSetDelay)

Call(p) == Beside(Caller(p) \/ (p = Debug /\ DebugWriter))

WorkRuns == Beside(WorkBegin)

DeviceNext ==
  \/ ProbeStep \/ ProbeFails \/ RemoveBegins \/ RemoveStep
  \/ \E p \in Procs : Open(p) \/ OpenNode(p) \/ Call(p)
  \/ WriteNode \/ WorkRuns

DeviceSpec == DeviceInit /\ [][DeviceNext]_allvars

(***************************************************************************)
(* Fairness.  A call that has begun goes on; taking the mutex is strongly  *)
(* fair because others take it and release it; the timer of the work       *)
(* expires; and the IOMMU does not stay enabled for ever.  That probe or   *)
(* remove go on, that callers begin, or that anybody writes to a node, is  *)
(* not assumed.                                                            *)
(***************************************************************************)
DeviceFairness ==
  /\ \A p \in Procs :
       /\ WF_allvars(Call(p))
       /\ SF_allvars(Beside(PowerGet(p) \/ DelayLock(p) \/ PowerPut(p)))
  /\ SF_allvars(\E p \in Procs : Beside(PowerOff(p)))
  /\ WF_allvars(WorkRuns)

FairSpec == DeviceSpec /\ DeviceFairness

----------------------------------------------------------------------------
(* Properties.                                                              *)

Quiet == \A p \in Users \cup Readers \cup {Debug} : pc[p] = "out"

\* The types of the variables.
DeviceTypeOK ==
  /\ TypeOK
  /\ phase \in {"probing", "failed", "bound", "removing", "removed"}
  /\ steps \in Seq(ToSet(ProbeSteps) \cup ToSet(RemoveSteps))
  /\ have \subseteq ToSet(ProbeSteps) \ NoResource
  /\ failed_at \in Failing \cup {""}
  /\ cancelled \in BOOLEAN /\ mishaps \subseteq {"ignored", "late"}

\* The count is exact at every moment: one for each caller between get and put,
\* one for each "on", one for a pending work, and one for a work that remove
\* has cancelled.  A delayed put neither loses the last reference nor gives it
\* back twice, whatever gets in between, however often power_off fails, and
\* while the device goes away (rknpu_drv.c 327-390, 1525).
RefcountExact ==
  power_refcount = Cardinality(Holders) + CmdlineReferences
                   + (IF pending THEN 1 ELSE 0) + (IF cancelled THEN 1 ELSE 0)

\* rknpu_remove has come past its power_off.
PowerCut == phase = "removed" \/ steps = << "pm" >>

\* The power is on while somebody uses the hardware or "on" is in force, as far
\* as power_on could switch it on, until remove cuts it for good; and it is off
\* when no reference is left, unless the power_off of probe has failed, which
\* nobody repeats (rknpu_drv.c 357-373, 650-660, 1502; rknpu_debugger.c 109-123).
PoweredAsCounted ==
  /\ (\E p \in Users \cup Readers : pc[p] = "in") => hw # "off"
  /\ cmdline_power_refcount > 0 /\ pc[Debug] = "out" /\ ~ PowerCut => hw # "off"
  /\ power_refcount = 0 /\ hw # "off" /\ phase \in {"bound", "removing", "removed"}
     /\ "ignored" \notin mishaps => \E p \in Procs : power_lock = p /\ pc[p] = "powering_off"

\* A probe that fails gives back what it has set up in the reverse order, but
\* for the group, the node when there is no heap, the runtime power management
\* and the supplies; a remove gives everything back.  The work outlives
\* neither its queue nor the device, and the power is off at the end, unless a
\* power_off failed on the way (rknpu_drv.c 1416-1424, 1459-1473, 1510-1588).
NothingOutlivesTheDevice ==
  /\ phase = "failed" =>
       /\ have \subseteq {"group", "minor", "pm"}
       /\ "minor" \in have => failed_at = "heap"
       /\ "pm" \in have => failed_at \in {"power", "wq", "sram"}
       /\ hw # "off" => failed_at \in {"power", "wq", "sram"}
  /\ phase = "removed" => have = {} /\ Quiet
  /\ phase \in {"removing", "removed"} /\ "wq" \notin have /\ "late" \notin mishaps =>
       ~ pending /\ pc[Work] = "out"
  /\ phase = "removed" /\ hw # "off" => "ignored" \in mishaps

\* When nobody uses a bound NPU any more it ends up without power, although the
\* last reference sits in a timer and power_off may fail again and again.
PowersOff ==
  <>[](Quiet /\ cmdline_power_refcount = 0 /\ phase = "bound" /\ "ignored" \notin mishaps)
    => <>[](hw = "off" /\ power_refcount = 0)

----------------------------------------------------------------------------
(* The inductive invariant.                                                 *)

\* power_lock is held in these places, and by nobody else; who is where.
Locked == {"powering_on", "queue", "drop", "powering_off"}

CallInv ==
  /\ \A p \in Procs : pc[p] \in Locked <=> power_lock = p
  /\ \A p \in Procs :
       /\ pc[p] = "in" => p \in Users \cup Readers
       /\ pc[p] \in {"get", "powering_on"} => p # Work
       /\ pc[p] \in {"off_dec", "off_sub", "off_clear"} => p = Debug
  /\ pc[Debug] \in {"get", "powering_on"} => cmdline_power_refcount > 0

\* What the holder of power_lock has found in the count still holds, although
\* "off" subtracts without the lock.
Found(p) ==
  /\ pc[p] \in {"powering_on", "queue"} => power_refcount = 1
  /\ pc[p] = "drop" => power_refcount >= 2
  /\ pc[p] = "powering_off" => power_refcount = 0

CountInv == RefcountExact /\ \A p \in Procs : Found(p)

\* The set-up of probe is over, and with it the time when power_refcount does
\* not say whether the power is on.
SetUp ==
  \/ phase \in {"bound", "removing", "removed"}
  \/ phase = "probing" /\ Len(steps) <= 2

HwInv ==
  /\ power_refcount > 0 /\ hw = "off" =>
       PowerCut \/ \E p \in Procs : pc[p] = "powering_on"
  /\ \A p \in Procs : pc[p] = "powering_off" /\ ~ PowerCut => hw # "off"
  /\ power_refcount = 0 /\ hw # "off" /\ SetUp /\ "ignored" \notin mishaps =>
       \E p \in Procs : pc[p] = "powering_off"
  /\ PowerCut /\ hw # "off" => "ignored" \in mishaps

\* Nobody has called anything yet.
Idle ==
  /\ \A p \in Procs : pc[p] = "out"
  /\ power_refcount = 0 /\ cmdline_power_refcount = 0
  /\ ~ pending /\ ~ cancelled

Done(n) == {ProbeSteps[i] : i \in 1 .. n - 1} \ NoResource

\* The n-th step of probe is the next; "power" is the 7th, "off" the 12th, and
\* from the 14th on the debugger's nodes are there.
ProbingInv ==
  phase = "probing" =>
    \E n \in 1 .. 14 :
      /\ steps = SubSeq(ProbeSteps, n, 14) /\ have = Done(n)
      /\ n <= 13 => Idle
      /\ n <= 7 => hw = "off"
      /\ n \in 8 .. 12 => hw = "on"
      /\ ~ cancelled

FailedInv ==
  phase = "failed" =>
    /\ Idle /\ steps = << >> /\ have \subseteq {"group", "minor", "pm"}
    /\ "minor" \in have => failed_at = "heap"
    /\ "pm" \in have \/ hw # "off" => failed_at \in {"power", "wq", "sram"}

BoundInv ==
  phase = "bound" => steps = << >> /\ have = Done(15) /\ ~ cancelled

\* The n-th step of remove is the next: the work has been cancelled before the
\* 2nd, the nodes are gone before the 4th.
GoneInv(n) ==
  /\ Closed
  /\ n > 1 /\ "late" \notin mishaps => ~ pending /\ pc[Work] = "out"
  /\ n > 3 => Quiet
  /\ n = 1 => ~ cancelled

RemovingInv ==
  /\ phase = "removing" =>
       \E n \in 1 .. 11 :
         /\ steps = SubSeq(RemoveSteps, n, 11)
         /\ have = {RemoveSteps[i] : i \in n .. 11} \ NoResource
         /\ GoneInv(n)
  /\ phase = "removed" => steps = << >> /\ have = {} /\ GoneInv(12)

DeviceIInv ==
  /\ DeviceTypeOK /\ CallInv /\ CountInv /\ HwInv
  /\ ProbingInv /\ FailedInv /\ BoundInv /\ RemovingInv
=============================================================================
