------------------------------- MODULE NpuPower -------------------------------
(***************************************************************************)
(* Power management of the NPU driver: the reference count every ioctl     *)
(* takes before it touches the hardware, the delayed work that gives the   *)
(* last reference back three seconds after the last ioctl, and the debugfs *)
(* nodes "power", "freq" and "delayms", which work on the same counter,    *)
(* partly without power_lock.                                              *)
(*                                                                         *)
(* The supplies, clocks and power domains are one state hw: power_on       *)
(* either enables all of them or stops half way, power_off disables all of *)
(* them or, when the IOMMU stays enabled, none.                            *)
(***************************************************************************)
EXTENDS Integers, FiniteSets

CONSTANTS
  Users,    \* callers of get ... put_delay: ioctls, gem free, suspend/resume
  Readers,  \* callers of get ... put: the nodes "freq" and "volt"
  Debug,    \* the writer of the nodes "power" and "delayms"
  Work,     \* the delayed work power_off_work
  NoProc,   \* an unlocked power_lock
  MaxOn     \* bound of the model: how often "on" is written without an "off"

Procs == Users \cup Readers \cup {Debug, Work}

ASSUME PowerAssumption ==
  /\ Users \cap Readers = {}
  /\ Debug \notin Users \cup Readers /\ Work \notin Users \cup Readers
  /\ Debug # Work
  /\ NoProc \notin Procs
  /\ IsFiniteSet(Users) /\ IsFiniteSet(Readers)
  /\ MaxOn \in Nat

VARIABLES
  power_refcount,
  cmdline_power_refcount,
  power_put_delay,   \* whether the last reference is given back with a delay
  power_lock,
  hw,                \* "off", "on", or "partial": power_on failed half way
  pending,           \* power_off_work waits for its timer
  pc                 \* where each caller is

vars == <<power_refcount, cmdline_power_refcount, power_put_delay, power_lock,
          hw, pending, pc>>

Init ==
  /\ power_refcount = 0
  /\ cmdline_power_refcount = 0
  /\ power_put_delay = TRUE
  /\ power_lock = NoProc
  /\ hw = "off"
  /\ pending = FALSE
  /\ pc = [p \in Procs |-> "out"]

Goto(p, place) == pc' = [pc EXCEPT ![p] = place]

-----------------------------------------------------------------------------
(* rknpu_power_get.                                                         *)

\* An ioctl or a read of a node begins.
Enter(p) ==
  /\ p \in Users \cup Readers
  /\ pc[p] = "out"
  /\ Goto(p, "get")
  /\ UNCHANGED <<power_refcount, cmdline_power_refcount, power_put_delay,
                 power_lock, hw, pending>>

\* Where the caller goes on: "on" keeps its reference in
\* cmdline_power_refcount, the others use the hardware.  No caller looks at
\* the return value of rknpu_power_get.
AfterGet(p) == IF p = Debug THEN "out" ELSE "in"

PowerGet(p) ==
  /\ pc[p] = "get"
  /\ power_lock = NoProc
  /\ power_refcount' = power_refcount + 1
  /\ IF power_refcount = 0
       THEN Goto(p, "powering_on") /\ power_lock' = p
       ELSE Goto(p, AfterGet(p)) /\ UNCHANGED power_lock
  /\ UNCHANGED <<cmdline_power_refcount, power_put_delay, hw, pending>>

\* rknpu_power_on: when a regulator, a clock or a domain fails, what was
\* enabled before stays enabled.
PowerOn(p) ==
  /\ pc[p] = "powering_on"
  /\ hw' \in {"on", "partial"}
  /\ power_lock' = NoProc
  /\ Goto(p, AfterGet(p))
  /\ UNCHANGED <<power_refcount, cmdline_power_refcount, power_put_delay, pending>>

\* The hardware has been used.
Leave(p) ==
  /\ pc[p] = "in"
  /\ Goto(p, IF p \in Users THEN "put_delay" ELSE "put")
  /\ UNCHANGED <<power_refcount, cmdline_power_refcount, power_put_delay,
                 power_lock, hw, pending>>

-----------------------------------------------------------------------------
(* rknpu_power_put_delay.                                                   *)

\* The delay is read before the lock is taken.
PutDelay(p) ==
  /\ pc[p] = "put_delay"
  /\ Goto(p, IF power_put_delay THEN "delay" ELSE "put")
  /\ UNCHANGED <<power_refcount, cmdline_power_refcount, power_put_delay,
                 power_lock, hw, pending>>

DelayLock(p) ==
  /\ pc[p] = "delay"
  /\ power_lock = NoProc
  /\ power_lock' = p
  /\ Goto(p, IF power_refcount = 1 THEN "queue" ELSE "drop")
  /\ UNCHANGED <<power_refcount, cmdline_power_refcount, power_put_delay, hw, pending>>

\* The last reference is left to the work.
QueueWork(p) ==
  /\ pc[p] = "queue"
  /\ pending' = TRUE
  /\ power_lock' = NoProc
  /\ Goto(p, "out")
  /\ UNCHANGED <<power_refcount, cmdline_power_refcount, power_put_delay, hw>>

DecIfPositive(n) == IF n > 0 THEN n - 1 ELSE n

DropReference(p) ==
  /\ pc[p] = "drop"
  /\ power_refcount' = DecIfPositive(power_refcount)
  /\ power_lock' = NoProc
  /\ Goto(p, "out")
  /\ UNCHANGED <<cmdline_power_refcount, power_put_delay, hw, pending>>

-----------------------------------------------------------------------------
(* rknpu_power_put and rknpu_power_off_delay_work, which share their body.  *)

\* The timer of the work expires; a work does not run twice at a time.
WorkBegin ==
  /\ pending
  /\ pc[Work] = "out"
  /\ pending' = FALSE
  /\ Goto(Work, "put")
  /\ UNCHANGED <<power_refcount, cmdline_power_refcount, power_put_delay,
                 power_lock, hw>>

\* Mutant of PowerPut: the power goes off one reference too early.
PowerPutEarly(p) ==
  /\ pc[p] = "put"
  /\ power_lock = NoProc
  /\ power_refcount' = DecIfPositive(power_refcount)
  /\ IF power_refcount \in {1, 2}
       THEN Goto(p, "powering_off") /\ power_lock' = p
       ELSE Goto(p, "out") /\ UNCHANGED power_lock
  /\ UNCHANGED <<cmdline_power_refcount, power_put_delay, hw, pending>>

PowerPut(p) ==
  /\ pc[p] = "put"
  /\ power_lock = NoProc
  /\ power_refcount' = DecIfPositive(power_refcount)
  /\ IF power_refcount = 1
       THEN Goto(p, "powering_off") /\ power_lock' = p
       ELSE Goto(p, "out") /\ UNCHANGED power_lock
  /\ UNCHANGED <<cmdline_power_refcount, power_put_delay, hw, pending>>

PowerOff(p) ==
  /\ pc[p] = "powering_off"
  /\ hw' = "off"
  /\ power_lock' = NoProc
  /\ Goto(p, "out")
  /\ UNCHANGED <<power_refcount, cmdline_power_refcount, power_put_delay, pending>>

\* Mutant of PowerOffFails: the reference is taken back, but nobody is told to
\* try again.
PowerOffFailsNoRetry(p) ==
  /\ pc[p] = "powering_off"
  /\ power_refcount' = power_refcount + 1
  /\ power_lock' = NoProc
  /\ Goto(p, "out")
  /\ UNCHANGED <<cmdline_power_refcount, power_put_delay, hw, pending>>

\* Mutant of PowerOffFails: the count stays at zero.
PowerOffFailsNoInc(p) ==
  /\ pc[p] = "powering_off"
  /\ power_lock' = NoProc
  /\ Goto(p, "put_delay")
  /\ UNCHANGED <<power_refcount, cmdline_power_refcount, power_put_delay, hw, pending>>

\* The IOMMU is still enabled: the hardware stays as it is, the reference is
\* taken back and given to put_delay once more.
PowerOffFails(p) ==
  /\ pc[p] = "powering_off"
  /\ power_refcount' = power_refcount + 1
  /\ power_lock' = NoProc
  /\ Goto(p, "put_delay")
  /\ UNCHANGED <<cmdline_power_refcount, power_put_delay, hw, pending>>

-----------------------------------------------------------------------------
(* The debugfs nodes; none of these steps takes power_lock.                 *)

DebugOn ==
  /\ pc[Debug] = "out"
  /\ cmdline_power_refcount < MaxOn
  /\ cmdline_power_refcount' = cmdline_power_refcount + 1
  /\ Goto(Debug, "get")
  /\ UNCHANGED <<power_refcount, power_put_delay, power_lock, hw, pending>>

DebugOff ==
  /\ pc[Debug] = "out"
  /\ power_refcount > 0
  /\ Goto(Debug, "off_dec")
  /\ UNCHANGED <<power_refcount, cmdline_power_refcount, power_put_delay,
                 power_lock, hw, pending>>

DebugOffDec ==
  /\ pc[Debug] = "off_dec"
  /\ cmdline_power_refcount' = DecIfPositive(cmdline_power_refcount)
  /\ Goto(Debug, IF cmdline_power_refcount > 0 THEN "off_sub" ELSE "out")
  /\ UNCHANGED <<power_refcount, power_put_delay, power_lock, hw, pending>>

\* Mutant of DebugOffSub: the reference that is put at the end is subtracted too.
DebugOffSubAll ==
  /\ pc[Debug] = "off_sub"
  /\ power_refcount' = power_refcount - (cmdline_power_refcount + 1)
  /\ Goto(Debug, "off_clear")
  /\ UNCHANGED <<cmdline_power_refcount, power_put_delay, power_lock, hw, pending>>

DebugOffSub ==
  /\ pc[Debug] = "off_sub"
  /\ power_refcount' = power_refcount - cmdline_power_refcount
  /\ Goto(Debug, "off_clear")
  /\ UNCHANGED <<cmdline_power_refcount, power_put_delay, power_lock, hw, pending>>

DebugOffClear ==
  /\ pc[Debug] = "off_clear"
  /\ cmdline_power_refcount' = 0
  /\ Goto(Debug, "put")
  /\ UNCHANGED <<power_refcount, power_put_delay, power_lock, hw, pending>>

DebugSetDelay ==
  /\ pc[Debug] = "out"
  /\ power_put_delay' = ~power_put_delay
  /\ UNCHANGED <<power_refcount, cmdline_power_refcount, power_lock, hw,
                 pending, pc>>

-----------------------------------------------------------------------------
\* The steps of a caller that has begun.
Caller(p) ==
  \/ PowerGet(p) \/ PowerOn(p) \/ Leave(p)
  \/ PutDelay(p) \/ DelayLock(p) \/ QueueWork(p) \/ DropReference(p)
  \/ PowerPut(p) \/ PowerOff(p) \/ PowerOffFails(p)

DebugWriter == DebugOffDec \/ DebugOffSub \/ DebugOffClear

Next ==
  \/ \E p \in Procs : Enter(p) \/ Caller(p)
  \/ WorkBegin
  \/ DebugOn \/ DebugOff \/ DebugWriter \/ DebugSetDelay

Spec == Init /\ [][Next]_vars

-----------------------------------------------------------------------------
(* Properties.                                                              *)

Places == {"out", "get", "powering_on", "in", "put_delay", "delay", "queue",
           "drop", "put", "powering_off", "off_dec", "off_sub", "off_clear"}

\* The types of the variables; in particular the count is never negative,
\* although "off" subtracts from it without the lock (rknpu_debugger.c 114-121).
TypeOK ==
  /\ power_refcount \in Nat
  /\ cmdline_power_refcount \in 0 .. MaxOn
  /\ power_put_delay \in BOOLEAN
  /\ power_lock \in Procs \cup {NoProc}
  /\ hw \in {"off", "partial", "on"}
  /\ pending \in BOOLEAN
  /\ pc \in [Procs -> Places]

\* Who has a reference that is not counted in cmdline_power_refcount: a caller
\* between get and put, the running work, and "off" until its put.
HoldsAt(p, place) ==
  \/ place \in {"in", "put_delay", "delay", "queue", "drop", "put", "off_sub",
               "off_clear"}
  \/ place = "powering_on" /\ p # Debug

Holders == {p \in Procs : HoldsAt(p, pc[p])}

\* The part of cmdline_power_refcount that is in power_refcount: "on" counts
\* itself before it gets, "off" subtracts before it clears.
CmdlineReferences ==
  IF pc[Debug] = "get" THEN cmdline_power_refcount - 1
  ELSE IF pc[Debug] = "off_clear" THEN 0
  ELSE cmdline_power_refcount
=============================================================================
