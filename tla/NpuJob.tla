-------------------------------- MODULE NpuJob --------------------------------
(***************************************************************************)
(* Job submission in the NPU driver: the submit ioctl, the queue of each   *)
(* core, the interrupt handlers, the wait with its timeout, the abort, the *)
(* clean-up of overdue jobs, the soft reset, and the IOMMU domain a job    *)
(* needs.  A job that uses several cores starts when it is at the head of  *)
(* the queue of each of them.                                              *)
(*                                                                         *)
(* Processes are the submitting calls, named by their job, and the         *)
(* interrupt handlers, named by their core.  Steps are as large as what    *)
(* irq_lock protects.  Jobs are program-controlled (RKNPU_JOB_PC) and have *)
(* a task object, as librknnrt submits them.  After a job has been freed   *)
(* while something still refers to it the model does not follow whoever    *)
(* uses the reference.                                                     *)
(***************************************************************************)
EXTENDS NpuDomain, Sequences, SequencesExt

CONSTANTS
  Cores,          \* 0 .. num_irqs - 1
  Jobs,           \* calls of the submit ioctl
  NoJob,          \* NULL
  Requests,       \* what is submitted: [cores, domain, nonblock, batches]
  Mishaps,        \* what the environment may do: time out, fail to switch, ...
  MishapJobs      \* bound of the model: with more jobs than this none of it happens

Procs == Jobs \cup Cores

ASSUME JobAssumption ==
  /\ IsFiniteSet(Cores) /\ Cores = 0 .. (Cardinality(Cores) - 1) /\ Cores # {}
  /\ Jobs \cap Cores = {} /\ NoJob \notin Procs
  /\ Requests \subseteq [cores : SUBSET Cores, domain : Domains,
                         nonblock : BOOLEAN, batches : Nat \ {0}]
  /\ Mishaps \subseteq {"timeout", "overdue", "switch", "status", "reset"}
  /\ MishapJobs \in Nat

VARIABLES
  job,            \* struct rknpu_job of each call
  at,             \* where each process is
  held,           \* the job a process works on besides its own
  left,           \* the cores a loop of a submitter has still to visit
  todo_list, running, task_num,   \* struct rknpu_subcore_data of each core
  engine,         \* the job the hardware of a core executes
  irq,            \* the interrupt line of a core: "none", "valid" or "invalid"
  soft_reseting, reset_lock,
  work,           \* jobs whose cleanup_work is scheduled
  freed,          \* jobs that have been freed
  mishaps         \* what has gone wrong so far (not a variable of the driver)

coreVars == <<todo_list, running, task_num>>
hwVars == <<engine, irq>>
resetVars == <<soft_reseting, reset_lock>>
endVars == <<work, freed, mishaps>>
vars == <<job, at, held, left, coreVars, hwVars, resetVars, endVars, domainVars>>

Unsubmitted ==
  [cores |-> {}, domain |-> Domain0, nonblock |-> FALSE, batches |-> 1,
   run_count |-> 0, interrupt_count |-> 0, submit_count |-> [c \in Cores |-> 0],
   committed |-> FALSE, done |-> FALSE, ret |-> "ok", irq_entry |-> {}]

Init ==
  /\ job = [j \in Jobs |-> Unsubmitted]
  /\ at = [p \in Procs |-> "idle"]
  /\ held = [p \in Procs |-> NoJob]
  /\ left = [j \in Jobs |-> {}]
  /\ todo_list = [c \in Cores |-> <<>>]
  /\ running = [c \in Cores |-> NoJob]
  /\ task_num = [c \in Cores |-> 0]
  /\ engine = [c \in Cores |-> NoJob]
  /\ irq = [c \in Cores |-> "none"]
  /\ soft_reseting = FALSE /\ reset_lock = NoJob
  /\ work = {} /\ freed = {} /\ mishaps = {}
  /\ InitDomain

MinCore(S) == CHOOSE c \in S : \A d \in S : c <= d

Goto(p, place) == at' = [at EXCEPT ![p] = place]

Submitted == {j \in Jobs : at[j] # "idle"}

\* The mishap m happens, if the environment is allowed to.
May(m) == m \in Mishaps /\ Cardinality(Submitted) <= MishapJobs
Mishap(m) == May(m) /\ mishaps' = mishaps \cup {m}

\* The driver itself gets into the situation m.
If(happens, m) == IF happens THEN {m} ELSE {}
Noted(S) == mishaps' = mishaps \cup S

-----------------------------------------------------------------------------
(* rknpu_submit and rknpu_job_alloc.                                        *)

Submit(j) ==
  /\ at[j] = "idle"
  /\ mishaps = {} \/ Cardinality(Submitted) < MishapJobs
  /\ \E r \in Requests :
       /\ job' = [job EXCEPT ![j] =
            [cores |-> r.cores, domain |-> r.domain, nonblock |-> r.nonblock,
             batches |-> r.batches, run_count |-> Cardinality(r.cores),
             interrupt_count |-> Cardinality(r.cores),
             submit_count |-> [c \in Cores |-> 0], committed |-> FALSE,
             done |-> FALSE, ret |-> "ok", irq_entry |-> {}]]
       /\ left' = [left EXCEPT ![j] = IF r.nonblock THEN r.cores ELSE {}]
  /\ Goto(j, "clean")
  /\ UNCHANGED <<held, coreVars, hwVars, resetVars, endVars, domainVars>>

-----------------------------------------------------------------------------
(* rknpu_job_timeout_clean: before it is queued, a non-blocking job clears  *)
(* its cores of jobs that run for too long.                                 *)

\* A core that is idle or whose job is young enough.
CleanSkip(j) ==
  /\ at[j] = "clean" /\ left[j] # {}
  /\ left' = [left EXCEPT ![j] = @ \ {MinCore(@)}]
  /\ UNCHANGED <<job, at, held, coreVars, hwVars, resetVars, endVars, domainVars>>

CleanOverdue(j) ==
  /\ at[j] = "clean" /\ left[j] # {}
  /\ running[MinCore(left[j])] \notin {NoJob} \cup freed
  /\ Mishap("overdue")
  /\ held' = [held EXCEPT ![j] = running[MinCore(left[j])]]
  /\ Goto(j, "reset")
  /\ UNCHANGED <<job, left, coreVars, hwVars, resetVars, work, freed, domainVars>>

\* The overdue job and all that wait behind it are given to cleanup_work.
CleanFlush(j) ==
  LET c == MinCore(left[j]) IN
  /\ at[j] = "flush"
  /\ running' = [running EXCEPT ![c] = NoJob]
  /\ todo_list' = [todo_list EXCEPT ![c] = <<>>]
  /\ work' = work \cup {held[j]} \cup ToSet(todo_list[c])
  /\ held' = [held EXCEPT ![j] = NoJob]
  /\ left' = [left EXCEPT ![j] = @ \ {c}]
  /\ Goto(j, "clean")
  /\ UNCHANGED <<job, task_num, hwVars, resetVars, freed, mishaps, domainVars>>

-----------------------------------------------------------------------------
(* rknpu_job_schedule.                                                      *)

\* Mutant of Assign: the counts of an AUTO job stay those of an empty mask.
AssignKeepsCounts(r) ==
  IF r.cores # {} THEN r
  ELSE LET c == CHOOSE c \in Cores :
                  /\ \A d \in Cores : task_num[c] <= task_num[d]
                  /\ \A d \in Cores : d < c => task_num[c] < task_num[d]
       IN [r EXCEPT !.cores = {c}]

\* A job that leaves the choice to the driver gets the core with the least
\* work, the first one of several.
Assign(r) ==
  IF r.cores # {} THEN r
  ELSE LET c == CHOOSE c \in Cores :
                  /\ \A d \in Cores : task_num[c] <= task_num[d]
                  /\ \A d \in Cores : d < c => task_num[c] < task_num[d]
       IN [r EXCEPT !.cores = {c}, !.run_count = 1, !.interrupt_count = 1]

Scheduling(j) == at[j] = "clean" /\ left[j] = {}

ScheduleDomain(j) ==
  /\ Scheduling(j)
  /\ job' = [job EXCEPT ![j] = Assign(@)]
  /\ GetSame(job[j].domain) \/ SwitchDomain(job[j].domain)
  /\ Goto(j, "queue")
  /\ UNCHANGED <<held, left, coreVars, hwVars, resetVars, endVars>>

\* Without its domain a job is not queued; a blocking call waits all the same.
ScheduleFails(j) ==
  /\ Scheduling(j)
  /\ SwitchFails(job[j].domain) \/ SwitchTimesOut(job[j].domain)
  /\ Mishap("switch")
  /\ job' = [job EXCEPT ![j] = [Assign(@) EXCEPT !.ret = "inval"]]
  /\ Goto(j, IF job[j].nonblock THEN "abort" ELSE "wait")
  /\ UNCHANGED <<held, left, coreVars, hwVars, resetVars, work, freed>>

\* Mutant of Enqueue: on every core but the first the job goes to the front.
EnqueueFront(j) ==
  /\ at[j] = "queue"
  /\ todo_list' = [c \in Cores |->
       IF c \notin job[j].cores THEN todo_list[c]
       ELSE IF c = 0 THEN Append(todo_list[c], j) ELSE <<j>> \o todo_list[c]]
  /\ task_num' = [c \in Cores |->
       task_num[c] + (IF c \in job[j].cores THEN job[j].batches ELSE 0)]
  /\ left' = [left EXCEPT ![j] = job[j].cores]
  /\ Goto(j, "next")
  /\ UNCHANGED <<job, held, running, hwVars, resetVars, endVars, domainVars>>

Enqueue(j) ==
  /\ at[j] = "queue"
  /\ todo_list' = [c \in Cores |->
       IF c \in job[j].cores THEN Append(todo_list[c], j) ELSE todo_list[c]]
  /\ task_num' = [c \in Cores |->
       task_num[c] + (IF c \in job[j].cores THEN job[j].batches ELSE 0)]
  /\ left' = [left EXCEPT ![j] = job[j].cores]
  /\ Goto(j, "next")
  /\ UNCHANGED <<job, held, running, hwVars, resetVars, endVars, domainVars>>

-----------------------------------------------------------------------------
(* rknpu_job_next, called by a submitter for each core of its job and by    *)
(* the interrupt handler for its own core.                                  *)

CoreOf(p) == IF p \in Cores THEN p ELSE MinCore(left[p])

\* Where a process goes on after rknpu_job_next.
AfterNext(p) ==
  IF p \in Cores
  THEN Goto(p, "idle") /\ UNCHANGED left
  ELSE /\ left' = [left EXCEPT ![p] = @ \ {MinCore(@)}]
       /\ Goto(p, IF left[p] # {MinCore(left[p])} THEN "next"
                  ELSE IF job[p].nonblock THEN "out" ELSE "wait")

NextNothing(p) ==
  /\ at[p] = "next" /\ p \notin freed
  /\ \/ soft_reseting
     \/ running[CoreOf(p)] # NoJob
     \/ todo_list[CoreOf(p)] = <<>>
  /\ AfterNext(p)
  /\ UNCHANGED <<job, held, coreVars, hwVars, resetVars, endVars, domainVars>>

NextTake(p) ==
  LET c == CoreOf(p) IN
  /\ at[p] = "next" /\ p \notin freed
  /\ ~soft_reseting /\ running[c] = NoJob /\ todo_list[c] # <<>>
  /\ Head(todo_list[c]) \notin freed
  /\ running' = [running EXCEPT ![c] = Head(todo_list[c])]
  /\ held' = [held EXCEPT ![p] = Head(todo_list[c])]
  /\ todo_list' = [todo_list EXCEPT ![c] = Tail(@)]
  /\ Goto(p, "commit")
  /\ Noted(If(engine[c] # NoJob \/ irq[c] # "none", "overlap"))
  /\ UNCHANGED <<job, left, task_num, hwVars, resetVars, work, freed, domainVars>>

\* The call that takes the job off its last queue starts it on all its cores,
\* also where the job has been taken off the core in the meantime.
Commit(p) ==
  LET j == held[p]
      last == job[j].run_count = 1
  IN
  /\ at[p] = "commit" /\ freed \cap {p, j} = {}
  /\ job' = [job EXCEPT ![j].run_count = @ - 1, ![j].committed = @ \/ last]
  /\ engine' = [c \in Cores |-> IF last /\ c \in job[j].cores THEN j ELSE engine[c]]
  /\ held' = [held EXCEPT ![p] = NoJob]
  /\ AfterNext(p)
  /\ Noted(If(last /\ \E c \in job[j].cores : running[c] # j, "overlap"))
  /\ UNCHANGED <<coreVars, irq, resetVars, work, freed, domainVars>>

-----------------------------------------------------------------------------
(* The hardware.                                                            *)

EngineFinishes(c) ==
  /\ engine[c] # NoJob
  /\ engine' = [engine EXCEPT ![c] = NoJob]
  /\ \/ irq' = [irq EXCEPT ![c] = "valid"] /\ UNCHANGED mishaps
     \/ irq' = [irq EXCEPT ![c] = "invalid"] /\ Mishap("status")
  /\ UNCHANGED <<job, at, held, left, coreVars, resetVars, work, freed, domainVars>>

-----------------------------------------------------------------------------
(* rknpu_irq_handler and rknpu_job_done.                                    *)

IrqEnter(c) ==
  LET j == running[c] IN
  /\ c \in Cores /\ at[c] = "idle" /\ irq[c] # "none" /\ j \notin freed
  /\ IF j = NoJob
       THEN /\ irq' = [irq EXCEPT ![c] = "none"]
            /\ Goto(c, "next")
            /\ UNCHANGED <<job, held>>
       ELSE /\ job' = [job EXCEPT ![j].irq_entry = @ \cup {c}]
            /\ held' = [held EXCEPT ![c] = j]
            /\ Goto(c, "status")
            /\ UNCHANGED irq
  /\ UNCHANGED <<left, coreVars, engine, resetVars, endVars, domainVars>>

\* The status does not belong to the job: the interrupt is cleared, no more.
IrqInvalid(c) ==
  /\ at[c] = "status" /\ irq[c] # "valid"
  /\ irq' = [irq EXCEPT ![c] = "none"]
  /\ held' = [held EXCEPT ![c] = NoJob]
  /\ Goto(c, "idle")
  /\ UNCHANGED <<job, left, coreVars, engine, resetVars, endVars, domainVars>>

\* One submission of at most max_submit_number tasks has been executed and the
\* next one starts.
IrqNextBatch(c) ==
  LET j == held[c] IN
  /\ at[c] = "status" /\ irq[c] = "valid" /\ j \notin freed
  /\ job[j].submit_count[c] + 1 < job[j].batches
  /\ job' = [job EXCEPT ![j].submit_count[c] = @ + 1]
  /\ engine' = [engine EXCEPT ![c] = j]
  /\ irq' = [irq EXCEPT ![c] = "none"]
  /\ held' = [held EXCEPT ![c] = NoJob]
  /\ Goto(c, "idle")
  /\ UNCHANGED <<left, coreVars, resetVars, endVars, domainVars>>

\* Mutant of IrqLastBatch: the work of the core is not counted as finished.
IrqLastBatchKeepsLoad(c) ==
  LET j == held[c] IN
  /\ at[c] = "status" /\ irq[c] = "valid" /\ j \notin freed
  /\ job[j].submit_count[c] + 1 >= job[j].batches
  /\ job' = [job EXCEPT ![j].submit_count[c] = @ + 1]
  /\ irq' = [irq EXCEPT ![c] = "none"]
  /\ running' = [running EXCEPT ![c] = NoJob]
  /\ Goto(c, "done")
  /\ UNCHANGED <<held, left, todo_list, task_num, engine, resetVars, endVars, domainVars>>

IrqLastBatch(c) ==
  LET j == held[c] IN
  /\ at[c] = "status" /\ irq[c] = "valid" /\ j \notin freed
  /\ job[j].submit_count[c] + 1 >= job[j].batches
  /\ job' = [job EXCEPT ![j].submit_count[c] = @ + 1]
  /\ irq' = [irq EXCEPT ![c] = "none"]
  /\ running' = [running EXCEPT ![c] = NoJob]
  /\ task_num' = [task_num EXCEPT ![c] = @ - job[j].batches]
  /\ Goto(c, "done")
  /\ UNCHANGED <<held, left, todo_list, engine, resetVars, endVars, domainVars>>

\* The submitter does not wait for the job any more.
GivenUp(j) ==
  ~job[j].nonblock /\ at[j] \in {"sleep", "reset", "resetting", "free", "out"}

\* Mutant of JobDone: each core gives back a reference to the domain.
JobDonePutsEach(c) ==
  LET j == held[c] IN
  /\ at[c] = "done" /\ j \notin freed
  /\ DomainPut
  /\ job' = [job EXCEPT ![j].interrupt_count = @ - 1,
                        ![j].done = job[j].interrupt_count = 1]
  /\ work' = IF job[j].interrupt_count = 1 /\ job[j].nonblock
             THEN work \cup {j} ELSE work
  /\ Noted(If(job[j].interrupt_count = 1 /\ GivenUp(j), "late"))
  /\ held' = [held EXCEPT ![c] = NoJob]
  /\ Goto(c, "next")
  /\ UNCHANGED <<left, coreVars, hwVars, resetVars, freed>>

\* Mutant of JobDone: the first core to finish completes the job.
JobDoneFirst(c) ==
  LET j == held[c] IN
  /\ at[c] = "done" /\ j \notin freed
  /\ IF ~job[j].done THEN DomainPut ELSE UNCHANGED domainVars
  /\ job' = [job EXCEPT ![j].interrupt_count = @ - 1, ![j].done = TRUE]
  /\ work' = IF ~job[j].done /\ job[j].nonblock THEN work \cup {j} ELSE work
  /\ Noted(If(job[j].interrupt_count = 1 /\ GivenUp(j), "late"))
  /\ held' = [held EXCEPT ![c] = NoJob]
  /\ Goto(c, "next")
  /\ UNCHANGED <<left, coreVars, hwVars, resetVars, freed>>

\* Mutant of JobDone: nobody starts the next job of the core.
JobDoneNoNext(c) ==
  LET j == held[c] IN
  /\ at[c] = "done" /\ j \notin freed
  /\ IF job[j].interrupt_count = 1 THEN DomainPut ELSE UNCHANGED domainVars
  /\ job' = [job EXCEPT ![j].interrupt_count = @ - 1,
                        ![j].done = job[j].interrupt_count = 1]
  /\ work' = IF job[j].interrupt_count = 1 /\ job[j].nonblock
             THEN work \cup {j} ELSE work
  /\ Noted(If(job[j].interrupt_count = 1 /\ GivenUp(j), "late"))
  /\ held' = [held EXCEPT ![c] = NoJob]
  /\ Goto(c, "idle")
  /\ UNCHANGED <<left, coreVars, hwVars, resetVars, freed>>

\* The last core of a job completes it: the domain is given back, the fence is
\* signalled, the waiter woken, and a non-blocking job left to cleanup_work.
\* Whichever core it was goes on with its next job.
JobDone(c) ==
  LET j == held[c]
      last == job[j].interrupt_count = 1
  IN
  /\ at[c] = "done" /\ j \notin freed
  /\ IF last THEN DomainPut ELSE UNCHANGED domainVars
  /\ job' = [job EXCEPT ![j].interrupt_count = @ - 1, ![j].done = last]
  /\ work' = IF last /\ job[j].nonblock THEN work \cup {j} ELSE work
  /\ Noted(If(last /\ GivenUp(j), "late"))
  /\ held' = [held EXCEPT ![c] = NoJob]
  /\ Goto(c, "next")
  /\ UNCHANGED <<left, coreVars, hwVars, resetVars, freed>>

-----------------------------------------------------------------------------
(* rknpu_job_wait.                                                          *)

\* Mutant of WaitEnds: a job that has not been started stays in the queues.
WaitEndsQueued(j, ret) ==
  /\ job' = [job EXCEPT ![j].ret = IF job[j].committed THEN ret ELSE "inval"]
  /\ Goto(j, IF job'[j].ret = "ok" THEN "free" ELSE "abort")
  /\ UNCHANGED todo_list

\* list_del of the entry of j, where there is one.
Unlinked(s, j) ==
  IF j \in ToSet(s) THEN RemoveAt(s, CHOOSE i \in DOMAIN s : s[i] = j) ELSE s

\* A job that has not been started leaves the queues of as many cores as it
\* uses, counted from the first core, whichever cores it uses.
WaitEnds(j, ret) ==
  /\ job' = [job EXCEPT ![j].ret = IF job[j].committed THEN ret ELSE "inval"]
  /\ Goto(j, IF job'[j].ret = "ok" THEN "free" ELSE "abort")
  /\ todo_list' = [c \in Cores |->
       IF ~job[j].committed /\ c < Cardinality(job[j].cores)
       THEN Unlinked(todo_list[c], j) ELSE todo_list[c]]

\* A job gives up before it was started: "dropped" from a queue, or "missed" by
\* the loop over the queues.
Unstarted(j) ==
  If(todo_list' # todo_list, "dropped")
    \cup If(~job[j].committed /\ \E c \in Cores : /\ c >= Cardinality(job[j].cores)
                                                 /\ j \in ToSet(todo_list[c]), "missed")

\* Woken, by the end of the job or by a soft reset.
WaitWoken(j) ==
  /\ at[j] = "wait"
  /\ job[j].done \/ soft_reseting
  /\ WaitEnds(j, IF job[j].done THEN "ok" ELSE "inval")
  /\ Noted(Unstarted(j))
  /\ UNCHANGED <<held, left, running, task_num, hwVars, resetVars, work, freed, domainVars>>

\* Not woken in time; a job that was not started is waited for three times.
WaitTimesOut(j) ==
  /\ at[j] = "wait" /\ ~job[j].done /\ ~soft_reseting
  /\ May("timeout") \/ job[j].ret = "inval"
  /\ WaitEnds(j, "timedout")
  /\ Noted({"timeout"} \cup Unstarted(j))
  /\ UNCHANGED <<held, left, running, task_num, hwVars, resetVars, work, freed, domainVars>>

-----------------------------------------------------------------------------
(* rknpu_job_abort.                                                         *)

AbortPut(j) ==
  /\ at[j] = "abort"
  /\ DomainPut
  /\ Noted(If(job[j].done, "late"))
  /\ Goto(j, "sleep")
  /\ UNCHANGED <<job, held, left, coreVars, hwVars, resetVars, work, freed>>

\* 100 ms later the job is taken off its cores, except where its interrupt has
\* begun.
AbortClear(j) ==
  LET mine == {c \in job[j].cores : running[c] = j /\ c \notin job[j].irq_entry} IN
  /\ at[j] = "sleep"
  /\ running' = [c \in Cores |-> IF c \in mine THEN NoJob ELSE running[c]]
  /\ task_num' = [c \in Cores |->
       task_num[c] - (IF c \in mine THEN job[j].batches ELSE 0)]
  /\ Goto(j, IF job[j].ret = "timedout" THEN "reset" ELSE "free")
  /\ Noted(If(\E c \in Cores : running'[c] = j \/ held[c] = j, "kept"))
  /\ UNCHANGED <<job, held, left, todo_list, hwVars, resetVars, work, freed, domainVars>>

\* rknpu_job_cleanup: the end of a blocking job and of every aborted one.
Free(j) ==
  /\ at[j] = "free"
  /\ freed' = freed \cup {j}
  /\ Goto(j, "out")
  /\ UNCHANGED <<job, held, left, coreVars, hwVars, resetVars, work, mishaps, domainVars>>

\* cleanup_work.
CleanupWork(j) ==
  /\ j \in work
  /\ work' = work \ {j}
  /\ freed' = freed \cup {j}
  /\ Noted(If(at[j] \in {"next", "commit"}, "early"))
  /\ UNCHANGED <<job, at, held, left, coreVars, hwVars, resetVars, domainVars>>

-----------------------------------------------------------------------------
(* rknpu_soft_reset, called by AbortClear and by CleanOverdue.              *)

AfterReset(j) == Goto(j, IF held[j] = NoJob THEN "free" ELSE "flush")

\* Somebody else is resetting.
ResetSkip(j) ==
  /\ at[j] = "reset" /\ reset_lock # NoJob
  /\ AfterReset(j)
  /\ UNCHANGED <<job, held, left, coreVars, hwVars, resetVars, endVars, domainVars>>

ResetBegin(j) ==
  /\ at[j] = "reset" /\ reset_lock = NoJob
  /\ reset_lock' = j
  /\ soft_reseting' = TRUE
  /\ Goto(j, "resetting")
  /\ UNCHANGED <<job, held, left, coreVars, hwVars, endVars, domainVars>>

\* The waiters have been woken; the reset lines stop the hardware and the
\* device is attached to its domain again.  When a line cannot be driven
\* soft_reseting stays set.
ResetEnd(j) ==
  /\ at[j] = "resetting"
  /\ reset_lock' = NoJob
  /\ engine' = [c \in Cores |-> NoJob]
  /\ irq' = [c \in Cores |-> "none"]
  /\ \/ soft_reseting' = FALSE /\ UNCHANGED mishaps
     \/ Mishap("reset") /\ UNCHANGED soft_reseting
  /\ AfterReset(j)
  /\ UNCHANGED <<job, held, left, coreVars, work, freed, domainVars>>

-----------------------------------------------------------------------------
Submitter(j) ==
  \/ CleanSkip(j) \/ CleanFlush(j)
  \/ ScheduleDomain(j) \/ ScheduleFails(j) \/ Enqueue(j)
  \/ NextNothing(j) \/ NextTake(j) \/ Commit(j)
  \/ WaitWoken(j) \/ AbortPut(j) \/ AbortClear(j) \/ Free(j)
  \/ ResetSkip(j) \/ ResetBegin(j) \/ ResetEnd(j)

Handler(c) ==
  \/ IrqEnter(c) \/ IrqInvalid(c) \/ IrqNextBatch(c) \/ IrqLastBatch(c) \/ JobDone(c)
  \/ NextNothing(c) \/ NextTake(c) \/ Commit(c)

Next ==
  \/ \E j \in Jobs : Submit(j) \/ Submitter(j) \/ CleanOverdue(j) \/ WaitTimesOut(j)
                     \/ CleanupWork(j)
  \/ \E c \in Cores : Handler(c) \/ EngineFinishes(c)

Spec == Init /\ [][Next]_vars

-----------------------------------------------------------------------------
(* Properties.                                                              *)

\* None of these mishaps has happened.
Clean(S) == mishaps \cap S = {}

\* The types of the variables: in particular no core is counted twice when a job
\* is started or completed, also when interrupts come late.
TypeOK ==
  /\ at \in [Procs -> {"idle", "clean", "flush", "queue", "next", "commit", "wait",
                       "status", "done", "abort", "sleep", "reset", "resetting",
                       "free", "out"}]
  /\ held \in [Procs -> Jobs \cup {NoJob}]
  /\ running \in [Cores -> Jobs \cup {NoJob}]
  /\ engine \in [Cores -> Jobs \cup {NoJob}]
  /\ work \subseteq Jobs /\ freed \subseteq Jobs
  /\ \A j \in Jobs : /\ job[j].run_count \in 0 .. Cardinality(Cores)
                     /\ job[j].interrupt_count \in 0 .. Cardinality(Cores)

\* Who has a reference to the domain.
Holders ==
  {j \in Jobs \ freed :
     /\ ~job[j].done
     /\ \/ at[j] \in {"queue", "next", "commit", "wait", "abort"}
        \/ at[j] = "out" /\ job[j].nonblock}

\* The domain is referred to once by each job that was queued and has neither
\* completed nor been aborted, whichever of its cores finishes last, unless an
\* interrupt completes a job that is being aborted (both give the reference
\* back), a job never got its domain (rknpu_job.c 568 gives it back all the same)
\* or an overdue job was cleared away (722-738 never give it back).
RefcountExact ==
  Clean({"late", "switch", "overdue"}) => iommu_domain_refcount = Cardinality(Holders)

\* While the hardware executes a job nobody has given up, the device is attached
\* to the domain of the job: no other job has switched it (rknpu_iommu.c 514-559).
RunsInItsDomain ==
  Clean({"late", "overlap", "switch", "overdue"}) =>
    \A c \in Cores : engine[c] # NoJob /\ ~GivenUp(engine[c])
                       => attached = job[engine[c]].domain

\* What a core has before it: its running job and its queue.
Line(c) == IF running[c] = NoJob THEN todo_list[c] ELSE <<running[c]>> \o todo_list[c]

Before(c, j, k) ==
  \E m, n \in DOMAIN Line(c) : m < n /\ Line(c)[m] = j /\ Line(c)[n] = k

\* Jobs that need several cores never wait for each other in a circle, however
\* many cores the circle goes through: of any jobs there is one that none of the
\* others is before, on any core (rknpu_job.c 544-552).
ConsistentOrder ==
  \A S \in (SUBSET Jobs) \ {{}} :
    \E j \in S : \A k \in S : \A c \in Cores : ~Before(c, k, j)

\* A freed job is in no queue, on no core and in no interrupt handler, also when
\* it was aborted or its waiter woken by a reset, unless the loop over the queues
\* missed it (rknpu_job.c 226-235), its interrupt had begun (580), or it was
\* cleared away as overdue (720-738, one core only).
FreedJobsGone ==
  Clean({"missed", "kept", "overdue"}) =>
    \A j \in freed : \A c \in Cores : j \notin ToSet(Line(c)) /\ held[c] # j

\* A job is done only when each of its cores has executed all its submissions:
\* the interrupt of one core, or of another job, does not complete it.
DoneMeansExecuted ==
  Clean({"overlap", "overdue"}) =>
    \A j \in Jobs : job[j].done =>
      \A c \in job[j].cores : job[j].submit_count[c] = job[j].batches /\ engine[c] # j

\* The work of the jobs of a queue.
Load(batches, queue) ==
  LET load[n \in 0 .. Len(queue)] ==
        IF n = 0 THEN 0 ELSE load[n - 1] + batches[queue[n]]
  IN  load[Len(queue)]

\* The load by which a core is chosen for a job is the work it has before it,
\* unless a job was dropped from the queue, which subtracts nothing.
LoadExact ==
  Clean({"dropped", "overdue"}) =>
    \A c \in Cores : task_num[c] = Load([j \in Jobs |-> job[j].batches], Line(c))

\* The call waits until nobody uses the domain the device is attached to.
NeedsDomain(j) ==
  /\ Scheduling(j) /\ job[j].domain # iommu_domain_id
  /\ iommu_domain_refcount # 0 \/ attached # iommu_domain_id

\* While nothing goes wrong no job is left behind: when the hardware is idle and
\* every call waits or has returned, every submitted job is done, although jobs
\* wait for cores, for each other and for another domain to be released.
NoJobLeftBehind ==
  /\ mishaps = {}
  /\ \A j \in Jobs : at[j] \in {"idle", "wait", "out"} \/ NeedsDomain(j)
  /\ \A c \in Cores : engine[c] = NoJob /\ irq[c] = "none" /\ at[c] = "idle"
  => \A j \in Jobs : at[j] = "idle" \/ job[j].done

-----------------------------------------------------------------------------
(* The inductive invariant behind these properties.                         *)

Places == {"idle", "clean", "flush", "queue", "next", "commit", "wait", "abort",
           "sleep", "reset", "resetting", "free", "out"}
IrqPlaces == {"idle", "status", "done", "next", "commit"}

JobRecord ==
  [cores : SUBSET Cores, domain : Domains, nonblock : BOOLEAN, batches : Nat \ {0},
   run_count : 0 .. Cardinality(Cores), interrupt_count : 0 .. Cardinality(Cores),
   submit_count : [Cores -> Nat], committed : BOOLEAN, done : BOOLEAN,
   ret : {"ok", "inval", "timedout"}, irq_entry : SUBSET Cores]

TypeInv ==
  /\ job \in [Jobs -> JobRecord]
  /\ left \in [Jobs -> SUBSET Cores]
  /\ todo_list \in [Cores -> Seq(Jobs)]
  /\ task_num \in [Cores -> Int]
  /\ irq \in [Cores -> {"none", "valid", "invalid"}]
  /\ iommu_domain_id \in Domains /\ attached \in Domains \cup {NoDomain}
  /\ iommu_domain_refcount \in Int

\* Where a process can be, and when it works on another job than its own.
PlaceInv ==
  /\ \A c \in Cores : /\ at[c] \in IrqPlaces
                      /\ at[c] \in {"status", "done", "commit"} <=> held[c] # NoJob
  /\ \A j \in Jobs :
       /\ at[j] \in Places
       /\ at[j] \in {"flush", "commit"} => held[j] # NoJob
       /\ at[j] \notin {"flush", "commit", "reset", "resetting"} => held[j] = NoJob
       /\ \/ at[j] \in {"flush", "next", "commit"}
          \/ at[j] \in {"reset", "resetting"} /\ held[j] # NoJob
          => left[j] # {}
       /\ at[j] = "queue" => job[j].cores # {}

\* The job has not been put into a queue yet; the overdue job of somebody else
\* is being cleared away.
Unqueued(j) ==
  \/ at[j] \in {"idle", "clean", "flush", "queue"}
  \/ at[j] \in {"reset", "resetting"} /\ held[j] # NoJob

\* The queues a job is still to be taken from or has just been taken from, and
\* the cores that may still have an interrupt of it.
Taking(p, c, j) == at[p] = "commit" /\ held[p] = j /\ CoreOf(p) = c
Pending(j) ==
  {c \in Cores : j \in ToSet(todo_list[c]) \/ \E p \in Procs : Taking(p, c, j)}
Remaining(j) ==
  {c \in Cores : j \in ToSet(todo_list[c]) \/ running[c] = j \/ held[c] = j}

UnqueuedInv(j) ==
  Unqueued(j) =>
    /\ Pending(j) = {} /\ Remaining(j) = {}
    /\ \A c \in Cores : engine[c] # j
    /\ \A p \in Procs : held[p] # j
    /\ j \notin work \cup freed
    /\ ~job[j].committed /\ ~job[j].done /\ job[j].irq_entry = {}
    /\ job[j].submit_count = [c \in Cores |-> 0]
    /\ job[j].run_count = Cardinality(job[j].cores)
    /\ job[j].interrupt_count = Cardinality(job[j].cores)

\* A job goes through each of its cores once: queue, core, interrupt.
OnceInv(j) ==
  /\ Pending(j) \cup Remaining(j) \subseteq job[j].cores
  /\ \A c \in Cores :
       /\ j \in ToSet(todo_list[c]) =>
            held[c] # j /\ \A p \in Procs : ~Taking(p, c, j)
       /\ \A p, q \in Procs : Taking(p, c, j) /\ Taking(q, c, j) => p = q
       /\ engine[c] = j => c \in job[j].cores
       /\ held[c] = j /\ at[c] = "done" => running[c] # j
       /\ held[c] = j /\ at[c] = "status" => c \in job[j].irq_entry
       /\ \/ j \in ToSet(todo_list[c]) \/ running[c] = j
          \/ held[c] = j /\ at[c] = "status"
          => job[j].submit_count[c] < job[j].batches

CountInv(j) ==
  /\ job[j].run_count >= Cardinality(Pending(j))
  /\ job[j].interrupt_count >= Cardinality(Remaining(j))
  /\ job[j].committed => job[j].run_count = 0
  /\ job[j].done => job[j].interrupt_count = 0

\* The cores that have not told the end of the job.
Due(j) ==
  {c \in job[j].cores : \/ c \in Remaining(j) \/ engine[c] = j
                        \/ job[j].submit_count[c] # job[j].batches}

\* What a core executes is what it has been given.
EngineInv ==
  Clean({"overlap", "overdue"}) =>
    /\ \A c \in Cores :
         /\ engine[c] # NoJob => irq[c] = "none"
         /\ at[c] = "status" => running[c] = held[c]
         /\ running[c] # NoJob /\ ~job[running[c]].committed =>
              engine[c] = NoJob /\ irq[c] = "none" /\ at[c] # "status"
         /\ at[c] = "done" => /\ engine[c] # held[c]
                              /\ job[held[c]].submit_count[c] = job[held[c]].batches
    /\ \A j \in Jobs : job[j].interrupt_count >= Cardinality(Due(j))

\* Who is aborted or freed, and why.
FateInv(j) ==
  /\ at[j] = "wait" => ~job[j].nonblock
  /\ at[j] = "out" /\ ~job[j].nonblock => j \in freed
  /\ Clean({"switch"}) /\ job[j].nonblock =>
       /\ at[j] \notin {"abort", "sleep", "free"}
       /\ at[j] \in {"reset", "resetting"} => held[j] # NoJob
  /\ Clean({"switch", "overdue"}) /\ job[j].nonblock /\ j \in freed => job[j].done
  /\ Clean({"overdue"}) =>
       /\ at[j] # "flush"
       /\ at[j] \in {"reset", "resetting"} => held[j] = NoJob
       /\ j \in work => job[j].nonblock /\ job[j].done
       /\ j \in freed => (job[j].nonblock /\ job[j].done) \/ at[j] = "out"

\* The references to the domain keep the device in it.
DomainInv ==
  Clean({"late", "switch", "overdue"}) =>
    /\ IsFiniteSet(Holders) /\ iommu_domain_refcount = Cardinality(Holders)
    /\ attached = iommu_domain_id
    /\ \A j \in Holders : job[j].domain = iommu_domain_id

\* A job that is given up leaves its queues first and then its cores.
LeavingInv(j) ==
  Clean({"missed", "kept", "overdue"}) =>
    /\ at[j] \in {"abort", "sleep"} => \A c \in Cores : j \notin ToSet(todo_list[c])
    /\ \/ at[j] = "free" \/ j \in freed
       \/ at[j] \in {"reset", "resetting"} /\ held[j] = NoJob
       => Remaining(j) = {}

IInv ==
  /\ TypeOK /\ TypeInv /\ PlaceInv
  /\ \A j \in Jobs : UnqueuedInv(j) /\ OnceInv(j) /\ CountInv(j) /\ FateInv(j) /\ LeavingInv(j)
  /\ ConsistentOrder /\ EngineInv /\ DomainInv

\* Somebody is on the way to rknpu_job_next for the core.
Coming(p, c) ==
  \/ at[p] = "next" /\ c \in left[p]
  \/ at[p] = "commit" /\ c \in left[p] \ {CoreOf(p)}

\* A core with a queue and nothing to run is seen to, and what was started on it
\* runs or has its interrupt.
AwakeInv(c) ==
  /\ todo_list[c] # <<>> /\ running[c] = NoJob =>
       at[c] \in {"done", "next"} \/ \E p \in Jobs : Coming(p, c)
  /\ running[c] # NoJob /\ job[running[c]].committed =>
       engine[c] = running[c] \/ irq[c] = "valid"
  /\ at[c] \in {"status", "done"} => job[held[c]].committed

\* The counts of a job that was queued are exact, nobody gives it up, and it
\* keeps the cores it is on while it is being started.
SmoothInv(j) ==
  /\ at[j] \notin {"flush", "abort", "sleep", "reset", "resetting"}
  /\ at[j] = "free" \/ (at[j] = "out" /\ ~job[j].nonblock) => job[j].done
  /\ job[j].done => job[j].committed
  /\ ~Unqueued(j) =>
       /\ job[j].run_count = Cardinality(Pending(j))
       /\ job[j].interrupt_count = Cardinality(Remaining(j))
       /\ job[j].committed <=> job[j].run_count = 0
       /\ job[j].done <=> job[j].interrupt_count = 0
  /\ \A p \in Procs, c \in Cores : Taking(p, c, j) => running[c] = j

\* While nothing goes wrong.
WakeInv ==
  mishaps = {} =>
    /\ ~soft_reseting
    /\ \A j \in Jobs : SmoothInv(j)
    /\ \A c \in Cores : AwakeInv(c)

\* The loads are exact, and a handler works on the job that runs on its core.
LoadInv ==
  LoadExact /\ (Clean({"overdue"}) => \A c \in Cores : at[c] = "status" => running[c] = held[c])
=============================================================================
