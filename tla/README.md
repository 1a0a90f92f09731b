# A TLA+ model of the orangepi_cv station and its NPU driver

orangepi_cv is a tracking station: a program on an OrangePi 5 Max reads a
visible-light and a thermal camera, runs YOLO on the three NPU cores, points two
servos at the detected drone, and serves video, status and remote control over
TCP to a PyQt client. The repository also carries the kernel driver of the NPU
(`drivers/rknpu`). This directory holds TLA+ modules for the parts of both that
are hard to test, TLC configurations that check them on small instances, and
TLAPS proofs that hold for every instance.

Line numbers below and in the modules are those of the repository; most C++
sources are in GBK.

## 1. Inventory

### The station program

| component | state | operations | who touches it |
|---|---|---|---|
| `ThreadSafeQueue` (`threadsafequeue.cpp`) | `raw_queue` (deque, at most 2), `inference_queue` (map by number, at most 10), `sequence_number_`, `mutex_` | `push_raw`, `get_latest_raw`, `push_inference`, `get_latest_inference` | two libuvc callback threads push, three inference threads take and publish, `control_servo`, video and control sessions read |
| cameras (`camera.cpp`, `IRSensor.cpp`) | `current_frame`, libuvc handles | `frame_callback`, `get_frame`, start/stop | callback threads; `main` samples `current_frame` |
| inference pool (`utils.cpp` 54-90) | the frame in work | loop: take, infer, publish, raise `new_image_available` | queue, RKNN model |
| `control_servo` (`utils.cpp` 240-374) | tracker, Kalman filter, smoothed angles | loop: wait for the flag, lower it, read, decide, move | queue, flag, `servo_mtx`, `allow_auto_control` |
| `main` (`main.cpp`) | `is_sleeping`, thread objects, dark/light counters | polling loop: sleep, wake up, power off, switch camera; shutdown | flags set by control sessions |
| tracker (`bytetrack.h`, `kalmanfilter.cpp`) | `lost_count_`, `is_active_`, filter state | `initialize`, `update`, `predict`, `mark_loss` | `control_servo` only |
| TCP server (`server.h`) | `m_running`, `m_server_fd`, worker threads, one detached thread per session | `run`, `stop`, `handle_client`, `handle_video`, `handle_control`, `servo_control` | queue, flags, servo port |
| servo driver (`servo_driver.cpp`) | the serial port | read position, synchronous write | `push_raw`, `control_servo`, `servo_control`, all under `servo_mtx` |
| model wrapper, post-processing, RGA (`rknn_model.cpp`, `common.cpp`, `rga_utils.cpp`) | RKNN contexts | `run_inference`, `post_process`, NMS | inference pool |
| operator client (`python/ui.py`) | Qt threads for status, video, servos | connect, poll, stop | TCP server |

### The NPU driver

| component | state | operations |
|---|---|---|
| power (`rknpu_drv.c` 327-390, 904-1069) | `power_refcount`, `cmdline_power_refcount`, `power_put_delay`, `power_lock`, `power_off_work` | get, put, put_delay, the delayed work, the debugfs nodes |
| jobs (`rknpu_job.c`, `rknpu_reset.c`) | per-core `todo_list` and running `job`, `soft_reseting` | submit, schedule, next, interrupt, done, wait, abort, time-out clean, soft reset |
| SRAM allocator (`rknpu_mm.c`) | bitmap, `free_chunks` | create, alloc, free |
| IOMMU domains (`rknpu_iommu.c` 400-590) | `iommu_domain_id`, `iommu_domain_refcount` | get_and_switch, put, free_domains |
| memory objects (`rknpu_gem.c`, `rknpu_mem.c`) | kernel objects | create, map, sync, destroy |
| life of the device (`rknpu_drv.c` 1259-1591) | group, register map, DRM node, work queue, timer, nodes | probe, remove |
| devfreq (`rknpu_devfreq.c`) | clock, two supplies, read margin, `ondemand_freq`, the lock | target, suspend, resume, init, remove, the node `freq` |
| fences, debugger output | kernel glue | |

### How they interact, and what is hard

* The **frame pipeline** is the program's spine. Two producers, three workers and
  several readers share one mutex; `push_raw` additionally waits for `servo_mtx`
  while it holds the queue's mutex; results come back out of order; and one atomic
  flag, raised outside every lock, is all that wakes `control_servo`. Correct
  means: queues bounded and ordered, each frame processed once, no result lost to
  `control_servo`, readers never go back in time, nobody waits for ever.
* **main** polls flags that sessions set at any moment and starts and joins the
  pool. Correct means: no role ever runs twice, no thread escapes, the last command
  wins, the camera does not flicker between modes.
* **Remote and autonomous control** share the servos through one boolean and one
  mutex, and a decision taken before the lock is used after it.
* The **server** mixes joined, detached and blocking threads around a stack object.
* The **NPU's power** is a reference count whose last reference sits in a timer,
  is changed by debugfs without the lock, and whose release can fail and be retried.
* **Jobs** race their interrupt, their time-out, the abort and the soft reset. A job on
  several cores must start on all of them together, and jobs of different IOMMU domains
  share one device that is attached to one domain at a time. Correct means: the
  references to the domain are exact, the hardware never runs in another job's domain, a
  freed job is in no queue, and no job is left behind.
* **Memory objects** are built from up to seven resources, with a way back from each
  failing call, and are freed in whatever order their holders let go. Correct means:
  what was taken is given back, once, in the domain it was mapped in.
* The **device** itself comes and goes beside its own debugfs nodes and its delayed work.

Every hazard is listed with its line in `PROJECT.json`, with the properties that
cover it or the reason why none does.

## 2. What is modelled

### FramePipeline and LatestResult

`FramePipeline` has one action per critical section or atomic access of each
thread. Its variables carry the source's names.

| model | code |
|---|---|
| `cam[c]`: idle, enter, locked, reading, append | where a camera callback is in `frame_callback` / `push_raw`: mode tested, `mutex_` held, `servo_mtx` held as well, appending |
| `mutex_` | held across steps only by `push_raw`; every other critical section of the queue is one action that needs it free |
| `raw_queue`, `inference_queue`, `sequence_number_` | the queue's fields; a frame is its number |
| `worker[w]`, `frame[w]` | the program counter and the taken frame of an inference thread |
| `servo`, `servo_seen` | the program counter of `control_servo` and the number it read last |
| `RemoteLock/Unlock`, `ViewerGet` | the sessions of the server, as far as they use the port and the queue |
| `SwitchCamera`, `StopInference`, `RestartThreads` | what `main` does to the pipeline; `RestartThreads` waits for every thread, which `StationMain` justifies (`RestartAfterAllEnded`) |

Abstractions: images, detections and angles go with the number; the tracker's
decision to move is a choice (`ServoDecide`); a reader with an empty queue gets an
empty image, which ends a video session (it is no step here) and would be undefined
behaviour in `control_servo` (the place `"undefined"`). `run_inference` reports each
failure as 0, so `PushInference` follows in every case.

`LatestResult` is the promise to the readers: a mailbox that keeps the newest
result. `ImplementsMailbox` maps the newest key of the result map and the numbers the
readers saw to it; a late result is a stutter.

### StationMain

`StationMain` is the loop of `main` and the shutdown, at the granularity of the
atomic flags and of each start and join. A role is a thread function with its
argument; `joinable` is the set of `std::thread` objects that can be joined and
`live` counts the threads that execute a role, so a detached or doubled thread would
show. `ControlCommand` is `handle_control`, `CameraFrame` the visible camera,
`ThreadEnds` a thread that sees `stop_inference`. Joining a joined thread is
`JoinServoThrows`. `streak` is an auxiliary variable that remembers the last samples
of one brightness, so that the counters can be compared with what happened.

### ServoControl

`ServoControl` looks at `control_servo` from the side `FramePipeline` leaves open: the
tracker and the hand-over between autonomous and remote control.

| model | code |
|---|---|
| `TrackMatch`, `TrackFar`, `TrackAcquire`, `TrackMiss`, `TrackNone` | one result, `utils.cpp` 262-354: the branches of the tracking logic with `initialize`, `update`, `mark_loss` and the prediction |
| `Gate`, `ServoLock`, `ServoUnlock` | the test of `allow_auto_control`, the lock on the port, the move (356-373) |
| `RemoteBegin` ... `RemoteEnd` | `servo_control` of `server.h`: control is taken, commands are read and executed under `servo_mtx`, every way out gives control back |
| `StopInference`, `WakeUp`, `ServerStop` | what `main` does; `WakeUp` starts a thread with a new tracker while the globals stay |
| `in_view`, `TargetMoves` | the target; the detector may miss it while it is in view |
| `missed`, `late` | auxiliary: results in a row without the target; moves after control was withdrawn |

Angles, filter and smoothing are abstracted: the tracker's state depends only on
whether a result shows the target and whether it is near the track. `last_pred` is
false while the prediction is NAN.

### NpuPower

`NpuPower` has the steps of `rknpu_power_get`, `rknpu_power_put`,
`rknpu_power_put_delay` and `rknpu_power_off_delay_work`, split where the lock is
taken or released and, in the debugfs handlers, at every atomic operation, as they do
not take the lock. `hw` is off, on or partial (`rknpu_power_on` returns in the middle
without undoing what it enabled). `rknpu_power_off` succeeds, or fails because the
IOMMU is still enabled; the caller then raises the count again and retries.
The unlocked read of the delay is a step of its own. It is run inside `NpuDevice`.

### NpuDevice

`NpuDevice` extends `NpuPower` with the life of the device. `ProbeStep` takes the steps
of `rknpu_probe` in the order of `ProbeSteps`; `ProbeFails` lets each step that may fail
do so, with `Undone` for the labels behind it. `RemoveStep` goes through `RemoveSteps`;
`Waited` is what a step blocks on (`cancel_delayed_work_sync`, `debugfs_remove`, the
power lock). `have` is what has been set up and not given back. `Beside` runs an action
of `NpuPower` in the device: ioctls while it is bound, the nodes of debugfs until remove
has taken them away. `mishaps` remembers what the driver does not see: a `power_off`
whose failure probe or remove ignores, and a work queued again after remove has cancelled
it (`rknpu_drv.c` 369-372 on the queue that 1535 destroys).

### NpuDomain and NpuJob

`NpuDomain` is the IOMMU side: `rknpu_iommu_domain_get_and_switch` and `put`. Its
operators are parts of the actions of `NpuJob` and of `NpuMemory`, which extend it.

`NpuJob` has two kinds of process, the submit ioctl (named by its job) and the interrupt
handler of a core, with steps as large as what `irq_lock` protects.

| model | code |
|---|---|
| `Submit`, `CleanSkip/Overdue/Flush` | `rknpu_submit`, `rknpu_job_timeout_clean` |
| `Assign`, `ScheduleDomain/Fails`, `Enqueue` | `rknpu_job_schedule`: choice of the core, the domain, the queues of all cores |
| `NextNothing`, `NextTake`, `Commit` | `rknpu_job_next` and `rknpu_job_commit`, by submitters and handlers |
| `EngineFinishes` | the hardware of one core |
| `IrqEnter`, `IrqInvalid`, `IrqNextBatch`, `IrqLastBatch`, `JobDone` | `rknpu_irq_handler`, `rknpu_job_done` |
| `WaitWoken`, `WaitTimesOut` | `rknpu_job_wait` |
| `AbortPut`, `AbortClear`, `Free`, `CleanupWork` | `rknpu_job_abort`, `rknpu_job_cleanup`, `cleanup_work` |
| `ResetSkip/Begin/End` | `rknpu_soft_reset`; a failed reset leaves `soft_reseting` set |

`mishaps` is a history variable. It names what the environment did ("timeout", "overdue",
"switch", "status", "reset") and the places where the driver itself slips:

| slip | what the code does |
|---|---|
| `missed` | after a time-out the job is looked for on cores `0 .. use_core_num - 1`, whichever cores it uses (`rknpu_job.c` 227): it stays queued and is freed |
| `kept` | the abort leaves a core alone whose interrupt has begun (580) and `irq_entry` is not reset for the next batch |
| `late` | an interrupt completes a job that is being aborted: the domain is given back twice (486, 568) |
| `switch` | the abort gives a domain back that the schedule never got |
| `dropped`, `overdue` | a job leaves the queues without its share of `task_num` (232, 722-738); an overdue one also without its reference to the domain |
| `overlap` | a core takes the next job while the hardware still runs, or its interrupt still waits for, the one before; or the last commit of a job (`rknpu_job_next` outside `irq_lock`) starts it on a core the abort has cleared in the meantime and that may have been given the next job |
| `early` | a non-blocking job is freed while its submitter still loops over its cores (554) |

Each property says from which slips it is exempt, and holds through everything else. After
a freed job is still referred to, the model does not follow the reference. The second
half of `overlap` needs a job that gives up between its last queue and its commit while
later jobs go on: more jobs than the run lets go wrong. It came out of the proof, where
`EngineInv` is not inductive without it.

### NpuMemory

`NpuMemory` is the life of GEM objects (pages, DMA memory, SRAM or NPU buffer with pages
behind it, imported buffers), the SRAM allocator and the objects of the DMA-heap build.

| model | code |
|---|---|
| `GetPages`, `AllocDma`, `AllocCache`, `Import`, `HeapAlloc` | the calls of each way to allocate, with what the label behind each gives back |
| `Begin` ... `HandleFails`, `ImportBuffer` | `rknpu_gem_object_create`, the handle, `rknpu_gem_prime_import_sg_table`; `AllocFails` and its kind let each call fail |
| `Search`, `SramAlloc`, `SramFull`, `FreeChunks` | `rknpu_mm_alloc`, `rknpu_mm_free` |
| `Refer`, `Unrefer`, `DestroyIoctl` ... `FreeObject`, `DestroyEnds` | mappings, exports, handles, and `rknpu_gem_object_destroy` nested in the destroy ioctl |
| `DeviceView`, `MmapView`, `ExportView` | which byte is where, for the device, a process and an importer |
| `Heap...` | `rknpu_mem_create_ioctl`, `rknpu_mem_destroy_ioctl`, `rknpu_release` |

`held[o][r]` counts a resource, below zero if it is given back once too often; `slip[o]`
names the error paths that do not balance: the `fallback` of 216-232 allocates as DMA
memory what is later freed as pages; a cache of several pieces mapped `partly` (450); an
object `kept` after three failed switches (837-843); an `import` mapped in whichever domain is
attached and unmapped in the default one (1437); a `descriptor` installed before the last
failing step of the heap's create (`rknpu_mem.c` 87) and a `vfree` of an uninitialised
pointer (`garbage`, 184). `rknpu_gem_object_destroy` gives SRAM chunks back before they are
unmapped (856-862): `FreeSram` is a step of its own, so that another object may get them in
between.

`views[o]` remembers what has been mapped for the device, for a process and for an importer,
until it is unmapped. The three are worked out in three places of the code. An object with a
cache has pages for its whole size besides (512: `cache_size + size` addresses): the device has
all of them behind the cache, a process as many as fit into the object's size, and an importer
the pages alone. `SameBytes` says so exactly: page by page the same for process and device, an
importer's page `x` is the device's page `cache_size + x`, and nobody is shown a chunk that is
not the object's any more, but for the device between `FreeSram` and `FreeObject`. That a
dma-buf leaves the cache out is thus stated; whether that is what its users expect, no document
of the repository says.

### NpuSync and NpuDevfreq

`NpuSync` is the arithmetic of `rknpu_gem_sync_ioctl`: an object is a row of cache lines,
`CacheSync` and `PageSync` move offset and length through its parts as the code does, and
`line[b]` says who wrote line `b` last. `NpuDevfreq` is a change of rate in the steps of
`npu_opp_helper`, each of which may fail, with its labels; suspend and resume; the locks of
kernels with (`old`) and without (`new`) the system monitor. Voltages are the rates they
are enough for.

What each of them promises apart from the flaw found in it is stated too.
`SyncReachesWhatIsAsked`: a sync that begins at the start of an object or in its pages reaches
exactly the lines asked for. `SuppliesSuffice`: both supplies suffice for the running clock,
unless one of three slips has occurred (auxiliary variable `slips`):

| slip | when |
|---|---|
| `half` | scaling down, `mem` fails after `vdd` was lowered, and `restore_freq` sets the old rate (the finding) |
| `low` | the rate is changed while a clock set by the firmware is below the rate last noted (powered down, or not raised by the last resume) and fails: `restore_voltage` lowers the supplies to what that clock needs, and resume sets the noted rate |
| `stale` | suspend could not lower the clock, a lower rate was noted meanwhile without setting it, and resume cannot set it either |

### Sessions

`Sessions` is `server.h` seen from its descriptors. `fd` says who owns each number;
`listener` and `main` are the places of `listener_loop` and of `stop`, split where the other
can come in between: `shutdown`, the two `close` calls and the joins. `Dispatch`, `Reject`
and the `...Ends` actions are the ways out of `handle_client` and of each session, with the
close they make or, in `ControlThrows`, do not. The cameras, the sensor and the serial port have
their descriptors before the server starts and keep them. `Killed` is SIGPIPE: `send` goes to a client that has left,
and nobody handles the signal.

## 3. The runs

| run | checks | instance and why it is enough |
|---|---|---|
| `pipeline` | types, order and bound of the raw queue, no lost notification, no read of an empty result, refinement of the mailbox | 2 cameras, 2 workers, 1 viewer, 1 remote session, queues of 2, 4 frames: both queues overflow, results overtake each other, and the station sleeps and wakes in every state (1.5 million states) |
| `pipeline_live` | every result reaches `control_servo`; every thread ends when stopped | queues of 1, 2 frames, no viewer: the nested locks, a remote session on the port and an overtaken result all occur |
| `station` | thread accounting, sleep, wake-up, power-off, camera switching | 2 workers and 3 samples (the code has 3 and 5): a row can be broken at every length |
| `station_poweroff` | violated: a poweroff of a sleeping station does not get to `server.stop()` | 1 sample |
| `servo_control` | the tracker's counter, control coming back, at most one late move, a lost target reported | 2 sessions (the flag has no count, so 2 show every overlap of one pair), `max_lost_` 3 (15 in the code): matches, misses and new tracks alternate in every order up to the deactivation |
| `track_loss` | violated: a track ends only after a long row of losses | `max_lost_` 2 |
| `npu_device` | exact reference count, power as counted, nothing left after a failed probe or a remove, power off in the end | 2 ioctls, 1 debugfs reader, the writer, the work, 2 writes of `on` without `off`: the last reference can be given back by each of them, in every phase (147,360 states) |
| `npu_job` | the accounts of jobs, cores and domain; no job left behind | 2 cores, 3 jobs of 4 kinds (both cores, core 1, the driver's choice, blocking and not, two submissions), 2 domains: jobs wait for a core, for each other and for a domain. Mishaps with at most 2 jobs submitted (`MishapJobs`), which is what each slip needs (895,320 states) |
| `npu_memory` | nothing left behind, domains, SRAM, views | 3 objects of 4 kinds, 2 domains, 4 chunks and objects of at most 2 pages: gaps, a full SRAM and a request for one chunk less than is free occur (502,704 states) |
| `npu_sync` | violated: a sync covers what was asked for | 2 pieces of 2 lines, 2 entries of pages |
| `npu_devfreq` | violated: the supplies suffice for the clock after every step | 3 rates |
| `sessions` | descriptors kept and returned; `stop` returns | 3 clients that come again, 4 numbers: they run out, are reused at once and leak (228,120 states) |

Bounds of the models: `MaxFrames` (numbers handed out), `MaxOn` (writes of `on`
without an `off`), `MishapJobs` (with more jobs submitted nothing goes wrong any more).
Each job is submitted and each object created once. Nothing else is cut off; `MaxRaw`, `MaxInference`, `num_threads`
and `SWITCH_FRAMES` are parameters of the code.

Each property of a passing run has a mutant, an operator beside the definition it
changes (`...KeepsLock`, `...NoReset`, `Detach...`): with it the property fails.

### Findings

* `PowerOffStopsStation` (`main.cpp` 193, 261). `poweroff` sent to a sleeping
  station joins `servo_thread` again, without the `joinable()` test `join_threads`
  makes; the exception ends the program before the cameras, the sensor and the server
  are stopped.
* `LostTooLong` (`bytetrack.h` 48-69). A match does not reset `lost_count_`, so a
  target missed in every tenth result is given up as "lost for too long" after 16
  misses in all. The next result with the target begins a new track.

* `SyncCovers` (`rknpu_gem.c` 1629, documented at `rknpu_ioctl.h` 196). `rknpu_cache_sync`
  works from the first byte of the SRAM or NBUF part and uses the offset for the length
  only: a sync that begins inside that part misses lines of its region and, from the
  device, drops writes of the program to others.
* `VoltageBeforeFrequency` (`rknpu_devfreq.c` 501, 560). Scaling down, `vdd` is lowered and
  then `mem`; if the second call fails `restore_freq` sets the old rate while `vdd` is still
  at the new voltage.

The slips listed with `NpuJob` and `NpuMemory`, the `late` work of `NpuDevice` and the number
that `handle_control` leaks in `Sessions` contradict no sentence of the repository; they are
exempted, by name, in the properties and are the first things to look at there. The hazards
they are about are therefore listed in `PROJECT.json` without a property: the properties
cover what goes on around them. `AtMostOneLateMove` counts the moves while control is
withdrawn; a move after the first of two overlapping remote sessions has given it back is none.

### Fairness

* `FramePipeline`: each thread runs, so steps without a lock are weakly fair. Steps
  that take a mutex are strongly fair: others take and release it again and again, and
  the futex under `std::mutex` does not pass a waiting thread over for ever. New frames,
  viewers, remote commands, `main` and the tracker's choice are not fair; a remote
  session that has the port gives it back (it does no network I/O while holding it).
* `ServoControl`: `control_servo` runs and results keep coming (`ResultReachesServo` of
  `FramePipeline`; a new frame there is not fair, here the cameras are taken to run),
  the port is strongly fair and is given back. Clients, `main` and the target are not
  fair; `LossReported` speaks of a station that does not sleep for ever.
* `StationMain`: `main` polls, and a thread that is told to stop ends, which is
  `ThreadsStop` of `FramePipeline`.
* `NpuDevice`: a call that has begun goes on, mutexes as above, the timer expires, and
  the IOMMU does not stay enabled for ever (strong fairness of `PowerOff` over all
  callers): without that the driver retries for ever and so would the model. That probe or
  remove go on, or that anybody calls, is not assumed.
* `Sessions`: the listener goes on (it polls every 10 ms), `stop` goes on once it has begun,
  and a `handle_client` thread sees the end of its connection. That a client speaks or
  leaves is not assumed: `StopReturns` has it as its premise, since one silent client holds
  `stop` for ever.

## 4. The proofs

Each `...Proofs` module proves theorems about the specification of the module it is named
after (`NpuMemoryProofs` also about `NpuSync`), for every value of the constants that satisfies
that module's named assumption. `NpuSync` and `NpuDevfreq` have none; there the theorem says
what it asks of the constants: lengths are numbers, and the rate of a suspended clock is the
lowest operating point.
The assumptions say that sets of threads, calls, objects and cores are finite where they
are counted, that names of different kinds differ, and that capacities are positive, as
they are in the code; none bounds how many there are.

| theorem | states |
|---|---|
| `FramePipelineProofs!TypeCorrect` | `Spec => []TypeOK` |
| `FramePipelineProofs!LockCorrect` | who holds `mutex_` and `servo_mtx`, and which thread has a frame |
| `FramePipelineProofs!OrderCorrect` | `RawQueueOrdered`, `FrameHeldOnce` |
| `FramePipelineProofs!NotificationCorrect`, `ServoCorrect` | `ResultsBounded`, `ServoAlwaysHasResult`, `NoLostResult` |
| `FramePipelineProofs!Refinement` | `Spec => ImplementsMailbox` |
| `StationMainProofs!TypeCorrect`, `ThreadsCorrect`, `SleepCorrect` | `TypeOK`, `ThreadsAccounted`, `AsleepMeansStopped` |
| `StationMainProofs!RestartCorrect`, `SwitchCorrect` | the action properties `RestartAfterAllEnded`, `SwitchNeedsStreak` |
| `ServoControlProofs!TypeCorrect` | `TypeOK` |
| `ServoControlProofs!TrackCorrect` | `PredictionAtHand`, `HeldNotTooLong`, `TrackingIsReported` |
| `ServoControlProofs!HandoverCorrect`, `AutoControlCorrect` | `AutoControlReturns`, `AtMostOneLateMove` |
| `SessionsProofs!TypeCorrect` | `TypeOK` |
| `SessionsProofs!DescriptorsSafe`, `DescriptorsFreed` | `DescriptorsKept`, `DescriptorsReturned` |
| `NpuDeviceProofs!DeviceTypeCorrect` | `DeviceTypeOK` |
| `NpuDeviceProofs!ReferencesMatched` | `RefcountExact` |
| `NpuDeviceProofs!PowerFollowsTheCount` | `PoweredAsCounted` |
| `NpuDeviceProofs!DeviceGoesCleanly` | `NothingOutlivesTheDevice` |
| `NpuMemoryProofs!Invariant`, `TypeCorrect` | `[]IInv`, `TypeOK` |
| `NpuMemoryProofs!NothingIsLeft`, `DomainsCorrect` | `NothingLeftBehind`, `DomainsExact` |
| `NpuMemoryProofs!SramCorrect`, `ViewsAgree` | `SramExact`, `SameBytes` |
| `NpuMemoryProofs!FirstFitFound` | the action property `SramFirstFit` |
| `NpuJobProofs!Invariant`, `TypeCorrect` | `[]IInv`, `TypeOK` |
| `NpuJobProofs!OrderCorrect` | `ConsistentOrder` |
| `NpuJobProofs!ReferencesMatched`, `DomainCorrect` | `RefcountExact`, `RunsInItsDomain` |
| `NpuJobProofs!FreedGone`, `DoneCorrect` | `FreedJobsGone`, `DoneMeansExecuted` |
| `NpuJobProofs!LoadCorrect` | `LoadExact` |
| `NpuJobProofs!AlwaysAwake`, `NothingStuck` | `[]WakeInv`, `NoJobLeftBehind` |
| `NpuMemoryProofs!SyncCorrect` | the action property `SyncReachesWhatIsAsked` |
| `NpuDevfreqProofs!SuppliesCorrect` | `SuppliesSuffice` |

The inductive invariants stand at the end of the modules they are about (that of `NpuDevfreq`
in its `Proofs` module), as conjunctions of named parts, so that TLC can check them on the instances of the runs (it did, before each
proof). What they add to the properties:

**Pipeline.** Three layers, each inductive given the ones before it. `LockInv` ties
program counters, lock holders and frames together. `NumberInv` says that every number in
use has been handed out and that the frame being pushed is newer than the queued ones and
has room: without it `RawQueueOrdered` is not inductive, because room is made one step and
a lock before the frame is appended. `ResultInv` says that wherever the flag is up, about
to go up or just taken down there is a result; `NoLostResult` needs it for evictions. The
refinement needs that publishing under the capacity bound never removes the newest key
(`KeepNewestDrops`).

**Main.** `FlagInv` and `HandleInv` say, place by place, what `is_sleeping`,
`stop_inference` and the set of joinable objects are; they are what makes
`ThreadsAccounted` inductive. `CounterInv` identifies the counter of the current mode
with the auxiliary `streak`.

**Servos.** `TrackInv` bounds `missed` by `lost_count_` while the tracker is active:
`HeldNotTooLong` alone is not inductive, as the code counts losses and not misses in a
row. `LateInv` says that a decision that still waits for the port has not used up the one
late move.

**Server.** `OwnerInv`: every number in use has one owner, and the owner knows it.
`ListenerInv` says, place by place of the listener and of `stop`, whether `m_server_fd` has
been opened and is still the listening socket's: both close it, and in between the number
may go to somebody else. `StopInv` says why it does not: accept fails once the socket is
shut down, and nothing else in the program opens a descriptor by then.

**Device.** `CallInv` says who holds `power_lock` and where each caller can be; `Found`
that what the holder has read from the count still holds when it acts on it, although the
debugfs nodes change the count without the lock; `HwInv` relates the count to the power
outside `power_on` and `power_off`. `ProbingInv`, `FailedInv`, `BoundInv` and `RemovingInv`
give, for each step of probe and remove, what is set up and who may still call. The count
is exact only because a call has one place at a time: `HoldersStep` and its kin say how
each step changes the set of those who have a reference.

**Memory.** `HeldInv` gives the resources of an object as a function of its place, flags
and slips (`Owned`), through every error path; `MappedInv` the domain it is mapped in;
`DomainInv` that whoever has a reference keeps the device in the domain; `SramInv` that
chunks are disjoint and counted; `RowInv` that those of an object are one row, as long as its
cache; `GoneInv` what is left of an object that is gone. `ViewInv` says that what is shown is
what the fields of the object say *now*, although they were read when it was mapped, and that a
process or an importer is shown it only while he refers to the object: `ViewsAgree` follows by
comparing the three ways to work it out, and from `RowInv`. `FirstFitFound` rests on `SearchIsFirstFit`: the search is
defined by recursion on the chunk it restarts from, which only goes up, so that a
least-counterexample argument shows that the recursion has a value (`UpwardRecursion`) and
that nothing is skipped.

**Jobs.** For each job three sets of cores: `Pending`, the queues it is still to be taken
from or has just been taken from; `Remaining`, the cores that may still have an interrupt of
it; `Due`, those that have not told its end. `CountInv` and `EngineInv` bound them by
`run_count` and `interrupt_count`, which is why the last commit is the last and a job that
is done has executed everything. They hold because a job goes through each core once
(`OnceInv`). `FateInv` says who is aborted or freed and why, `LeavingInv` that a job leaves
its queues before its cores, and `DomainInv` that the device stays in the domain of the
`Holders` of a reference; together with `ExecutedHolds` (what a core executes and nobody
has given up has a reference) it gives `RunsInItsDomain`. `ConsistentOrder` says
that jobs never wait for each other in a circle, through however many cores: of any set of
jobs there is one that is behind none of the others. It is inductive given that a job is at
most once in a line (`OnceInLine`): all queues of a job are appended to in one critical
section, and everything else only removes. The proof has one lemma per
action; `ActStep`, `OthersKept`, `EngineStep` and their kin say once what a step of one
process leaves alone.

**Queues of jobs.** `LoadInv` adds to `LoadExact` that a handler at work works on the job
that runs on its core, without which it would subtract the work of another job. The load of
a queue is a recursive function of its length; `Sums` gives its value step by step, and
`LoadAppend`, `LoadFront` and `LoadOfSame` what the steps of the driver do to it, by an
induction over the set of the numbers that have the property (`AllNumbers`).

`NoJobLeftBehind` needs `WakeInv`, which holds while nothing goes wrong. `SmoothInv`: the
counts are exact and not only bounds, since nothing is cleared away; a job that waits for
its interrupt keeps its cores; nobody is on a way that gives a job up. `AwakeInv`: a core
with a queue and nothing to run has somebody on the way to `rknpu_job_next` for it, who
will not leave before he has looked, and what was started on a core runs or has raised its
interrupt. In a state at rest nobody is on the way and nothing runs. If some job were not
done, take the set of those that are queued or running: `ConsistentOrder` gives one that is
behind no other (`NoneLeftBehind`). On each of its cores it is then at the head or already
taken; at the head of an idle core somebody would be on the way, so it is taken on all of
them, hence committed, hence its engines run: a contradiction. So no job is queued, no job
holds a reference, and `DomainInv` gives that the device is free to be switched: no call
waits for a domain either.

**Syncs.** `Ends` and the walks through pieces and entries are recursive functions of a
sequence's index; that they have a value at all is the first lemma (`EndsExist`), by the same
induction over a set of numbers. `OnePiece` and `OneEntry` say what a piece and an entry do
to a sync that has been done up to their beginning; `CacheFromStart` and `AllEntries` join
them. A sync from the start of an object is complete after each piece up to where the piece
ends; one in the pages passes the entries before it. From the inside of the cache part
neither holds, which is `SyncCovers`.

**Rates.** `SupplyInv` says, for each place in a change and on its way back, what clock and
supplies are by now. Two things carry it: the supplies suffice for the *noted* rate
`current_freq` whenever no change is half-way, also while the clock itself is powered down,
since resume sets the noted rate; and a way back never leads below that rate. Where the code
does not keep these a slip is noted: see `NpuDevfreq` in section 2. `LockInv` keeps suspend
and resume out of a change, as `rknpu_devfreq_lock` does. The steps still to come are a tuple
of names, told apart by a number (`Numbers`).

Only model-checked:

* liveness (`ResultReachesServo`, `ThreadsStop`, `CommandObeyed`, `LossReported`,
  `PowersOff`, `StopReturns`), which is out of the prover's reach;
* what the runs that expect a violation show.

`FrameHeldOnce`, `ResultsBounded`, `PredictionAtHand` and `TrackingIsReported` are parts of
inductive invariants, and `SuppliesSuffice` and `SyncReachesWhatIsAsked` are what is left of
a property the code violates; no run checks these by themselves (TLC found them true with
3 rates, and with pieces of 1 and 2 lines and entries of 1).

## 5. Not modelled

Opening and configuring devices, the serial protocol of the servos, the vendor's RKNN and
RGA runtimes, image and tensor arithmetic, the Kalman filter's floating point, drawing,
logging and formatted output, the operator's window, and the kernel's own objects.

In the modelled parts:

* pipeline and servos: the age of a result (no clock), the angles that travel with a frame
  and hence the serial line they are read from: a late answer of a servo stays in the input
  and may be taken for the answer to the next request (`servo_driver.cpp` 137);
* power: two concurrent writers of one node of debugfs, and system suspend beyond a get or
  put;
* device: a file that is open while the driver is unbound, boards without IOMMU or with a
  single power domain; ioctls before probe has returned (the DRM node is registered at 1401,
  before the work queue and the counters exist);
* jobs: `FENCE_IN` and `FENCE_OUT`, jobs without the PC mode, `bypass_soft_reset`, and what
  a freed job does to whoever still refers to it;
* memory: page faults, the sync of DMA-heap objects (`rknpu_mem.c` 259-352), an object
  that a running job uses, a second DESTROY or a GEM_CLOSE of a handle whose DESTROY waits for
  its domain (`rknpu_gem_object_find` drops its reference at once, `rknpu_gem.h` 137, so the
  waiting call would work on a freed object), and a failed `kzalloc` in `rknpu_mm_alloc`
  (`rknpu_mm.c` 72-74), after which the object gets pages as when the SRAM is full;
* devfreq: boards with one supply, intermediate rates, the thermal model;
* sessions: the bytes of commands and frames; detached sessions that still run when `main`
  returns (`server.h` 175) end with the process.

## 6. Plan

Every component of section 1 that runs concurrently or has to put failures right is
modelled, and every safety property of a passing run is proved. What is left, in the order of its worth:

1. Waking up with what the queues and the flag still hold (`main.cpp` 201): a property of
   `FramePipeline` and `ServoControl` together, that the first decisions after a sleep can use
   frames from before it.
2. The servo bus: a module of the request and answer of `servo_driver.cpp`, with late and
   short answers on the line.
3. The debugger's `load` node and the fences, which read the state of `NpuJob`.
