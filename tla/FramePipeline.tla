---------------------------- MODULE FramePipeline ----------------------------
(***************************************************************************)
(* The frame pipeline of the station program: two camera callbacks push    *)
(* frames into ThreadSafeQueue, a pool of inference threads takes the      *)
(* newest raw frame and publishes its result, control_servo is woken by    *)
(* the flag new_image_available and reads the newest result, and the video *)
(* sessions of the server read the newest result whenever they like.       *)
(*                                                                         *)
(* A frame is its sequence number: image, detections and servo position    *)
(* travel with the number and are not told apart here.  std::mutex mutex_  *)
(* of the queue is a step of one thread, except in push_raw, which keeps   *)
(* it while it waits for servo_mtx and reads both servos.                  *)
(***************************************************************************)
EXTENDS Integers, Sequences, FiniteSets, SequencesExt

CONSTANTS
  VisibleCamera, IRCamera,  \* the two libuvc callback threads
  Workers,                  \* the inference threads (num_threads of main)
  Viewers,                  \* the video sessions of the TCP server
  Remotes,                  \* the servo_control sessions of the TCP server
  Servo,                    \* the control_servo thread
  NoThread,                 \* an unlocked mutex
  MaxRaw, MaxInference,     \* capacities of the two queues
  MaxFrames                 \* bound of the model: frames numbered by push_raw

Cameras == {VisibleCamera, IRCamera}

ASSUME PipelineAssumption ==
  /\ VisibleCamera # IRCamera
  /\ Servo \notin Cameras \cup Remotes \cup Viewers
  /\ Cameras \cap Remotes = {}
  /\ NoThread \notin Cameras \cup Remotes \cup {Servo}
  /\ MaxRaw \in Nat \ {0}
  /\ MaxInference \in Nat \ {0}
  /\ MaxFrames \in Nat

VARIABLES
  camera_mode,          \* FALSE: visible light feeds the queue, TRUE: infrared
  stop_inference,       \* set by main before it joins the threads
  mutex_,               \* the push_raw call that keeps the queue's mutex
  servo_mtx,            \* holder of the mutex of the servo port
  sequence_number_,     \* next number push_raw hands out
  raw_queue,            \* numbers of the raw frames, oldest first
  inference_queue,      \* keys of the result map
  new_image_available,  \* "there is a new result"
  cam,                  \* where each camera callback is
  pushing,              \* seq_num of the push_raw call that holds mutex_
  worker,               \* where each inference thread is
  frame,                \* seq_num an inference thread works on
  servo,                \* where control_servo is
  servo_seen,           \* number of the last result control_servo read
  viewer_seen           \* number of the last result each video session read

queueVars  == <<sequence_number_, raw_queue, inference_queue>>
lockVars   == <<mutex_, servo_mtx>>
cameraVars == <<cam, pushing>>
workerVars == <<worker, frame>>
servoVars  == <<servo, servo_seen>>
controlVars == <<camera_mode, stop_inference>>
vars == <<controlVars, lockVars, queueVars, new_image_available, cameraVars,
          workerVars, servoVars, viewer_seen>>

NoSeq == -1
SeqNum == 0 .. (MaxFrames - 1)

Init ==
  /\ camera_mode = FALSE
  /\ stop_inference = FALSE
  /\ mutex_ = NoThread
  /\ servo_mtx = NoThread
  /\ sequence_number_ = 0
  /\ raw_queue = <<>>
  /\ inference_queue = {}
  /\ new_image_available = FALSE
  /\ cam = [c \in Cameras |-> "idle"]
  /\ pushing = NoSeq
  /\ worker = [w \in Workers |-> "loop"]
  /\ frame = [w \in Workers |-> NoSeq]
  /\ servo = "wait"
  /\ servo_seen = NoSeq
  /\ viewer_seen = [v \in Viewers |-> NoSeq]

-----------------------------------------------------------------------------
(* The camera callbacks and ThreadSafeQueue::push_raw.                      *)

\* frame_callback: the mode is looked at once, before push_raw is entered.
FrameCallback(c) ==
  /\ cam[c] = "idle"
  /\ camera_mode = (c = IRCamera)
  /\ cam' = [cam EXCEPT ![c] = "enter"]
  /\ UNCHANGED <<controlVars, lockVars, queueVars, new_image_available,
                 pushing, workerVars, servoVars, viewer_seen>>

\* Mutant of PushRawEmpty: the early return forgets to unlock.
PushRawEmptyKeepsLock(c) ==
  /\ cam[c] = "enter"
  /\ mutex_ = NoThread
  /\ mutex_' = c
  /\ cam' = [cam EXCEPT ![c] = "idle"]
  /\ UNCHANGED <<controlVars, servo_mtx, queueVars, new_image_available,
                 pushing, workerVars, servoVars, viewer_seen>>

\* push_raw of an image that did not decode returns at once.
PushRawEmpty(c) ==
  /\ cam[c] = "enter"
  /\ mutex_ = NoThread
  /\ cam' = [cam EXCEPT ![c] = "idle"]
  /\ UNCHANGED <<controlVars, lockVars, queueVars, new_image_available,
                 pushing, workerVars, servoVars, viewer_seen>>

\* Mutant of MakeRoom: the capacity test is off by one.
MakeRoomTooMuch(q) == IF Len(q) > MaxRaw THEN Tail(q) ELSE q

\* The queue with room for one more frame: the oldest is dropped when full.
MakeRoom(q) == IF Len(q) >= MaxRaw THEN Tail(q) ELSE q

\* push_raw takes mutex_, a number, and room for the frame.
PushRawBegin(c) ==
  /\ cam[c] = "enter"
  /\ mutex_ = NoThread
  /\ sequence_number_ < MaxFrames
  /\ mutex_' = c
  /\ pushing' = sequence_number_
  /\ sequence_number_' = sequence_number_ + 1
  /\ raw_queue' = MakeRoom(raw_queue)
  /\ cam' = [cam EXCEPT ![c] = "locked"]
  /\ UNCHANGED <<controlVars, servo_mtx, inference_queue,
                 new_image_available, workerVars, servoVars, viewer_seen>>

\* push_raw waits for the servo port with mutex_ held.
PushRawServoLock(c) ==
  /\ cam[c] = "locked"
  /\ servo_mtx = NoThread
  /\ servo_mtx' = c
  /\ cam' = [cam EXCEPT ![c] = "reading"]
  /\ UNCHANGED <<controlVars, mutex_, queueVars, new_image_available,
                 pushing, workerVars, servoVars, viewer_seen>>

\* Both positions are read and the port is given back.
PushRawServoUnlock(c) ==
  /\ cam[c] = "reading"
  /\ servo_mtx' = NoThread
  /\ cam' = [cam EXCEPT ![c] = "append"]
  /\ UNCHANGED <<controlVars, mutex_, queueVars, new_image_available,
                 pushing, workerVars, servoVars, viewer_seen>>

\* Mutant of PushRawEnqueue: the number is used after it was reset.
PushRawEnqueueReset(c) ==
  /\ cam[c] = "append"
  /\ pushing' = NoSeq
  /\ raw_queue' = Append(raw_queue, pushing')
  /\ mutex_' = NoThread
  /\ cam' = [cam EXCEPT ![c] = "idle"]
  /\ UNCHANGED <<controlVars, servo_mtx, sequence_number_, inference_queue,
                 new_image_available, workerVars, servoVars, viewer_seen>>

\* The frame goes to the back of the queue and mutex_ is released.
PushRawEnqueue(c) ==
  /\ cam[c] = "append"
  /\ raw_queue' = Append(raw_queue, pushing)
  /\ pushing' = NoSeq
  /\ mutex_' = NoThread
  /\ cam' = [cam EXCEPT ![c] = "idle"]
  /\ UNCHANGED <<controlVars, servo_mtx, sequence_number_, inference_queue,
                 new_image_available, workerVars, servoVars, viewer_seen>>

-----------------------------------------------------------------------------
(* inference_images.                                                        *)

\* Mutant of WorkerLoop: the flag is raised before there is a result.
WorkerLoopNotifies(w) ==
  /\ worker[w] = "loop"
  /\ worker' = [worker EXCEPT ![w] = IF stop_inference THEN "off" ELSE "fetch"]
  /\ new_image_available' = TRUE
  /\ UNCHANGED <<controlVars, lockVars, queueVars,
                 cameraVars, frame, servoVars, viewer_seen>>

\* The loop condition: the thread ends once it sees stop_inference.
WorkerLoop(w) ==
  /\ worker[w] = "loop"
  /\ worker' = [worker EXCEPT ![w] = IF stop_inference THEN "off" ELSE "fetch"]
  /\ UNCHANGED <<controlVars, lockVars, queueVars, new_image_available,
                 cameraVars, frame, servoVars, viewer_seen>>

\* get_latest_raw takes the newest frame off the back of the queue.
GetLatestRaw(w) ==
  /\ worker[w] = "fetch"
  /\ mutex_ = NoThread
  /\ raw_queue # <<>>
  /\ frame' = [frame EXCEPT ![w] = Last(raw_queue)]
  /\ raw_queue' = Front(raw_queue)
  /\ worker' = [worker EXCEPT ![w] = "infer"]
  /\ UNCHANGED <<controlVars, lockVars, sequence_number_, inference_queue,
                 new_image_available, cameraVars, servoVars, viewer_seen>>

\* get_latest_raw of an empty queue: the thread sleeps and starts over.
GetLatestRawEmpty(w) ==
  /\ worker[w] = "fetch"
  /\ mutex_ = NoThread
  /\ raw_queue = <<>>
  /\ worker' = [worker EXCEPT ![w] = "loop"]
  /\ UNCHANGED <<controlVars, lockVars, queueVars, new_image_available,
                 cameraVars, frame, servoVars, viewer_seen>>

\* The newest result: a singleton, or nothing when there is none.
Newest(S) == {s \in S : \A t \in S : t <= s}

\* Mutant of KeepNewest: the largest key is erased instead of the smallest.
KeepOldest(S) ==
  IF Cardinality(S) > MaxInference THEN {s \in S : \E t \in S : s < t} ELSE S

\* The map without its smallest key when it has grown too large.
KeepNewest(S) ==
  IF Cardinality(S) > MaxInference THEN {s \in S : \E t \in S : t < s} ELSE S

\* push_inference.  run_inference reports every failure as 0, so the thread
\* gets here whether or not the NPU produced a result.
PushInference(w) ==
  /\ worker[w] = "infer"
  /\ mutex_ = NoThread
  /\ inference_queue' = KeepNewest(inference_queue \cup {frame[w]})
  /\ frame' = [frame EXCEPT ![w] = NoSeq]
  /\ worker' = [worker EXCEPT ![w] = "notify"]
  /\ UNCHANGED <<controlVars, lockVars, sequence_number_, raw_queue,
                 new_image_available, cameraVars, servoVars, viewer_seen>>

\* The flag is raised after mutex_ has been released.
Notify(w) ==
  /\ worker[w] = "notify"
  /\ new_image_available' = TRUE
  /\ worker' = [worker EXCEPT ![w] = "loop"]
  /\ UNCHANGED <<controlVars, lockVars, queueVars, cameraVars, frame,
                 servoVars, viewer_seen>>

-----------------------------------------------------------------------------
(* control_servo.                                                           *)

\* Mutant of ServoWake: the wait does not end when the threads are stopped.
ServoWakeOnFlagOnly ==
  /\ servo = "wait"
  /\ new_image_available
  /\ servo' = IF stop_inference THEN "off" ELSE "clear"
  /\ UNCHANGED <<controlVars, lockVars, queueVars, new_image_available,
                 cameraVars, workerVars, servo_seen, viewer_seen>>

\* The waiting loop and the two tests of stop_inference around it.
ServoWake ==
  /\ servo = "wait"
  /\ new_image_available \/ stop_inference
  /\ servo' = IF stop_inference THEN "off" ELSE "clear"
  /\ UNCHANGED <<controlVars, lockVars, queueVars, new_image_available,
                 cameraVars, workerVars, servo_seen, viewer_seen>>

\* The flag is lowered first ...
ServoClear ==
  /\ servo = "clear"
  /\ new_image_available' = FALSE
  /\ servo' = "get"
  /\ UNCHANGED <<controlVars, lockVars, queueVars, cameraVars, workerVars,
                 servo_seen, viewer_seen>>

\* ... and the newest result is copied after it.  With no result the copied
\* position vector is empty and position[0] is undefined behaviour: the thread
\* is past saving.
GetLatestInference ==
  /\ servo = "get"
  /\ mutex_ = NoThread
  /\ servo_seen' \in IF inference_queue = {} THEN {servo_seen}
                     ELSE Newest(inference_queue)
  /\ servo' = IF inference_queue = {} THEN "undefined" ELSE "control"
  /\ UNCHANGED <<controlVars, lockVars, queueVars, new_image_available,
                 cameraVars, workerVars, viewer_seen>>

\* Mutant of ServoDecide: the flag is lowered once more at the end of the round.
ServoDecideClears ==
  /\ servo = "control"
  /\ new_image_available' = FALSE
  /\ servo' \in {"wait", "lock"}
  /\ UNCHANGED <<controlVars, lockVars, queueVars,
                 cameraVars, workerVars, servo_seen, viewer_seen>>

\* The tracker either asks for a movement or the round ends early (no target,
\* no prediction, or a remote session has taken the servos over).
ServoDecide ==
  /\ servo = "control"
  /\ servo' \in {"wait", "lock"}
  /\ UNCHANGED <<controlVars, lockVars, queueVars, new_image_available,
                 cameraVars, workerVars, servo_seen, viewer_seen>>

ServoLock ==
  /\ servo = "lock"
  /\ servo_mtx = NoThread
  /\ servo_mtx' = Servo
  /\ servo' = "moving"
  /\ UNCHANGED <<controlVars, mutex_, queueVars, new_image_available,
                 cameraVars, workerVars, servo_seen, viewer_seen>>

\* The positions are written to the port and the port is given back.
ServoUnlock ==
  /\ servo = "moving"
  /\ servo_mtx' = NoThread
  /\ servo' = "wait"
  /\ UNCHANGED <<controlVars, mutex_, queueVars, new_image_available,
                 cameraVars, workerVars, servo_seen, viewer_seen>>

-----------------------------------------------------------------------------
(* The other users of the queue, the port and the flags.                    *)

\* handle_video: a session reads the newest result, whoever else read it.
ViewerGet(v) ==
  /\ mutex_ = NoThread
  /\ \E s \in Newest(inference_queue) :
       viewer_seen' = [viewer_seen EXCEPT ![v] = s]
  /\ UNCHANGED <<controlVars, lockVars, queueVars, new_image_available,
                 cameraVars, workerVars, servoVars>>

\* servo_control: a remote session uses the port for one command.
RemoteLock(r) ==
  /\ servo_mtx = NoThread
  /\ servo_mtx' = r
  /\ UNCHANGED <<controlVars, mutex_, queueVars, new_image_available,
                 cameraVars, workerVars, servoVars, viewer_seen>>

RemoteUnlock(r) ==
  /\ servo_mtx = r
  /\ servo_mtx' = NoThread
  /\ UNCHANGED <<controlVars, mutex_, queueVars, new_image_available,
                 cameraVars, workerVars, servoVars, viewer_seen>>

\* main: the scene got too dark for one camera, or light enough for it again.
SwitchCamera ==
  /\ camera_mode' = ~camera_mode
  /\ UNCHANGED <<stop_inference, lockVars, queueVars, new_image_available,
                 cameraVars, workerVars, servoVars, viewer_seen>>

\* main: the station is told to sleep; the cameras keep pushing frames.
StopInference ==
  /\ ~stop_inference
  /\ stop_inference' = TRUE
  /\ UNCHANGED <<camera_mode, lockVars, queueVars, new_image_available,
                 cameraVars, workerVars, servoVars, viewer_seen>>

AllOff == servo = "off" /\ \A w \in Workers : worker[w] = "off"

\* main: every thread has been joined and the station is told to wake up.
\* Queues and flag are left as they are.
RestartThreads ==
  /\ stop_inference
  /\ AllOff
  /\ stop_inference' = FALSE
  /\ worker' = [w \in Workers |-> "loop"]
  /\ servo' = "wait"
  /\ UNCHANGED <<camera_mode, lockVars, queueVars, new_image_available,
                 cameraVars, frame, servo_seen, viewer_seen>>

-----------------------------------------------------------------------------
PushRaw(c) ==
  \/ FrameCallback(c) \/ PushRawEmpty(c) \/ PushRawBegin(c)
  \/ PushRawServoLock(c) \/ PushRawServoUnlock(c) \/ PushRawEnqueue(c)

InferenceThread(w) ==
  \/ WorkerLoop(w) \/ GetLatestRaw(w) \/ GetLatestRawEmpty(w)
  \/ PushInference(w) \/ Notify(w)

ServoThread ==
  \/ ServoWake \/ ServoClear \/ GetLatestInference \/ ServoDecide
  \/ ServoLock \/ ServoUnlock

Next ==
  \/ \E c \in Cameras : PushRaw(c)
  \/ \E w \in Workers : InferenceThread(w)
  \/ ServoThread
  \/ \E v \in Viewers : ViewerGet(v)
  \/ \E r \in Remotes : RemoteLock(r) \/ RemoteUnlock(r)
  \/ SwitchCamera \/ StopInference \/ RestartThreads

Spec == Init /\ [][Next]_vars

(***************************************************************************)
(* Fairness.  Every thread keeps running, so a step that needs no lock is  *)
(* weakly fair.  A step that takes a mutex is strongly fair: the mutex is  *)
(* taken and released again and again by the others, and a std::mutex      *)
(* (a futex) does not pass a waiting thread over for ever.  Frames,        *)
(* viewers, remote sessions, main and the tracker's choice are not fair.   *)
(***************************************************************************)
Fairness ==
  /\ \A c \in Cameras :
       SF_vars(PushRawServoLock(c)) /\ WF_vars(PushRawServoUnlock(c) \/ PushRawEnqueue(c))
  /\ \A w \in Workers :
       /\ WF_vars(WorkerLoop(w) \/ Notify(w))
       /\ SF_vars(GetLatestRaw(w) \/ GetLatestRawEmpty(w) \/ PushInference(w))
  /\ WF_vars(ServoWake \/ ServoClear \/ ServoDecide \/ ServoUnlock)
  /\ SF_vars(GetLatestInference \/ ServoLock)
  /\ \A r \in Remotes : WF_vars(RemoteUnlock(r))

FairSpec == Spec /\ Fairness

-----------------------------------------------------------------------------
(* Properties.                                                              *)

\* The types of the variables.
TypeOK ==
  /\ camera_mode \in BOOLEAN
  /\ stop_inference \in BOOLEAN
  /\ mutex_ \in Cameras \cup {NoThread}
  /\ servo_mtx \in Cameras \cup Remotes \cup {Servo, NoThread}
  /\ sequence_number_ \in 0 .. MaxFrames
  /\ raw_queue \in Seq(SeqNum)
  /\ inference_queue \subseteq SeqNum
  /\ new_image_available \in BOOLEAN
  /\ cam \in [Cameras -> {"idle", "enter", "locked", "reading", "append"}]
  /\ pushing \in SeqNum \cup {NoSeq}
  /\ worker \in [Workers -> {"off", "loop", "fetch", "infer", "notify"}]
  /\ frame \in [Workers -> SeqNum \cup {NoSeq}]
  /\ servo \in {"off", "wait", "clear", "get", "control", "lock", "moving",
                "undefined"}
  /\ servo_seen \in SeqNum \cup {NoSeq}
  /\ viewer_seen \in [Viewers -> SeqNum \cup {NoSeq}]

\* The queue the inference threads take from is never longer than MaxRaw, and
\* holds the frames in the order of their numbers, the numbers being handed out
\* by two cameras: so the back of the queue is the newest frame (push_raw,
\* get_latest_raw).
RawQueueOrdered ==
  /\ Len(raw_queue) <= MaxRaw
  /\ \A i, j \in 1 .. Len(raw_queue) : i < j => raw_queue[i] < raw_queue[j]

\* control_servo never reads position[0] of an empty result: when the flag is
\* up there is a result, and evictions always leave one (utils.cpp 283).
ServoAlwaysHasResult == servo # "undefined"

\* No notification is lost: a result control_servo has not read yet always has
\* the flag up, a thread about to raise it, or control_servo about to read it
\* (the flag is lowered before the queue is read, utils.cpp 273-276).
NoLostResult ==
  \A s \in inference_queue : s > servo_seen =>
    \/ new_image_available
    \/ \E w \in Workers : worker[w] = "notify"
    \/ servo = "get"

\* What readers see of the two queues, the pool and the flag is a mailbox that
\* keeps the newest result: reads return it and never go back.
newestResult ==
  IF inference_queue = {} THEN NoSeq ELSE CHOOSE s \in Newest(inference_queue) : TRUE

mailboxSeen ==
  [r \in Viewers \cup {Servo} |-> IF r = Servo THEN servo_seen ELSE viewer_seen[r]]

Mailbox == INSTANCE LatestResult WITH
  Readers <- Viewers \cup {Servo},
  latest <- newestResult,
  seen <- mailboxSeen

\* The pipeline implements the mailbox.
ImplementsMailbox == Mailbox!Spec

\* Every result reaches control_servo, or a newer one does, unless the threads
\* are told to stop.
ResultReachesServo ==
  \A s \in SeqNum :
    (s \in inference_queue) ~> (servo_seen >= s \/ stop_inference)

\* Once main has set stop_inference its joins return: every thread ends, with
\* or without frames, results and remote sessions.
ThreadsStop == stop_inference ~> AllOff

-----------------------------------------------------------------------------
(* The inductive invariant, in three layers.                                *)

\* Who holds the two mutexes, and which number goes with which position.
LockInv ==
  /\ \A c \in Cameras : cam[c] \in {"locked", "reading", "append"} <=> mutex_ = c
  /\ \A c \in Cameras : cam[c] = "reading" <=> servo_mtx = c
  /\ servo = "moving" <=> servo_mtx = Servo
  /\ mutex_ = NoThread <=> pushing = NoSeq
  /\ \A w \in Workers : worker[w] = "infer" <=> frame[w] # NoSeq

\* Every number in use has been handed out; the frame being pushed is newer
\* than the queued ones and has room in the queue.
NumberInv ==
  /\ pushing < sequence_number_
  /\ \A w \in Workers : frame[w] < sequence_number_
  /\ \A s \in inference_queue : s < sequence_number_
  /\ \A i \in 1 .. Len(raw_queue) : raw_queue[i] < sequence_number_
  /\ pushing # NoSeq =>
       /\ Len(raw_queue) < MaxRaw
       /\ \A i \in 1 .. Len(raw_queue) : raw_queue[i] < pushing

\* Where the flag is up, about to go up or has just been taken down, there is
\* a newest result.
ResultInv ==
  /\ IsFiniteSet(inference_queue)
  /\ inference_queue # {} => Newest(inference_queue) # {}
  /\ \/ new_image_available
     \/ \E w \in Workers : worker[w] = "notify"
     \/ servo \in {"clear", "get"}
     => inference_queue # {}

\* A frame is in one place at a time: no two inference threads work on the same
\* frame, none works on a queued one or on one that has a result already
\* (get_latest_raw removes what it returns, push_raw numbers each frame once).
FrameHeldOnce ==
  /\ \A w \in Workers : frame[w] # NoSeq =>
       /\ frame[w] \notin ToSet(raw_queue) \cup inference_queue \cup {pushing}
       /\ \A v \in Workers \ {w} : frame[v] # frame[w]
  /\ ToSet(raw_queue) \cap inference_queue = {}
  /\ pushing \notin ToSet(raw_queue) \cup inference_queue

\* The result map never holds more than MaxInference results (push_inference).
ResultsBounded == Cardinality(inference_queue) <= MaxInference

IInv ==
  /\ TypeOK /\ LockInv
  /\ NumberInv /\ RawQueueOrdered /\ FrameHeldOnce
  /\ ResultInv /\ ResultsBounded /\ ServoAlwaysHasResult /\ NoLostResult
=============================================================================
