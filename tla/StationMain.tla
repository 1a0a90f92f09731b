----------------------------- MODULE StationMain -----------------------------
(***************************************************************************)
(* main() of the station program from the moment the server runs: the     *)
(* polling loop that puts the station to sleep, wakes it up, switches      *)
(* between the visible and the infrared camera and shuts everything down,  *)
(* the flags the control sessions of the server set while it runs, and     *)
(* the threads main starts and joins.                                      *)
(*                                                                         *)
(* A role is one thread function with its argument: inference_images with  *)
(* context index i, or control_servo.  A role's std::thread object and the *)
(* threads that execute the role are two things; they agree only if main   *)
(* joins before it starts again.                                           *)
(***************************************************************************)
EXTENDS Integers

CONSTANTS
  num_threads,    \* number of inference threads
  Servo,          \* the role of control_servo
  SWITCH_FRAMES   \* samples beyond a threshold before the camera is switched

Workers == 0 .. (num_threads - 1)
Roles == Workers \cup {Servo}

ASSUME MainAssumption ==
  /\ num_threads \in Nat \ {0}
  /\ Servo \notin Workers
  /\ SWITCH_FRAMES \in Nat \ {0}

VARIABLES
  system_sleep,   \* "sleep" / "wakeup" of a control session
  poweroff,       \* "poweroff" of a control session
  is_sleeping,    \* main's own record of what it did about system_sleep
  stop_inference, \* tells the threads to end
  main,           \* where main is
  joinable,       \* roles whose std::thread object can be joined
  live,           \* number of threads that execute a role
  current_frame,  \* brightness of the last frame of the visible camera
  camera_mode,    \* FALSE: visible, TRUE: infrared
  dark_counter, light_counter,
  streak          \* auxiliary: the last samples of one brightness in a row

flagVars   == <<system_sleep, poweroff>>
threadVars == <<joinable, live>>
cameraVars == <<camera_mode, dark_counter, light_counter, streak>>
vars == <<flagVars, is_sleeping, stop_inference, main, threadVars,
          current_frame, cameraVars>>

\* Mean grey value below DARK_THRESHOLD, between the thresholds, above
\* LIGHT_THRESHOLD.
Brightness == {"dark", "dim", "light"}

Init ==
  /\ system_sleep = FALSE
  /\ poweroff = FALSE
  /\ is_sleeping = FALSE
  /\ stop_inference = FALSE
  /\ main = "loop"
  /\ joinable = Roles
  /\ live = [r \in Roles |-> 1]
  /\ current_frame = "none"
  /\ camera_mode = FALSE
  /\ dark_counter = 0
  /\ light_counter = 0
  /\ streak = [of |-> "dim", n |-> 0]

-----------------------------------------------------------------------------
(* What happens beside main.                                                *)

\* The process runs until main returns or an exception leaves it.
Running == main \notin {"stop_server", "terminated"}

\* handle_control: one session sets one flag, at any moment.
ControlCommand ==
  /\ Running
  /\ \/ system_sleep' \in BOOLEAN /\ poweroff' = poweroff
     \/ poweroff' = TRUE /\ system_sleep' = system_sleep
  /\ UNCHANGED <<is_sleeping, stop_inference, main, threadVars, current_frame,
                 cameraVars>>

\* The callback of the visible camera stores the frame, in either mode.
CameraFrame ==
  /\ Running
  /\ current_frame' \in Brightness
  /\ UNCHANGED <<flagVars, is_sleeping, stop_inference, main, threadVars,
                 cameraVars>>

\* A thread leaves its loop when it sees stop_inference.
ThreadEnds(r) ==
  /\ stop_inference
  /\ live[r] > 0
  /\ live' = [live EXCEPT ![r] = @ - 1]
  /\ UNCHANGED <<flagVars, is_sleeping, stop_inference, main, joinable,
                 current_frame, cameraVars>>

-----------------------------------------------------------------------------
(* The loop of main: sleep.                                                 *)

\* Mutant of SleepBegin: the station counts as asleep before the joins.
SleepBeginEarly ==
  /\ main = "loop"
  /\ system_sleep /\ ~is_sleeping
  /\ stop_inference' = TRUE
  /\ is_sleeping' = TRUE
  /\ main' = "join_inference"
  /\ UNCHANGED <<flagVars, threadVars, current_frame, cameraVars>>

SleepBegin ==
  /\ main = "loop"
  /\ system_sleep /\ ~is_sleeping
  /\ stop_inference' = TRUE
  /\ main' = "join_inference"
  /\ UNCHANGED <<flagVars, is_sleeping, threadVars, current_frame, cameraVars>>

\* Mutant of JoinInferenceThread: the thread is detached, not joined.
DetachInferenceThread(i) ==
  /\ main \in {"join_inference", "shutdown_inference"}
  /\ i \in joinable
  /\ \A j \in joinable \cap Workers : i <= j
  /\ joinable' = joinable \ {i}
  /\ UNCHANGED <<flagVars, is_sleeping, stop_inference, main, live,
                 current_frame, cameraVars>>

\* join_threads joins the joinable threads in the order of the vector ...
JoinInferenceThread(i) ==
  /\ main \in {"join_inference", "shutdown_inference"}
  /\ i \in joinable
  /\ \A j \in joinable \cap Workers : i <= j
  /\ live[i] = 0
  /\ joinable' = joinable \ {i}
  /\ UNCHANGED <<flagVars, is_sleeping, stop_inference, main, live,
                 current_frame, cameraVars>>

\* ... and clears the vector.
JoinThreadsDone ==
  /\ main \in {"join_inference", "shutdown_inference"}
  /\ joinable \cap Workers = {}
  /\ main' = IF main = "join_inference" THEN "join_servo" ELSE "shutdown_servo"
  /\ UNCHANGED <<flagVars, is_sleeping, stop_inference, threadVars,
                 current_frame, cameraVars>>

\* Mutant of JoinServo: main does not wait for the thread.
DetachServo ==
  /\ main \in {"join_servo", "shutdown_servo"}
  /\ Servo \in joinable
  /\ joinable' = joinable \ {Servo}
  /\ main' = IF main = "join_servo" THEN "fall_asleep" ELSE "stop_server"
  /\ UNCHANGED <<flagVars, is_sleeping, stop_inference, live, current_frame,
                 cameraVars>>

\* servo_thread.join(), in the sleep branch and in the shutdown.  The cameras
\* are stopped next, and server.stop() is called.
JoinServo ==
  /\ main \in {"join_servo", "shutdown_servo"}
  /\ Servo \in joinable
  /\ live[Servo] = 0
  /\ joinable' = joinable \ {Servo}
  /\ main' = IF main = "join_servo" THEN "fall_asleep" ELSE "stop_server"
  /\ UNCHANGED <<flagVars, is_sleeping, stop_inference, live, current_frame,
                 cameraVars>>

\* Joining a thread that has been joined throws std::system_error; nothing in
\* main catches it.
JoinServoThrows ==
  /\ main \in {"join_servo", "shutdown_servo"}
  /\ Servo \notin joinable
  /\ main' = "terminated"
  /\ UNCHANGED <<flagVars, is_sleeping, stop_inference, threadVars,
                 current_frame, cameraVars>>

FallAsleep ==
  /\ main = "fall_asleep"
  /\ is_sleeping' = TRUE
  /\ main' = "check_poweroff"
  /\ UNCHANGED <<flagVars, stop_inference, threadVars, current_frame,
                 cameraVars>>

-----------------------------------------------------------------------------
(* The loop of main: wake up.                                               *)

\* Mutant of WakeBegin: stop_inference stays up.
WakeBeginKeepsStop ==
  /\ main = "loop"
  /\ ~system_sleep /\ is_sleeping
  /\ main' = "start_inference"
  /\ UNCHANGED <<flagVars, is_sleeping, stop_inference, threadVars,
                 current_frame, cameraVars>>

WakeBegin ==
  /\ main = "loop"
  /\ ~system_sleep /\ is_sleeping
  /\ stop_inference' = FALSE
  /\ main' = "start_inference"
  /\ UNCHANGED <<flagVars, is_sleeping, threadVars, current_frame, cameraVars>>

\* start_threads: one thread per context index, in order.
StartInferenceThread(i) ==
  /\ main = "start_inference"
  /\ i \notin joinable
  /\ \A j \in Workers \ joinable : i <= j
  /\ joinable' = joinable \cup {i}
  /\ live' = [live EXCEPT ![i] = @ + 1]
  /\ main' = IF Workers \subseteq joinable' THEN "start_servo" ELSE main
  /\ UNCHANGED <<flagVars, is_sleeping, stop_inference, current_frame,
                 cameraVars>>

\* servo_thread = std::thread(control_servo): assigning to a joinable thread
\* object would end the process.
StartServo ==
  /\ main = "start_servo"
  /\ joinable' = joinable \cup {Servo}
  /\ live' = [live EXCEPT ![Servo] = @ + 1]
  /\ main' = IF Servo \in joinable THEN "terminated" ELSE "wake_up"
  /\ UNCHANGED <<flagVars, is_sleeping, stop_inference, current_frame,
                 cameraVars>>

WakeUp ==
  /\ main = "wake_up"
  /\ is_sleeping' = FALSE
  /\ main' = "check_poweroff"
  /\ UNCHANGED <<flagVars, stop_inference, threadVars, current_frame,
                 cameraVars>>

\* main has done what system_sleep asks for.
NothingToDo ==
  /\ main = "loop"
  /\ system_sleep = is_sleeping
  /\ main' = "check_poweroff"
  /\ UNCHANGED <<flagVars, is_sleeping, stop_inference, threadVars,
                 current_frame, cameraVars>>

-----------------------------------------------------------------------------
(* The loop of main: power off.                                             *)

CheckPoweroff ==
  /\ main = "check_poweroff"
  /\ main' = IF poweroff THEN "shutdown" ELSE "camera"
  /\ UNCHANGED <<flagVars, is_sleeping, stop_inference, threadVars,
                 current_frame, cameraVars>>

ShutdownBegin ==
  /\ main = "shutdown"
  /\ stop_inference' = TRUE
  /\ main' = "shutdown_inference"
  /\ UNCHANGED <<flagVars, is_sleeping, threadVars, current_frame, cameraVars>>

-----------------------------------------------------------------------------
(* The loop of main: which camera feeds the queue.                          *)

\* The auxiliary record of the last samples.
Sampled ==
  streak' = [of |-> current_frame,
             n |-> IF streak.of # current_frame THEN 1
                   ELSE IF streak.n < SWITCH_FRAMES THEN streak.n + 1
                   ELSE streak.n]

SampleNothing ==
  /\ main = "camera"
  /\ current_frame = "none"
  /\ main' = "loop"
  /\ UNCHANGED <<flagVars, is_sleeping, stop_inference, threadVars,
                 current_frame, cameraVars>>

\* The frame is looked at once per round of the loop.
Sample ==
  /\ main = "camera"
  /\ current_frame # "none"
  /\ Sampled
  /\ main' = "loop"
  /\ UNCHANGED <<flagVars, is_sleeping, stop_inference, threadVars, current_frame>>

\* Mutant of SampleDark: the counter survives the switch.
SampleDarkNoReset ==
  /\ Sample
  /\ ~camera_mode /\ current_frame = "dark"
  /\ light_counter' = 0
  /\ dark_counter' = dark_counter + 1
  /\ IF dark_counter + 1 >= SWITCH_FRAMES
       THEN camera_mode' = TRUE
       ELSE UNCHANGED camera_mode

\* In visible mode: enough dark samples in a row switch to infrared.
SampleDark ==
  /\ Sample
  /\ ~camera_mode /\ current_frame = "dark"
  /\ light_counter' = 0
  /\ IF dark_counter + 1 >= SWITCH_FRAMES
       THEN camera_mode' = TRUE /\ dark_counter' = 0
       ELSE UNCHANGED camera_mode /\ dark_counter' = dark_counter + 1

SampleNotDark ==
  /\ Sample
  /\ ~camera_mode /\ current_frame # "dark"
  /\ dark_counter' = 0
  /\ UNCHANGED <<camera_mode, light_counter>>

\* In infrared mode: enough light samples in a row switch back.
SampleLight ==
  /\ Sample
  /\ camera_mode /\ current_frame = "light"
  /\ dark_counter' = 0
  /\ IF light_counter + 1 >= SWITCH_FRAMES
       THEN camera_mode' = FALSE /\ light_counter' = 0
       ELSE UNCHANGED camera_mode /\ light_counter' = light_counter + 1

\* Mutant of SampleNotLight: a dim sample does not break the row.
SampleNotLightKeepsCount ==
  /\ Sample
  /\ camera_mode /\ current_frame # "light"
  /\ UNCHANGED <<camera_mode, dark_counter, light_counter>>

SampleNotLight ==
  /\ Sample
  /\ camera_mode /\ current_frame # "light"
  /\ light_counter' = 0
  /\ UNCHANGED <<camera_mode, dark_counter>>

-----------------------------------------------------------------------------
Main ==
  \/ SleepBegin \/ JoinThreadsDone \/ JoinServo \/ JoinServoThrows
  \/ FallAsleep \/ WakeBegin \/ StartServo \/ WakeUp \/ NothingToDo
  \/ CheckPoweroff \/ ShutdownBegin
  \/ SampleNothing \/ SampleDark \/ SampleNotDark \/ SampleLight \/ SampleNotLight
  \/ \E i \in Workers : JoinInferenceThread(i) \/ StartInferenceThread(i)

Next ==
  \/ Main
  \/ \E r \in Roles : ThreadEnds(r)
  \/ ControlCommand
  \/ CameraFrame

Spec == Init /\ [][Next]_vars

(***************************************************************************)
(* Fairness: main polls for ever, and a thread that is told to end leaves  *)
(* its loop (FramePipeline, ThreadsStop).  Operators and cameras are free. *)
(***************************************************************************)
Fairness == WF_vars(Main) /\ \A r \in Roles : WF_vars(ThreadEnds(r))

FairSpec == Spec /\ Fairness

-----------------------------------------------------------------------------
(* Properties.                                                              *)

Waking == main \in {"start_inference", "start_servo", "wake_up"}

\* The types of the variables; a counter is below SWITCH_FRAMES between
\* samples (main 232-235, 246-249).
TypeOK ==
  /\ system_sleep \in BOOLEAN
  /\ poweroff \in BOOLEAN
  /\ is_sleeping \in BOOLEAN
  /\ stop_inference \in BOOLEAN
  /\ main \in {"loop", "join_inference", "join_servo", "fall_asleep",
               "start_inference", "start_servo", "wake_up", "check_poweroff",
               "camera", "shutdown", "shutdown_inference", "shutdown_servo",
               "stop_server", "terminated"}
  /\ joinable \subseteq Roles
  /\ live \in [Roles -> Nat]
  /\ current_frame \in Brightness \cup {"none"}
  /\ camera_mode \in BOOLEAN
  /\ dark_counter \in 0 .. (SWITCH_FRAMES - 1)
  /\ light_counter \in 0 .. (SWITCH_FRAMES - 1)
  /\ streak \in [of : Brightness, n : 0 .. SWITCH_FRAMES]

\* No role is ever executed by two threads, and a thread that runs can still
\* be joined: however often sleep and wakeup are sent and whenever they arrive,
\* no NPU context gets a second user and no thread escapes the shutdown
\* (start_threads, join_threads, main 188-208).
ThreadsAccounted ==
  \A r \in Roles : live[r] <= 1 /\ (live[r] = 1 => r \in joinable)

\* While the station counts as asleep and main is not waking it up, no thread
\* runs, and none of the joined objects is joinable again (main 189-196).
AsleepMeansStopped ==
  is_sleeping /\ ~Waking =>
    stop_inference /\ joinable = {} /\ \A r \in Roles : live[r] = 0

\* stop_inference is taken back only when every thread has seen it: a thread
\* that is told to end cannot miss it (main 191-201).  FramePipeline takes this
\* as the guard of RestartThreads.
RestartAfterAllEnded ==
  [][stop_inference /\ ~stop_inference' => \A r \in Roles : live[r] = 0]_vars

\* The camera is switched only after SWITCH_FRAMES samples in a row beyond the
\* threshold of the current mode (main 227-254).
SwitchNeedsStreak ==
  [][camera_mode' # camera_mode =>
       streak' = [of |-> IF camera_mode' THEN "dark" ELSE "light",
                  n |-> SWITCH_FRAMES]]_vars

\* The last word of the operators counts, whatever was sent before: if they leave
\* the station in sleep it ends up asleep with every thread stopped, if they leave
\* it awake with one thread in every role, and after a poweroff main stops: in
\* order if the station is awake, by an uncaught exception if it is asleep
\* (main 188-212, 258-264).
CommandObeyed ==
  /\ <>[](system_sleep /\ ~poweroff) => <>[](is_sleeping /\ \A r \in Roles : live[r] = 0)
  /\ <>[](~system_sleep /\ ~poweroff) => <>[](~is_sleeping /\ \A r \in Roles : live[r] = 1)
  /\ poweroff ~> (main = "stop_server" \/ (main = "terminated" /\ is_sleeping))

\* What the README says of a poweroff, that it exits the program: main waits
\* for its threads, stops the cameras and gets to server.stop().
PowerOffStopsStation == poweroff ~> main = "stop_server"

-----------------------------------------------------------------------------
(* The inductive invariant.                                                 *)

\* What the two flags of main say at each place.
FlagInv ==
  /\ main \in {"loop", "check_poweroff", "camera", "shutdown"} =>
       (is_sleeping <=> stop_inference)
  /\ main \in {"join_inference", "join_servo", "fall_asleep"} =>
       ~is_sleeping /\ stop_inference
  /\ main \in {"shutdown_inference", "shutdown_servo", "stop_server", "terminated"} =>
       stop_inference
  /\ Waking => is_sleeping /\ ~stop_inference

\* Which thread objects main can join at each place.
HandleInv ==
  /\ main \in {"loop", "check_poweroff", "camera", "shutdown"} /\ ~is_sleeping =>
       joinable = Roles
  /\ is_sleeping /\ ~Waking => joinable = {}
  /\ main = "fall_asleep" => joinable = {}
  /\ main = "join_inference" => Servo \in joinable
  /\ main = "join_servo" => joinable = {Servo}
  /\ main = "start_inference" => Servo \notin joinable /\ joinable # Workers
  /\ main = "start_servo" => joinable = Workers
  /\ main = "wake_up" => joinable = Roles

\* What the counters know of the samples.
CounterInv ==
  /\ ~camera_mode => dark_counter = IF streak.of = "dark" THEN streak.n ELSE 0
  /\ camera_mode => light_counter = IF streak.of = "light" THEN streak.n ELSE 0

IInv == TypeOK /\ ThreadsAccounted /\ FlagInv /\ HandleInv /\ CounterInv
=============================================================================
