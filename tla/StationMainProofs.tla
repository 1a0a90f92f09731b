-------------------------- MODULE StationMainProofs --------------------------
(***************************************************************************)
(* Proofs about StationMain for any number of inference threads and any    *)
(* SWITCH_FRAMES.  IInv is inductive; the properties of the runs follow    *)
(* from it.                                                                *)
(***************************************************************************)
EXTENDS StationMain, TLAPS

LEMMA RolesFacts == Workers \subseteq Roles /\ Servo \in Roles /\ Workers # {}
                    /\ Workers \subseteq Int
  BY MainAssumption DEF Roles, Workers

LEMMA InitIInv == Init => IInv
<1> SUFFICES ASSUME Init PROVE IInv
  OBVIOUS
<1>1. TypeOK
  <2>1. streak \in [of : Brightness, n : 0 .. SWITCH_FRAMES]
    BY MainAssumption DEF Init, Brightness
  <2>2. dark_counter \in 0 .. (SWITCH_FRAMES - 1) /\ light_counter \in 0 .. (SWITCH_FRAMES - 1)
    BY MainAssumption DEF Init
  <2>3. live \in [Roles -> Nat] /\ joinable \subseteq Roles
    BY DEF Init
  <2> QED BY <2>1, <2>2, <2>3 DEF Init, TypeOK
<1>2. ThreadsAccounted
  BY DEF Init, ThreadsAccounted
<1>3. FlagInv /\ HandleInv
  BY DEF Init, FlagInv, HandleInv, Waking
<1>4. CounterInv
  BY DEF Init, CounterInv
<1> QED BY <1>1, <1>2, <1>3, <1>4 DEF IInv

\* All a sample does outside the camera's variables.
LEMMA SampleSteps ==
  SampleNothing \/ SampleDark \/ SampleNotDark
    \/ SampleLight \/ SampleNotLight =>
    /\ main = "camera" /\ main' = "loop"
    /\ UNCHANGED <<system_sleep, poweroff, is_sleeping, stop_inference, joinable,
                   live, current_frame>>
  BY DEF SampleNothing, Sample, SampleDark, SampleNotDark, SampleLight,
    SampleNotLight, threadVars, flagVars

(***************************************************************************)
(* One lemma per part of the invariant.                                    *)
(***************************************************************************)

LEMMA NextTypeOK == IInv /\ [Next]_vars => TypeOK'
<1> SUFFICES ASSUME IInv, [Next]_vars PROVE TypeOK'
  OBVIOUS
<1> USE RolesFacts, MainAssumption DEF IInv, TypeOK
<1>1. CASE ControlCommand
  BY <1>1 DEF ControlCommand, threadVars, cameraVars
<1>2. CASE CameraFrame
  BY <1>2 DEF CameraFrame, flagVars, threadVars, cameraVars
<1>3. ASSUME NEW r \in Roles, ThreadEnds(r) PROVE TypeOK'
  BY <1>3 DEF ThreadEnds, flagVars, cameraVars
<1>4. CASE SleepBegin \/ JoinThreadsDone \/ JoinServo \/ JoinServoThrows
           \/ FallAsleep \/ NothingToDo \/ CheckPoweroff \/ ShutdownBegin
  <2> USE DEF flagVars, threadVars, cameraVars
  <2>1. CASE SleepBegin
    BY <2>1 DEF SleepBegin
  <2>2. CASE JoinThreadsDone
    BY <2>2 DEF JoinThreadsDone
  <2>3. CASE JoinServo
    BY <2>3 DEF JoinServo
  <2>4. CASE JoinServoThrows
    BY <2>4 DEF JoinServoThrows
  <2>5. CASE FallAsleep \/ NothingToDo
    BY <2>5 DEF FallAsleep, NothingToDo
  <2>6. CASE CheckPoweroff \/ ShutdownBegin
    BY <2>6 DEF CheckPoweroff, ShutdownBegin
  <2> QED BY <1>4, <2>1, <2>2, <2>3, <2>4, <2>5, <2>6
<1>5. CASE WakeBegin \/ StartServo \/ WakeUp
  <2> USE DEF flagVars, threadVars, cameraVars
  <2>1. CASE WakeBegin
    BY <2>1 DEF WakeBegin
  <2>2. CASE StartServo
    BY <2>2 DEF StartServo
  <2>3. CASE WakeUp
    BY <2>3 DEF WakeUp
  <2> QED BY <1>5, <2>1, <2>2, <2>3
<1>6. ASSUME NEW i \in Workers, JoinInferenceThread(i) \/ StartInferenceThread(i)
      PROVE TypeOK'
  <2> USE DEF flagVars, threadVars, cameraVars
  <2>1. CASE JoinInferenceThread(i)
    BY <2>1 DEF JoinInferenceThread
  <2>2. CASE StartInferenceThread(i)
    <3>1. live' \in [Roles -> Nat] /\ joinable' \subseteq Roles
      BY <2>2 DEF StartInferenceThread
    <3>2. main' \in {main, "start_servo"}
      BY <2>2 DEF StartInferenceThread
    <3> QED BY <2>2, <3>1, <3>2 DEF StartInferenceThread
  <2> QED BY <1>6, <2>1, <2>2
<1>7. CASE SampleNothing
  BY <1>7 DEF SampleNothing, flagVars, threadVars, cameraVars
<1>8. CASE SampleDark \/ SampleNotDark \/ SampleLight \/ SampleNotLight
  <2>1. Sample /\ current_frame \in Brightness
    BY <1>8 DEF Sample, SampleDark, SampleNotDark, SampleLight, SampleNotLight
  <2>2. streak' \in [of : Brightness, n : 0 .. SWITCH_FRAMES]
    BY <2>1 DEF Sample, Sampled
  <2>4. camera_mode' \in BOOLEAN
    <3>1. camera_mode' \in {camera_mode, TRUE, FALSE}
      BY <1>8 DEF SampleDark, SampleNotDark, SampleLight, SampleNotLight
    <3> QED BY <3>1
  <2>3. /\ dark_counter' \in 0 .. (SWITCH_FRAMES - 1)
        /\ light_counter' \in 0 .. (SWITCH_FRAMES - 1)
    <3>1. CASE SampleDark
      BY <3>1 DEF SampleDark
    <3>2. CASE SampleLight
      <4>1. dark_counter' = 0
        BY <3>2 DEF SampleLight
      <4>2. CASE light_counter + 1 >= SWITCH_FRAMES
        <5>1. light_counter' = 0
          BY <3>2, <4>2 DEF SampleLight
        <5> QED BY <4>1, <5>1
      <4>3. CASE ~(light_counter + 1 >= SWITCH_FRAMES)
        <5>1. light_counter' = light_counter + 1
          BY <3>2, <4>3 DEF SampleLight
        <5> QED BY <4>1, <4>3, <5>1
      <4> QED BY <4>2, <4>3
    <3>3. CASE SampleNotDark \/ SampleNotLight
      BY <3>3 DEF SampleNotDark, SampleNotLight
    <3> QED BY <1>8, <3>1, <3>2, <3>3
  <2> QED BY <2>1, <2>2, <2>3, <2>4 DEF Sample, flagVars, threadVars
<1>9. CASE UNCHANGED vars
  BY <1>9 DEF vars, flagVars, threadVars, cameraVars
<1> QED BY <1>1, <1>2, <1>3, <1>4, <1>5, <1>6, <1>7, <1>8, <1>9 DEF Next, Main

\* The number of threads per role rises only where the role has no thread:
\* main starts a thread only for a role it has joined.
LEMMA NextThreadsAccounted == IInv /\ [Next]_vars => ThreadsAccounted'
<1> SUFFICES ASSUME IInv, [Next]_vars PROVE ThreadsAccounted'
  OBVIOUS
<1> USE RolesFacts DEF IInv, TypeOK, ThreadsAccounted
<1>1. ASSUME NEW r \in Roles, ThreadEnds(r) PROVE ThreadsAccounted'
  BY <1>1 DEF ThreadEnds
<1>2. ASSUME NEW i \in Workers, JoinInferenceThread(i) PROVE ThreadsAccounted'
  BY <1>2 DEF JoinInferenceThread
<1>3. CASE JoinServo
  BY <1>3 DEF JoinServo
<1>4. ASSUME NEW i \in Workers, StartInferenceThread(i) PROVE ThreadsAccounted'
  <2>1. live[i] = 0
    BY <1>4 DEF StartInferenceThread
  <2> QED BY <1>4, <2>1 DEF StartInferenceThread
<1>5. CASE StartServo
  <2>1. live[Servo] = 0
    BY <1>5, MainAssumption DEF StartServo, HandleInv
  <2> QED BY <1>5, <2>1 DEF StartServo
<1>6. CASE UNCHANGED threadVars
  BY <1>6 DEF threadVars
<1>7. CASE SampleNothing \/ SampleDark \/ SampleNotDark \/ SampleLight \/ SampleNotLight
  BY <1>6, <1>7, SampleSteps DEF threadVars
<1>8. CASE SleepBegin \/ JoinThreadsDone \/ JoinServoThrows \/ FallAsleep
           \/ WakeBegin \/ WakeUp \/ NothingToDo \/ CheckPoweroff \/ ShutdownBegin
           \/ ControlCommand \/ CameraFrame
  BY <1>6, <1>8 DEF SleepBegin, JoinThreadsDone, JoinServoThrows, FallAsleep,
    WakeBegin, WakeUp, NothingToDo, CheckPoweroff, ShutdownBegin, ControlCommand,
    CameraFrame
<1>9. CASE UNCHANGED vars
  BY <1>6, <1>9 DEF vars
<1> QED BY <1>1, <1>2, <1>3, <1>4, <1>5, <1>7, <1>8, <1>9 DEF Next, Main

LEMMA NextFlagInv == IInv /\ [Next]_vars => FlagInv'
<1> SUFFICES ASSUME FlagInv, HandleInv, [Next]_vars PROVE FlagInv'
  BY DEF IInv
<1> USE DEF FlagInv, Waking
<1>1. CASE UNCHANGED <<main, is_sleeping, stop_inference>>
  BY <1>1
<1>2. ASSUME NEW i \in Workers, JoinInferenceThread(i) PROVE FlagInv'
  BY <1>1, <1>2 DEF JoinInferenceThread
<1>3. ASSUME NEW i \in Workers, StartInferenceThread(i) PROVE FlagInv'
  BY <1>3 DEF StartInferenceThread
<1>4. ASSUME NEW r \in Roles, ThreadEnds(r) PROVE FlagInv'
  BY <1>1, <1>4 DEF ThreadEnds
<1>5. CASE ControlCommand \/ CameraFrame
  BY <1>1, <1>5 DEF ControlCommand, CameraFrame
<1>6. CASE SleepBegin \/ WakeBegin \/ ShutdownBegin
  BY <1>6 DEF SleepBegin, WakeBegin, ShutdownBegin
<1>7. CASE JoinThreadsDone \/ JoinServo
  BY <1>7 DEF JoinThreadsDone, JoinServo
<1>8. CASE JoinServoThrows
  BY <1>8 DEF JoinServoThrows
<1>9. CASE FallAsleep \/ WakeUp
  BY <1>9 DEF FallAsleep, WakeUp
<1>10. CASE StartServo
  <2>1. Servo \notin joinable
    BY <1>10, MainAssumption DEF StartServo, HandleInv
  <2> QED BY <1>10, <2>1 DEF StartServo
<1>11. CASE NothingToDo \/ CheckPoweroff
  BY <1>11 DEF NothingToDo, CheckPoweroff
<1>12. CASE SampleNothing \/ SampleDark \/ SampleNotDark \/ SampleLight \/ SampleNotLight
  BY <1>12, SampleSteps
<1>13. CASE UNCHANGED vars
  BY <1>1, <1>13 DEF vars
<1> QED BY <1>2, <1>3, <1>4, <1>5, <1>6, <1>7, <1>8, <1>9, <1>10, <1>11, <1>12,
  <1>13 DEF Next, Main

LEMMA NextHandleInv == IInv /\ [Next]_vars => HandleInv'
<1> SUFFICES ASSUME HandleInv, FlagInv, joinable \subseteq Roles, [Next]_vars
             PROVE HandleInv'
  BY DEF IInv, TypeOK
<1> USE RolesFacts, MainAssumption DEF HandleInv, Waking
<1>1. CASE UNCHANGED <<main, is_sleeping, joinable>>
  BY <1>1
<1>2. ASSUME NEW i \in Workers, JoinInferenceThread(i) PROVE HandleInv'
  BY <1>2 DEF JoinInferenceThread, FlagInv
<1>3. ASSUME NEW i \in Workers, StartInferenceThread(i) PROVE HandleInv'
  <2>1. Servo \notin joinable'
    BY <1>3 DEF StartInferenceThread
  <2>2. joinable' \subseteq Workers
    BY <1>3, <2>1 DEF StartInferenceThread, Roles
  <2> QED BY <1>3, <2>1, <2>2 DEF StartInferenceThread
<1>4. ASSUME NEW r \in Roles, ThreadEnds(r) PROVE HandleInv'
  BY <1>1, <1>4 DEF ThreadEnds
<1>5. CASE ControlCommand \/ CameraFrame
  BY <1>1, <1>5 DEF ControlCommand, CameraFrame, threadVars
<1>6. CASE SleepBegin \/ WakeBegin \/ ShutdownBegin
  <2>1. UNCHANGED <<is_sleeping, joinable>>
    BY <1>6 DEF SleepBegin, WakeBegin, ShutdownBegin, threadVars
  <2>2. CASE SleepBegin
    BY <2>1, <2>2 DEF SleepBegin
  <2>3. CASE WakeBegin
    BY <2>1, <2>3, RolesFacts DEF WakeBegin
  <2>4. CASE ShutdownBegin
    BY <2>1, <2>4 DEF ShutdownBegin
  <2> QED BY <1>6, <2>2, <2>3, <2>4
<1>7. CASE JoinThreadsDone
  <2>1. main = "join_inference" => joinable = {Servo}
    BY <1>7 DEF JoinThreadsDone, Roles
  <2> QED BY <1>7, <2>1 DEF JoinThreadsDone, threadVars, FlagInv
<1>8. CASE JoinServo
  BY <1>8 DEF JoinServo, FlagInv
<1>9. CASE JoinServoThrows
  BY <1>9 DEF JoinServoThrows, threadVars
<1>10. CASE FallAsleep \/ WakeUp
  BY <1>10 DEF FallAsleep, WakeUp, threadVars
<1>11. CASE StartServo
  BY <1>11 DEF StartServo, Roles
<1>12. CASE NothingToDo \/ CheckPoweroff
  <2>1. UNCHANGED <<is_sleeping, joinable>>
    BY <1>12 DEF NothingToDo, CheckPoweroff, threadVars
  <2>2. main \in {"loop", "check_poweroff"}
        /\ main' \in {"check_poweroff", "shutdown", "camera"}
    BY <1>12 DEF NothingToDo, CheckPoweroff
  <2> QED BY <2>1, <2>2
<1>13. CASE SampleNothing \/ SampleDark \/ SampleNotDark \/ SampleLight \/ SampleNotLight
  <2>1. main = "camera" /\ main' = "loop" /\ UNCHANGED <<is_sleeping, joinable>>
    BY <1>13, SampleSteps
  <2> QED BY <2>1
<1>14. CASE UNCHANGED vars
  BY <1>1, <1>14 DEF vars, threadVars
<1> QED BY <1>2, <1>3, <1>4, <1>5, <1>6, <1>7, <1>8, <1>9, <1>10, <1>11, <1>12,
  <1>13, <1>14 DEF Next, Main

LEMMA NextCounterInv == IInv /\ [Next]_vars => CounterInv'
<1> SUFFICES ASSUME IInv, [Next]_vars PROVE CounterInv'
  OBVIOUS
<1> USE MainAssumption DEF IInv, TypeOK, CounterInv
<1>1. CASE SampleDark
  <2>1. Sampled /\ current_frame = "dark" /\ ~camera_mode /\ light_counter' = 0
    BY <1>1 DEF Sample, SampleDark
  <2>2. streak'.of = "dark"
    BY <2>1 DEF Sampled
  <2>3. CASE dark_counter + 1 >= SWITCH_FRAMES
    <3>1. camera_mode' = TRUE
      BY <1>1, <2>3 DEF SampleDark
    <3> QED BY <2>1, <2>2, <3>1
  <2>4. CASE ~(dark_counter + 1 >= SWITCH_FRAMES)
    <3>1. dark_counter' = dark_counter + 1 /\ camera_mode' = camera_mode
      BY <1>1, <2>4 DEF SampleDark
    <3>2. streak'.n = dark_counter + 1
      BY <2>1, <2>4 DEF Sampled
    <3> QED BY <2>1, <2>2, <3>1, <3>2
  <2> QED BY <2>3, <2>4
<1>2. CASE SampleLight
  <2>1. Sampled /\ current_frame = "light" /\ camera_mode /\ dark_counter' = 0
    BY <1>2 DEF Sample, SampleLight
  <2>2. streak'.of = "light"
    BY <2>1 DEF Sampled
  <2>3. CASE light_counter + 1 >= SWITCH_FRAMES
    <3>1. camera_mode' = FALSE
      BY <1>2, <2>3 DEF SampleLight
    <3> QED BY <2>1, <2>2, <3>1
  <2>4. CASE ~(light_counter + 1 >= SWITCH_FRAMES)
    <3>1. light_counter' = light_counter + 1 /\ camera_mode' = camera_mode
      BY <1>2, <2>4 DEF SampleLight
    <3>2. streak'.n = light_counter + 1
      BY <2>1, <2>4 DEF Sampled
    <3> QED BY <2>1, <2>2, <3>1, <3>2
  <2> QED BY <2>3, <2>4
<1>7. CASE SampleNotDark
  <2>1. streak'.of # "dark" /\ dark_counter' = 0 /\ ~camera_mode /\ camera_mode' = camera_mode
    BY <1>7 DEF SampleNotDark, Sample, Sampled
  <2> QED BY <2>1
<1>8. CASE SampleNotLight
  <2>1. streak'.of # "light" /\ light_counter' = 0 /\ camera_mode /\ camera_mode' = camera_mode
    BY <1>8 DEF SampleNotLight, Sample, Sampled
  <2> QED BY <2>1
<1>3. CASE UNCHANGED cameraVars
  <2>1. UNCHANGED <<camera_mode, dark_counter, light_counter, streak>>
    BY <1>3 DEF cameraVars
  <2> QED BY <2>1
<1>4. ASSUME NEW i \in Workers, JoinInferenceThread(i) \/ StartInferenceThread(i)
      PROVE CounterInv'
  BY <1>3, <1>4 DEF JoinInferenceThread, StartInferenceThread
<1>5. ASSUME NEW r \in Roles, ThreadEnds(r) PROVE CounterInv'
  BY <1>3, <1>5 DEF ThreadEnds
<1>6. CASE UNCHANGED vars
  BY <1>3, <1>6 DEF vars
<1> QED
  BY <1>1, <1>2, <1>3, <1>4, <1>5, <1>6, <1>7, <1>8 DEF Next, Main, ControlCommand, CameraFrame,
    SleepBegin, JoinThreadsDone, JoinServo, JoinServoThrows, FallAsleep, WakeBegin,
    StartServo, WakeUp, NothingToDo, CheckPoweroff, ShutdownBegin, SampleNothing

LEMMA Inductive == Spec => []IInv
<1>1. Init => IInv
  BY InitIInv
<1>2. IInv /\ [Next]_vars => IInv'
  BY NextTypeOK, NextThreadsAccounted, NextFlagInv, NextHandleInv, NextCounterInv DEF IInv
<1> QED BY <1>1, <1>2, PTL DEF Spec

\* The types of the variables of main.
THEOREM TypeCorrect == Spec => []TypeOK
  BY Inductive, PTL DEF IInv

\* Sleep and wakeup at any moments and in any number never give a role two
\* threads, and leave no running thread that main could not join.
THEOREM ThreadsCorrect == Spec => []ThreadsAccounted
  BY Inductive, PTL DEF IInv

LEMMA PhaseSleep == IInv => AsleepMeansStopped
<1> SUFFICES ASSUME IInv, is_sleeping, ~Waking PROVE AsleepMeansStopped
  BY DEF AsleepMeansStopped
<1>1. stop_inference /\ joinable = {}
  BY DEF IInv, FlagInv, HandleInv, TypeOK, Waking
<1>2. \A r \in Roles : live[r] = 0
  BY <1>1 DEF IInv, TypeOK, ThreadsAccounted
<1> QED BY <1>1, <1>2 DEF AsleepMeansStopped

\* A station that counts as asleep runs no thread of the pipeline.
THEOREM SleepCorrect == Spec => []AsleepMeansStopped
  BY Inductive, PhaseSleep, PTL

LEMMA RestartStep ==
  IInv /\ [Next]_vars =>
    [stop_inference /\ ~stop_inference' => \A r \in Roles : live[r] = 0]_vars
<1> SUFFICES ASSUME IInv, Next, stop_inference, ~stop_inference'
             PROVE \A r \in Roles : live[r] = 0
  OBVIOUS
<1>1. WakeBegin
  BY DEF Next, Main, ControlCommand, CameraFrame, ThreadEnds, SleepBegin,
    JoinInferenceThread, JoinThreadsDone, JoinServo, JoinServoThrows, FallAsleep,
    StartInferenceThread, StartServo, WakeUp, NothingToDo, CheckPoweroff,
    ShutdownBegin, SampleNothing, Sample, SampleDark, SampleNotDark, SampleLight, SampleNotLight
<1>2. is_sleeping /\ ~Waking
  BY <1>1 DEF WakeBegin, Waking
<1> QED BY <1>2, PhaseSleep DEF AsleepMeansStopped

\* The threads are started again only after every one of them has ended.
THEOREM RestartCorrect == Spec => RestartAfterAllEnded
<1>1. [][Next]_vars /\ []IInv =>
        [][stop_inference /\ ~stop_inference' => \A r \in Roles : live[r] = 0]_vars
  BY RestartStep, PTL
<1> QED BY <1>1, Inductive, PTL DEF Spec, RestartAfterAllEnded

LEMMA SwitchStep ==
  IInv /\ [Next]_vars =>
    [camera_mode' # camera_mode =>
       streak' = [of |-> IF camera_mode' THEN "dark" ELSE "light",
                  n |-> SWITCH_FRAMES]]_vars
<1> SUFFICES ASSUME IInv, Next, camera_mode' # camera_mode
             PROVE streak' = [of |-> IF camera_mode' THEN "dark" ELSE "light",
                              n |-> SWITCH_FRAMES]
  OBVIOUS
<1> USE MainAssumption DEF IInv, TypeOK, CounterInv, Brightness
<1>1. SampleDark \/ SampleLight
  BY DEF Next, Main, ControlCommand, CameraFrame, ThreadEnds, SleepBegin,
    JoinInferenceThread, JoinThreadsDone, JoinServo, JoinServoThrows, FallAsleep,
    StartInferenceThread, StartServo, WakeBegin, WakeUp, NothingToDo, CheckPoweroff,
    ShutdownBegin, SampleNothing, SampleNotDark, SampleNotLight, cameraVars
<1>2. CASE SampleDark
  <2>1. camera_mode' = TRUE /\ current_frame = "dark" /\ Sampled
    BY <1>2 DEF Sample, SampleDark
  <2>2. dark_counter = SWITCH_FRAMES - 1 /\ ~camera_mode
    BY <1>2 DEF SampleDark
  <2> QED BY <2>1, <2>2 DEF Sampled
<1>3. CASE SampleLight
  <2>1. camera_mode' = FALSE /\ current_frame = "light" /\ Sampled
    BY <1>3 DEF Sample, SampleLight
  <2>2. light_counter = SWITCH_FRAMES - 1 /\ camera_mode
    <3>1. light_counter + 1 >= SWITCH_FRAMES /\ camera_mode
      BY <1>3 DEF SampleLight
    <3> QED BY <3>1
  <2> QED BY <2>1, <2>2 DEF Sampled
<1> QED BY <1>1, <1>2, <1>3

\* The camera is never switched on fewer than SWITCH_FRAMES samples in a row.
THEOREM SwitchCorrect == Spec => SwitchNeedsStreak
<1>1. [][Next]_vars /\ []IInv =>
        [][camera_mode' # camera_mode =>
             streak' = [of |-> IF camera_mode' THEN "dark" ELSE "light",
                        n |-> SWITCH_FRAMES]]_vars
  BY SwitchStep, PTL
<1> QED BY <1>1, Inductive, PTL DEF Spec, SwitchNeedsStreak
=============================================================================
