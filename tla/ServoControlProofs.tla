-------------------------- MODULE ServoControlProofs --------------------------
(***************************************************************************)
(* Proofs about ServoControl for any set of clients and any max_lost_.     *)
(* IInv is inductive; the safety properties of the run follow from it.     *)
(***************************************************************************)
EXTENDS ServoControl, TLAPS

LEMMA InitIInv == Init => IInv
<1> SUFFICES ASSUME Init PROVE IInv
  OBVIOUS
<1>1. TypeOK
  <2>1. lost_count_ \in 0 .. (max_lost_ + 1) /\ missed \in Nat /\ late \in Nat
    BY ServoAssumption DEF Init
  <2>2. session \in [Sessions -> {"none", "loop", "reading", "lock", "moving"}]
    BY DEF Init
  <2> QED BY <2>1, <2>2 DEF Init, TypeOK
<1>2. TrackInv /\ AutoControlReturns /\ LateInv
  BY DEF Init, TrackInv, AutoControlReturns, LateInv
<1> QED BY <1>1, <1>2 DEF IInv

(***************************************************************************)
(* What the groups of steps do to each part of the state.                  *)
(***************************************************************************)

\* The tracker's variables change in Track and WakeUp only.
LEMMA OtherStepsKeepTrack ==
  ASSUME [Next]_vars, ~Track, ~WakeUp
  PROVE  UNCHANGED <<is_active_, lost_count_, last_pred, target_detected, missed>>
<1>1. CASE TargetMoves
  BY <1>1 DEF TargetMoves, trackVars
<1>2. CASE ControlServo
  BY <1>2 DEF ControlServo, Gate, ServoLock, ServoUnlock, ServoEnds, trackVars
<1>3. ASSUME NEW s \in Sessions, ServoSession(s)
      PROVE  UNCHANGED <<is_active_, lost_count_, last_pred, target_detected, missed>>
  BY <1>3 DEF ServoSession, RemoteBegin, RemoteLoop, RemoteStops, RemoteHangsUp,
    RemoteEnd, RemoteCommand, RemoteLock, RemoteUnlock, trackVars
<1>4. CASE Main
  BY <1>4 DEF Main, StopInference, ServerStop, trackVars
<1>5. CASE UNCHANGED vars
  BY <1>5 DEF vars, trackVars
<1> QED BY <1>1, <1>2, <1>3, <1>4, <1>5 DEF Next

\* Only ServoLock and RemoteBegin count moves; only a session changes sessions
\* and the flag.
LEMMA OtherStepsKeepControl ==
  ASSUME [Next]_vars, ~ServoLock, \A s \in Sessions : ~ServoSession(s)
  PROVE  UNCHANGED <<allow_auto_control, session, late>>
<1>1. CASE TargetMoves
  BY <1>1 DEF TargetMoves
<1>2. CASE Track
  BY <1>2 DEF Track, TrackMatch, TrackFar, TrackAcquire, TrackMiss, TrackNone, NextResult
<1>3. CASE Gate \/ ServoUnlock \/ ServoEnds
  BY <1>3 DEF Gate, ServoUnlock, ServoEnds
<1>4. CASE Main
  BY <1>4 DEF Main, StopInference, WakeUp, ServerStop
<1>5. CASE UNCHANGED vars
  BY <1>5 DEF vars
<1> QED BY <1>1, <1>2, <1>3, <1>4, <1>5 DEF Next, ControlServo

\* A session's step ends in one of its places and never touches control_servo.
LEMMA SessionStep ==
  ASSUME TypeOK, NEW s \in Sessions, ServoSession(s)
  PROVE  /\ UNCHANGED <<in_view, servo, stop_inference, m_running>>
         /\ session' \in [Sessions -> {"none", "loop", "reading", "lock", "moving"}]
         /\ servo_mtx' \in Sessions \cup {Servo, NoOne}
         /\ allow_auto_control' \in BOOLEAN
         /\ late' \in {0, late}
         /\ allow_auto_control /\ ~allow_auto_control' => late' = 0
         /\ ~allow_auto_control' => session'[s] # "none"
<1> USE DEF TypeOK, mainVars
<1>1. CASE RemoteBegin(s)
  BY <1>1 DEF RemoteBegin
<1>2. CASE RemoteLoop(s) \/ RemoteCommand(s)
  BY <1>2 DEF RemoteLoop, RemoteCommand
<1>3. CASE RemoteStops(s) \/ RemoteHangsUp(s)
  BY <1>3 DEF RemoteStops, RemoteHangsUp, RemoteEnd
<1>4. CASE RemoteLock(s) \/ RemoteUnlock(s)
  BY <1>4 DEF RemoteLock, RemoteUnlock
<1> QED BY <1>1, <1>2, <1>3, <1>4 DEF ServoSession

(***************************************************************************)
(* The parts of the invariant.                                             *)
(***************************************************************************)

LEMMA NextTrackInv == IInv /\ [Next]_vars => TrackInv' /\ lost_count_' \in 0 .. (max_lost_ + 1)
<1> SUFFICES ASSUME IInv, [Next]_vars
             PROVE  TrackInv' /\ lost_count_' \in 0 .. (max_lost_ + 1)
  OBVIOUS
<1> USE ServoAssumption DEF IInv, TypeOK, TrackInv
<1>1. CASE TrackMatch
  BY <1>1 DEF TrackMatch, Predict
<1>2. CASE TrackFar
  BY <1>2 DEF TrackFar, Predict, Initialize
<1>3. CASE TrackAcquire
  BY <1>3 DEF TrackAcquire, Predict, Initialize
<1>4. CASE TrackMiss
  <2>1. last_pred /\ is_active_ /\ MarkLoss /\ Predict
    BY <1>4 DEF TrackMiss
  <2>2. lost_count_' = lost_count_ + 1 /\ (is_active_' => lost_count_ + 1 <= max_lost_)
    BY <2>1 DEF MarkLoss
  <2>3. last_pred' /\ target_detected' /\ missed' = missed + 1
    BY <1>4, <2>1 DEF TrackMiss, Predict
  <2> QED BY <2>1, <2>2, <2>3
<1>5. CASE TrackNone
  BY <1>5 DEF TrackNone
<1>6. CASE WakeUp
  BY <1>6 DEF WakeUp
<1>7. CASE ~Track /\ ~WakeUp
  BY <1>7, OtherStepsKeepTrack
<1> QED BY <1>1, <1>2, <1>3, <1>4, <1>5, <1>6, <1>7 DEF Track

LEMMA NextControl == IInv /\ [Next]_vars => AutoControlReturns' /\ LateInv'
<1> SUFFICES ASSUME IInv, [Next]_vars PROVE AutoControlReturns' /\ LateInv'
  OBVIOUS
<1> USE DEF IInv, AutoControlReturns, LateInv
<1>1. CASE ServoLock
  BY <1>1 DEF ServoLock, TypeOK
<1>2. ASSUME NEW s \in Sessions, ServoSession(s) PROVE AutoControlReturns' /\ LateInv'
  BY <1>2, SessionStep DEF TypeOK
<1>3. CASE ~ServoLock /\ \A s \in Sessions : ~ServoSession(s)
  <2>1. UNCHANGED <<allow_auto_control, session, late>>
    BY <1>3, OtherStepsKeepControl
  <2>2. servo' = "lock" => servo = "lock" \/ allow_auto_control
    <3>1. CASE Track
      BY <3>1 DEF Track, TrackMatch, TrackFar, TrackAcquire, TrackMiss, TrackNone,
        NextResult, Predict, TypeOK
    <3>2. CASE Gate \/ ServoUnlock \/ ServoEnds
      BY <3>2 DEF Gate, ServoUnlock, ServoEnds
    <3>3. CASE TargetMoves \/ Main
      BY <3>3 DEF TargetMoves, Main, StopInference, WakeUp, ServerStop
    <3>4. CASE UNCHANGED vars
      BY <3>4 DEF vars
    <3> QED BY <1>3, <3>1, <3>2, <3>3, <3>4 DEF Next, ControlServo
  <2> QED BY <2>1, <2>2
<1> QED BY <1>1, <1>2, <1>3

LEMMA NextTypeOK == IInv /\ [Next]_vars => TypeOK'
<1> SUFFICES ASSUME IInv, [Next]_vars PROVE TypeOK'
  OBVIOUS
<1> USE DEF IInv, TypeOK
<1>1. lost_count_' \in 0 .. (max_lost_ + 1)
  BY NextTrackInv
<1>2. CASE TargetMoves
  BY <1>2 DEF TargetMoves, trackVars, mainVars
<1>3. CASE Track
  <2> USE <1>1 DEF NextResult, mainVars
  <2>1. CASE TrackMatch
    BY <2>1 DEF TrackMatch, Predict
  <2>2. CASE TrackFar
    BY <2>2 DEF TrackFar, Predict, Initialize
  <2>3. CASE TrackAcquire
    BY <2>3 DEF TrackAcquire, Predict, Initialize
  <2>4. CASE TrackMiss
    <3>1. missed' \in Nat
      BY <2>4 DEF TrackMiss
    <3>2. is_active_' \in BOOLEAN /\ last_pred' \in BOOLEAN
      <4>1. CASE last_pred
        <5>1. is_active_' = (lost_count_ + 1 <= max_lost_) /\ last_pred' = TRUE
          BY <2>4, <4>1 DEF TrackMiss, MarkLoss, Predict
        <5>2. (lost_count_ + 1 <= max_lost_) \in BOOLEAN
          OBVIOUS
        <5> QED BY <5>1, <5>2, Zenon
      <4>2. CASE ~last_pred
        BY <2>4, <4>2 DEF TrackMiss
      <4> QED BY <4>1, <4>2
    <3>3. servo' \in {"wait", "gate", "lock", "moving", "stopped"}
      BY <2>4 DEF TrackMiss, Predict
    <3> QED BY <2>4, <3>1, <3>2, <3>3 DEF TrackMiss
  <2>5. CASE TrackNone
    BY <2>5 DEF TrackNone
  <2> QED BY <1>3, <2>1, <2>2, <2>3, <2>4, <2>5 DEF Track
<1>4. CASE Gate \/ ServoUnlock \/ ServoEnds
  BY <1>4 DEF Gate, ServoUnlock, ServoEnds, trackVars, mainVars
<1>5. CASE ServoLock
  BY <1>5 DEF ServoLock, trackVars, mainVars
<1>6. ASSUME NEW s \in Sessions, ServoSession(s) PROVE TypeOK'
  <2>1. ~Track /\ ~WakeUp
    BY <1>6, SessionStep DEF Track, TrackMatch, TrackFar, TrackAcquire, TrackMiss,
      TrackNone, WakeUp, NextResult, Predict, mainVars, ServoSession, RemoteBegin,
      RemoteLoop, RemoteStops, RemoteHangsUp, RemoteEnd, RemoteCommand, RemoteLock,
      RemoteUnlock
  <2>2. UNCHANGED <<is_active_, lost_count_, last_pred, target_detected, missed>>
    BY <2>1, OtherStepsKeepTrack
  <2> QED BY <1>6, <2>2, SessionStep
<1>7. CASE StopInference \/ WakeUp \/ ServerStop
  <2>1. CASE StopInference \/ ServerStop
    BY <2>1 DEF StopInference, ServerStop, trackVars
  <2>2. CASE WakeUp
    <3>1. missed' \in Nat
      BY <2>2 DEF WakeUp
    <3> QED BY <1>1, <2>2, <3>1 DEF WakeUp
  <2> QED BY <1>7, <2>1, <2>2
<1>8. CASE UNCHANGED vars
  BY <1>8 DEF vars, trackVars, mainVars
<1> QED BY <1>2, <1>3, <1>4, <1>5, <1>6, <1>7, <1>8 DEF Next, ControlServo, Main

(***************************************************************************)
(* Theorems.                                                               *)
(***************************************************************************)

\* The inductive invariant of the tracker and of the hand-over of control.
THEOREM Invariant == Spec => []IInv
<1>1. IInv /\ [Next]_vars => IInv'
  BY NextTypeOK, NextTrackInv, NextControl DEF IInv
<1> QED BY InitIInv, <1>1, PTL DEF Spec

\* Every variable keeps its type; lost_count_ never passes max_lost_ + 1.
THEOREM TypeCorrect == Spec => []TypeOK
<1>1. IInv => TypeOK
  BY DEF IInv
<1> QED BY Invariant, <1>1, PTL

\* A track always has a prediction, is reported, and ends in time: for every
\* max_lost_ and every alternation of results.
THEOREM TrackCorrect == Spec => [](PredictionAtHand /\ HeldNotTooLong /\ TrackingIsReported)
<1>1. IInv => PredictionAtHand /\ HeldNotTooLong /\ TrackingIsReported
  BY ServoAssumption DEF IInv, TypeOK, TrackInv, PredictionAtHand, HeldNotTooLong,
    TrackingIsReported
<1> QED BY Invariant, <1>1, PTL

\* Control comes back when the last session ends, and control_servo moves at
\* most once after it has lost control: for any number of clients.
THEOREM HandoverCorrect == Spec => [](AutoControlReturns /\ AtMostOneLateMove)
<1>1. IInv => AutoControlReturns /\ AtMostOneLateMove
  BY DEF IInv, LateInv, AtMostOneLateMove
<1> QED BY Invariant, <1>1, PTL

\* When no servo session is open control_servo has control, however the sessions
\* of any number of clients overlapped and ended.
THEOREM AutoControlCorrect == Spec => []AutoControlReturns
BY HandoverCorrect, PTL
=============================================================================
