---------------------------- MODULE ServoControl ----------------------------
(***************************************************************************)
(* Who moves the servos: control_servo with its ByteTracker, and the       *)
(* remote sessions of the server (servo_control).  They share the flag     *)
(* allow_auto_control and the mutex of the servo port.                     *)
(*                                                                         *)
(* Angles, the Kalman filter and the smoothing are abstracted: of a result *)
(* the tracker's state depends only on whether it shows the target and, if *)
(* so, whether within match_threshold_ of the track.                       *)
(***************************************************************************)
EXTENDS Integers

CONSTANTS
  Sessions,    \* clients that may open a servo session
  Servo,       \* control_servo, as a holder of servo_mtx
  NoOne,       \* servo_mtx is free
  max_lost_    \* results without the target a track may have

ASSUME ServoAssumption ==
  /\ max_lost_ \in Nat
  /\ Servo \notin Sessions
  /\ NoOne \notin Sessions \cup {Servo}

VARIABLES
  in_view,             \* environment: the target can be detected
  servo,               \* where control_servo is
  is_active_, lost_count_,
  last_pred,           \* last_pred_theta: FALSE while it is NAN
  target_detected,     \* what get_status reports
  allow_auto_control,
  servo_mtx,
  session,             \* where the servo session of each client is
  stop_inference, m_running,
  missed,              \* auxiliary: results without the target in a row
  late                 \* auxiliary: moves of control_servo since its control
                       \* was last withdrawn

trackVars  == <<is_active_, lost_count_, last_pred, target_detected, missed>>
mainVars   == <<stop_inference, m_running>>
vars == <<in_view, servo, trackVars, allow_auto_control, servo_mtx, session,
          mainVars, late>>

Init ==
  /\ in_view \in BOOLEAN
  /\ servo = "wait"
  /\ is_active_ = FALSE
  /\ lost_count_ = 0
  /\ last_pred = FALSE
  /\ target_detected = FALSE
  /\ allow_auto_control = TRUE
  /\ servo_mtx = NoOne
  /\ session = [s \in Sessions |-> "none"]
  /\ stop_inference = FALSE
  /\ m_running = TRUE
  /\ missed = 0
  /\ late = 0

\* The target flies into the view of the cameras, or out of it.
TargetMoves ==
  /\ in_view' = ~in_view
  /\ UNCHANGED <<servo, trackVars, allow_auto_control, servo_mtx, session,
                 mainVars, late>>

-----------------------------------------------------------------------------
(* control_servo: one result, up to the test of allow_auto_control.         *)

\* Awake with a new result; stop_inference is looked at first.
NextResult ==
  /\ servo = "wait"
  /\ ~stop_inference
  /\ UNCHANGED <<in_view, allow_auto_control, servo_mtx, session, mainVars,
                 late>>

\* Mutant of Initialize: the losses of the track before stay.
InitializeKeepsLosses ==
  /\ is_active_' = TRUE
  /\ lost_count_' = lost_count_

\* ByteTracker::initialize
Initialize ==
  /\ is_active_' = TRUE
  /\ lost_count_' = 0

\* Mutant of MarkLoss: a loss counts only if the one before did not.
MarkLossOff ==
  /\ lost_count_' = lost_count_ + 1
  /\ is_active_' = (lost_count_ <= max_lost_)

\* ByteTracker::mark_loss
MarkLoss ==
  /\ lost_count_' = lost_count_ + 1
  /\ is_active_' = (lost_count_ + 1 <= max_lost_)

\* The prediction is kept for a result that does not show the target.
Predict ==
  /\ last_pred' = TRUE
  /\ servo' = "gate"

\* The detection continues the track: update() leaves lost_count_ alone.
TrackMatch ==
  /\ NextResult
  /\ in_view /\ is_active_
  /\ Predict
  /\ missed' = 0
  /\ UNCHANGED <<is_active_, lost_count_, target_detected>>

\* The detection is too far from the track, a new one begins.
TrackFar ==
  /\ NextResult
  /\ in_view /\ is_active_
  /\ Initialize
  /\ Predict
  /\ missed' = 0
  /\ UNCHANGED target_detected

TrackAcquire ==
  /\ NextResult
  /\ in_view /\ ~is_active_
  /\ target_detected' = TRUE
  /\ Initialize
  /\ Predict
  /\ missed' = 0

\* No detection (the detector may miss a target in view): the track goes on
\* along its own prediction, even in the round that deactivates it.
TrackMiss ==
  /\ NextResult
  /\ is_active_
  /\ missed' = missed + 1
  /\ IF last_pred
     THEN MarkLoss /\ Predict
     ELSE UNCHANGED <<is_active_, lost_count_, last_pred, servo>>
  /\ UNCHANGED target_detected

\* Mutant of TrackNone: the status is left as it is.
TrackNoneSilent ==
  /\ NextResult
  /\ ~is_active_
  /\ UNCHANGED <<trackVars, servo>>

\* No track and no detection.
TrackNone ==
  /\ NextResult
  /\ ~is_active_
  /\ target_detected' = FALSE
  /\ UNCHANGED <<is_active_, lost_count_, last_pred, missed, servo>>

-----------------------------------------------------------------------------
(* control_servo: the move.                                                 *)

\* Mutant of Gate: the flag is not looked at.
GateOpen ==
  /\ servo = "gate"
  /\ servo' = "lock"
  /\ UNCHANGED <<in_view, trackVars, allow_auto_control, servo_mtx, session,
                 mainVars, late>>

\* The flag is tested before the lock is taken.
Gate ==
  /\ servo = "gate"
  /\ servo' = IF allow_auto_control THEN "lock" ELSE "wait"
  /\ UNCHANGED <<in_view, trackVars, allow_auto_control, servo_mtx, session,
                 mainVars, late>>

\* From here the port is control_servo's: convert the angles, write, sleep.
ServoLock ==
  /\ servo = "lock"
  /\ servo_mtx = NoOne
  /\ servo_mtx' = Servo
  /\ servo' = "moving"
  /\ late' = IF allow_auto_control THEN late ELSE late + 1
  /\ UNCHANGED <<in_view, trackVars, allow_auto_control, session, mainVars>>

ServoUnlock ==
  /\ servo = "moving"
  /\ servo_mtx' = NoOne
  /\ servo' = "wait"
  /\ UNCHANGED <<in_view, trackVars, allow_auto_control, session, mainVars,
                 late>>

-----------------------------------------------------------------------------
(* servo_control: a remote session.                                         *)

\* The session takes control from control_servo.
RemoteBegin(s) ==
  /\ session[s] = "none"
  /\ allow_auto_control' = FALSE
  /\ late' = IF allow_auto_control THEN 0 ELSE late
  /\ session' = [session EXCEPT ![s] = "loop"]
  /\ UNCHANGED <<in_view, servo, trackVars, servo_mtx, mainVars>>

\* Mutant of RemoteEnd: control is not given back.
RemoteEndKeepsControl(s) ==
  /\ session' = [session EXCEPT ![s] = "none"]
  /\ UNCHANGED <<in_view, servo, trackVars, allow_auto_control, servo_mtx,
                 mainVars, late>>

\* Every way out of the session gives control back, whoever else is there.
RemoteEnd(s) ==
  /\ allow_auto_control' = TRUE
  /\ session' = [session EXCEPT ![s] = "none"]
  /\ UNCHANGED <<in_view, servo, trackVars, servo_mtx, mainVars, late>>

\* The head of the session's loop: stop() ends it here.
RemoteLoop(s) ==
  /\ session[s] = "loop"
  /\ m_running
  /\ session' = [session EXCEPT ![s] = "reading"]
  /\ UNCHANGED <<in_view, servo, trackVars, allow_auto_control, servo_mtx,
                 mainVars, late>>

RemoteStops(s) ==
  /\ session[s] = "loop"
  /\ ~m_running
  /\ RemoteEnd(s)

\* read() fails or the client has closed the connection.
RemoteHangsUp(s) ==
  /\ session[s] = "reading"
  /\ RemoteEnd(s)

\* Two angle offsets have been read.
RemoteCommand(s) ==
  /\ session[s] = "reading"
  /\ session' = [session EXCEPT ![s] = "lock"]
  /\ UNCHANGED <<in_view, servo, trackVars, allow_auto_control, servo_mtx,
                 mainVars, late>>

RemoteLock(s) ==
  /\ session[s] = "lock"
  /\ servo_mtx = NoOne
  /\ servo_mtx' = s
  /\ session' = [session EXCEPT ![s] = "moving"]
  /\ UNCHANGED <<in_view, servo, trackVars, allow_auto_control, mainVars,
                 late>>

RemoteUnlock(s) ==
  /\ session[s] = "moving"
  /\ servo_mtx' = NoOne
  /\ session' = [session EXCEPT ![s] = "loop"]
  /\ UNCHANGED <<in_view, servo, trackVars, allow_auto_control, mainVars,
                 late>>

-----------------------------------------------------------------------------
(* main.                                                                    *)

\* Sleep, or the beginning of the shutdown.
StopInference ==
  /\ ~stop_inference
  /\ stop_inference' = TRUE
  /\ UNCHANGED <<in_view, servo, trackVars, allow_auto_control, servo_mtx,
                 session, m_running, late>>

ServoEnds ==
  /\ servo = "wait"
  /\ stop_inference
  /\ servo' = "stopped"
  /\ UNCHANGED <<in_view, trackVars, allow_auto_control, servo_mtx, session,
                 mainVars, late>>

\* main starts a new thread, and its locals are new: tracker, filter and
\* prediction.  target_detected is global and stays.
WakeUp ==
  /\ servo = "stopped"
  /\ m_running
  /\ stop_inference' = FALSE
  /\ servo' = "wait"
  /\ is_active_' = FALSE
  /\ lost_count_' = 0
  /\ last_pred' = FALSE
  /\ missed' = 0
  /\ UNCHANGED <<in_view, target_detected, allow_auto_control, servo_mtx,
                 session, m_running, late>>

\* The shutdown calls server.stop() when control_servo has been joined.
ServerStop ==
  /\ servo = "stopped"
  /\ m_running
  /\ m_running' = FALSE
  /\ UNCHANGED <<in_view, servo, trackVars, allow_auto_control, servo_mtx,
                 session, stop_inference, late>>

-----------------------------------------------------------------------------
Track == TrackMatch \/ TrackFar \/ TrackAcquire \/ TrackMiss \/ TrackNone

ControlServo == Track \/ Gate \/ ServoLock \/ ServoUnlock \/ ServoEnds

ServoSession(s) ==
  \/ RemoteBegin(s)
  \/ RemoteLoop(s)
  \/ RemoteStops(s)
  \/ RemoteHangsUp(s)
  \/ RemoteCommand(s)
  \/ RemoteLock(s)
  \/ RemoteUnlock(s)

Main == StopInference \/ WakeUp \/ ServerStop

Next ==
  \/ TargetMoves
  \/ ControlServo
  \/ \E s \in Sessions : ServoSession(s)
  \/ Main

Spec == Init /\ [][Next]_vars

\* control_servo runs and is given results (FramePipeline); the port goes to
\* a thread that waits for it again and again, and is given back.  Clients,
\* main and the target owe nothing.
FairSpec ==
  /\ Spec
  /\ WF_vars(Track) /\ WF_vars(Gate)
  /\ SF_vars(ServoLock) /\ WF_vars(ServoUnlock)
  /\ WF_vars(ServoEnds)
  /\ \A s \in Sessions : WF_vars(RemoteUnlock(s))

-----------------------------------------------------------------------------
(* Properties.                                                              *)

\* Every variable keeps its type; the loss counter of a track is bounded
\* (mark_loss: deactivation at the first count above max_lost_).
TypeOK ==
  /\ in_view \in BOOLEAN
  /\ servo \in {"wait", "gate", "lock", "moving", "stopped"}
  /\ is_active_ \in BOOLEAN
  /\ lost_count_ \in 0 .. (max_lost_ + 1)
  /\ last_pred \in BOOLEAN
  /\ target_detected \in BOOLEAN
  /\ allow_auto_control \in BOOLEAN
  /\ servo_mtx \in Sessions \cup {Servo, NoOne}
  /\ session \in [Sessions -> {"none", "loop", "reading", "lock", "moving"}]
  /\ stop_inference \in BOOLEAN
  /\ m_running \in BOOLEAN
  /\ missed \in Nat
  /\ late \in Nat

\* However results with and without the target alternate, a target that has
\* not been seen for more than max_lost_ results is tracked no longer.
HeldNotTooLong == is_active_ => missed <= max_lost_

\* When no servo session is open control_servo has control, however sessions
\* overlapped and ended.
AutoControlReturns ==
  (\A s \in Sessions : session[s] = "none") => allow_auto_control

\* control_servo tests allow_auto_control before it waits for the port, so it
\* may move the servos when control has been withdrawn; but only once, with
\* the decision it had taken by then.
AtMostOneLateMove == late <= 1

\* A target that is gone for good is reported lost in the end, unless the
\* station sleeps: by then the track has run out of losses, and sessions
\* that hold the port cannot keep control_servo from looking.
LossReported ==
  <>[](~in_view /\ ~stop_inference) => <>[](~target_detected)

\* A track ends when the target has been lost "for too long": for more than
\* max_lost_ results one after the other.
LostTooLong ==
  [][is_active_ /\ ~is_active_' /\ servo # "stopped" => missed' > max_lost_]_vars

-----------------------------------------------------------------------------
(* The inductive invariant.                                                 *)

\* What the tracker relies on while it is active.
TrackInv ==
  is_active_ =>
    /\ last_pred
    /\ target_detected
    /\ missed <= lost_count_
    /\ lost_count_ <= max_lost_

\* control_servo that waits for the port with its decision has not used up
\* its late move.
LateInv ==
  /\ late <= 1
  /\ servo = "lock" /\ ~allow_auto_control => late = 0

\* A track that has to go on without a detection has a prediction to go on
\* with: control_servo never gets to "No valid prediction available", also
\* not with the new tracker of a station that has slept.
PredictionAtHand == is_active_ => last_pred

\* While control_servo follows a track the status reports a target: a client
\* never sees the servos move by themselves for a target that is not there.
TrackingIsReported ==
  is_active_ /\ servo # "stopped" => target_detected

IInv == TypeOK /\ TrackInv /\ AutoControlReturns /\ LateInv
=============================================================================
