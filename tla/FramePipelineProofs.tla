------------------------- MODULE FramePipelineProofs -------------------------
(***************************************************************************)
(* Proofs about FramePipeline, for any number of inference threads, video  *)
(* and servo sessions, and for queues of any capacity.                     *)
(*                                                                         *)
(* The invariant is layered: TypeOK with LockInv is inductive on its own,  *)
(* the invariants on numbers and on results are inductive relative to it.  *)
(***************************************************************************)
EXTENDS FramePipeline, FiniteSetTheorems, SequenceTheorems,
        WellFoundedInduction, TLAPS

(***************************************************************************)
(* The sequences of the raw queue.                                         *)
(***************************************************************************)

\* Dropping the oldest frame leaves a shorter queue of the same frames, in the
\* same order.
LEMMA MakeRoomShifts ==
  ASSUME NEW S, NEW q \in Seq(S)
  PROVE  /\ MakeRoom(q) \in Seq(S)
         /\ \E d \in {0, 1} :
              /\ Len(MakeRoom(q)) = Len(q) - d
              /\ \A i \in 1 .. Len(MakeRoom(q)) : MakeRoom(q)[i] = q[i + d]
         /\ Len(q) <= MaxRaw => Len(MakeRoom(q)) < MaxRaw
<1>1. CASE Len(q) >= MaxRaw
  <2>1. q # <<>>
    BY <1>1, PipelineAssumption
  <2>2. MakeRoom(q) = Tail(q)
    BY <1>1 DEF MakeRoom
  <2>3. /\ Tail(q) \in Seq(S)
        /\ Len(Tail(q)) = Len(q) - 1
        /\ \A i \in 1 .. Len(Tail(q)) : Tail(q)[i] = q[i + 1]
    BY <2>1
  <2> QED
    BY <2>2, <2>3, PipelineAssumption
<1>2. CASE ~(Len(q) >= MaxRaw)
  BY <1>2, PipelineAssumption DEF MakeRoom
<1> QED
  BY <1>1, <1>2

\* Taking the newest frame off the back of the queue.
LEMMA LastAndFront ==
  ASSUME NEW S, NEW q \in Seq(S), q # <<>>
  PROVE  /\ Last(q) = q[Len(q)]
         /\ Last(q) \in S
         /\ Front(q) \in Seq(S)
         /\ Len(Front(q)) = Len(q) - 1
         /\ \A i \in 1 .. Len(Front(q)) : Front(q)[i] = q[i]
<1>1. Len(q) \in Nat \ {0}
  OBVIOUS
<1>2. Last(q) = q[Len(q)] /\ Last(q) \in S
  BY <1>1 DEF Last
<1>3. Front(q) = SubSeq(q, 1, Len(q) - 1)
  BY DEF Front
<1>4. PICK n \in Nat : n = Len(q) - 1 /\ n <= Len(q)
  <2>1. Len(q) - 1 \in Nat /\ Len(q) - 1 <= Len(q)
    BY <1>1
  <2> WITNESS Len(q) - 1 \in Nat
  <2> QED
    BY <2>1
<1>5. /\ Front(q) \in Seq(S)
      /\ Len(Front(q)) = Len(q) - 1
      /\ \A i \in 1 .. Len(Front(q)) : Front(q)[i] = q[i]
  <2>1. Front(q) = SubSeq(q, 1, n)
    BY <1>3, <1>4
  <2>2. SubSeq(q, 1, n) \in Seq(S) /\ Len(SubSeq(q, 1, n)) = n
    BY <1>4
  <2>3. \A i \in 1 .. n : SubSeq(q, 1, n)[i] = q[i]
    BY <1>4
  <2> QED
    BY <1>4, <2>1, <2>2, <2>3
<1> QED
  BY <1>2, <1>5, Zenon

(***************************************************************************)
(* The keys of the result map.                                             *)
(***************************************************************************)

\* A set of numbers that is not empty has a smallest one.
LEMMA SmallestExists ==
  ASSUME NEW S \in SUBSET Nat, S # {}
  PROVE  \E m \in S : \A s \in S : m <= s
<1>1. PICK m \in S : \A s \in S : ~(<<s, m>> \in OpToRel(<, Nat))
  BY NatLessThanWellFounded, WFMin
<1>2. \A s \in S : ~(s < m)
  BY <1>1 DEF OpToRel
<1> QED
  BY <1>2

\* KeepNewest drops at most the smallest key, and none that is the largest.
LEMMA KeepNewestDrops ==
  ASSUME NEW S \in SUBSET Nat, IsFiniteSet(S), S # {}
  PROVE  /\ KeepNewest(S) \subseteq S
         /\ KeepNewest(S) # {}
         /\ Cardinality(S) <= MaxInference + 1
              => Cardinality(KeepNewest(S)) <= MaxInference
         /\ Newest(S) \subseteq KeepNewest(S)
<1>1. CASE Cardinality(S) > MaxInference
  <2>1. PICK m \in S : \A s \in S : m <= s
    BY SmallestExists
  <2>2. KeepNewest(S) = S \ {m}
    <3>1. KeepNewest(S) = {s \in S : \E t \in S : t < s}
      BY <1>1 DEF KeepNewest
    <3>2. \A s \in S : s # m <=> \E t \in S : t < s
      BY <2>1
    <3> QED
      BY <3>1, <3>2, Zenon
  <2>3. /\ Cardinality(S \ {m}) = Cardinality(S) - 1
        /\ Cardinality(S) \in Nat
    BY <2>1, FS_RemoveElement, FS_CardinalityType
  <2>4. S # {m}
    <3>1. Cardinality({m}) = 1
      BY FS_Singleton, Zenon
    <3> QED
      BY <1>1, <3>1, PipelineAssumption
  <2>5. PICK s \in S : s # m
    BY <2>4
  <2>6. m \notin Newest(S)
    BY <2>1, <2>5 DEF Newest
  <2>7. Cardinality(S) <= MaxInference + 1
          => Cardinality(KeepNewest(S)) <= MaxInference
    BY <2>2, <2>3, PipelineAssumption
  <2>8. Newest(S) \subseteq KeepNewest(S)
    BY <2>2, <2>6, Zenon DEF Newest
  <2> QED
    BY <2>2, <2>5, <2>7, <2>8
<1>2. CASE ~(Cardinality(S) > MaxInference)
  <2>1. Cardinality(S) \in Nat
    BY FS_CardinalityType
  <2> QED
    BY <1>2, <2>1, PipelineAssumption DEF KeepNewest, Newest
<1> QED
  BY <1>1, <1>2

(***************************************************************************)
(* Types and locks.                                                        *)
(***************************************************************************)

\* The first layer holds initially.
LEMMA InitLock == Init => TypeOK /\ LockInv
<1> SUFFICES ASSUME Init PROVE TypeOK /\ LockInv
  OBVIOUS
<1> USE DEF Init, Cameras, SeqNum, NoSeq
<1>1. sequence_number_ \in 0 .. MaxFrames
  BY PipelineAssumption
<1>2. TypeOK
  <2>1. raw_queue \in Seq(SeqNum) /\ inference_queue \subseteq SeqNum
    OBVIOUS
  <2>2. /\ cam \in [Cameras -> {"idle", "enter", "locked", "reading", "append"}]
        /\ worker \in [Workers -> {"off", "loop", "fetch", "infer", "notify"}]
        /\ frame \in [Workers -> SeqNum \cup {NoSeq}]
        /\ viewer_seen \in [Viewers -> SeqNum \cup {NoSeq}]
    OBVIOUS
  <2> QED
    BY <1>1, <2>1, <2>2 DEF TypeOK
<1>3. LockInv
  BY PipelineAssumption DEF LockInv
<1> QED
  BY <1>2, <1>3

\* push_raw keeps the types, and holds mutex_ and servo_mtx where it should.
LEMMA CameraLock ==
  ASSUME TypeOK, LockInv, NEW c \in Cameras, PushRaw(c)
  PROVE  TypeOK' /\ LockInv'
<1> USE DEF Cameras, SeqNum, NoSeq, queueVars, lockVars, cameraVars,
            workerVars, servoVars, controlVars
<1>1. CASE FrameCallback(c)
  BY <1>1 DEF FrameCallback, TypeOK, LockInv
<1>2. CASE PushRawEmpty(c)
  BY <1>2 DEF PushRawEmpty, TypeOK, LockInv
<1>3. CASE PushRawBegin(c)
  <2>1. raw_queue' \in Seq(SeqNum)
    BY <1>3, MakeRoomShifts DEF PushRawBegin, TypeOK
  <2>2. sequence_number_ \in SeqNum /\ sequence_number_' \in 0 .. MaxFrames
    BY <1>3, PipelineAssumption DEF PushRawBegin, TypeOK
  <2>3. TypeOK'
    BY <1>3, <2>1, <2>2 DEF PushRawBegin, TypeOK
  <2>4. LockInv'
    BY <1>3, <2>2, PipelineAssumption DEF PushRawBegin, TypeOK, LockInv
  <2> QED
    BY <2>3, <2>4
<1>4. CASE PushRawServoLock(c)
  BY <1>4, PipelineAssumption DEF PushRawServoLock, TypeOK, LockInv
<1>5. CASE PushRawServoUnlock(c)
  BY <1>5, PipelineAssumption DEF PushRawServoUnlock, TypeOK, LockInv
<1>6. CASE PushRawEnqueue(c)
  <2>1. mutex_ = c /\ pushing \in SeqNum
    BY <1>6, PipelineAssumption DEF PushRawEnqueue, TypeOK, LockInv
  <2>2. raw_queue' \in Seq(SeqNum)
    BY <1>6, <2>1 DEF PushRawEnqueue, TypeOK
  <2>3. TypeOK'
    BY <1>6, <2>2 DEF PushRawEnqueue, TypeOK
  <2>4. LockInv'
    BY <1>6, <2>1, PipelineAssumption DEF PushRawEnqueue, TypeOK, LockInv
  <2> QED
    BY <2>3, <2>4
<1> QED
  BY <1>1, <1>2, <1>3, <1>4, <1>5, <1>6 DEF PushRaw

\* An inference thread holds a frame exactly while it infers.
LEMMA WorkerLock ==
  ASSUME TypeOK, LockInv, NEW w \in Workers, InferenceThread(w)
  PROVE  TypeOK' /\ LockInv'
<1> USE DEF queueVars, lockVars, cameraVars, workerVars, servoVars, controlVars
<1>1. CASE WorkerLoop(w)
  BY <1>1 DEF WorkerLoop, TypeOK, LockInv
<1>2. CASE GetLatestRaw(w)
  <2>1. Last(raw_queue) \in SeqNum /\ Front(raw_queue) \in Seq(SeqNum)
    BY <1>2, LastAndFront DEF GetLatestRaw, TypeOK
  <2>2. Last(raw_queue) # NoSeq
    BY <2>1 DEF SeqNum, NoSeq
  <2>3. TypeOK'
    BY <1>2, <2>1 DEF GetLatestRaw, TypeOK
  <2>4. LockInv'
    BY <1>2, <2>2 DEF GetLatestRaw, TypeOK, LockInv
  <2> QED
    BY <2>3, <2>4
<1>3. CASE GetLatestRawEmpty(w)
  BY <1>3 DEF GetLatestRawEmpty, TypeOK, LockInv
<1>4. CASE PushInference(w)
  <2>1. frame[w] \in SeqNum
    BY <1>4 DEF PushInference, TypeOK, LockInv
  <2>2. inference_queue' \subseteq SeqNum
    BY <1>4, <2>1 DEF PushInference, KeepNewest, TypeOK
  <2>3. TypeOK'
    BY <1>4, <2>2 DEF PushInference, TypeOK
  <2>4. LockInv'
    BY <1>4 DEF PushInference, TypeOK, LockInv
  <2> QED
    BY <2>3, <2>4
<1>5. CASE Notify(w)
  BY <1>5 DEF Notify, TypeOK, LockInv
<1> QED
  BY <1>1, <1>2, <1>3, <1>4, <1>5 DEF InferenceThread

\* control_servo holds servo_mtx exactly while it writes to the port.
LEMMA ServoThreadLock ==
  ASSUME TypeOK, LockInv, ServoThread
  PROVE  TypeOK' /\ LockInv'
<1> USE DEF queueVars, lockVars, cameraVars, workerVars, servoVars, controlVars
<1>1. CASE ServoWake
  BY <1>1 DEF ServoWake, TypeOK, LockInv
<1>2. CASE ServoClear
  BY <1>2 DEF ServoClear, TypeOK, LockInv
<1>3. CASE GetLatestInference
  <2>1. servo_seen' \in SeqNum \cup {NoSeq}
    BY <1>3 DEF GetLatestInference, Newest, TypeOK
  <2> QED
    BY <1>3, <2>1 DEF GetLatestInference, TypeOK, LockInv
<1>4. CASE ServoDecide
  BY <1>4 DEF ServoDecide, TypeOK, LockInv
<1>5. CASE ServoLock
  BY <1>5, PipelineAssumption DEF ServoLock, TypeOK, LockInv
<1>6. CASE ServoUnlock
  BY <1>6, PipelineAssumption DEF ServoUnlock, TypeOK, LockInv
<1> QED
  BY <1>1, <1>2, <1>3, <1>4, <1>5, <1>6 DEF ServoThread

\* The first layer is inductive.
LEMMA NextLock == TypeOK /\ LockInv /\ [Next]_vars => TypeOK' /\ LockInv'
<1> SUFFICES ASSUME TypeOK, LockInv, [Next]_vars
             PROVE  TypeOK' /\ LockInv'
  OBVIOUS
<1> USE DEF queueVars, lockVars, cameraVars, workerVars, servoVars, controlVars
<1>1. ASSUME NEW v \in Viewers, ViewerGet(v)
      PROVE  TypeOK' /\ LockInv'
  <2>1. PICK s \in Newest(inference_queue) :
          viewer_seen' = [viewer_seen EXCEPT ![v] = s]
    BY <1>1 DEF ViewerGet
  <2>2. s \in SeqNum
    BY <2>1 DEF Newest, TypeOK
  <2> QED
    BY <1>1, <2>1, <2>2 DEF ViewerGet, TypeOK, LockInv
<1>2. ASSUME NEW r \in Remotes, RemoteLock(r)
      PROVE  TypeOK' /\ LockInv'
  BY <1>2, PipelineAssumption DEF RemoteLock, TypeOK, LockInv
<1>3. ASSUME NEW r \in Remotes, RemoteUnlock(r)
      PROVE  TypeOK' /\ LockInv'
  BY <1>3, PipelineAssumption DEF RemoteUnlock, TypeOK, LockInv
<1>4. CASE SwitchCamera
  BY <1>4 DEF SwitchCamera, TypeOK, LockInv
<1>5. CASE StopInference
  BY <1>5 DEF StopInference, TypeOK, LockInv
<1>6. CASE RestartThreads
  BY <1>6 DEF RestartThreads, AllOff, TypeOK, LockInv
<1>7. CASE UNCHANGED vars
  BY <1>7 DEF vars, TypeOK, LockInv
<1> QED
  BY <1>1, <1>2, <1>3, <1>4, <1>5, <1>6, <1>7, CameraLock, WorkerLock,
     ServoThreadLock DEF Next

\* The variables have their types, and each mutex is held exactly by the thread
\* that is inside its critical section.
THEOREM LockCorrect == Spec => [](TypeOK /\ LockInv)
<1>1. TypeOK /\ LockInv /\ [Next]_vars => (TypeOK /\ LockInv)'
  BY NextLock
<1> QED
  BY <1>1, InitLock, PTL DEF Spec

THEOREM TypeCorrect == Spec => []TypeOK
  BY LockCorrect, PTL

(***************************************************************************)
(* Numbers: order of the raw queue, and each frame in one place.           *)
(***************************************************************************)

\* The second layer, with the elements of the queue spelled by their index.
OrderInv == NumberInv /\ RawQueueOrdered /\ FrameHeldOnce

LEMMA ElementsOfQueue ==
  ASSUME NEW S, NEW q \in Seq(S)
  PROVE  \A x : x \in ToSet(q) <=> \E i \in 1 .. Len(q) : q[i] = x
  BY DEF ToSet

LEMMA QueuedNumbers ==
  ASSUME TypeOK
  PROVE  \A i \in 1 .. Len(raw_queue) : raw_queue[i] \in Nat
<1>1. raw_queue \in Seq(SeqNum)
  BY DEF TypeOK
<1>2. \A i \in 1 .. Len(raw_queue) : raw_queue[i] \in SeqNum
  BY <1>1
<1> QED
  BY <1>2, PipelineAssumption DEF SeqNum

LEMMA InitOrder == Init => OrderInv
<1> SUFFICES ASSUME Init PROVE OrderInv
  OBVIOUS
<1> USE DEF Init, NoSeq
<1>1. ToSet(raw_queue) = {}
  BY DEF ToSet
<1>2. NumberInv
  BY DEF NumberInv
<1>3. RawQueueOrdered
  BY PipelineAssumption DEF RawQueueOrdered
<1>4. FrameHeldOnce
  BY <1>1 DEF FrameHeldOnce
<1> QED
  BY <1>2, <1>3, <1>4 DEF OrderInv

\* Steps that leave the queues, the numbers and the frames alone.
LEMMA StutterOrder ==
  ASSUME OrderInv, UNCHANGED <<queueVars, pushing, frame>>
  PROVE  OrderInv'
  BY DEF OrderInv, NumberInv, RawQueueOrdered, FrameHeldOnce, queueVars

\* A new number is larger than all others, and the queue made room for it.
LEMMA PushRawBeginOrder ==
  ASSUME TypeOK, LockInv, OrderInv, NEW c \in Cameras, PushRawBegin(c)
  PROVE  OrderInv'
<1> DEFINE q == raw_queue
           r == MakeRoom(raw_queue)
<1>1. /\ q \in Seq(SeqNum) /\ r \in Seq(SeqNum)
      /\ raw_queue' = r
      /\ Len(r) < MaxRaw
  BY MakeRoomShifts DEF PushRawBegin, TypeOK, OrderInv, RawQueueOrdered
<1>2. PICK d \in {0, 1} : /\ Len(r) = Len(q) - d
                          /\ \A i \in 1 .. Len(r) : r[i] = q[i + d]
  BY MakeRoomShifts DEF TypeOK
<1>3. \A i \in 1 .. Len(r) : i + d \in 1 .. Len(q) /\ r[i] = q[i + d]
  BY <1>1, <1>2
<1>4. /\ pushing = NoSeq
      /\ pushing' = sequence_number_
      /\ sequence_number_' = sequence_number_ + 1
      /\ sequence_number_ \in Nat
      /\ inference_queue' = inference_queue /\ frame' = frame
  BY PipelineAssumption DEF PushRawBegin, LockInv, TypeOK, workerVars
<1>5. \A i \in 1 .. Len(q) : q[i] < sequence_number_ /\ q[i] \in Nat
  BY QueuedNumbers DEF OrderInv, NumberInv
<1>6. \A i \in 1 .. Len(r) : r[i] < sequence_number_ /\ r[i] \in Nat
  BY <1>3, <1>5
<1>7. ToSet(r) \subseteq ToSet(q)
  BY <1>1, <1>3, ElementsOfQueue
<1> HIDE DEF q, r
<1>8. NumberInv'
  <2>1. \A w \in Workers : frame[w] \in Int /\ frame[w] < sequence_number_
    BY DEF OrderInv, NumberInv, TypeOK, SeqNum, NoSeq
  <2>2. \A s \in inference_queue : s \in Int /\ s < sequence_number_
    BY DEF OrderInv, NumberInv, TypeOK, SeqNum
  <2> QED
    BY <1>1, <1>4, <1>6, <2>1, <2>2 DEF NumberInv
<1>9. RawQueueOrdered'
  <2>1. \A i, j \in 1 .. Len(q) : i < j => q[i] < q[j]
    BY DEF OrderInv, RawQueueOrdered, q
  <2>2. \A i, j \in 1 .. Len(r) : i < j => r[i] < r[j]
    BY <1>1, <1>2, <1>3, <2>1
  <2> QED
    BY <1>1, <2>2, PipelineAssumption DEF RawQueueOrdered
<1>10. FrameHeldOnce'
  <2>1. pushing' \notin ToSet(r) \cup inference_queue
    <3>1. pushing' \notin ToSet(r)
      BY <1>1, <1>4, <1>6, ElementsOfQueue
    <3>2. pushing' \notin inference_queue
      BY <1>4 DEF OrderInv, NumberInv
    <3> QED
      BY <3>1, <3>2
  <2>2. \A w \in Workers : frame[w] # pushing'
    BY <1>4 DEF OrderInv, NumberInv
  <2> QED
    BY <1>1, <1>4, <1>7, <2>1, <2>2 DEF OrderInv, FrameHeldOnce, q
<1> QED
  BY <1>8, <1>9, <1>10 DEF OrderInv

\* The frame goes behind all the others.
LEMMA PushRawEnqueueOrder ==
  ASSUME TypeOK, LockInv, OrderInv, NEW c \in Cameras, PushRawEnqueue(c)
  PROVE  OrderInv'
<1> DEFINE q == raw_queue
           r == Append(raw_queue, pushing)
<1>1. pushing \in SeqNum /\ pushing # NoSeq /\ pushing' = NoSeq
  BY PipelineAssumption DEF PushRawEnqueue, LockInv, TypeOK, SeqNum, NoSeq
<1>2. /\ q \in Seq(SeqNum) /\ r \in Seq(SeqNum)
      /\ raw_queue' = r
      /\ Len(r) = Len(q) + 1
      /\ \A i \in 1 .. Len(q) : r[i] = q[i]
      /\ r[Len(q) + 1] = pushing
  BY <1>1 DEF PushRawEnqueue, TypeOK
<1>3. /\ sequence_number_' = sequence_number_ /\ sequence_number_ \in Nat
      /\ inference_queue' = inference_queue /\ frame' = frame
  BY DEF PushRawEnqueue, TypeOK, workerVars
<1>4. /\ Len(q) < MaxRaw
      /\ \A i \in 1 .. Len(q) : q[i] \in Nat /\ q[i] < pushing
      /\ \A i \in 1 .. Len(q) : q[i] < sequence_number_
      /\ pushing < sequence_number_
      /\ \A i, j \in 1 .. Len(q) : i < j => q[i] < q[j]
  BY <1>1, QueuedNumbers DEF OrderInv, NumberInv, RawQueueOrdered
<1>5. ToSet(r) = ToSet(q) \cup {pushing}
  <2>1. 1 .. Len(r) = 1 .. Len(q) \cup {Len(q) + 1}
    BY <1>2
  <2>2. \A x : (\E i \in 1 .. Len(r) : r[i] = x)
                 <=> (\E i \in 1 .. Len(q) : q[i] = x) \/ x = pushing
    <3> HIDE DEF q, r
    <3> QED
      BY <1>2, <2>1, Zenon
  <2>3. \A x : x \in ToSet(r) <=> x \in ToSet(q) \/ x = pushing
    <3> HIDE DEF q, r
    <3> QED
      BY <1>2, <2>2, ElementsOfQueue, ZenonT(60)
  <2> QED
    BY <2>3
<1>6. /\ \A w \in Workers : frame[w] # NoSeq =>
           /\ frame[w] \notin ToSet(q) \cup inference_queue \cup {pushing}
           /\ \A v \in Workers \ {w} : frame[v] # frame[w]
      /\ ToSet(q) \cap inference_queue = {}
      /\ pushing \notin ToSet(q) \cup inference_queue
  BY DEF OrderInv, FrameHeldOnce
<1> HIDE DEF q, r
<1>7. NumberInv'
  <2>1. \A i \in 1 .. Len(r) : r[i] < sequence_number_
    BY <1>2, <1>4
  <2>2. NoSeq < sequence_number_
    BY <1>3 DEF NoSeq
  <2> QED
    BY <1>1, <1>2, <1>3, <2>1, <2>2 DEF OrderInv, NumberInv
<1>8. RawQueueOrdered'
  <2>1. Len(r) <= MaxRaw
    BY <1>2, <1>4, PipelineAssumption
  <2>2. \A i, j \in 1 .. Len(r) : i < j => r[i] < r[j]
    BY <1>2, <1>4
  <2> QED
    BY <1>2, <2>1, <2>2 DEF RawQueueOrdered
<1>9. FrameHeldOnce'
  <2>1. NoSeq \notin ToSet(r) \cup inference_queue
    <3>1. \A i \in 1 .. Len(r) : r[i] # NoSeq
      BY <1>1, <1>2, <1>4 DEF NoSeq
    <3>2. NoSeq \notin ToSet(r)
      BY <1>2, <3>1, ElementsOfQueue, Zenon
    <3> QED
      BY <3>2 DEF TypeOK, SeqNum, NoSeq
  <2> QED
    BY <1>1, <1>2, <1>3, <1>5, <1>6, <2>1 DEF FrameHeldOnce
<1> QED
  BY <1>7, <1>8, <1>9 DEF OrderInv

\* The newest frame moves from the queue to the thread.
LEMMA GetLatestRawOrder ==
  ASSUME TypeOK, LockInv, OrderInv, NEW w \in Workers, GetLatestRaw(w)
  PROVE  OrderInv'
<1> DEFINE q == raw_queue
           r == Front(raw_queue)
           x == Last(raw_queue)
<1>1. /\ q \in Seq(SeqNum) /\ r \in Seq(SeqNum) /\ x \in SeqNum
      /\ Len(r) = Len(q) - 1 /\ x = q[Len(q)]
      /\ Len(q) \in Nat \ {0}
      /\ \A i \in 1 .. Len(r) : r[i] = q[i]
  <2>1. q \in Seq(SeqNum) /\ q # <<>>
    BY DEF GetLatestRaw, TypeOK
  <2>2. Len(q) \in Nat \ {0}
    BY ONLY <2>1
  <2> QED
    BY ONLY <2>1, <2>2, LastAndFront
<1>2. /\ raw_queue' = r /\ frame' = [frame EXCEPT ![w] = x]
      /\ UNCHANGED <<sequence_number_, inference_queue, pushing>>
      /\ pushing = NoSeq /\ mutex_ = NoThread
  BY DEF GetLatestRaw, LockInv, cameraVars
<1>3. /\ \A i, j \in 1 .. Len(q) : i < j => q[i] < q[j]
      /\ \A i \in 1 .. Len(q) : q[i] \in Nat /\ q[i] < sequence_number_
      /\ Len(q) <= MaxRaw
  BY <1>1, QueuedNumbers DEF OrderInv, NumberInv, RawQueueOrdered
<1>4. x \notin ToSet(r) /\ ToSet(r) \subseteq ToSet(q) /\ x \in ToSet(q)
  <2>1. \A i \in 1 .. Len(r) : r[i] # x
    BY <1>1, <1>3
  <2> QED
    BY <1>1, <2>1, ElementsOfQueue
<1>5. /\ \A u \in Workers : frame[u] # NoSeq =>
           /\ frame[u] \notin ToSet(q) \cup inference_queue \cup {pushing}
           /\ \A v \in Workers \ {u} : frame[v] # frame[u]
      /\ ToSet(q) \cap inference_queue = {}
      /\ pushing \notin ToSet(q) \cup inference_queue
      /\ frame \in [Workers -> SeqNum \cup {NoSeq}]
  BY DEF OrderInv, FrameHeldOnce, TypeOK
<1>6. x # NoSeq
  BY <1>1 DEF SeqNum, NoSeq
<1> HIDE DEF q, r, x
<1>7. NumberInv'
  <2>1. \A i \in 1 .. Len(r) : r[i] < sequence_number_
    BY <1>1, <1>3
  <2>2. x < sequence_number_
    BY <1>1, <1>3
  <2> QED
    BY <1>2, <1>5, <2>1, <2>2 DEF OrderInv, NumberInv
<1>8. RawQueueOrdered'
  <2>1. Len(r) <= MaxRaw
    BY ONLY <1>1, <1>3, PipelineAssumption
  <2>2. \A i, j \in 1 .. Len(r) : i < j => r[i] < r[j]
    BY ONLY <1>1, <1>3
  <2> QED
    BY <1>2, <2>1, <2>2 DEF RawQueueOrdered
<1>9. FrameHeldOnce'
  <2>1. \A u \in Workers : frame'[u] = IF u = w THEN x ELSE frame[u]
    BY <1>2, <1>5
  <2>2. \A u \in Workers : frame'[u] # NoSeq =>
          /\ frame'[u] \notin ToSet(r) \cup inference_queue \cup {pushing}
          /\ \A v \in Workers \ {u} : frame'[v] # frame'[u]
    BY <1>2, <1>4, <1>5, <1>6, <2>1
  <2> QED
    BY <1>2, <1>4, <1>5, <2>2 DEF FrameHeldOnce
<1> QED
  BY <1>7, <1>8, <1>9 DEF OrderInv

\* The number moves from the thread to the result map.
LEMMA PushInferenceOrder ==
  ASSUME TypeOK, LockInv, OrderInv, NEW w \in Workers, PushInference(w)
  PROVE  OrderInv'
<1>1. /\ frame[w] \in SeqNum /\ frame[w] # NoSeq /\ pushing = NoSeq
      /\ frame' = [frame EXCEPT ![w] = NoSeq]
      /\ UNCHANGED <<sequence_number_, raw_queue, pushing>>
      /\ inference_queue' \subseteq inference_queue \cup {frame[w]}
      /\ frame \in [Workers -> SeqNum \cup {NoSeq}]
  BY DEF PushInference, LockInv, TypeOK, KeepNewest, cameraVars, SeqNum, NoSeq
<1>2. \A u \in Workers : frame'[u] = IF u = w THEN NoSeq ELSE frame[u]
  BY <1>1
<1>3. NumberInv'
  <2>1. NoSeq < sequence_number_
    BY DEF TypeOK, NoSeq
  <2> QED
    BY <1>1, <1>2, <2>1 DEF OrderInv, NumberInv
<1>4. RawQueueOrdered'
  BY <1>1 DEF OrderInv, RawQueueOrdered
<1>5. FrameHeldOnce'
  <2>1. ToSet(raw_queue) \cap inference_queue' = {}
    BY <1>1 DEF OrderInv, FrameHeldOnce
  <2>2. pushing \notin ToSet(raw_queue) \cup inference_queue'
    BY <1>1 DEF OrderInv, FrameHeldOnce
  <2>3. \A u \in Workers : frame'[u] # NoSeq =>
          /\ frame'[u] \notin ToSet(raw_queue) \cup inference_queue' \cup {pushing}
          /\ \A v \in Workers \ {u} : frame'[v] # frame'[u]
    BY <1>1, <1>2 DEF OrderInv, FrameHeldOnce
  <2> QED
    BY <1>1, <2>1, <2>2, <2>3 DEF FrameHeldOnce
<1> QED
  BY <1>3, <1>4, <1>5 DEF OrderInv

LEMMA NextOrder ==
  TypeOK /\ LockInv /\ OrderInv /\ [Next]_vars => OrderInv'
<1> SUFFICES ASSUME TypeOK, LockInv, OrderInv, [Next]_vars
             PROVE  OrderInv'
  OBVIOUS
<1>1. ASSUME NEW c \in Cameras, PushRaw(c)
      PROVE  OrderInv'
  <2>1. \/ PushRawBegin(c) \/ PushRawEnqueue(c)
        \/ UNCHANGED <<queueVars, pushing, frame>>
    BY <1>1 DEF PushRaw, FrameCallback, PushRawEmpty, PushRawServoLock,
                PushRawServoUnlock, workerVars
  <2> QED
    BY <2>1, PushRawBeginOrder, PushRawEnqueueOrder, StutterOrder
<1>2. ASSUME NEW w \in Workers, InferenceThread(w)
      PROVE  OrderInv'
  <2>1. \/ GetLatestRaw(w) \/ PushInference(w)
        \/ UNCHANGED <<queueVars, pushing, frame>>
    BY <1>2 DEF InferenceThread, WorkerLoop, GetLatestRawEmpty, Notify,
                cameraVars
  <2> QED
    BY <2>1, GetLatestRawOrder, PushInferenceOrder, StutterOrder
<1>3. ServoThread => UNCHANGED <<queueVars, pushing, frame>>
  BY DEF ServoThread, ServoWake, ServoClear, GetLatestInference, ServoDecide,
         ServoLock, ServoUnlock, cameraVars, workerVars
<1>4. \A v \in Viewers : ViewerGet(v) => UNCHANGED <<queueVars, pushing, frame>>
  BY DEF ViewerGet, cameraVars, workerVars
<1>5. \A r \in Remotes : RemoteLock(r) \/ RemoteUnlock(r)
        => UNCHANGED <<queueVars, pushing, frame>>
  BY DEF RemoteLock, RemoteUnlock, cameraVars, workerVars
<1>6. SwitchCamera \/ StopInference \/ RestartThreads
        => UNCHANGED <<queueVars, pushing, frame>>
  BY DEF SwitchCamera, StopInference, RestartThreads, cameraVars, workerVars
<1>7. UNCHANGED vars => UNCHANGED <<queueVars, pushing, frame>>
  BY DEF vars, cameraVars, workerVars
<1> QED
  BY <1>1, <1>2, <1>3, <1>4, <1>5, <1>6, <1>7, StutterOrder DEF Next

\* Two cameras number the frames, any number of threads takes them: the queue
\* stays ordered and bounded, and no frame is in two places (RawQueueOrdered,
\* FrameHeldOnce, with what they need about the numbers in use).
THEOREM OrderCorrect == Spec => [](RawQueueOrdered /\ FrameHeldOnce)
<1>1. Init => TypeOK /\ LockInv /\ OrderInv
  BY InitLock, InitOrder
<1>2. /\ TypeOK /\ LockInv /\ OrderInv
      /\ [Next]_vars
      => (TypeOK /\ LockInv /\ OrderInv)'
  BY NextLock, NextOrder
<1>3. TypeOK /\ LockInv /\ OrderInv => RawQueueOrdered /\ FrameHeldOnce
  BY DEF OrderInv
<1> QED
  BY <1>1, <1>2, <1>3, PTL DEF Spec

(***************************************************************************)
(* Results: the map is bounded, never emptied, and no notification is lost.*)
(***************************************************************************)

\* The third layer.
NotifyInv ==
  ResultInv /\ ResultsBounded /\ ServoAlwaysHasResult /\ NoLostResult

LEMMA InitNotify == Init => NotifyInv
<1> SUFFICES ASSUME Init PROVE NotifyInv
  OBVIOUS
<1> USE DEF Init
<1>1. ResultInv
  BY FS_EmptySet DEF ResultInv
<1>2. ResultsBounded
  BY FS_EmptySet, PipelineAssumption DEF ResultsBounded
<1>3. ServoAlwaysHasResult /\ NoLostResult
  BY DEF ServoAlwaysHasResult, NoLostResult
<1> QED
  BY <1>1, <1>2, <1>3 DEF NotifyInv

\* Steps of main, the cameras, the video and the servo sessions.
LEMMA StutterNotify ==
  ASSUME NotifyInv,
         UNCHANGED <<inference_queue, new_image_available, worker, servo, servo_seen>>
  PROVE  NotifyInv'
  BY DEF NotifyInv, ResultInv, ResultsBounded, ServoAlwaysHasResult, NoLostResult,
         Newest

\* A result is added and the smallest one may go: one is left, the newest among
\* them, and the thread is about to raise the flag.
LEMMA PushInferenceNotify ==
  ASSUME TypeOK, LockInv, NotifyInv, NEW w \in Workers, PushInference(w)
  PROVE  NotifyInv'
<1> DEFINE S == inference_queue \cup {frame[w]}
<1>1. /\ frame[w] \in SeqNum
      /\ inference_queue' = KeepNewest(S)
      /\ worker' = [worker EXCEPT ![w] = "notify"]
      /\ UNCHANGED <<new_image_available, servo, servo_seen>>
      /\ worker'[w] = "notify"
  BY DEF PushInference, LockInv, TypeOK, servoVars
<1>2. S \in SUBSET Nat /\ S # {}
  <2>1. SeqNum \subseteq Nat
    BY PipelineAssumption DEF SeqNum
  <2> QED
    BY <1>1, <2>1 DEF TypeOK
<1>3. IsFiniteSet(S) /\ Cardinality(S) <= MaxInference + 1
  <2>1. IsFiniteSet(inference_queue) /\ Cardinality(inference_queue) <= MaxInference
    BY DEF NotifyInv, ResultInv, ResultsBounded
  <2>2. Cardinality(inference_queue) \in Nat
    BY <2>1, FS_CardinalityType
  <2>3. /\ IsFiniteSet(S)
        /\ Cardinality(S) = IF frame[w] \in inference_queue
                            THEN Cardinality(inference_queue)
                            ELSE Cardinality(inference_queue) + 1
    BY <2>1, FS_AddElement, Zenon
  <2> QED
    BY <2>1, <2>2, <2>3, PipelineAssumption
<1>4. Newest(S) # {}
  <2>1. CASE inference_queue = {}
    BY <1>2, <2>1 DEF Newest
  <2>2. CASE inference_queue # {}
    <3>1. PICK m \in inference_queue : \A t \in inference_queue : t <= m
      BY <2>2 DEF NotifyInv, ResultInv, Newest
    <3>2. CASE frame[w] <= m
      BY <3>1, <3>2 DEF Newest
    <3>3. CASE ~(frame[w] <= m)
      BY <1>2, <3>1, <3>3 DEF Newest
    <3> QED
      BY <3>2, <3>3
  <2> QED
    BY <2>1, <2>2
<1> HIDE DEF S
<1>5. /\ inference_queue' \subseteq S
      /\ inference_queue' # {}
      /\ Cardinality(inference_queue') <= MaxInference
      /\ Newest(S) \subseteq inference_queue'
  BY <1>1, <1>2, <1>3, KeepNewestDrops
<1>6. ResultInv'
  <2>1. IsFiniteSet(inference_queue')
    BY <1>3, <1>5, FS_Subset
  <2>2. Newest(inference_queue') # {}
    BY <1>4, <1>5 DEF Newest
  <2> QED
    BY <1>5, <2>1, <2>2 DEF ResultInv, Newest
<1>7. ResultsBounded' /\ ServoAlwaysHasResult' /\ NoLostResult'
  BY <1>1, <1>5 DEF NotifyInv, ResultsBounded, ServoAlwaysHasResult, NoLostResult
<1> QED
  BY <1>6, <1>7 DEF NotifyInv

\* The thread that has raised the flag need not be about to raise it any more.
LEMMA WorkerNotify ==
  ASSUME TypeOK, LockInv, NotifyInv, NEW w \in Workers, InferenceThread(w)
  PROVE  NotifyInv'
<1> USE DEF queueVars, lockVars, cameraVars, servoVars, controlVars
<1>1. CASE WorkerLoop(w) \/ GetLatestRaw(w) \/ GetLatestRawEmpty(w)
  <2>1. /\ UNCHANGED <<inference_queue, new_image_available, servo, servo_seen>>
        /\ \A u \in Workers : worker'[u] = "notify" <=> worker[u] = "notify"
    BY <1>1 DEF WorkerLoop, GetLatestRaw, GetLatestRawEmpty, TypeOK
  <2> QED
    BY <2>1 DEF NotifyInv, ResultInv, ResultsBounded, ServoAlwaysHasResult,
                NoLostResult, Newest
<1>2. CASE PushInference(w)
  BY <1>2, PushInferenceNotify
<1>3. CASE Notify(w)
  <2>1. /\ new_image_available'
        /\ worker[w] = "notify"
        /\ UNCHANGED <<inference_queue, servo, servo_seen>>
    BY <1>3 DEF Notify
  <2> QED
    BY <2>1 DEF NotifyInv, ResultInv, ResultsBounded, ServoAlwaysHasResult,
                NoLostResult, Newest
<1> QED
  BY <1>1, <1>2, <1>3 DEF InferenceThread

\* The flag goes down before the map is read, so what arrives in between is read.
LEMMA ServoThreadNotify ==
  ASSUME TypeOK, LockInv, NotifyInv, ServoThread
  PROVE  NotifyInv'
<1> USE DEF queueVars, lockVars, cameraVars, workerVars, controlVars
<1> USE DEF NotifyInv, ResultInv, ResultsBounded, ServoAlwaysHasResult,
            NoLostResult, Newest
<1>1. CASE ServoWake
  BY <1>1 DEF ServoWake
<1>2. CASE ServoClear
  BY <1>2 DEF ServoClear
<1>3. CASE GetLatestInference
  <2>1. inference_queue # {}
    BY <1>3 DEF GetLatestInference
  <2>2. servo_seen' \in Newest(inference_queue) /\ servo' = "control"
    BY <1>3, <2>1 DEF GetLatestInference
  <2>3. \A s \in inference_queue : ~(s > servo_seen')
    BY <2>2 DEF TypeOK, SeqNum
  <2> QED
    BY <1>3, <2>2, <2>3 DEF GetLatestInference
<1>4. CASE ServoDecide
  BY <1>4 DEF ServoDecide
<1>5. CASE ServoLock
  BY <1>5 DEF ServoLock
<1>6. CASE ServoUnlock
  BY <1>6 DEF ServoUnlock
<1> QED
  BY <1>1, <1>2, <1>3, <1>4, <1>5, <1>6 DEF ServoThread

LEMMA NextNotify ==
  TypeOK /\ LockInv /\ NotifyInv /\ [Next]_vars => NotifyInv'
<1> SUFFICES ASSUME TypeOK, LockInv, NotifyInv, [Next]_vars
             PROVE  NotifyInv'
  OBVIOUS
<1> DEFINE Same ==
      UNCHANGED <<inference_queue, new_image_available, worker, servo, servo_seen>>
<1> USE DEF queueVars, workerVars, servoVars
<1>1. \A c \in Cameras : PushRaw(c) => Same
  BY DEF PushRaw, FrameCallback, PushRawEmpty, PushRawBegin, PushRawServoLock,
         PushRawServoUnlock, PushRawEnqueue
<1>2. \A v \in Viewers : ViewerGet(v) => Same
  BY DEF ViewerGet
<1>3. \A r \in Remotes : RemoteLock(r) \/ RemoteUnlock(r) => Same
  BY DEF RemoteLock, RemoteUnlock
<1>4. SwitchCamera \/ StopInference \/ UNCHANGED vars => Same
  BY DEF SwitchCamera, StopInference, vars
<1>5. RestartThreads => NotifyInv'
  BY DEF RestartThreads, AllOff, NotifyInv, ResultInv, ResultsBounded,
         ServoAlwaysHasResult, NoLostResult, Newest
<1> QED
  BY <1>1, <1>2, <1>3, <1>4, <1>5, StutterNotify, WorkerNotify,
     ServoThreadNotify DEF Next

\* The inductive invariant of the whole pipeline.
THEOREM Invariant == Spec => []IInv
<1> DEFINE J == TypeOK /\ LockInv /\ OrderInv /\ NotifyInv
<1>1. Init => J
  BY InitLock, InitOrder, InitNotify
<1>2. J /\ [Next]_vars => J'
  BY NextLock, NextOrder, NextNotify
<1>3. J => IInv
  BY DEF IInv, OrderInv, NotifyInv
<1> QED
  BY <1>1, <1>2, <1>3, PTL DEF Spec

\* control_servo always finds a result behind the flag, and every result it has
\* not read is still announced, or about to be, or about to be read.
THEOREM NotificationCorrect ==
  Spec => [](ResultsBounded /\ ServoAlwaysHasResult /\ NoLostResult)
<1>1. IInv => ResultsBounded /\ ServoAlwaysHasResult /\ NoLostResult
  BY DEF IInv
<1> QED
  BY <1>1, Invariant, PTL

\* control_servo never reads the first entry of an empty result: whenever the flag
\* has woken it a result is there, whoever evicts results in between.
THEOREM ServoCorrect == Spec => []ServoAlwaysHasResult
BY NotificationCorrect, PTL

(***************************************************************************)
(* The pipeline implements the mailbox.                                    *)
(***************************************************************************)

\* newestResult is what it is called.
LEMMA NewestResult ==
  TypeOK /\ ResultInv =>
         /\ newestResult \in SeqNum \cup {NoSeq}
         /\ inference_queue = {} <=> newestResult = NoSeq
         /\ inference_queue # {} => newestResult \in inference_queue
         /\ \A s \in inference_queue : s <= newestResult
         /\ \A s \in Newest(inference_queue) : s = newestResult
<1> HAVE TypeOK /\ ResultInv
<1>1. CASE inference_queue = {}
  BY <1>1 DEF newestResult, Newest
<1>2. CASE inference_queue # {}
  <2>1. newestResult \in Newest(inference_queue)
    BY <1>2 DEF newestResult, ResultInv
  <2>2. /\ newestResult \in inference_queue
        /\ \A s \in inference_queue : s <= newestResult
    BY <2>1 DEF Newest
  <2>3. inference_queue \subseteq Nat /\ SeqNum \subseteq Nat
    BY PipelineAssumption DEF TypeOK, SeqNum
  <2>4. newestResult # NoSeq
    BY <2>2, <2>3 DEF NoSeq
  <2>5. \A s \in Newest(inference_queue) : s = newestResult
    BY <2>2, <2>3 DEF Newest
  <2> QED
    BY <1>2, <2>2, <2>4, <2>5 DEF TypeOK
<1> QED
  BY <1>1, <1>2

\* The same, of the state after a step.
LEMMA NewestResultNext ==
  (TypeOK /\ ResultInv)' =>
     (/\ inference_queue # {} => newestResult \in inference_queue
      /\ \A s \in inference_queue : s <= newestResult)'
<1>1. TypeOK /\ ResultInv =>
        /\ inference_queue # {} => newestResult \in inference_queue
        /\ \A s \in inference_queue : s <= newestResult
  BY NewestResult
<1> QED
  BY <1>1, PTL

\* A result added to the map, less the smallest, is published or changes nothing.
LEMMA PushInferencePublishes ==
  ASSUME IInv, IInv', NEW w \in Workers, PushInference(w)
  PROVE  newestResult' = newestResult \/ Mailbox!Publish
<1> DEFINE S == inference_queue \cup {frame[w]}
<1> USE DEF IInv
<1>1. /\ frame[w] \in SeqNum
      /\ inference_queue' = KeepNewest(S)
      /\ UNCHANGED <<servo_seen, viewer_seen>>
  BY DEF PushInference, LockInv, TypeOK, servoVars
<1>2. SeqNum \subseteq Nat
  BY PipelineAssumption DEF SeqNum
<1>3. S \in SUBSET Nat /\ S # {} /\ IsFiniteSet(S)
  BY ZenonT(60), <1>1, <1>2, FS_AddElement DEF TypeOK, ResultInv
<1>4. /\ inference_queue' # {} /\ inference_queue' \subseteq S
      /\ Newest(S) \subseteq inference_queue'
  BY <1>1, <1>3, KeepNewestDrops
<1>5. /\ newestResult' \in inference_queue'
      /\ \A s \in inference_queue' : s <= newestResult'
  BY <1>4, NewestResultNext
<1>6. newestResult' \in Nat
  BY <1>3, <1>4, <1>5
<1>7. newestResult' >= newestResult
  <2>1. CASE inference_queue = {}
    BY <1>6, <2>1 DEF newestResult, NoSeq
  <2>2. CASE inference_queue # {}
    <3>1. /\ newestResult \in inference_queue
          /\ \A s \in inference_queue : s <= newestResult
      BY <2>2, NewestResult
    <3>2. CASE frame[w] <= newestResult
      <4>1. newestResult \in Newest(S)
        BY <3>1, <3>2 DEF Newest
      <4> QED
        BY <1>4, <1>5, <4>1
    <3>3. CASE ~(frame[w] <= newestResult)
      <4>1. frame[w] \in Newest(S)
        BY <1>3, <3>1, <3>3 DEF Newest
      <4> QED
        BY <1>3, <1>4, <1>5, <3>1, <3>3, <4>1
    <3> QED
      BY <3>2, <3>3
  <2> QED
    BY <2>1, <2>2
<1>8. newestResult \in Int
  <2>1. newestResult \in SeqNum \cup {NoSeq}
    BY NewestResult
  <2> QED
    BY <1>2, <2>1 DEF NoSeq
<1>9. mailboxSeen' = mailboxSeen
  BY <1>1 DEF mailboxSeen
<1> QED
  BY <1>6, <1>7, <1>8, <1>9 DEF Mailbox!Publish

\* Every step of the pipeline is a step of the mailbox or leaves it alone.
LEMMA StepRefines ==
  IInv /\ IInv' /\ [Next]_vars
    => [Mailbox!Next]_<<newestResult, mailboxSeen>>
<1> SUFFICES ASSUME IInv, IInv', [Next]_vars
             PROVE  [Mailbox!Next]_<<newestResult, mailboxSeen>>
  OBVIOUS
<1> DEFINE Same == UNCHANGED <<newestResult, mailboxSeen>>
<1> USE DEF queueVars, workerVars, servoVars
<1>1. UNCHANGED <<inference_queue, servo_seen, viewer_seen>> => Same
  BY DEF newestResult, mailboxSeen, Newest
<1>2. ASSUME NEW c \in Cameras, PushRaw(c)
      PROVE  UNCHANGED <<inference_queue, servo_seen, viewer_seen>>
  BY <1>2 DEF PushRaw, FrameCallback, PushRawEmpty, PushRawBegin,
              PushRawServoLock, PushRawServoUnlock, PushRawEnqueue
<1>3. ASSUME NEW w \in Workers, InferenceThread(w)
      PROVE  Same \/ Mailbox!Next
  <2>1. CASE PushInference(w)
    <3>1. mailboxSeen' = mailboxSeen
      BY <2>1 DEF PushInference, mailboxSeen
    <3> QED
      BY <2>1, <3>1, PushInferencePublishes DEF Mailbox!Next
  <2>2. CASE WorkerLoop(w) \/ GetLatestRaw(w) \/ GetLatestRawEmpty(w) \/ Notify(w)
    BY <1>1, <2>2 DEF WorkerLoop, GetLatestRaw, GetLatestRawEmpty, Notify
  <2> QED
    BY <1>3, <2>1, <2>2 DEF InferenceThread
<1>4. ASSUME GetLatestInference
      PROVE  Mailbox!Next
  <2>1. inference_queue # {}
    BY <1>4 DEF GetLatestInference, IInv, ResultInv
  <2>2. /\ servo_seen' = newestResult
        /\ newestResult # NoSeq
        /\ UNCHANGED <<inference_queue, viewer_seen>>
    BY <1>4, <2>1, NewestResult DEF GetLatestInference, IInv
  <2>3. newestResult' = newestResult
    BY <2>2 DEF newestResult, Newest
  <2>4. mailboxSeen' = [mailboxSeen EXCEPT ![Servo] = newestResult]
    BY <2>2 DEF mailboxSeen
  <2>5. Mailbox!Read(Servo)
    BY <2>2, <2>3, <2>4 DEF Mailbox!Read, Mailbox!None, NoSeq
  <2> QED
    BY <2>5 DEF Mailbox!Next
<1>5. ServoThread => GetLatestInference
                     \/ UNCHANGED <<inference_queue, servo_seen, viewer_seen>>
  BY DEF ServoThread, ServoWake, ServoClear, ServoDecide, ServoLock, ServoUnlock
<1>6. ASSUME NEW v \in Viewers, ViewerGet(v)
      PROVE  Mailbox!Next
  <2>1. PICK s \in Newest(inference_queue) :
          viewer_seen' = [viewer_seen EXCEPT ![v] = s]
    BY <1>6 DEF ViewerGet
  <2>2. /\ s = newestResult
        /\ newestResult # NoSeq
        /\ UNCHANGED <<inference_queue, servo_seen>>
    BY <1>6, <2>1, NewestResult DEF ViewerGet, IInv, Newest
  <2>3. newestResult' = newestResult
    BY <2>2 DEF newestResult, Newest
  <2>4. mailboxSeen' = [mailboxSeen EXCEPT ![v] = newestResult]
    BY ZenonT(60), <2>1, <2>2, PipelineAssumption DEF mailboxSeen, IInv, TypeOK
  <2>5. Mailbox!Read(v)
    BY <2>2, <2>3, <2>4 DEF Mailbox!Read, Mailbox!None, NoSeq
  <2> QED
    BY <2>5 DEF Mailbox!Next
<1>7. ASSUME NEW r \in Remotes, RemoteLock(r) \/ RemoteUnlock(r)
      PROVE  UNCHANGED <<inference_queue, servo_seen, viewer_seen>>
  BY <1>7 DEF RemoteLock, RemoteUnlock
<1>8. SwitchCamera \/ StopInference \/ RestartThreads \/ UNCHANGED vars
        => UNCHANGED <<inference_queue, servo_seen, viewer_seen>>
  BY DEF SwitchCamera, StopInference, RestartThreads, vars
<1> QED
  BY <1>1, <1>2, <1>3, <1>4, <1>5, <1>6, <1>7, <1>8 DEF Next

\* The queues, the pool of threads and the flag are, to their readers, one
\* mailbox that keeps the newest result: no reader ever goes back to an older
\* result, however the inference threads overtake each other.
THEOREM Refinement == Spec => ImplementsMailbox
<1>1. Init => Mailbox!Init
  BY PipelineAssumption
     DEF Init, Mailbox!Init, Mailbox!None, newestResult, mailboxSeen, NoSeq
<1> QED
  BY <1>1, StepRefines, Invariant, PTL DEF Spec, ImplementsMailbox, Mailbox!Spec

=============================================================================
