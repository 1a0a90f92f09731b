--------------------------- MODULE SessionsProofs ---------------------------
(***************************************************************************)
(* Proofs about Sessions for any number of clients and of descriptors.     *)
(* IInv is inductive; the safety properties of the run are parts of it.    *)
(***************************************************************************)
EXTENDS Sessions, WellFoundedInduction, TLAPS

\* A set of natural numbers has a least element.
LEMMA MinOfNats ==
  ASSUME NEW S \in SUBSET Nat, S # {}
  PROVE  Min(S) \in S /\ \A n \in S : Min(S) <= n
<1> DEFINE R == {ss \in Nat \X Nat : ss[1] < ss[2]}
<1>1. PICK m \in S : \A n \in S : <<n, m>> \notin R
  <2>1. IsWellFoundedOn(R, Nat)
    BY NatLessThanWellFounded DEF OpToRel
  <2> HIDE DEF R
  <2> QED BY <2>1, WFMin
<1>2. ASSUME NEW n \in S PROVE m <= n
  <2>1. n \in Nat /\ m \in Nat
    OBVIOUS
  <2>2. <<n, m>> \in R <=> n < m
    BY <2>1
  <2> QED BY <1>1, <2>1, <2>2
<1> QED BY <1>2 DEF Min

\* The number that is handed out is free.
LEMMA LowestIsFree ==
  ASSUME Free # {}
  PROVE  Lowest \in Numbers /\ fd[Lowest] = "free"
<1>1. Free \in SUBSET Nat
  BY SessionsAssumption DEF Free
<1>2. Min(Free) \in Free
  BY <1>1, MinOfNats
<1> QED BY <1>2 DEF Free, Lowest

LEMMA InitIInv == Init => IInv
<1> SUFFICES ASSUME Init PROVE IInv
  OBVIOUS
<1> USE SessionsAssumption DEF Init
<1>1. TypeOK
  BY DEF TypeOK, Kinds
<1>2. OwnerInv
  BY DEF OwnerInv, Alive
<1>3. ListenerInv /\ StopInv
  BY DEF ListenerInv, StopInv, Stopping, Alive
<1> QED BY <1>1, <1>2, <1>3 DEF IInv

LEMMA NextTypeOK == IInv /\ [Next]_vars => TypeOK'
<1> SUFFICES ASSUME IInv, [Next]_vars PROVE TypeOK'
  OBVIOUS
<1> USE SessionsAssumption DEF IInv, TypeOK, Without, Kinds
<1>1. ASSUME NEW c \in Clients, Connect(c) \/ Hangup(c) PROVE TypeOK'
  BY <1>1 DEF Connect, Hangup
<1>2. CASE Socket
  BY <1>2, LowestIsFree DEF Socket
<1>3. CASE Listen \/ ListenFails \/ Loop
  BY <1>3 DEF Listen, ListenFails, Loop
<1>4. CASE AcceptFails \/ ListenerCloses \/ ListenerJoins
  BY <1>4 DEF AcceptFails, ListenerCloses, ListenerJoins
<1>5. ASSUME NEW c \in Clients, Accept(c) PROVE TypeOK'
  BY <1>5, LowestIsFree DEF Accept
<1>6. ASSUME NEW c \in Clients, Dispatch(c) \/ Killed(c) PROVE TypeOK'
  BY <1>6 DEF Dispatch, Killed
<1>7. ASSUME NEW c \in Clients, Reject(c) \/ VideoEnds(c) \/ ServoEnds(c) PROVE TypeOK'
  BY <1>7 DEF Reject, VideoEnds, ServoEnds, Ended
<1>8. ASSUME NEW c \in Clients, ControlEnds(c) \/ ControlThrows(c) PROVE TypeOK'
  BY ZenonT(60), <1>8 DEF ControlEnds, ControlThrows, Ended
<1>9. CASE Stop \/ StopGoesOn
  BY <1>9 DEF Stop, StopGoesOn, StopShutsDown, StopCloses, StopJoins
<1>10. CASE UNCHANGED vars
  BY <1>10 DEF vars
<1> QED BY <1>1, <1>2, <1>3, <1>4, <1>5, <1>6, <1>7, <1>8, <1>9, <1>10
       DEF Next, Listener

\* What the end of the threads of a client leaves: its number is free, or, after
\* an exception of handle_control, nobody's.
LEMMA EndOfThreads ==
  ASSUME IInv, NEW c \in Clients,
         \/ Reject(c) \/ VideoEnds(c) \/ ServoEnds(c) \/ ControlEnds(c)
         \/ ControlThrows(c)
  PROVE  /\ Alive(c) /\ sock[c] \in Numbers /\ fd[sock[c]] = c /\ main # "killed"
         /\ ~ Alive(c)'
         /\ \A d \in Clients \ {c} : (Alive(d)' <=> Alive(d)) /\ sock'[d] = sock[d]
                                    /\ peer'[d] = peer[d]
         /\ \E owner \in {"free", "leaked"} : fd' = [fd EXCEPT ![sock[c]] = owner]
         /\ UNCHANGED << m_server_fd, m_running, shut, main, listener >>
         /\ poweroff => poweroff'
<1> USE DEF IInv, TypeOK, Alive, Running
<1>1. Alive(c) /\ main # "killed"
  BY DEF Reject, VideoEnds, ServoEnds, ControlEnds, ControlThrows
<1>2. sock[c] \in Numbers /\ fd[sock[c]] = c
  BY <1>1 DEF OwnerInv
<1>3. \E owner \in {"free", "leaked"} : Ended(c, [fd EXCEPT ![sock[c]] = owner])
  BY <1>2 DEF Reject, VideoEnds, ServoEnds, ControlEnds, ControlThrows, Without
<1>4. poweroff => poweroff'
  BY DEF Reject, VideoEnds, ServoEnds, ControlEnds, ControlThrows
<1> QED BY <1>1, <1>2, <1>3, <1>4 DEF Ended

LEMMA NextOwnerInv == IInv /\ [Next]_vars => OwnerInv'
<1> SUFFICES ASSUME IInv, [Next]_vars PROVE OwnerInv'
  OBVIOUS
<1> USE SessionsAssumption DEF IInv, TypeOK, OwnerInv, ListenerInv, StopInv, Stopping, Alive, Without, Running
<1>1. ASSUME NEW c \in Clients, Connect(c) \/ Hangup(c) PROVE OwnerInv'
  BY <1>1 DEF Connect, Hangup
<1>2. CASE Socket
  BY <1>2, LowestIsFree DEF Socket
<1>3. CASE Listen \/ Loop
  BY <1>3 DEF Listen, Loop
<1>4. CASE ListenFails
  BY <1>4 DEF ListenFails
<1>5. CASE AcceptFails \/ ListenerJoins
  BY <1>5 DEF AcceptFails, ListenerJoins
<1>6. CASE ListenerCloses
  BY <1>6 DEF ListenerCloses
<1>7. ASSUME NEW c \in Clients, Accept(c) PROVE OwnerInv'
  <2>1. Lowest \in Numbers /\ fd[Lowest] = "free" /\ ~ Alive(c)
    BY <1>7, LowestIsFree DEF Accept
  <2> QED BY <1>7, <2>1 DEF Accept
<1>8. ASSUME NEW c \in Clients, Dispatch(c) PROVE OwnerInv'
  BY <1>8 DEF Dispatch, Kinds
<1>9. ASSUME NEW c \in Clients, Killed(c) PROVE OwnerInv'
  BY <1>9 DEF Killed
<1>10. ASSUME NEW c \in Clients,
              \/ Reject(c) \/ VideoEnds(c) \/ ServoEnds(c) \/ ControlEnds(c)
              \/ ControlThrows(c)
       PROVE  OwnerInv'
  <2> HIDE DEF Alive
  <2>1. /\ Alive(c) /\ sock[c] \in Numbers /\ fd[sock[c]] = c
        /\ ~ Alive(c)'
        /\ \A d \in Clients \ {c} : (Alive(d)' <=> Alive(d)) /\ sock'[d] = sock[d]
                                    /\ peer'[d] = peer[d]
        /\ UNCHANGED << m_server_fd, m_running, shut, main, listener >>
    BY <1>10, EndOfThreads
  <2>2. PICK owner \in {"free", "leaked"} : fd' = [fd EXCEPT ![sock[c]] = owner]
    BY <1>10, EndOfThreads
  <2> QED BY <2>1, <2>2
<1>12. CASE Stop \/ StopShutsDown \/ StopJoins
  BY <1>12 DEF Stop, StopShutsDown, StopJoins
<1>13. CASE StopCloses
  BY <1>13 DEF StopCloses
<1>14. CASE UNCHANGED vars
  BY <1>14 DEF vars
<1> QED BY <1>1, <1>2, <1>3, <1>4, <1>5, <1>6, <1>7, <1>8, <1>9, <1>10, <1>12, <1>13, <1>14
       DEF Next, Listener, StopGoesOn

LEMMA NextListenerInv == IInv /\ [Next]_vars => ListenerInv'
<1> SUFFICES ASSUME IInv, [Next]_vars PROVE ListenerInv'
  OBVIOUS
<1> USE SessionsAssumption DEF IInv, TypeOK, OwnerInv, ListenerInv, StopInv, Stopping, Alive, Without, Running
<1>1. ASSUME NEW c \in Clients, Connect(c) \/ Hangup(c) PROVE ListenerInv'
  BY <1>1 DEF Connect, Hangup
<1>2. CASE Socket
  BY <1>2, LowestIsFree DEF Socket
<1>3. CASE Listen \/ Loop
  BY <1>3 DEF Listen, Loop
<1>4. CASE ListenFails
  BY <1>4 DEF ListenFails
<1>5. CASE AcceptFails \/ ListenerJoins
  BY <1>5 DEF AcceptFails, ListenerJoins
<1>6. CASE ListenerCloses
  BY <1>6 DEF ListenerCloses
<1>7. ASSUME NEW c \in Clients, Accept(c) PROVE ListenerInv'
  BY <1>7, LowestIsFree DEF Accept
<1>8. ASSUME NEW c \in Clients, Dispatch(c) PROVE ListenerInv'
  BY <1>8 DEF Dispatch, Kinds
<1>9. ASSUME NEW c \in Clients, Killed(c) PROVE ListenerInv'
  BY <1>9 DEF Killed
<1>10. ASSUME NEW c \in Clients,
              \/ Reject(c) \/ VideoEnds(c) \/ ServoEnds(c) \/ ControlEnds(c)
              \/ ControlThrows(c)
       PROVE  ListenerInv'
  <2> HIDE DEF Alive
  <2>1. /\ Alive(c) /\ sock[c] \in Numbers /\ fd[sock[c]] = c
        /\ ~ Alive(c)'
        /\ \A d \in Clients \ {c} : (Alive(d)' <=> Alive(d)) /\ sock'[d] = sock[d]
                                    /\ peer'[d] = peer[d]
        /\ UNCHANGED << m_server_fd, m_running, shut, main, listener >>
    BY <1>10, EndOfThreads
  <2>2. PICK owner \in {"free", "leaked"} : fd' = [fd EXCEPT ![sock[c]] = owner]
    BY <1>10, EndOfThreads
  <2> QED BY <2>1, <2>2
<1>12. CASE Stop \/ StopShutsDown \/ StopJoins
  BY <1>12 DEF Stop, StopShutsDown, StopJoins
<1>13. CASE StopCloses
  BY <1>13 DEF StopCloses
<1>14. CASE UNCHANGED vars
  BY <1>14 DEF vars
<1> QED BY <1>1, <1>2, <1>3, <1>4, <1>5, <1>6, <1>7, <1>8, <1>9, <1>10, <1>12, <1>13, <1>14
       DEF Next, Listener, StopGoesOn

LEMMA NextStopInv == IInv /\ [Next]_vars => StopInv'
<1> SUFFICES ASSUME IInv, [Next]_vars PROVE StopInv'
  OBVIOUS
<1> USE SessionsAssumption DEF IInv, TypeOK, OwnerInv, ListenerInv, StopInv, Stopping, Alive, Without, Running
<1>1. ASSUME NEW c \in Clients, Connect(c) \/ Hangup(c) PROVE StopInv'
  BY <1>1 DEF Connect, Hangup
<1>2. CASE Socket
  BY <1>2, LowestIsFree DEF Socket
<1>3. CASE Listen \/ Loop
  BY <1>3 DEF Listen, Loop
<1>4. CASE ListenFails
  BY <1>4 DEF ListenFails
<1>5. CASE AcceptFails \/ ListenerJoins
  BY <1>5 DEF AcceptFails, ListenerJoins
<1>6. CASE ListenerCloses
  BY <1>6 DEF ListenerCloses
<1>7. ASSUME NEW c \in Clients, Accept(c) PROVE StopInv'
  BY <1>7, LowestIsFree DEF Accept
<1>8. ASSUME NEW c \in Clients, Dispatch(c) PROVE StopInv'
  BY <1>8 DEF Dispatch, Kinds
<1>9. ASSUME NEW c \in Clients, Killed(c) PROVE StopInv'
  BY <1>9 DEF Killed
<1>10. ASSUME NEW c \in Clients,
              \/ Reject(c) \/ VideoEnds(c) \/ ServoEnds(c) \/ ControlEnds(c)
              \/ ControlThrows(c)
       PROVE  StopInv'
  <2> HIDE DEF Alive
  <2>1. /\ Alive(c) /\ sock[c] \in Numbers /\ fd[sock[c]] = c
        /\ ~ Alive(c)'
        /\ \A d \in Clients \ {c} : (Alive(d)' <=> Alive(d)) /\ sock'[d] = sock[d]
                                    /\ peer'[d] = peer[d]
        /\ UNCHANGED << m_server_fd, m_running, shut, main, listener >>
        /\ poweroff => poweroff'
    BY <1>10, EndOfThreads
  <2>2. PICK owner \in {"free", "leaked"} : fd' = [fd EXCEPT ![sock[c]] = owner]
    BY <1>10, EndOfThreads
  <2> QED BY <2>1, <2>2
<1>12. CASE Stop \/ StopShutsDown \/ StopJoins
  BY <1>12 DEF Stop, StopShutsDown, StopJoins
<1>13. CASE StopCloses
  BY <1>13 DEF StopCloses
<1>14. CASE UNCHANGED vars
  BY <1>14 DEF vars
<1> QED BY <1>1, <1>2, <1>3, <1>4, <1>5, <1>6, <1>7, <1>8, <1>9, <1>10, <1>12, <1>13, <1>14
       DEF Next, Listener, StopGoesOn

LEMMA Inductive == Spec => []IInv
<1>1. IInv /\ [Next]_vars => IInv'
  BY NextTypeOK, NextOwnerInv, NextListenerInv, NextStopInv DEF IInv
<1> QED BY InitIInv, <1>1, PTL DEF Spec

\* Every variable of the server keeps its type; in particular a descriptor always
\* has one owner.
THEOREM TypeCorrect == Spec => []TypeOK
<1>1. IInv => TypeOK
  BY DEF IInv
<1> QED BY Inductive, <1>1, PTL

\* Neither stop nor the listener, which both close m_server_fd, takes a number
\* away from a session.
THEOREM DescriptorsSafe == Spec => []DescriptorsKept
<1>1. IInv => DescriptorsKept
  BY DEF IInv, OwnerInv, DescriptorsKept
<1> QED BY Inductive, <1>1, PTL

\* A number a thread had is free when the thread has ended, unless handle_control
\* forgot it; the listening number is free when stop has returned.
THEOREM DescriptorsFreed == Spec => []DescriptorsReturned
<1>1. IInv => DescriptorsReturned
  BY DEF IInv, OwnerInv, StopInv, DescriptorsReturned
<1> QED BY Inductive, <1>1, PTL
=============================================================================
