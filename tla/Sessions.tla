------------------------------ MODULE Sessions ------------------------------
(***************************************************************************)
(* The TCP server (server.h): the listener, one handle_client thread for   *)
(* each connection, the detached video, control and servo sessions, and    *)
(* stop().  What connects them are descriptors: small numbers that the     *)
(* process hands out lowest first.  Camera, sensor and serial port have    *)
(* theirs before the server starts and keep them while it runs.            *)
(*                                                                         *)
(* A client may connect again when the threads of its last connection have *)
(* ended.  A number that no thread closes belongs to "leaked".             *)
(***************************************************************************)
EXTENDS Integers, FiniteSets, FiniteSetsExt

CONSTANTS
  Clients,
  Numbers,   \* the descriptors the process may still open
  Closed     \* m_server_fd before a socket or when socket() failed: -1

ASSUME SessionsAssumption ==
  /\ Numbers \subseteq Nat /\ IsFiniteSet(Numbers)
  /\ Closed \notin Numbers
  /\ Clients \cap {"free", "server", "leaked"} = {}

VARIABLES
  fd,           \* who owns a number
  m_server_fd, m_running,
  shut,         \* stop has shut the listening socket down
  main,         \* "serving", "shutdown", "close", "join", "returned", "killed"
  listener,     \* its place in listener_loop
  handle,       \* the handle_client thread of a client: "none" or "reading"
  session,      \* "none", "video", "control" or "servo"
  sock,         \* client_fd of the threads of a client
  peer,         \* "away", "waiting" for accept, "there" or "gone"
  poweroff      \* a client has asked for the end

vars == << fd, m_server_fd, m_running, shut, main, listener, handle, session,
           sock, peer, poweroff >>

Kinds == {"video", "control", "servo"}

Init ==
  /\ fd = [n \in Numbers |-> "free"]
  /\ m_server_fd = Closed /\ m_running = TRUE
  /\ shut = FALSE /\ main = "serving" /\ listener = "socket"
  /\ handle = [c \in Clients |-> "none"]
  /\ session = [c \in Clients |-> "none"]
  /\ sock = [c \in Clients |-> Closed]
  /\ peer = [c \in Clients |-> "away"]
  /\ poweroff = FALSE

Free == {n \in Numbers : fd[n] = "free"}
Lowest == Min(Free)

\* close(): whoever has the number loses it; EBADF is nobody's concern.
Without(n) == IF n \in Numbers THEN [fd EXCEPT ![n] = "free"] ELSE fd

Running == main # "killed"

----------------------------------------------------------------------------
(* The clients.                                                             *)

Connect(c) ==
  /\ peer[c] = "away" /\ handle[c] = "none" /\ session[c] = "none"
  /\ peer' = [peer EXCEPT ![c] = "waiting"]
  /\ UNCHANGED << fd, m_server_fd, m_running, shut, main, listener, handle, session,
                  sock, poweroff >>

Hangup(c) ==
  /\ peer[c] = "there"
  /\ peer' = [peer EXCEPT ![c] = "gone"]
  /\ UNCHANGED << fd, m_server_fd, m_running, shut, main, listener, handle, session,
                  sock, poweroff >>

----------------------------------------------------------------------------
(* listener_loop.                                                           *)

\* The test for failure is == 0: a failed socket() goes on with -1.
Socket ==
  /\ listener = "socket" /\ Running
  /\ listener' = "listen"
  /\ \/ /\ Free # {}
        /\ fd' = [fd EXCEPT ![Lowest] = "server"]
        /\ m_server_fd' = Lowest
     \/ UNCHANGED << fd, m_server_fd >>
  /\ UNCHANGED << m_running, shut, main, handle, session, sock, peer, poweroff >>

Listen ==
  /\ listener = "listen" /\ Running /\ m_server_fd # Closed
  /\ listener' = "loop"
  /\ UNCHANGED << fd, m_server_fd, m_running, shut, main, handle, session, sock,
                  peer, poweroff >>

\* bind or listen fails; the number stays in m_server_fd, but without a listener
\* no poweroff comes and nobody calls stop.
ListenFails ==
  /\ listener = "listen" /\ Running
  /\ fd' = Without(m_server_fd)
  /\ listener' = "ended"
  /\ UNCHANGED << m_server_fd, m_running, shut, main, handle, session, sock,
                  peer, poweroff >>

\* The loop looks at m_running and accept looks up the listening socket.
Loop ==
  /\ listener = "loop" /\ Running
  /\ listener' = IF ~ m_running THEN "close"
                 ELSE IF fd[m_server_fd] = "server" THEN "accept" ELSE "loop"
  /\ UNCHANGED << fd, m_server_fd, m_running, shut, main, handle, session, sock,
                  peer, poweroff >>

\* accept gives the connection the lowest number and the client its thread.
Accept(c) ==
  /\ listener = "accept" /\ Running
  /\ peer[c] = "waiting" /\ ~ shut /\ Free # {}
  /\ fd' = [fd EXCEPT ![Lowest] = c]
  /\ sock' = [sock EXCEPT ![c] = Lowest]
  /\ peer' = [peer EXCEPT ![c] = "there"]
  /\ handle' = [handle EXCEPT ![c] = "reading"]
  /\ listener' = "loop"
  /\ UNCHANGED << m_server_fd, m_running, shut, main, session, poweroff >>

\* EAGAIN, a socket that was shut down, or no number left.
AcceptFails ==
  /\ listener = "accept" /\ Running
  /\ shut \/ Free = {} \/ \A c \in Clients : peer[c] # "waiting"
  /\ listener' = "loop"
  /\ UNCHANGED << fd, m_server_fd, m_running, shut, main, handle, session, sock,
                  peer, poweroff >>

ListenerCloses ==
  /\ listener = "close" /\ Running
  /\ fd' = Without(m_server_fd)
  /\ listener' = "join"
  /\ UNCHANGED << m_server_fd, m_running, shut, main, handle, session, sock,
                  peer, poweroff >>

\* The workers are the handle_client threads; a session is detached.
ListenerJoins ==
  /\ listener = "join" /\ Running
  /\ \A c \in Clients : handle[c] # "reading"
  /\ listener' = "ended"
  /\ UNCHANGED << fd, m_server_fd, m_running, shut, main, handle, session, sock,
                  peer, poweroff >>

----------------------------------------------------------------------------
(* handle_client and the sessions.                                          *)

\* The threads of a client have ended: its number is as given, and the client
\* may come again.
Ended(c, numbers) ==
  /\ fd' = numbers
  /\ handle' = [handle EXCEPT ![c] = "none"]
  /\ session' = [session EXCEPT ![c] = "none"]
  /\ sock' = [sock EXCEPT ![c] = Closed]
  /\ peer' = [peer EXCEPT ![c] = "away"]
  /\ UNCHANGED << m_server_fd, m_running, shut, main, listener >>

\* A whole command came, perhaps from a client that has left since: the session
\* gets a thread of its own.
Dispatch(c) ==
  /\ handle[c] = "reading" /\ peer[c] \in {"there", "gone"} /\ Running
  /\ handle' = [handle EXCEPT ![c] = "none"]
  /\ \E kind \in Kinds : session' = [session EXCEPT ![c] = kind]
  /\ UNCHANGED << fd, m_server_fd, m_running, shut, main, listener, sock, peer,
                  poweroff >>

\* An error, a short read, no JSON, "exit", an unknown command, the end of the
\* connection.
Reject(c) ==
  /\ handle[c] = "reading" /\ peer[c] \in {"there", "gone"} /\ Running
  /\ Ended(c, Without(sock[c]))
  /\ UNCHANGED poweroff

\* A frame or an answer to a peer that is gone: an error, or SIGPIPE, which
\* nobody handles and which ends the process.
Killed(c) ==
  /\ session[c] \in {"video", "control"} /\ peer[c] = "gone" /\ Running
  /\ main' = "killed"
  /\ UNCHANGED << fd, m_server_fd, m_running, shut, listener, handle, session, sock,
                  peer, poweroff >>

\* Mutant of VideoEnds: the exception of send returns without closing.
VideoEndsOpen(c) ==
  /\ session[c] = "video" /\ Running
  /\ Ended(c, fd)
  /\ UNCHANGED poweroff

\* The video loop ends with m_running, an error of send or an exception.
VideoEnds(c) ==
  /\ session[c] = "video" /\ Running
  /\ Ended(c, Without(sock[c]))
  /\ UNCHANGED poweroff

\* One action, then close; a json::exception closes as well.
ControlEnds(c) ==
  /\ session[c] = "control" /\ Running
  /\ Ended(c, Without(sock[c]))
  /\ poweroff' \in {poweroff, TRUE}

\* Every other exception, also the ones thrown in front of a close(), returns
\* without it; the answer is sent after the action.
ControlThrows(c) ==
  /\ session[c] = "control" /\ Running
  /\ Ended(c, [fd EXCEPT ![sock[c]] = "leaked"])
  /\ poweroff' \in {poweroff, TRUE}

\* The servo session ends with the peer, with m_running, which it looks at after
\* each pair of angles, or with an exception; it blocks in read while the peer
\* is silent.
ServoEnds(c) ==
  /\ session[c] = "servo" /\ Running
  /\ Ended(c, Without(sock[c]))
  /\ UNCHANGED poweroff

----------------------------------------------------------------------------
(* stop().                                                                  *)

\* Mutant of Stop: the flag that ends the loop of the listener stays up.
StopKeepsRunning ==
  /\ main = "serving" /\ poweroff
  /\ main' = "shutdown"
  /\ UNCHANGED << fd, m_server_fd, m_running, shut, listener, handle, session, sock,
                  peer, poweroff >>

Stop ==
  /\ main = "serving" /\ poweroff
  /\ main' = "shutdown" /\ m_running' = FALSE
  /\ UNCHANGED << fd, m_server_fd, shut, listener, handle, session, sock, peer,
                  poweroff >>

\* Mutant of StopShutsDown: the listening socket is only closed.
StopSkipsShutdown ==
  /\ main = "shutdown"
  /\ main' = "close"
  /\ UNCHANGED << fd, m_server_fd, m_running, shut, listener, handle, session, sock,
                  peer, poweroff >>

StopShutsDown ==
  /\ main = "shutdown"
  /\ main' = IF m_server_fd = Closed THEN "join" ELSE "close"
  /\ shut' = (m_server_fd # Closed)
  /\ UNCHANGED << fd, m_server_fd, m_running, listener, handle, session, sock,
                  peer, poweroff >>

StopCloses ==
  /\ main = "close"
  /\ fd' = Without(m_server_fd)
  /\ main' = "join"
  /\ UNCHANGED << m_server_fd, m_running, shut, listener, handle, session, sock,
                  peer, poweroff >>

StopJoins ==
  /\ main = "join" /\ listener = "ended"
  /\ main' = "returned"
  /\ UNCHANGED << fd, m_server_fd, m_running, shut, listener, handle, session, sock,
                  peer, poweroff >>

Listener == Socket \/ Listen \/ ListenFails \/ Loop \/ AcceptFails \/ ListenerCloses
            \/ ListenerJoins \/ \E c \in Clients : Accept(c)

StopGoesOn == StopShutsDown \/ StopCloses \/ StopJoins

Next ==
  \/ \E c \in Clients :
       \/ Connect(c) \/ Hangup(c)
       \/ Dispatch(c) \/ Reject(c) \/ Killed(c)
       \/ VideoEnds(c) \/ ControlEnds(c) \/ ControlThrows(c) \/ ServoEnds(c)
  \/ Listener
  \/ Stop \/ StopGoesOn

Spec == Init /\ [][Next]_vars

(***************************************************************************)
(* Fairness.  The listener and a stop that has begun go on; a handle_client *)
(* thread goes on when the client's command or its end is there.  That a   *)
(* client speaks or leaves, or that main stops, is not assumed.            *)
(***************************************************************************)
Fairness ==
  /\ WF_vars(Listener) /\ WF_vars(StopGoesOn)
  /\ \A c \in Clients : WF_vars(peer[c] = "gone" /\ Reject(c))

FairSpec == Spec /\ Fairness

----------------------------------------------------------------------------
(* Properties.                                                              *)

\* The types of the variables.
TypeOK ==
  /\ fd \in [Numbers -> Clients \cup {"free", "server", "leaked"}]
  /\ m_server_fd \in Numbers \cup {Closed}
  /\ m_running \in BOOLEAN /\ shut \in BOOLEAN /\ poweroff \in BOOLEAN
  /\ main \in {"serving", "shutdown", "close", "join", "returned", "killed"}
  /\ listener \in {"socket", "listen", "loop", "accept", "close", "join", "ended"}
  /\ handle \in [Clients -> {"none", "reading"}]
  /\ session \in [Clients -> Kinds \cup {"none"}]
  /\ sock \in [Clients -> Numbers \cup {Closed}]
  /\ peer \in [Clients -> {"away", "waiting", "there", "gone"}]

Alive(c) == handle[c] = "reading" \/ session[c] # "none"

\* A thread that is running has the number that was accepted for it, and no two
\* have the same: neither stop nor the listener, which close the listening
\* number one after the other, ever close one that accept has handed out again
\* (server.h 33-42, 89, 117).
DescriptorsKept == \A c \in Clients : Alive(c) => fd[sock[c]] = c

\* No number is left open when its threads have ended, but for the ones that
\* handle_control forgets (server.h 448-455); and the listening number is
\* closed when stop returns.
DescriptorsReturned ==
  /\ \A n \in Numbers : fd[n] \in Clients => Alive(fd[n]) /\ sock[fd[n]] = n
  /\ main = "returned" => \A n \in Numbers : fd[n] # "server"

\* stop returns: the listener leaves its loop and has the handle_client threads
\* to join, which end when every client that has connected speaks or leaves;
\* one that does neither holds stop for ever (server.h 35-45, 120-124).
StopReturns ==
  (\A c \in Clients : []<>~ (handle[c] = "reading" /\ peer[c] = "there"))
    => (main = "shutdown" ~> main \in {"returned", "killed"})

----------------------------------------------------------------------------
(* The inductive invariant.                                                 *)

Stopping == main \in {"shutdown", "close", "join", "returned"}

\* Every number that is in use has one owner, and the owner knows it.
OwnerInv ==
  /\ \A c \in Clients : Alive(c) => /\ sock[c] \in Numbers /\ fd[sock[c]] = c
                                  /\ peer[c] \in {"there", "gone"}
  /\ \A n \in Numbers :
       /\ fd[n] \in Clients => Alive(fd[n]) /\ sock[fd[n]] = n
       /\ fd[n] = "server" => n = m_server_fd

\* Where the listener is tells whether m_server_fd has been opened, and whether
\* it is still the listening socket's.  A listener that could not listen has
\* never accepted anybody, so nobody has asked for the end.
ListenerInv ==
  /\ listener = "socket" => m_server_fd = Closed
  /\ listener \in {"loop", "accept", "close", "join"} => m_server_fd # Closed
  /\ listener \in {"listen", "loop", "accept", "close"} /\ m_server_fd # Closed
     /\ main \in {"serving", "shutdown", "close"} => fd[m_server_fd] = "server"
  /\ listener \in {"close", "join"} => main # "serving"
  /\ poweroff \/ (\E c \in Clients : Alive(c)) =>
       /\ m_server_fd # Closed /\ listener \notin {"socket", "listen"}
       /\ main = "serving" => listener # "ended"

\* From the moment stop begins nobody is given the listening number again: accept
\* fails once the socket is shut down, and it is closed only after that.
StopInv ==
  /\ main = "serving" => m_running
  /\ Stopping => poweroff /\ fd[m_server_fd] \in {"server", "free"}
  /\ main \in {"close", "join", "returned"} => shut
  /\ main \in {"join", "returned"} => \A n \in Numbers : fd[n] # "server"

IInv == TypeOK /\ OwnerInv /\ ListenerInv /\ StopInv
=============================================================================
