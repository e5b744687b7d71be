-------------------------- MODULE ServiceLifecycle --------------------------
(***************************************************************************)
(* CTcpService::Start and Stop (net/src/TcpService.cpp) against the thread *)
(* that Start creates: the listening socket, the epoll object, the wake-up *)
(* descriptor and the workers, from a start to the end of the thread.      *)
(*                                                                         *)
(* The n-th Start has the n-th thread, socket and set of workers; the      *)
(* thread may make the n-th epoll object and wake-up descriptor.  A number *)
(* is never used again here, so that a stale one shows.  One caller starts *)
(* and stops the service as it likes: nobody waits for m_semt, so a Start  *)
(* may find earlier threads at any statement.  What the loop does with     *)
(* connections is in module TcpService.                                    *)
(***************************************************************************)
EXTENDS Integers, FiniteSets

CONSTANTS
  MaxStarts,  \* bound: the calls of Start
  MaxFaults   \* bound: the calls of socket, bind, listen and epoll_create1 that fail

ASSUME LifecycleAssumption == MaxStarts \in Nat /\ MaxFaults \in Nat

VARIABLES
  starts,          \* the calls of Start so far
  caller,          \* the statement the caller of Start and Stop is at
  m_threadID,      \* the thread created last, or 0
  m_socket,        \* the number of the socket, or -1
  open,            \* the sockets that are open
  listening,       \* those that listen
  workers,         \* the starts whose workers are in the pool
  m_ServiceStarted,
  m_timeout,
  m_bEpollWait,
  m_enableWakeup,
  m_wakeupfd,      \* the number of the wake-up descriptor, or 0
  epollfd,         \* m_object.epollfd: 0, an object or, after a failure, -1
  watched,         \* pairs of an epoll object and a descriptor it watches
  written,         \* the wake-up descriptors that have been written to
  edges,           \* the pairs of watched that epoll_pwait has yet to report
  at,              \* at[n]: the statement thread n is at
  waiting,         \* waiting[n]: the arguments of its call of epoll_pwait
  cancelled,       \* the threads with a pending pthread_cancel
  asked,           \* how the last Stop asked the thread to end
  faults,          \* the calls that failed
  misclosed,       \* close got a socket that is not open
  overlapped,      \* a Start was called before the last thread had ended
  torn             \* a CloseSocket met another, or was cancelled half way

callerVars == <<starts, caller, m_threadID, m_ServiceStarted, asked, overlapped>>
socketVars == <<m_socket, open, listening, workers, misclosed, torn>>
epollVars == <<epollfd, watched, written, edges, m_enableWakeup, m_wakeupfd>>
vars == <<callerVars, socketVars, epollVars, m_timeout, m_bEpollWait, at, waiting,
          cancelled, faults>>

Starts == 1..MaxStarts
Wakeup(n) == MaxStarts + n
Wakeups == {Wakeup(n) : n \in Starts}

Init ==
  /\ starts = 0
  /\ caller = "idle"
  /\ m_threadID = 0
  /\ m_socket = -1
  /\ open = {}
  /\ listening = {}
  /\ workers = {}
  /\ m_ServiceStarted = FALSE
  /\ m_timeout = -1
  /\ m_bEpollWait = TRUE
  /\ m_enableWakeup = FALSE
  /\ m_wakeupfd = 0
  /\ epollfd = 0
  /\ watched = {}
  /\ written = {}
  /\ edges = {}
  /\ at = [n \in Starts |-> "absent"]
  /\ waiting = [n \in Starts |-> <<0, 0>>]
  /\ cancelled = {}
  /\ asked = "no"
  /\ faults = 0
  /\ misclosed = FALSE
  /\ overlapped = FALSE
  /\ torn = FALSE

Calls(from, to) == caller = from /\ caller' = to

Fault == faults < MaxFaults /\ faults' = faults + 1

-----------------------------------------------------------------------------
(* Start: the pool, then CreateSocket.                                     *)
CreateThreadPool ==
  /\ Calls("idle", "socket")
  /\ starts < MaxStarts
  /\ starts' = starts + 1
  /\ workers' = workers \cup {starts'}
  /\ asked' = "no"
  /\ overlapped' = (overlapped \/ \E n \in Starts : at[n] \notin {"absent", "ended"})
  /\ UNCHANGED <<m_threadID, m_ServiceStarted, m_socket, open, listening, misclosed, torn,
                 epollVars, m_timeout, m_bEpollWait, at, waiting, cancelled, faults>>

(* What the statements of Start after that leave alone.                    *)
StartLeaves ==
  UNCHANGED <<starts, asked, overlapped, workers, misclosed, torn, epollVars, m_timeout,
              m_bEpollWait, waiting, cancelled>>

Socket ==
  /\ Calls("socket", "bind")
  /\ m_socket' = starts
  /\ open' = open \cup {starts}
  /\ StartLeaves /\ UNCHANGED <<m_threadID, m_ServiceStarted, listening, at, faults>>

(* CreateSocket then returns 0, which Start takes for a descriptor.        *)
SocketFails ==
  /\ Calls("socket", "create")
  /\ Fault
  /\ StartLeaves /\ UNCHANGED <<m_threadID, m_ServiceStarted, m_socket, open, listening, at>>

(* bind and listen are given m_socket, which another thread may have closed*)
(* since; then they fail.                                                  *)
Bind ==
  /\ Calls("bind", "listen")
  /\ m_socket \in open
  /\ StartLeaves /\ UNCHANGED <<m_threadID, m_ServiceStarted, m_socket, open, listening, at, faults>>

(* CreateSocket does without listen and returns the descriptor.            *)
BindFails ==
  /\ Calls("bind", "create")
  /\ Fault \/ (m_socket \notin open /\ UNCHANGED faults)
  /\ StartLeaves /\ UNCHANGED <<m_threadID, m_ServiceStarted, m_socket, open, listening, at>>

Listen ==
  /\ Calls("listen", "create")
  /\ m_socket \in open
  /\ listening' = listening \cup {m_socket}
  /\ StartLeaves /\ UNCHANGED <<m_threadID, m_ServiceStarted, m_socket, open, at, faults>>

(* Start returns -1, with the workers and an open socket left behind.      *)
ListenFails ==
  /\ Calls("listen", "idle")
  /\ Fault \/ (m_socket \notin open /\ UNCHANGED faults)
  /\ StartLeaves /\ UNCHANGED <<m_threadID, m_ServiceStarted, m_socket, open, listening, at>>

CreateThread ==
  /\ Calls("create", "started")
  /\ m_threadID' = starts
  /\ at' = [at EXCEPT ![starts] = "epoll"]
  /\ StartLeaves /\ UNCHANGED <<m_ServiceStarted, m_socket, open, listening, faults>>

Started ==
  /\ Calls("started", "idle")
  /\ m_ServiceStarted' = TRUE
  /\ StartLeaves /\ UNCHANGED <<m_threadID, m_socket, open, listening, at, faults>>

-----------------------------------------------------------------------------
(* Stop: a service that is not started is left alone.                      *)
StopLeaves ==
  UNCHANGED <<starts, m_threadID, overlapped, socketVars, epollfd, watched, m_enableWakeup,
              m_wakeupfd, at, waiting, faults>>

Stop ==
  /\ Calls("idle", "timeout")
  /\ m_ServiceStarted
  /\ m_ServiceStarted' = FALSE
  /\ StopLeaves /\ UNCHANGED <<asked, written, edges, m_timeout, m_bEpollWait, cancelled>>

ClearTimeout ==
  /\ Calls("timeout", "disable")
  /\ m_timeout' = 0
  /\ StopLeaves
  /\ UNCHANGED <<m_ServiceStarted, asked, written, edges, m_bEpollWait, cancelled>>

DisableEpollWait ==
  /\ Calls("disable", "end")
  /\ m_bEpollWait' = FALSE
  /\ StopLeaves /\ UNCHANGED <<m_ServiceStarted, asked, written, edges, m_timeout, cancelled>>

EpollWakeup ==
  /\ m_enableWakeup
  /\ Calls("end", "idle")
  /\ written' = written \cup {m_wakeupfd}
  /\ edges' = edges \cup {w \in watched : w[2] = m_wakeupfd}
  /\ asked' = "woken"
  /\ StopLeaves /\ UNCHANGED <<m_ServiceStarted, m_timeout, m_bEpollWait, cancelled>>

(* No thread has got as far as the wake-up descriptor.                     *)
CancelThread ==
  /\ ~m_enableWakeup
  /\ Calls("end", "idle")
  /\ cancelled' = cancelled \cup {m_threadID}
  /\ asked' = "cancelled"
  /\ StopLeaves /\ UNCHANGED <<m_ServiceStarted, written, edges, m_timeout, m_bEpollWait>>

-----------------------------------------------------------------------------
(* thread_proc.                                                            *)
Go(n, from, to) == at[n] = from /\ at' = [at EXCEPT ![n] = to]

(* An epoll object is made once, and kept until the service is destroyed;  *)
(* threads that look at the same time make one each.                       *)
TestEpollfd(n) ==
  /\ Go(n, "epoll", IF epollfd = 0 THEN "create" ELSE "enable")
  /\ UNCHANGED <<callerVars, socketVars, epollVars, m_timeout, m_bEpollWait, waiting,
                 cancelled, faults>>

EpollCreate(n) ==
  /\ Go(n, "create", "enable")
  /\ epollfd' = n
  /\ UNCHANGED <<callerVars, socketVars, watched, written, edges, m_enableWakeup, m_wakeupfd,
                 m_timeout, m_bEpollWait, waiting, cancelled, faults>>

EpollCreateFails(n) ==
  /\ Go(n, "create", "enable")
  /\ epollfd' = -1
  /\ Fault
  /\ UNCHANGED <<callerVars, socketVars, watched, written, edges, m_enableWakeup, m_wakeupfd,
                 m_timeout, m_bEpollWait, waiting, cancelled>>

TestWakeup(n) ==
  /\ Go(n, "enable", IF m_enableWakeup THEN "addwake" ELSE "eventfd")
  /\ UNCHANGED <<callerVars, socketVars, epollVars, m_timeout, m_bEpollWait, waiting,
                 cancelled, faults>>

EnableWakeup(n) ==
  /\ Go(n, "eventfd", "addwake")
  /\ m_wakeupfd' = Wakeup(n)
  /\ m_enableWakeup' = TRUE
  /\ UNCHANGED <<callerVars, socketVars, epollfd, watched, written, edges, m_timeout,
                 m_bEpollWait, waiting, cancelled, faults>>

(* Mutant: the descriptor is made and not added.                           *)
PushNothing(n) ==
  /\ Go(n, "addwake", "addlisten")
  /\ UNCHANGED <<callerVars, socketVars, epollVars, m_timeout, m_bEpollWait, waiting,
                 cancelled, faults>>

(* Adding a descriptor that is ready gives an edge; adding it again fails. *)
PushWakeup2Epoll(n) ==
  /\ Go(n, "addwake", "addlisten")
  /\ watched' = IF epollfd > 0 THEN watched \cup {<<epollfd, m_wakeupfd>>} ELSE watched
  /\ edges' = edges \cup {w \in watched' \ watched : w[2] \in written}
  /\ UNCHANGED <<callerVars, socketVars, epollfd, written, m_enableWakeup, m_wakeupfd,
                 m_timeout, m_bEpollWait, waiting, cancelled, faults>>

EpollAdd(n) ==
  /\ Go(n, "addlisten", "begin")
  /\ watched' = IF epollfd > 0 /\ m_socket \in open
                THEN watched \cup {<<epollfd, m_socket>>} ELSE watched
  /\ UNCHANGED <<callerVars, socketVars, epollfd, written, edges, m_enableWakeup, m_wakeupfd,
                 m_timeout, m_bEpollWait, waiting, cancelled, faults>>

(* IoEpollWait sets the timeout that Stop may already have cleared.        *)
IoEpollWait(n) ==
  /\ Go(n, "begin", "loop")
  /\ m_timeout' = -1
  /\ UNCHANGED <<callerVars, socketVars, epollVars, m_bEpollWait, waiting, cancelled, faults>>

TestEpollWait(n) ==
  /\ Go(n, "loop", IF m_bEpollWait THEN "wait" ELSE "clear")
  /\ UNCHANGED <<callerVars, socketVars, epollVars, m_timeout, m_bEpollWait, waiting,
                 cancelled, faults>>

(* The object and the timeout are passed by value: what Stop does to       *)
(* m_timeout from now on does not reach the thread.                        *)
Wait(n) ==
  /\ Go(n, "wait", "asleep")
  /\ waiting' = [waiting EXCEPT ![n] = <<epollfd, m_timeout>>]
  /\ UNCHANGED <<callerVars, socketVars, epollVars, m_timeout, m_bEpollWait, cancelled,
                 faults>>

(* epoll_pwait returns with an event, at once when the timeout is 0, and   *)
(* with an error when there is no epoll object, which ends the loop.  An   *)
(* event of a wake-up descriptor that is not m_wakeupfd goes to a worker   *)
(* like one of a connection.                                               *)
WakeupEvent(n) ==
  /\ Go(n, "asleep", "loop")
  /\ \E w \in edges :
       /\ w[1] = waiting[n][1]
       /\ edges' = edges \ {w}
       /\ m_bEpollWait' = (m_bEpollWait /\ w[2] # m_wakeupfd)
  /\ UNCHANGED <<callerVars, socketVars, epollfd, watched, written, m_enableWakeup,
                 m_wakeupfd, m_timeout, waiting, cancelled, faults>>

WaitTimesOut(n) ==
  /\ Go(n, "asleep", "loop")
  /\ waiting[n][1] > 0 /\ waiting[n][2] = 0
  /\ \A w \in edges : w[1] # waiting[n][1]
  /\ UNCHANGED <<callerVars, socketVars, epollVars, m_timeout, m_bEpollWait, waiting,
                 cancelled, faults>>

WaitFails(n) ==
  /\ Go(n, "asleep", "clear")
  /\ waiting[n][1] <= 0
  /\ UNCHANGED <<callerVars, socketVars, epollVars, m_timeout, m_bEpollWait, waiting,
                 cancelled, faults>>

-----------------------------------------------------------------------------
(* clean_func.                                                             *)
ClearThreadPool(n) ==
  /\ Go(n, "clear", "close")
  /\ workers' = {}
  /\ UNCHANGED <<callerVars, m_socket, open, listening, misclosed, torn, epollVars, m_timeout,
                 m_bEpollWait, waiting, cancelled, faults>>

(* What CloseSocket, which nothing locks, leaves alone.                    *)
CloseLeaves ==
  UNCHANGED <<callerVars, workers, epollfd, written, edges, m_enableWakeup, m_wakeupfd,
              m_timeout, m_bEpollWait, waiting, faults>>

HalfClosed == {"closing", "forget"}

TestSocket(n) ==
  /\ Go(n, "close", IF m_socket # -1 THEN "closing" ELSE "ended")
  /\ torn' = (torn \/ (m_socket # -1 /\ \E k \in Starts : at[k] \in HalfClosed))
  /\ CloseLeaves /\ UNCHANGED <<m_socket, open, listening, misclosed, watched, cancelled>>

(* The number is read again: another thread may have changed it.           *)
CloseSocket(n) ==
  /\ Go(n, "closing", "forget")
  /\ misclosed' = (misclosed \/ m_socket \notin open \cup {-1})
  /\ open' = open \ {m_socket}
  /\ listening' = listening \ {m_socket}
  /\ watched' = {w \in watched : w[2] # m_socket}
  /\ CloseLeaves /\ UNCHANGED <<m_socket, torn, cancelled>>

(* Mutant: m_socket keeps the number of the closed socket.                 *)
KeepSocket(n) ==
  /\ Go(n, "forget", "ended")
  /\ CloseLeaves
  /\ UNCHANGED <<m_socket, open, listening, misclosed, torn, watched, cancelled>>

ForgetSocket(n) ==
  /\ Go(n, "forget", "ended")
  /\ m_socket' = -1
  /\ CloseLeaves /\ UNCHANGED <<open, listening, misclosed, torn, watched, cancelled>>

(* A pending cancel acts where the thread waits or logs and runs clean_func*)
(* from its start, for good.                                               *)
Cancelled(n) ==
  /\ n \in cancelled
  /\ at[n] \in {"addwake", "addlisten", "begin", "loop", "wait", "asleep"}
  /\ at' = [at EXCEPT ![n] = "clear"]
  /\ cancelled' = cancelled \ {n}
  /\ UNCHANGED <<callerVars, socketVars, epollVars, m_timeout, m_bEpollWait, waiting, faults>>

(* When clean_func is run by the pop of its handler, there is none left to *)
(* run: the thread ends where it is, in a close before or after its effect.*)
CancelledCleaning(n) ==
  /\ n \in cancelled
  /\ at[n] \in {"clear", "close"} \cup HalfClosed
  /\ at' = [at EXCEPT ![n] = "ended"]
  /\ cancelled' = cancelled \ {n}
  /\ torn' = (torn \/ at[n] \in HalfClosed)
  /\ CloseLeaves /\ UNCHANGED <<m_socket, open, listening, misclosed, watched>>

-----------------------------------------------------------------------------
Continue ==
  \/ Socket \/ SocketFails \/ Bind \/ BindFails \/ Listen \/ ListenFails
  \/ CreateThread \/ Started
  \/ ClearTimeout \/ DisableEpollWait \/ EpollWakeup \/ CancelThread

thread_proc(n) ==
  \/ TestEpollfd(n) \/ EpollCreate(n) \/ EpollCreateFails(n)
  \/ TestWakeup(n) \/ EnableWakeup(n) \/ PushWakeup2Epoll(n)
  \/ EpollAdd(n) \/ IoEpollWait(n) \/ TestEpollWait(n)
  \/ Wait(n) \/ WakeupEvent(n) \/ WaitTimesOut(n) \/ WaitFails(n)
  \/ ClearThreadPool(n) \/ TestSocket(n) \/ CloseSocket(n) \/ ForgetSocket(n)
  \/ Cancelled(n) \/ CancelledCleaning(n)

Next == CreateThreadPool \/ Stop \/ Continue \/ \E n \in Starts : thread_proc(n)

Spec == Init /\ [][Next]_vars

(* Fairness: threads run, and a call of Start or Stop that was begun goes  *)
(* on.  Nobody has to call either.                                         *)
FairSpec == Spec /\ WF_vars(Continue) /\ \A n \in Starts : WF_vars(thread_proc(n))
=============================================================================
