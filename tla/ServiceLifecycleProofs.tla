----------------------- MODULE ServiceLifecycleProofs -----------------------
(***************************************************************************)
(* For any number of starts and of failing calls: a socket number that is  *)
(* not open is closed only by threads that met inside CloseSocket; and of  *)
(* a service that is not started while its last thread runs, a thread that *)
(* Stop woke is never asleep with nothing to wake it, and one that ends    *)
(* uncancelled leaves no worker and no socket of its own.                  *)
(***************************************************************************)
EXTENDS ServiceLifecycleProps, TLAPS

(* What the caller is at, and which threads there are.                     *)
Starting == {"socket", "bind", "listen", "create"}
Stopping == {"timeout", "disable", "end"}

ThreadsStart ==
  \A n \in Starts : n > starts \/ (n = starts /\ caller \in Starting) => at[n] = "absent"

(* Each start is stopped at most once: what the last Stop asked for stands *)
(* until the next start.                                                   *)
CallerOK ==
  /\ caller # "idle" => starts \in Starts
  /\ caller \in Stopping => ~m_ServiceStarted
  /\ m_ServiceStarted \/ caller \in Stopping \cup {"started"} => m_threadID \in Starts
  /\ caller = "end" => ~m_bEpollWait
  /\ asked # "no" => caller = "idle" /\ ~m_ServiceStarted /\ starts \in Starts
  /\ asked = "woken" => ~m_bEpollWait
  /\ cancelled \subseteq 1..starts
  /\ starts \in cancelled => asked = "cancelled"

EnabledOK ==
  /\ m_enableWakeup => m_wakeupfd \in Wakeups
  /\ \A n \in Starts : at[n] = "addwake" => m_enableWakeup

Base == LifecycleTypeOK /\ ThreadsStart /\ CallerOK /\ EnabledOK

LEMMA BaseInit == Init => Base
<1> SUFFICES ASSUME Init
             PROVE  Base
  OBVIOUS
<1> USE LifecycleAssumption DEF LifecycleAssumption, Init, Starts
<1>1. LifecycleTypeOK
  BY DEF LifecycleTypeOK
<1>2. ThreadsStart /\ CallerOK
  BY DEF ThreadsStart, CallerOK, Starting, Stopping
<1>3. EnabledOK
  BY DEF EnabledOK
<1> QED
  BY <1>1, <1>2, <1>3 DEF Base

(* What a step of a thread leaves alone, and which threads take one.       *)
LEMMA ThreadMoves ==
  ASSUME LifecycleTypeOK, NEW n \in Starts, thread_proc(n)
  PROVE  /\ UNCHANGED callerVars
         /\ at[n] \notin {"absent", "ended"} /\ at'[n] # "absent"
         /\ at' = [at EXCEPT ![n] = at'[n]]
         /\ cancelled' \subseteq cancelled
         /\ ~m_bEpollWait => ~m_bEpollWait'
<1> USE DEF LifecycleTypeOK, Go, HalfClosed
<1>1. CASE TestEpollfd(n) \/ EpollCreate(n) \/ EpollCreateFails(n) \/ TestWakeup(n)
  BY <1>1 DEF TestEpollfd, EpollCreate, EpollCreateFails, TestWakeup
<1>2. CASE EnableWakeup(n) \/ PushWakeup2Epoll(n) \/ EpollAdd(n) \/ IoEpollWait(n)
  BY <1>2 DEF EnableWakeup, PushWakeup2Epoll, EpollAdd, IoEpollWait
<1>3. CASE TestEpollWait(n) \/ Wait(n)
  BY <1>3 DEF TestEpollWait, Wait
<1>4. CASE WakeupEvent(n)
  <2>1. ~m_bEpollWait => ~m_bEpollWait'
    BY <1>4 DEF WakeupEvent
  <2> QED
    BY <1>4, <2>1 DEF WakeupEvent
<1>5. CASE WaitTimesOut(n) \/ WaitFails(n) \/ ClearThreadPool(n)
  BY <1>5 DEF WaitTimesOut, WaitFails, ClearThreadPool
<1>6. CASE TestSocket(n)
  BY <1>6 DEF TestSocket, CloseLeaves
<1>7. CASE CloseSocket(n) \/ ForgetSocket(n)
  BY <1>7 DEF CloseSocket, ForgetSocket, CloseLeaves
<1>8. CASE Cancelled(n)
  BY <1>8 DEF Cancelled
<1>9. CASE CancelledCleaning(n)
  BY <1>9 DEF CancelledCleaning, CloseLeaves
<1> QED
  BY <1>1, <1>2, <1>3, <1>4, <1>5, <1>6, <1>7, <1>8, <1>9 DEF thread_proc

LEMMA TypeByThread ==
  ASSUME LifecycleTypeOK, EnabledOK, NEW n \in Starts, thread_proc(n)
  PROVE  LifecycleTypeOK' /\ EnabledOK'
<1> USE LifecycleAssumption
    DEF LifecycleAssumption, LifecycleTypeOK, EnabledOK, Go, callerVars, HalfClosed, Fault
<1> n \in Nat /\ n > 0 /\ Wakeup(n) \in Wakeups
  BY DEF Starts, Wakeups
<1>1. CASE TestEpollfd(n) \/ TestEpollWait(n) \/ WaitTimesOut(n) \/ WaitFails(n)
  <2>1. CASE TestEpollfd(n)
    BY <2>1 DEF TestEpollfd, socketVars, epollVars
  <2>2. CASE TestEpollWait(n)
    BY <2>2 DEF TestEpollWait, socketVars, epollVars
  <2>3. CASE WaitTimesOut(n)
    BY <2>3 DEF WaitTimesOut, socketVars, epollVars
  <2>4. CASE WaitFails(n)
    BY <2>4 DEF WaitFails, socketVars, epollVars
  <2> QED
    BY <1>1, <2>1, <2>2, <2>3, <2>4
<1>2. CASE EpollCreate(n) \/ EpollCreateFails(n)
  <2>1. CASE EpollCreate(n)
    BY <2>1 DEF EpollCreate, socketVars
  <2>2. CASE EpollCreateFails(n)
    BY <2>2 DEF EpollCreateFails, socketVars
  <2> QED
    BY <1>2, <2>1, <2>2
<1>3. CASE TestWakeup(n)
  BY <1>3 DEF TestWakeup, socketVars, epollVars
<1>4. CASE EnableWakeup(n)
  BY <1>4 DEF EnableWakeup, socketVars
<1>5. CASE PushWakeup2Epoll(n)
  <2>1. m_wakeupfd \in Wakeups /\ (epollfd > 0 => epollfd \in Starts)
    BY <1>5 DEF PushWakeup2Epoll, Starts
  <2>2. watched' \subseteq Starts \X (Starts \cup Wakeups)
    BY <1>5, <2>1 DEF PushWakeup2Epoll
  <2>3. edges' \subseteq Starts \X Wakeups
    <3>1. \A w \in watched' : w[2] \in written => w \in Starts \X Wakeups
      BY <2>2
    <3> QED
      BY <1>5, <3>1 DEF PushWakeup2Epoll
  <2> QED
    BY <1>5, <2>2, <2>3 DEF PushWakeup2Epoll, socketVars
<1>6. CASE EpollAdd(n)
  <2>1. epollfd > 0 => epollfd \in Starts
    BY DEF Starts
  <2> QED
    BY <1>6, <2>1 DEF EpollAdd, socketVars
<1>7. CASE IoEpollWait(n) \/ Wait(n)
  <2>1. CASE IoEpollWait(n)
    BY <2>1 DEF IoEpollWait, socketVars, epollVars
  <2>2. CASE Wait(n)
    BY <2>2 DEF Wait, socketVars, epollVars
  <2> QED
    BY <1>7, <2>1, <2>2
<1>8. CASE WakeupEvent(n)
  BY <1>8 DEF WakeupEvent, socketVars
<1>9. CASE ClearThreadPool(n)
  BY <1>9 DEF ClearThreadPool, epollVars
<1>10. CASE TestSocket(n) \/ ForgetSocket(n) \/ CancelledCleaning(n)
  <2>1. CASE TestSocket(n)
    BY <2>1 DEF TestSocket, CloseLeaves
  <2>2. CASE ForgetSocket(n)
    BY <2>2 DEF ForgetSocket, CloseLeaves
  <2>3. CASE CancelledCleaning(n)
    BY <2>3 DEF CancelledCleaning, CloseLeaves
  <2> QED
    BY <1>10, <2>1, <2>2, <2>3
<1>11. CASE CloseSocket(n)
  BY <1>11 DEF CloseSocket, CloseLeaves
<1>12. CASE Cancelled(n)
  BY <1>12 DEF Cancelled, socketVars, epollVars
<1> QED
  BY <1>1, <1>2, <1>3, <1>4, <1>5, <1>6, <1>7, <1>8, <1>9, <1>10, <1>11, <1>12 DEF thread_proc

(* A step of a call of Start or Stop.                                      *)
LEMMA BaseByCaller ==
  ASSUME Base, CreateThreadPool \/ Stop \/ Continue
  PROVE  Base'
<1> USE DEF Base, Calls, Fault
<1>1. CASE CreateThreadPool
  <2> USE LifecycleAssumption DEF LifecycleAssumption
  <2>1. /\ starts' = starts + 1 /\ starts' \in 1..MaxStarts
        /\ workers' = workers \cup {starts'}
    BY <1>1 DEF CreateThreadPool, LifecycleTypeOK
  <2>2. starts' \notin cancelled
    BY <2>1 DEF CallerOK, LifecycleTypeOK
  <2>3. LifecycleTypeOK'
    <3>1. starts' \in Starts
      BY <2>1 DEF Starts
    <3> QED
      BY <1>1, <2>1, <3>1 DEF CreateThreadPool, LifecycleTypeOK, epollVars
  <2>4. ThreadsStart' /\ CallerOK'
    BY <1>1, <2>1, <2>2 DEF CreateThreadPool, LifecycleTypeOK, ThreadsStart, CallerOK,
       Starting, Stopping, Starts
  <2>5. EnabledOK'
    BY <1>1 DEF CreateThreadPool, EnabledOK, epollVars
  <2> QED
    BY <2>3, <2>4, <2>5
<1> USE DEF StartLeaves, StopLeaves, epollVars, socketVars, Starting, Stopping
<1>2. CASE Stop
  <2>1. LifecycleTypeOK' /\ EnabledOK'
    BY <1>2 DEF Stop, LifecycleTypeOK, EnabledOK
  <2>2. ThreadsStart'
    BY <1>2 DEF Stop, ThreadsStart, LifecycleTypeOK
  <2>3. CallerOK'
    <3>1. starts \in Starts /\ asked = "no" /\ m_threadID \in Starts
      BY <1>2 DEF Stop, CallerOK, LifecycleTypeOK, Starts
    <3> QED
      BY <1>2, <3>1 DEF Stop, CallerOK
  <2> QED
    BY <2>1, <2>2, <2>3
<1>3. CASE Socket
  <2>1. LifecycleTypeOK' /\ EnabledOK'
    BY <1>3 DEF Socket, LifecycleTypeOK, EnabledOK, CallerOK
  <2>2. ThreadsStart'
    BY <1>3 DEF Socket, ThreadsStart, LifecycleTypeOK
  <2>3. CallerOK'
    BY <1>3 DEF Socket, CallerOK
  <2> QED
    BY <2>1, <2>2, <2>3
<1>4. CASE SocketFails
  <2>1. LifecycleTypeOK' /\ EnabledOK'
    BY <1>4 DEF SocketFails, LifecycleTypeOK, EnabledOK
  <2>2. ThreadsStart'
    BY <1>4 DEF SocketFails, ThreadsStart, LifecycleTypeOK
  <2>3. CallerOK'
    BY <1>4 DEF SocketFails, CallerOK
  <2> QED
    BY <2>1, <2>2, <2>3
<1>5. CASE Bind
  <2>1. LifecycleTypeOK' /\ EnabledOK'
    BY <1>5 DEF Bind, LifecycleTypeOK, EnabledOK
  <2>2. ThreadsStart'
    BY <1>5 DEF Bind, ThreadsStart, LifecycleTypeOK
  <2>3. CallerOK'
    BY <1>5 DEF Bind, CallerOK
  <2> QED
    BY <2>1, <2>2, <2>3
<1>6. CASE BindFails
  <2>1. LifecycleTypeOK' /\ EnabledOK'
    BY <1>6 DEF BindFails, LifecycleTypeOK, EnabledOK
  <2>2. ThreadsStart'
    BY <1>6 DEF BindFails, ThreadsStart, LifecycleTypeOK
  <2>3. CallerOK'
    BY <1>6 DEF BindFails, CallerOK
  <2> QED
    BY <2>1, <2>2, <2>3
<1>7. CASE Listen
  <2>1. LifecycleTypeOK' /\ EnabledOK'
    BY <1>7 DEF Listen, LifecycleTypeOK, EnabledOK
  <2>2. ThreadsStart'
    BY <1>7 DEF Listen, ThreadsStart, LifecycleTypeOK
  <2>3. CallerOK'
    BY <1>7 DEF Listen, CallerOK
  <2> QED
    BY <2>1, <2>2, <2>3
<1>8. CASE ListenFails
  <2>1. LifecycleTypeOK' /\ EnabledOK'
    BY <1>8 DEF ListenFails, LifecycleTypeOK, EnabledOK
  <2>2. ThreadsStart'
    BY <1>8 DEF ListenFails, ThreadsStart, LifecycleTypeOK
  <2>3. CallerOK'
    BY <1>8 DEF ListenFails, CallerOK
  <2> QED
    BY <2>1, <2>2, <2>3
<1>9. CASE CreateThread
  <2>1. LifecycleTypeOK' /\ EnabledOK'
    BY <1>9 DEF CreateThread, LifecycleTypeOK, EnabledOK, CallerOK
  <2>2. ThreadsStart'
    BY <1>9 DEF CreateThread, ThreadsStart, LifecycleTypeOK
  <2>3. CallerOK'
    BY <1>9 DEF CreateThread, CallerOK
  <2> QED
    BY <2>1, <2>2, <2>3
<1>10. CASE Started
  <2>1. LifecycleTypeOK' /\ EnabledOK'
    BY <1>10 DEF Started, LifecycleTypeOK, EnabledOK
  <2>2. ThreadsStart'
    BY <1>10 DEF Started, ThreadsStart, LifecycleTypeOK
  <2>3. CallerOK'
    BY <1>10 DEF Started, CallerOK
  <2> QED
    BY <2>1, <2>2, <2>3
<1>11. CASE ClearTimeout
  <2>1. LifecycleTypeOK' /\ EnabledOK'
    BY <1>11 DEF ClearTimeout, LifecycleTypeOK, EnabledOK
  <2>2. ThreadsStart'
    BY <1>11 DEF ClearTimeout, ThreadsStart, LifecycleTypeOK
  <2>3. CallerOK'
    BY <1>11 DEF ClearTimeout, CallerOK
  <2> QED
    BY <2>1, <2>2, <2>3
<1>12. CASE DisableEpollWait
  <2>1. LifecycleTypeOK' /\ EnabledOK'
    BY <1>12 DEF DisableEpollWait, LifecycleTypeOK, EnabledOK
  <2>2. ThreadsStart'
    BY <1>12 DEF DisableEpollWait, ThreadsStart, LifecycleTypeOK
  <2>3. CallerOK'
    BY <1>12 DEF DisableEpollWait, CallerOK
  <2> QED
    BY <2>1, <2>2, <2>3
<1>13. CASE EpollWakeup
  <2>1. LifecycleTypeOK' /\ EnabledOK'
    <3>1. m_wakeupfd \in Wakeups
      BY <1>13 DEF EpollWakeup, EnabledOK
    <3>2. {w \in watched : w[2] = m_wakeupfd} \subseteq Starts \X Wakeups
      BY <3>1 DEF LifecycleTypeOK
    <3>3. written' \subseteq Wakeups /\ edges' \subseteq Starts \X Wakeups
      BY <1>13, <3>1, <3>2 DEF EpollWakeup, LifecycleTypeOK
    <3> QED
      BY <1>13, <3>3 DEF EpollWakeup, LifecycleTypeOK, EnabledOK
  <2>2. ThreadsStart'
    BY <1>13 DEF EpollWakeup, ThreadsStart, LifecycleTypeOK
  <2>3. CallerOK'
    BY <1>13 DEF EpollWakeup, CallerOK
  <2> QED
    BY <2>1, <2>2, <2>3
<1>14. CASE CancelThread
  <2>1. m_threadID \in 1..starts /\ m_threadID \in Starts
    BY <1>14 DEF CancelThread, CallerOK, LifecycleTypeOK, Starts
  <2>2. LifecycleTypeOK' /\ EnabledOK'
    BY <1>14, <2>1 DEF CancelThread, LifecycleTypeOK, EnabledOK
  <2>3. ThreadsStart'
    BY <1>14 DEF CancelThread, ThreadsStart, LifecycleTypeOK
  <2>4. CallerOK'
    BY <1>14, <2>1 DEF CancelThread, CallerOK
  <2> QED
    BY <2>2, <2>3, <2>4
<1> QED
  BY <1>1, <1>2, <1>3, <1>4, <1>5, <1>6, <1>7, <1>8, <1>9, <1>10, <1>11, <1>12, <1>13, <1>14 DEF Continue

LEMMA BaseByThread ==
  ASSUME Base, NEW n \in Starts, thread_proc(n)
  PROVE  Base'
<1>1. /\ UNCHANGED callerVars
      /\ at[n] \notin {"absent", "ended"}
      /\ at' = [at EXCEPT ![n] = at'[n]]
      /\ cancelled' \subseteq cancelled
      /\ ~m_bEpollWait => ~m_bEpollWait'
  BY ThreadMoves DEF Base
<1>2. LifecycleTypeOK' /\ EnabledOK'
  BY TypeByThread DEF Base
<1>3. ThreadsStart'
  BY <1>1 DEF Base, ThreadsStart, LifecycleTypeOK, callerVars
<1>4. CallerOK'
  BY <1>1 DEF Base, CallerOK, callerVars
<1> QED
  BY <1>2, <1>3, <1>4 DEF Base

LEMMA BaseStep == Base /\ [Next]_vars => Base'
<1> SUFFICES ASSUME Base, [Next]_vars
             PROVE  Base'
  OBVIOUS
<1>1. CASE UNCHANGED vars
  <2>1. LifecycleTypeOK' /\ EnabledOK'
    BY <1>1 DEF vars, callerVars, socketVars, epollVars, Base, LifecycleTypeOK, EnabledOK
  <2> QED
    BY <1>1, <2>1 DEF vars, callerVars, socketVars, epollVars, Base, ThreadsStart, CallerOK
<1> QED
  BY <1>1, BaseByCaller, BaseByThread DEF Next

(* The numbers of sockets, threads, epoll objects and wake-up descriptors  *)
(* stay within those of the starts there were, a socket that listens is    *)
(* open, and only a wake-up descriptor has an edge to report.              *)
THEOREM LifecycleTypeCorrect == Spec => []LifecycleTypeOK
<1>1. Base => LifecycleTypeOK
  BY DEF Base
<1> QED
  BY <1>1, BaseInit, BaseStep, PTL DEF Spec
-----------------------------------------------------------------------------
(* Until two threads meet in CloseSocket, one at most is between its test  *)
(* and its assignment; m_socket is open or none, but for the moment that   *)
(* one has closed it and not yet said so.                                  *)
OneCloses ==
  /\ \A k, l \in Starts : at[k] \in HalfClosed /\ at[l] \in HalfClosed => k = l
  /\ \A k \in Starts : at[k] = "closing" => m_socket \in open
  /\ m_socket \in open \cup {-1} \/ \E k \in Starts : at[k] = "forget"

CloseInv ==
  /\ DOMAIN at = Starts
  /\ ~torn => ~misclosed /\ OneCloses

LEMMA CloseInit == Init => CloseInv
BY DEF Init, CloseInv, OneCloses, HalfClosed

(* A step that neither enters nor leaves CloseSocket, nor touches m_socket *)
(* or what is open.                                                        *)
LEMMA CloseElsewhere ==
  ASSUME CloseInv, UNCHANGED <<m_socket, open, misclosed, torn>>,
         DOMAIN at' = Starts,
         \A k \in Starts : at'[k] = at[k] \/ {at[k], at'[k]} \cap HalfClosed = {}
  PROVE  CloseInv'
<1>1. \A k \in Starts : /\ at'[k] \in HalfClosed <=> at[k] \in HalfClosed
                        /\ at'[k] = "closing" <=> at[k] = "closing"
                        /\ at'[k] = "forget" <=> at[k] = "forget"
  BY DEF HalfClosed
<1>2. ~misclosed' <=> ~misclosed
  OBVIOUS
<1>3. torn' <=> torn
  OBVIOUS
<1>4. ~torn => OneCloses'
  BY <1>1 DEF CloseInv, OneCloses
<1> QED
  BY <1>2, <1>3, <1>4 DEF CloseInv

LEMMA CloseByThread ==
  ASSUME CloseInv, NEW n \in Starts, thread_proc(n)
  PROVE  CloseInv'
<1> USE DEF Go
<1>1. CASE TestSocket(n)
  <2>1. /\ at[n] = "close" /\ UNCHANGED <<m_socket, open, misclosed>>
        /\ at' = [at EXCEPT ![n] = IF m_socket # -1 THEN "closing" ELSE "ended"]
        /\ torn' <=> (torn \/ (m_socket # -1 /\ \E k \in Starts : at[k] \in HalfClosed))
    BY <1>1 DEF TestSocket
  <2>2. CASE m_socket = -1
    <3>1. torn' <=> torn
      BY <2>1, <2>2
    <3>2. ~torn => OneCloses'
      BY <2>1, <2>2 DEF CloseInv, OneCloses, HalfClosed
    <3> QED
      BY <2>1, <3>1, <3>2 DEF CloseInv
  <2>3. CASE m_socket # -1
    <3>1. ~torn' => ~torn /\ \A k \in Starts : at[k] \notin HalfClosed
      BY <2>1, <2>3
    <3>2. ~torn' => OneCloses'
      BY <2>1, <2>3, <3>1 DEF CloseInv, OneCloses, HalfClosed
    <3> QED
      BY <2>1, <3>1, <3>2 DEF CloseInv
  <2> QED
    BY <2>2, <2>3
<1>2. CASE CloseSocket(n)
  <2>1. /\ at[n] = "closing" /\ at' = [at EXCEPT ![n] = "forget"]
        /\ misclosed' <=> (misclosed \/ m_socket \notin open \cup {-1})
        /\ open' = open \ {m_socket} /\ m_socket' = m_socket /\ (torn' <=> torn)
    BY <1>2 DEF CloseSocket
  <2>2. ~torn => m_socket \in open /\ OneCloses'
    BY <2>1 DEF CloseInv, OneCloses, HalfClosed
  <2> QED
    BY <2>1, <2>2 DEF CloseInv
<1>3. CASE ForgetSocket(n)
  <2>1. /\ at[n] = "forget" /\ at' = [at EXCEPT ![n] = "ended"]
        /\ m_socket' = -1 /\ UNCHANGED <<open, misclosed, torn>>
    BY <1>3 DEF ForgetSocket
  <2>2. ~torn => OneCloses'
    BY <2>1 DEF CloseInv, OneCloses, HalfClosed
  <2> QED
    BY <2>1, <2>2 DEF CloseInv
<1>4. CASE CancelledCleaning(n)
  <2>1. /\ at[n] \in {"clear", "close"} \cup HalfClosed /\ at' = [at EXCEPT ![n] = "ended"]
        /\ torn' <=> (torn \/ at[n] \in HalfClosed)
        /\ UNCHANGED <<m_socket, open, misclosed>>
    BY <1>4 DEF CancelledCleaning
  <2>2. ~torn' => ~torn /\ at[n] \notin HalfClosed
    BY <2>1
  <2>3. ~torn' => OneCloses'
    BY <2>1, <2>2 DEF CloseInv, OneCloses, HalfClosed
  <2> QED
    BY <2>1, <2>2, <2>3 DEF CloseInv
<1>5. ASSUME ~TestSocket(n), ~CloseSocket(n), ~ForgetSocket(n), ~CancelledCleaning(n)
      PROVE  CloseInv'
  <2>1. /\ UNCHANGED <<m_socket, open, misclosed, torn>>
        /\ \E x : at' = [at EXCEPT ![n] = x] /\ {at[n], x} \cap HalfClosed = {}
    <3> USE DEF HalfClosed
    <3>1. CASE TestEpollfd(n) \/ EpollCreate(n) \/ EpollCreateFails(n) \/ TestWakeup(n)
      BY <3>1 DEF TestEpollfd, EpollCreate, EpollCreateFails, TestWakeup, socketVars
    <3>2. CASE EnableWakeup(n) \/ PushWakeup2Epoll(n) \/ EpollAdd(n) \/ IoEpollWait(n)
      BY <3>2 DEF EnableWakeup, PushWakeup2Epoll, EpollAdd, IoEpollWait, socketVars
    <3>3. CASE TestEpollWait(n) \/ Wait(n) \/ WakeupEvent(n)
      BY <3>3 DEF TestEpollWait, Wait, WakeupEvent, socketVars
    <3>4. CASE WaitTimesOut(n) \/ WaitFails(n) \/ ClearThreadPool(n)
      BY <3>4 DEF WaitTimesOut, WaitFails, ClearThreadPool, socketVars
    <3>5. CASE Cancelled(n)
      BY <3>5 DEF Cancelled, socketVars
    <3> QED
      BY <1>5, <3>1, <3>2, <3>3, <3>4, <3>5 DEF thread_proc
  <2>2. /\ DOMAIN at' = Starts
        /\ \A k \in Starts : at'[k] = at[k] \/ {at[k], at'[k]} \cap HalfClosed = {}
    BY <2>1 DEF CloseInv
  <2> QED
    BY <2>1, <2>2, CloseElsewhere
<1> QED
  BY <1>1, <1>2, <1>3, <1>4, <1>5

LEMMA CloseStep == Base /\ CloseInv /\ [Next]_vars => CloseInv'
<1> SUFFICES ASSUME Base, CloseInv, [Next]_vars
             PROVE  CloseInv'
  OBVIOUS
<1>1. CASE UNCHANGED vars \/ CreateThreadPool \/ Stop
  <2>1. UNCHANGED <<m_socket, open, misclosed, torn, at>>
    BY <1>1 DEF vars, CreateThreadPool, Stop, StopLeaves, socketVars
  <2> QED
    BY <2>1, CloseElsewhere DEF CloseInv
<1>2. CASE Socket
  <2>1. /\ m_socket' = starts /\ open' = open \cup {starts} /\ UNCHANGED <<at, misclosed, torn>>
    BY <1>2 DEF Socket, StartLeaves
  <2>2. ~torn => OneCloses'
    BY <2>1 DEF CloseInv, OneCloses, HalfClosed
  <2> QED
    BY <2>1, <2>2 DEF CloseInv
<1>3. CASE CreateThread
  <2>1. /\ UNCHANGED <<m_socket, open, misclosed, torn>> /\ at' = [at EXCEPT ![starts] = "epoll"]
        /\ caller = "create"
    BY <1>3 DEF CreateThread, StartLeaves, Calls
  <2>2. starts \in Starts => at[starts] = "absent"
    BY <2>1 DEF Base, ThreadsStart, Starting
  <2>3. /\ DOMAIN at' = Starts
        /\ \A k \in Starts : at'[k] = at[k] \/ {at[k], at'[k]} \cap HalfClosed = {}
    BY <2>1, <2>2 DEF CloseInv, HalfClosed
  <2> QED
    BY <2>1, <2>3, CloseElsewhere
<1>4. CASE Continue /\ ~Socket /\ ~CreateThread
  <2>1. UNCHANGED <<m_socket, open, misclosed, torn, at>>
    BY <1>4 DEF Continue, SocketFails, Bind, BindFails, Listen, ListenFails, Started, StartLeaves,
       ClearTimeout, DisableEpollWait, EpollWakeup, CancelThread, StopLeaves, socketVars
  <2> QED
    BY <2>1, CloseElsewhere DEF CloseInv
<1> QED
  BY <1>1, <1>2, <1>3, <1>4, CloseByThread DEF Next

(* A socket number that is not open is closed only by threads that met in  *)
(* CloseSocket or were cancelled in there (AsyncSocket.cpp:59-62), whatever*)
(* starts fail or overlap, and whatever is stopped and cancelled when.     *)
THEOREM ClosedOnceCorrect == Spec => []ClosedOnce
<1>1. CloseInv => ClosedOnce
  BY DEF CloseInv, ClosedOnce
<1> QED
  BY <1>1, BaseInit, BaseStep, CloseInit, CloseStep, PTL DEF Spec
-----------------------------------------------------------------------------
(* A service that is not started while its last thread runs: only the      *)
(* thread of the last start runs.                                          *)
OneThread == \A n \in Starts : n # starts => at[n] \in {"absent", "ended"}

(* m_socket is the socket of the last start while that one is open.        *)
SocketsOK ==
  /\ open \subseteq 1..starts
  /\ starts \in open => m_socket = starts
  /\ caller \in {"bind", "listen"} => starts \in open
  /\ starts \in Starts /\ at[starts] = "forget" => starts \notin open

(* A thread that has added the wake-up descriptor has it watched, unless   *)
(* there is no epoll object, and waits for what is in m_object.            *)
WakeupOK ==
  \A n \in Starts :
    /\ at[n] \in {"enable", "eventfd", "addwake", "addlisten", "begin", "loop", "wait", "asleep"} =>
         epollfd # 0
    /\ at[n] \in {"addlisten", "begin", "loop", "wait", "asleep"} =>
         epollfd <= 0 \/ <<epollfd, m_wakeupfd>> \in watched
    /\ at[n] = "asleep" => waiting[n][1] = epollfd

WakeupComes ==
  asked = "woken" /\ at[starts] \in {"wait", "asleep"} =>
    epollfd <= 0 \/ <<epollfd, m_wakeupfd>> \in edges

EndClosed ==
  asked # "cancelled" /\ starts \in Starts =>
    /\ at[starts] \in {"close", "closing", "forget", "ended"} => workers = {}
    /\ at[starts] \in {"forget", "ended"} => starts \notin open

LifeInv == OneThread /\ SocketsOK /\ WakeupOK /\ WakeupComes /\ EndClosed

(* A thread that Stop has woken is not asleep without an event to report   *)
(* or an error to return, wherever Stop met it (TcpService.cpp:106-108,    *)
(* EpollWatch.cpp:132): this is what keeps the wake-up from being lost.    *)
NoLostWakeup ==
  ~overlapped /\ asked = "woken" /\ at[starts] = "asleep" =>
    waiting[starts][1] <= 0 \/ \E w \in edges : w[1] = waiting[starts][1]

(* A thread that has ended, and was not cancelled, has joined the workers  *)
(* and closed the socket of its start, also if it ended by itself          *)
(* (TcpService.cpp:233-238).                                               *)
EndsClosed ==
  ~overlapped /\ asked # "cancelled" /\ starts \in Starts /\ at[starts] = "ended" =>
    workers = {} /\ starts \notin open

LEMMA LifeInit == Init => LifeInv
BY DEF Init, LifeInv, OneThread, SocketsOK, WakeupOK, WakeupComes, EndClosed, Starts

LEMMA LifeByCaller ==
  ASSUME Base, LifeInv, Stop \/ Continue
  PROVE  LifeInv'
<1> USE DEF Base, Calls, StartLeaves, StopLeaves, epollVars, socketVars
<1>1. ASSUME UNCHANGED <<starts, at, epollfd, m_wakeupfd, watched, waiting>>
      PROVE  OneThread' /\ WakeupOK'
  BY <1>1 DEF LifeInv, OneThread, WakeupOK
<1>2. ASSUME UNCHANGED <<starts, at, epollfd, m_wakeupfd>>, edges \subseteq edges',
             asked' = asked
      PROVE  WakeupComes'
  BY <1>2 DEF LifeInv, WakeupComes
<1>3. ASSUME UNCHANGED <<starts, at, workers, open, asked>>
      PROVE  EndClosed'
  BY <1>3 DEF LifeInv, EndClosed
<1>4. CASE Socket
  <2>1. caller = "socket" /\ starts \in Starts /\ at[starts] = "absent"
    BY <1>4 DEF Socket, CallerOK, ThreadsStart, Starting
  <2>2. SocketsOK'
    BY <1>4, <2>1 DEF Socket, LifeInv, SocketsOK, Starts
  <2>3. EndClosed'
    BY <1>4, <2>1 DEF Socket, EndClosed
  <2> QED
    BY <1>1, <1>2, <1>4, <2>2, <2>3 DEF Socket, LifeInv
<1>5. CASE SocketFails \/ Bind \/ BindFails \/ Listen \/ ListenFails \/ Started
  <2>1. SocketsOK'
    BY <1>5 DEF SocketFails, Bind, BindFails, Listen, ListenFails, Started, LifeInv, SocketsOK
  <2> QED
    BY <1>1, <1>2, <1>3, <1>5, <2>1
       DEF SocketFails, Bind, BindFails, Listen, ListenFails, Started, LifeInv
<1>6. CASE CreateThread
  <2>1. /\ starts \in Starts /\ at' = [at EXCEPT ![starts] = "epoll"]
        /\ UNCHANGED <<starts, asked, m_socket, open, workers, epollVars, waiting>>
    BY <1>6 DEF CreateThread, CallerOK
  <2>2. OneThread' /\ WakeupOK'
    BY <2>1 DEF LifeInv, OneThread, WakeupOK, LifecycleTypeOK
  <2>3. WakeupComes' /\ EndClosed'
    BY <2>1 DEF WakeupComes, EndClosed, LifecycleTypeOK
  <2>4. SocketsOK'
    BY <1>6, <2>1 DEF CreateThread, LifeInv, SocketsOK
  <2> QED
    BY <2>2, <2>3, <2>4 DEF LifeInv
<1>7. CASE Stop \/ ClearTimeout \/ DisableEpollWait
  <2>1. SocketsOK'
    BY <1>7 DEF Stop, ClearTimeout, DisableEpollWait, LifeInv, SocketsOK
  <2> QED
    BY <1>1, <1>2, <1>3, <1>7, <2>1 DEF Stop, ClearTimeout, DisableEpollWait, LifeInv
<1>8. CASE EpollWakeup
  <2>1. SocketsOK'
    BY <1>8 DEF EpollWakeup, LifeInv, SocketsOK
  <2>2. starts \in Starts
    BY <1>8 DEF EpollWakeup, CallerOK
  <2>3. WakeupComes'
    <3>1. <<epollfd, m_wakeupfd>> \in watched => <<epollfd, m_wakeupfd>> \in edges'
      BY <1>8 DEF EpollWakeup
    <3> QED
      BY <1>8, <2>2, <3>1 DEF EpollWakeup, LifeInv, WakeupComes, WakeupOK
  <2>4. EndClosed'
    BY <1>8, <2>2 DEF EpollWakeup, LifeInv, EndClosed, CallerOK
  <2> QED
    BY <1>1, <1>8, <2>1, <2>3, <2>4 DEF EpollWakeup, LifeInv
<1>9. CASE CancelThread
  <2>1. SocketsOK'
    BY <1>9 DEF CancelThread, LifeInv, SocketsOK
  <2> QED
    BY <1>1, <1>9, <2>1 DEF CancelThread, LifeInv, WakeupComes, EndClosed
<1> QED
  BY <1>4, <1>5, <1>6, <1>7, <1>8, <1>9 DEF Continue

LEMMA LifeByStart ==
  ASSUME Base, LifeInv, CreateThreadPool, ~overlapped'
  PROVE  LifeInv'
<1>1. /\ starts' = starts + 1 /\ starts \in Nat /\ starts' \in Nat /\ asked' = "no"
      /\ caller' = "socket" /\ \A n \in Starts : at[n] \in {"absent", "ended"}
      /\ UNCHANGED <<at, m_socket, open>>
  <2>1. \A n \in Starts : at[n] \in {"absent", "ended"}
    BY DEF CreateThreadPool
  <2>2. starts \in Nat
    BY LifecycleAssumption DEF Base, LifecycleTypeOK, LifecycleAssumption
  <2> QED
    BY <2>1, <2>2 DEF CreateThreadPool, Calls
<1>2. starts' \in Starts => at[starts'] = "absent"
  BY <1>1 DEF Base, ThreadsStart
<1>3. OneThread' /\ WakeupOK' /\ WakeupComes' /\ EndClosed'
  BY <1>1, <1>2 DEF OneThread, WakeupOK, WakeupComes, EndClosed
<1>4. SocketsOK'
  BY <1>1 DEF LifeInv, SocketsOK
<1> QED
  BY <1>3, <1>4 DEF LifeInv

LEMMA LifeByThread ==
  ASSUME Base, LifeInv, NEW n \in Starts, thread_proc(n)
  PROVE  LifeInv'
<1>1. /\ n = starts
      /\ UNCHANGED callerVars
      /\ at[n] \notin {"absent", "ended"} /\ at'[n] # "absent"
      /\ at' = [at EXCEPT ![n] = at'[n]]
      /\ DOMAIN at = Starts
      /\ caller \notin {"bind", "listen"}
  <2>1. /\ UNCHANGED callerVars /\ at[n] \notin {"absent", "ended"} /\ at'[n] # "absent"
        /\ at' = [at EXCEPT ![n] = at'[n]]
    BY ThreadMoves DEF Base
  <2>2. n = starts
    BY <2>1 DEF LifeInv, OneThread
  <2> QED
    BY <2>1, <2>2 DEF Base, ThreadsStart, LifecycleTypeOK, Starting
<1>2. /\ asked' = asked /\ starts' = starts /\ caller' = caller
      /\ asked = "woken" => ~m_bEpollWait
      /\ starts \in cancelled => asked = "cancelled"
      /\ \A k \in Starts : k # n => at'[k] = at[k] /\ at[k] \in {"absent", "ended"}
  BY <1>1 DEF callerVars, Base, CallerOK, LifeInv, OneThread
<1>3. OneThread'
  BY <1>2, <1>1 DEF OneThread
<1>4. SocketsOK' /\ EndClosed'
  <2> USE DEF SocketsOK, EndClosed, LifeInv, Go
  <2>1. CASE ClearThreadPool(n)
    BY <1>1, <1>2, <2>1 DEF ClearThreadPool
  <2>2. CASE TestSocket(n)
    <3>1. /\ at[n] = "close" /\ UNCHANGED <<m_socket, open, workers>>
          /\ at'[n] = IF m_socket # -1 THEN "closing" ELSE "ended"
      BY <1>1, <2>2 DEF TestSocket, CloseLeaves
    <3>2. starts # -1
      BY <1>1 DEF Starts
    <3> QED
      BY <1>1, <1>2, <3>1, <3>2
  <2>3. CASE CloseSocket(n)
    BY <1>1, <1>2, <2>3 DEF CloseSocket, CloseLeaves
  <2>4. CASE ForgetSocket(n)
    <3>1. /\ at[n] = "forget" /\ at'[n] = "ended" /\ UNCHANGED <<open, workers>>
      BY <1>1, <2>4 DEF ForgetSocket, CloseLeaves
    <3>2. starts \notin open
      BY <1>1, <3>1
    <3> QED
      BY <1>1, <1>2, <3>1, <3>2
  <2>5. CASE CancelledCleaning(n)
    <3>1. asked = "cancelled" /\ at'[n] = "ended" /\ UNCHANGED <<m_socket, open>>
      BY <1>1, <1>2, <2>5 DEF CancelledCleaning
    <3> QED
      BY <1>1, <1>2, <3>1
  <2>6. CASE UNCHANGED <<m_socket, open, workers>>
             /\ at'[n] \notin {"close", "closing", "forget", "ended"}
    BY <1>1, <1>2, <2>6
  <2>7. ASSUME ~ClearThreadPool(n), ~TestSocket(n), ~CloseSocket(n), ~ForgetSocket(n),
               ~CancelledCleaning(n)
        PROVE  /\ UNCHANGED <<m_socket, open, workers>>
               /\ at'[n] \notin {"close", "closing", "forget", "ended"}
    <3> USE <1>1 DEF socketVars
    <3>1. CASE TestEpollfd(n) \/ EpollCreate(n) \/ EpollCreateFails(n) \/ TestWakeup(n)
      BY <3>1 DEF TestEpollfd, EpollCreate, EpollCreateFails, TestWakeup
    <3>2. CASE EnableWakeup(n) \/ PushWakeup2Epoll(n) \/ EpollAdd(n) \/ IoEpollWait(n)
      BY <3>2 DEF EnableWakeup, PushWakeup2Epoll, EpollAdd, IoEpollWait
    <3>3. CASE TestEpollWait(n) \/ Wait(n) \/ WakeupEvent(n)
      BY <3>3 DEF TestEpollWait, Wait, WakeupEvent
    <3>4. CASE WaitTimesOut(n) \/ WaitFails(n) \/ Cancelled(n)
      BY <3>4 DEF WaitTimesOut, WaitFails, Cancelled
    <3> QED
      BY <2>7, <3>1, <3>2, <3>3, <3>4 DEF thread_proc
  <2> QED
    BY <2>1, <2>2, <2>3, <2>4, <2>5, <2>6, <2>7
<1>5. WakeupOK' /\ WakeupComes'
  <2> USE <1>1, <1>2 DEF WakeupOK, WakeupComes, LifeInv, Go
  <2>1. CASE TestEpollfd(n) \/ TestWakeup(n)
    BY <2>1 DEF TestEpollfd, TestWakeup, epollVars
  <2>2. CASE EpollCreate(n) \/ EpollCreateFails(n)
    <3>1. at'[n] = "enable" /\ epollfd' # 0
      BY <2>2 DEF EpollCreate, EpollCreateFails, Starts
    <3> QED
      BY <3>1
  <2>3. CASE EnableWakeup(n)
    BY <2>3 DEF EnableWakeup
  <2>4. CASE PushWakeup2Epoll(n)
    <3>1. epollfd <= 0 \/ <<epollfd, m_wakeupfd>> \in watched'
      BY <2>4 DEF PushWakeup2Epoll, Base, LifecycleTypeOK, Starts
    <3>2. at'[n] = "addlisten" /\ epollfd # 0 /\ UNCHANGED <<epollfd, m_wakeupfd>>
      BY <2>4 DEF PushWakeup2Epoll
    <3> QED
      BY <3>1, <3>2
  <2>5. CASE EpollAdd(n)
    BY <2>5 DEF EpollAdd
  <2>6. CASE IoEpollWait(n) \/ TestEpollWait(n)
    BY <2>6 DEF IoEpollWait, TestEpollWait, epollVars
  <2>7. CASE Wait(n)
    <3>1. waiting'[n][1] = epollfd
      BY <2>7 DEF Wait, Base, LifecycleTypeOK
    <3> QED
      BY <2>7, <3>1 DEF Wait, epollVars
  <2>8. CASE WakeupEvent(n)
    BY <2>8 DEF WakeupEvent
  <2>9. CASE WaitTimesOut(n) \/ WaitFails(n)
    BY <2>9 DEF WaitTimesOut, WaitFails, epollVars
  <2>10. CASE ClearThreadPool(n) \/ Cancelled(n)
    <3>1. at'[n] \in {"clear", "close"}
      BY <2>10 DEF ClearThreadPool, Cancelled
    <3> QED
      BY <3>1
  <2>11. CASE TestSocket(n) \/ CloseSocket(n) \/ ForgetSocket(n) \/ CancelledCleaning(n)
    <3>1. at'[n] \in {"closing", "forget", "ended"}
      BY <2>11 DEF TestSocket, CloseSocket, ForgetSocket, CancelledCleaning
    <3> QED
      BY <3>1
  <2> QED
    BY <2>1, <2>2, <2>3, <2>4, <2>5, <2>6, <2>7, <2>8, <2>9, <2>10, <2>11 DEF thread_proc
<1> QED
  BY <1>3, <1>4, <1>5 DEF LifeInv

AloneInv == ~overlapped => LifeInv

LEMMA AloneStep == Base /\ AloneInv /\ [Next]_vars => AloneInv'
<1> SUFFICES ASSUME Base, AloneInv, [Next]_vars, ~overlapped'
             PROVE  LifeInv'
  BY DEF AloneInv
<1>1. CASE UNCHANGED vars
  <2>1. LifeInv
    BY <1>1 DEF vars, callerVars, AloneInv
  <2> QED
    BY <1>1, <2>1 DEF vars, callerVars, socketVars, epollVars, LifeInv, OneThread, SocketsOK,
       WakeupOK, WakeupComes, EndClosed
<1>2. CASE CreateThreadPool
  <2>1. LifeInv
    BY <1>2 DEF CreateThreadPool, AloneInv
  <2> QED
    BY <1>2, <2>1, LifeByStart
<1>3. CASE Stop \/ Continue
  <2>1. LifeInv
    BY <1>3 DEF AloneInv, Stop, Continue, Socket, SocketFails, Bind, BindFails, Listen,
       ListenFails, CreateThread, Started, ClearTimeout, DisableEpollWait, EpollWakeup,
       CancelThread, StartLeaves, StopLeaves
  <2> QED
    BY <1>3, <2>1, LifeByCaller
<1>4. ASSUME NEW n \in Starts, thread_proc(n)
      PROVE  LifeInv'
  <2>1. LifeInv
    BY <1>4, ThreadMoves DEF AloneInv, Base, callerVars
  <2> QED
    BY <1>4, <2>1, LifeByThread
<1> QED
  BY <1>1, <1>2, <1>3, <1>4 DEF Next

LEMMA AloneAlways == Spec => [](Base /\ AloneInv)
<1>1. Init => AloneInv
  BY LifeInit DEF AloneInv
<1> QED
  BY <1>1, BaseInit, BaseStep, AloneStep, PTL DEF Spec

(* The safety of StopCloses, part one.  A thread that waits after a Stop   *)
(* that found the wake-up enabled has an event to report, or its wait      *)
(* fails: wherever Stop met it, the wake-up is not lost                    *)
(* (TcpService.cpp:106-108, 139), until a start finds an earlier thread    *)
(* running.                                                                *)
THEOREM NoLostWakeupCorrect == Spec => []NoLostWakeup
<1>1. Base /\ AloneInv => NoLostWakeup
  <2> SUFFICES ASSUME Base, AloneInv, ~overlapped, asked = "woken", at[starts] = "asleep"
               PROVE  waiting[starts][1] <= 0 \/ \E w \in edges : w[1] = waiting[starts][1]
    BY DEF NoLostWakeup
  <2>1. starts \in Starts
    BY DEF Base, CallerOK
  <2>2. waiting[starts][1] = epollfd
    BY <2>1 DEF AloneInv, LifeInv, WakeupOK
  <2>3. epollfd <= 0 \/ <<epollfd, m_wakeupfd>> \in edges
    BY DEF AloneInv, LifeInv, WakeupComes
  <2> QED
    BY <2>2, <2>3
<1> QED
  BY <1>1, AloneAlways, PTL

(* Part two.  When that thread has ended, or one that ended by itself, its *)
(* workers and its socket are gone (TcpService.cpp:233-238), after any     *)
(* failing calls and cancels, and any starts that found the thread before  *)
(* ended.                                                                  *)
THEOREM EndsClosedCorrect == Spec => []EndsClosed
<1>1. Base /\ AloneInv => EndsClosed
  BY DEF AloneInv, LifeInv, EndClosed, EndsClosed
<1> QED
  BY <1>1, AloneAlways, PTL
=============================================================================
