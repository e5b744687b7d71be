------------------------ MODULE ServiceLifecycleProps -----------------------
(***************************************************************************)
(* What Start and Stop owe their caller.                                   *)
(***************************************************************************)
EXTENDS ServiceLifecycle

LifecycleTypeOK ==
  /\ starts \in 0..MaxStarts /\ m_threadID \in 0..starts
  /\ caller \in {"idle", "socket", "bind", "listen", "create", "started", "timeout",
                 "disable", "end"}
  /\ m_socket \in Starts \cup {-1}
  /\ listening \subseteq open /\ open \subseteq Starts /\ workers \subseteq Starts
  /\ epollfd \in Starts \cup {-1, 0}
  /\ m_timeout \in {-1, 0}
  /\ m_wakeupfd \in Wakeups \cup {0} /\ written \subseteq Wakeups
  /\ watched \subseteq Starts \X (Starts \cup Wakeups) /\ edges \subseteq Starts \X Wakeups
  /\ at \in [Starts -> {"absent", "epoll", "create", "enable", "eventfd", "addwake", "addlisten",
                        "begin", "loop", "wait", "asleep", "clear", "close", "closing", "forget",
                        "ended"}]
  /\ waiting \in [Starts -> (Starts \cup {-1, 0}) \X {-1, 0}]
  /\ cancelled \subseteq Starts
  /\ asked \in {"no", "woken", "cancelled"}

(* After a Stop that found the wake-up enabled, the thread, if the last    *)
(* Start made one, ends and leaves no worker and no socket of it, wherever *)
(* Stop met it: between its test of m_bEpollWait and its wait, or with the *)
(* wake-up descriptor made but not yet watched (TcpService.cpp:106-108,    *)
(* EpollWatch.cpp:132).  A Stop that cancelled the thread promises none of *)
(* this, nor does one of a service that was started again before its last  *)
(* thread had ended: one wake-up ends one thread.                          *)
StopCloses ==
  asked = "woken" /\ ~overlapped ~>
    \/ asked # "woken" \/ overlapped \/ at[starts] = "absent"
    \/ (at[starts] = "ended" /\ starts \notin open /\ workers = {})

(* Whatever is started, stopped and cancelled when, a thread closes a      *)
(* socket number that is not open, by then maybe somebody else's           *)
(* descriptor, only if two of them met inside CloseSocket (AsyncSocket.cpp:*)
(* 59-62), where nothing locks the test, the close and the assignment, or  *)
(* one was cancelled in there.  A Start that stores its socket meanwhile,  *)
(* gets none or fails does not do it.                                      *)
ClosedOnce == misclosed => torn
=============================================================================
