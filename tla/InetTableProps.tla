--------------------------- MODULE InetTableProps ---------------------------
(***************************************************************************)
(* What the table owes its users.                                          *)
(***************************************************************************)
EXTENDS InetTable

TableTypeOK ==
  /\ DOMAIN vmap \subseteq Keys /\ Range(vmap) \subseteq 1..allocated
  /\ m_mutex \in Threads \cup {NoThread}
  /\ m_blocked \in BOOLEAN
  /\ pc \in [Threads -> {"idle", "block", "lock", "body", "unlock", "unblock"}]
  /\ ret \in [Threads -> SUBSET (1..allocated)]
  /\ hand \in [Threads -> SUBSET (1..allocated)]
  /\ alive \subseteq 1..allocated
  /\ met \in BOOLEAN /\ metDelete \in BOOLEAN

(* What overlapping calls can do to the addresses, each function looking a *)
(* name up and acting on what it found in two calls of the map             *)
(* (InetTable.cpp:39, 54, 66).  Nothing is deleted twice or used after that*)
(* and the map has no dangling pointer, however many AddIpAddr of one name *)
(* overlap, as long as none overlaps a RemoveIpAddr of that name or a      *)
(* ClearIpAddr; and none is leaked as long as no two changes overlap.      *)
OwnedOnce ==
  /\ ~metDelete =>
       /\ ~faulted
       /\ \A k, l \in DOMAIN vmap : vmap[k] = vmap[l] => k = l
       /\ (\A t \in Threads : doing[t] # "clear") => Range(vmap) \subseteq alive
  /\ ~met => alive \subseteq Range(vmap) \cup UNION {hand[t] : t \in Threads}

(* islocked never stays true behind the last user of the mutex, although   *)
(* m_blocked is written outside it on both sides (Mutex.cpp:27, 39).  While*)
(* threads come and go it may be false with the mutex taken.               *)
BlockedSettles ==
  (\A t \in Threads : pc[t] = "idle") => ~m_blocked /\ m_mutex = NoThread
=============================================================================
