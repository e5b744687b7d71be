--------------------------- MODULE ThreadPoolProps --------------------------
(***************************************************************************)
(* What the pool owes its threads, a turn each, and its callers, a thread  *)
(* for every task.                                                         *)
(***************************************************************************)
EXTENDS ThreadPool

PoolStatements ==
  {"create", "created", "creating", "idle", "popping", "find", "dumped", "back",
   "pushing", "hrp", "task", "clearing", "unlist", "done", "cancel", "remove",
   "swap", "swapping"}

(* The type invariant: each element of m_Threads stands for a thread.      *)
PoolTypeOK ==
  /\ at \in [Threads -> PoolStatements]
  /\ thread \in [Threads -> Workers \cup {NoWorker}]
  /\ names \in Seq(Workers)
  /\ Len(names) = pushed
  /\ \A i \in 1..Len(deque) : deque[i] \in 1..pushed
  /\ listed \subseteq Workers
  /\ cancelled \subseteq Workers
  /\ disturbed \in 0..MaxDisturb
  /\ lost \in BOOLEAN
  /\ exited \in BOOLEAN

(* Thread w's turn is with caller t, between the pop and the push.         *)
Holds(t, w) ==
  \/ at[t] = "popping" /\ pc[t] = "idle" /\ ret[t] # 0 /\ names[ret[t]] = w
  \/ at[t] \in {"created", "find", "dumped", "back"} /\ thread[t] = w
  \/ at[t] \in {"creating", "pushing"} /\ pc[t] # "idle" /\ thread[t] = w

Turns(w) ==
  Cardinality({i \in 1..Len(deque) : names[deque[i]] = w})
    + Cardinality({t \in Threads : Holds(t, w)})

(* Nobody has begun to remove a thread or to clear the pool.               *)
Undisturbed == disturbed = 0

(* However many callers dispatch, remove and clear at once, no thread gets *)
(* a second turn (ThreadPool.cpp:20, 25).                                  *)
OneTurnEach == \A w \in Workers : Turns(w) <= 1

(* Until a removal or a clear, no thread loses its turn.                   *)
TurnsConserved == Undisturbed => \A w \in listed : Turns(w) = 1

(* ... no turn is of a thread that is not listed, which would end the      *)
(* process (ThreadPool.cpp:29), no task is lost (ThreadPool.cpp:101), and  *)
(* nobody has to fall back to the load of the threads if there are no more *)
(* callers than threads (ThreadPool.cpp:156).                              *)
NothingFails ==
  Undisturbed =>
    /\ ~exited /\ ~lost
    /\ Cardinality(Dispatchers) <= Cardinality(Workers) =>
         \A c \in Dispatchers : at[c] # "hrp"

(* First come, first served, with any number of callers: since the last    *)
(* time that the thread whose turn was put back last was given a turn,     *)
(* every other thread was given one, or is being given one.                *)
FirstComeFirstServed ==
  Undisturbed /\ at[Main] = "idle" =>
    \A i \in 1..(pushed - 1) : names[i] = names[pushed] =>
      \A v \in Workers \ {names[pushed]} :
        \/ \E k \in i..pushed : names[k] = v
        \/ \E t \in Threads : Holds(t, v)

(* Every call of GetBestThread returns, also while turns are taken away;   *)
(* only TRACE_DUMP ends it otherwise.                                      *)
DispatchEnds == \A c \in Dispatchers : at[c] = "popping" ~> at[c] = "idle" \/ exited
=============================================================================
