----------------------------- MODULE ThreadPool -----------------------------
(***************************************************************************)
(* CThreadPool (base/src/ThreadPool.cpp): m_ThreadPool lists the threads,  *)
(* m_Threads holds one turn for each.  GetBestThread takes the first turn, *)
(* looks the thread up and puts its turn back at the end; with no turn to  *)
(* take it falls back to the load of the threads.                          *)
(*                                                                         *)
(* m_Threads is the CMsgDeque of module MsgDeque, whose calls interleave   *)
(* step by step with everything else.  What a thread does with its tasks   *)
(* is the subject of module ThreadObject.                                  *)
(***************************************************************************)
EXTENDS MsgDeque

CONSTANTS
  Workers,      \* the threads of the pool, by their pthread_t
  Dispatchers,  \* the callers of GetBestThread, AddTask and ClearThreadPool
  Main,         \* the caller of CreateThreadPool and RemoveThreadObject
  NoWorker,     \* the pthread_t -1
  MaxDisturb    \* bound: the removals and clears

ASSUME PoolAssumption ==
  /\ IsFiniteSet(Workers) /\ Workers # {}
  /\ NoWorker \notin Workers
  /\ Main \notin Dispatchers
  /\ Threads = Dispatchers \cup {Main}
  /\ Pollers = Dispatchers
  /\ Calls = [t \in Threads |-> IF t = Main THEN {"PushBack", "Swap"}
                                ELSE {"PopFront", "PushBack", "Clear"}]
  /\ Cardinality(Workers) < MaxSize
  /\ MaxDisturb \in Nat

VARIABLES
  at,         \* at[t]: the statement thread t is at, outside CMsgDeque
  thread,     \* thread[t]: its local variable thread
  names,      \* names[n]: the thread the n-th element of m_Threads stands for
  listed,     \* the keys of m_ThreadPool
  cancelled,  \* the threads that were cancelled
  disturbed,  \* the number of removals and clears begun
  lost,       \* AddTask could give some task to nobody
  exited      \* TRACE_DUMP has ended the process

poolVars == <<at, thread, names, listed, cancelled, disturbed, lost, exited>>
vars == <<dequeVars, poolVars>>

PoolInit ==
  /\ Init
  /\ at = [t \in Threads |-> IF t = Main THEN "create" ELSE "idle"]
  /\ thread = [t \in Threads |-> NoWorker]
  /\ names = <<>>
  /\ listed = {}
  /\ cancelled = {}
  /\ disturbed = 0
  /\ lost = FALSE
  /\ exited = FALSE

Go(t, from, to) == at[t] = from /\ at' = [at EXCEPT ![t] = to]

(* A call into m_Threads, and its return.  A push is of the caller's       *)
(* thread.                                                                 *)
Call(t, from, o, to) ==
  /\ Go(t, from, to)
  /\ Begin(t, o)
  /\ UNCHANGED <<thread, names, listed, cancelled, disturbed, lost, exited>>

Returned(t, from, to) ==
  /\ pc[t] = "idle"
  /\ Go(t, from, to)
  /\ UNCHANGED <<dequeVars, names, listed, cancelled, disturbed, lost, exited>>

Inner(t) ==
  /\ Step(t)
  /\ names' = IF pushed' = pushed THEN names ELSE Append(names, thread[t])
  /\ UNCHANGED <<at, thread, listed, cancelled, disturbed, lost, exited>>

-----------------------------------------------------------------------------
(* CreateThreadPool, before anybody can use the pool.                      *)

Creating == at[Main] \in {"create", "created", "creating"}

SetThread ==
  /\ Go(Main, "create", "created")
  /\ \E w \in Workers \ listed :
       /\ thread' = [thread EXCEPT ![Main] = w]
       /\ listed' = listed \cup {w}
  /\ UNCHANGED <<dequeVars, names, cancelled, disturbed, lost, exited>>

PushThread == Call(Main, "created", "PushBack", "creating")

ThreadPushed ==
  /\ Returned(Main, "creating", IF listed = Workers THEN "idle" ELSE "create")
  /\ UNCHANGED thread

-----------------------------------------------------------------------------
(* GetBestThread(FCFS_ALGORITHM) and AddTask.                              *)

(* MaxPush bounds the dispatches: each has room to put its turn back.      *)
GetBestThread(c) ==
  /\ ~Creating
  /\ pushed + Cardinality({d \in Dispatchers : at[d] # "idle"}) < MaxPush
  /\ Call(c, "idle", "PopFront", "popping")

Popped(c) ==
  /\ ret[c] # 0
  /\ Returned(c, "popping", "find")
  /\ thread' = [thread EXCEPT ![c] = names[ret[c]]]

NothingPopped(c) ==
  /\ ret[c] = 0
  /\ Returned(c, "popping", "hrp")
  /\ UNCHANGED thread

(* Mutant: the thread is taken out of the map.                             *)
TakeThread(c) ==
  /\ Go(c, "find", "back")
  /\ thread[c] \in listed
  /\ listed' = listed \ {thread[c]}
  /\ UNCHANGED <<dequeVars, thread, names, cancelled, disturbed, lost, exited>>

FindThread(c) ==
  /\ Go(c, "find", "back")
  /\ thread[c] \in listed
  /\ UNCHANGED <<dequeVars, thread, names, listed, cancelled, disturbed, lost, exited>>

(* A turn of a thread that is not listed: TRACE_DUMP logs it and exits.    *)
Dump(c) ==
  /\ Go(c, "find", "dumped")
  /\ thread[c] \notin listed
  /\ exited' = TRUE
  /\ UNCHANGED <<dequeVars, thread, names, listed, cancelled, disturbed, lost>>

(* Mutant: the turn is not put back.                                       *)
KeepTurn(c) ==
  /\ Go(c, "back", "pushing")
  /\ UNCHANGED <<dequeVars, thread, names, listed, cancelled, disturbed, lost, exited>>

PutBack(c) == Call(c, "back", "PushBack", "pushing")

(* Mutant: the push is repeated until it is refused.                       *)
PushAgain(c) ==
  Returned(c, "pushing", IF ret[c] = 0 THEN "task" ELSE "back") /\ UNCHANGED thread

Back(c) == Returned(c, "pushing", "task") /\ UNCHANGED thread

(* schedulingHRP takes the first idle thread or the least busy one.  The   *)
(* counters it reads drift, so it may take any; -1 if none is listed.      *)
schedulingHRP(c) ==
  /\ Go(c, "hrp", "task")
  /\ \E w \in IF listed = {} THEN {NoWorker} ELSE listed :
       thread' = [thread EXCEPT ![c] = w]
  /\ UNCHANGED <<dequeVars, names, listed, cancelled, disturbed, lost, exited>>

AddTask(c) ==
  /\ Go(c, "task", "idle")
  /\ lost' = (lost \/ thread[c] \notin listed)
  /\ thread' = [thread EXCEPT ![c] = NoWorker]
  /\ UNCHANGED <<dequeVars, names, listed, cancelled, disturbed, exited>>

-----------------------------------------------------------------------------
(* ClearThreadPool: no turns, then no threads, then every thread cancelled.*)

ClearThreads(c) ==
  /\ ~Creating
  /\ disturbed < MaxDisturb
  /\ Go(c, "idle", "clearing")
  /\ Begin(c, "Clear")
  /\ disturbed' = disturbed + 1
  /\ UNCHANGED <<thread, names, listed, cancelled, lost, exited>>

Cleared(c) == Returned(c, "clearing", "unlist") /\ UNCHANGED thread

CancleThreadObjects(c) ==
  /\ Go(c, "unlist", "done")
  /\ listed' = {}
  /\ cancelled' = cancelled \cup listed
  /\ UNCHANGED <<dequeVars, thread, names, disturbed, lost, exited>>

-----------------------------------------------------------------------------
(* RemoveThreadObject.  The deque that m_Threads is swapped with gets the  *)
(* turns and no token, so the loop that should put the others back ends    *)
(* at its first PopFront.                                                  *)

FindObject(w) ==
  /\ Go(Main, "idle", IF w \in listed THEN "cancel" ELSE "swap")
  /\ disturbed < MaxDisturb
  /\ thread' = [thread EXCEPT ![Main] = w]
  /\ disturbed' = disturbed + 1
  /\ UNCHANGED <<dequeVars, names, listed, cancelled, lost, exited>>

pthread_cancel ==
  /\ Go(Main, "cancel", "remove")
  /\ cancelled' = cancelled \cup {thread[Main]}
  /\ UNCHANGED <<dequeVars, thread, names, listed, disturbed, lost, exited>>

RemoveObject ==
  /\ Go(Main, "remove", "swap")
  /\ listed' = listed \ {thread[Main]}
  /\ UNCHANGED <<dequeVars, thread, names, cancelled, disturbed, lost, exited>>

SwapThreads == Call(Main, "swap", "Swap", "swapping")

Swapped ==
  /\ Returned(Main, "swapping", "idle")
  /\ thread' = [thread EXCEPT ![Main] = NoWorker]

-----------------------------------------------------------------------------
Create == SetThread \/ PushThread \/ ThreadPushed

Dispatch(c) ==
  \/ Popped(c) \/ NothingPopped(c) \/ FindThread(c) \/ Dump(c)
  \/ PutBack(c) \/ Back(c) \/ schedulingHRP(c) \/ AddTask(c)
  \/ Cleared(c) \/ CancleThreadObjects(c)

Remove == pthread_cancel \/ RemoveObject \/ SwapThreads \/ Swapped

PoolNext ==
  /\ ~exited
  /\ \/ \E t \in Threads : Inner(t)
     \/ Create \/ Remove
     \/ \E c \in Dispatchers : GetBestThread(c) \/ ClearThreads(c) \/ Dispatch(c)
     \/ \E w \in Workers : FindObject(w)

PoolSpec == PoolInit /\ [][PoolNext]_vars

(***************************************************************************)
(* Fairness: every thread runs, and who keeps asking for m_mutex, or       *)
(* waiting for a token, gets it or times out.                              *)
(***************************************************************************)
PoolFairness ==
  /\ WF_vars(~exited /\ (Create \/ Remove \/ Inner(Main)))
  /\ \A c \in Dispatchers : WF_vars(~exited /\ (Dispatch(c) \/ Inner(c)))
  /\ \A t \in Threads :
       SF_vars(~exited /\ (Lock(t) \/ SemTake(t) \/ SemTimeout(t)) /\ UNCHANGED poolVars)

FairPoolSpec == PoolSpec /\ PoolFairness
=============================================================================
