---------------------------- MODULE ThreadObject ----------------------------
(***************************************************************************)
(* CThreadObject (base/src/ThreadObject.cpp): one thread of the pool and   *)
(* the queue of its tasks.  The worker sleeps in PopFront and runs what it *)
(* gets; callers add tasks; the owner of the pool cancels the worker,      *)
(* waits for it at most 30 seconds and destroys the object.                *)
(*                                                                         *)
(* The queue is the CMsgDeque of module MsgDeque: its calls are begun with *)
(* Begin and interleave step by step with everything else.                 *)
(***************************************************************************)
EXTENDS MsgDeque

CONSTANTS
  Worker,     \* the thread thread_proc runs on
  Owner,      \* the thread that cancels and destroys; it may add tasks too
  BusyMod,    \* 2^w, the width of the counter busying
  Unread      \* "busying not read yet"

Callers == Threads \ {Worker}

ASSUME ThreadAssumption ==
  /\ Worker \in Threads
  /\ Owner \in Callers
  /\ Pollers = {}
  /\ Calls = [t \in Threads |-> IF t = Worker THEN {"PopFront", "Clear"}
                                ELSE {"PushBack", "AbortWait"}]
  /\ BusyMod \in Nat \ {0}
  /\ Unread \notin Nat

VARIABLES
  at,         \* at[t]: the statement thread t is at, outside CMsgDeque
  arg,        \* arg[t]: the value of busying t has read, to pass or to modify
  busying,    \* m_thread.busying
  status,     \* m_thread.status
  ready,      \* the value of the semaphore m_ReadyRunning
  ran,        \* the tasks run so far, in order
  listed,     \* whether the pool can still find the object to add a task
  expired,    \* the wait for the worker ran out
  freed       \* the object has been destroyed

threadVars == <<at, arg, busying, status, ready, ran, listed, expired, freed>>
vars == <<dequeVars, threadVars>>

ThreadInit ==
  /\ Init
  /\ at = [t \in Threads |-> IF t = Worker THEN "sleep" ELSE "idle"]
  /\ arg = [t \in Threads |-> Unread]
  /\ busying = 0
  /\ status = "SLEEP"
  /\ ready = 0
  /\ ran = <<>>
  /\ listed = TRUE
  /\ expired = FALSE
  /\ freed = FALSE

Go(t, from, to) == at[t] = from /\ at' = [at EXCEPT ![t] = to]

(* A call into the deque, and what is done with its result.                *)
Call(t, from, o, to) ==
  /\ Go(t, from, to)
  /\ Begin(t, o)
  /\ UNCHANGED <<arg, busying, status, ready, ran, listed, expired, freed>>

Returned(t, from, to) ==
  /\ pc[t] = "idle"
  /\ Go(t, from, to)
  /\ UNCHANGED <<dequeVars, arg, busying, status, ready, ran, listed, expired, freed>>

Inner(t) == Step(t) /\ UNCHANGED threadVars

-----------------------------------------------------------------------------
(* SetThreadStatus(busying, s): the argument is read outside m_mutex; ++   *)
(* and -- on it are a read and a write outside m_mutex as well.            *)

StatusAt == [sleep |-> "SLEEP", exit |-> "EXITED",
             running |-> "RUNNING", waiting |-> "WAITING"]
AfterSet == [sleep |-> "loop", exit |-> "post",
             running |-> "run", waiting |-> "idle"]

ReadBusying(t) ==
  /\ at[t] \in {"sleep", "exit", "dec", "inc"}
  /\ arg[t] = Unread
  /\ arg' = [arg EXCEPT ![t] = busying]
  /\ UNCHANGED <<dequeVars, at, busying, status, ready, ran, listed, expired, freed>>

WriteBusying(t, from, to, value) ==
  /\ arg[t] # Unread
  /\ Go(t, from, to)
  /\ busying' = value % BusyMod
  /\ arg' = [arg EXCEPT ![t] = busying']
  /\ UNCHANGED <<dequeVars, status, ready, ran, listed, expired, freed>>

Increment(t) == WriteBusying(t, "inc", "waiting", arg[t] + 1)
Decrement(t) == WriteBusying(t, "dec", "running", arg[t] - 1)

SetThreadStatus(t) ==
  /\ at[t] \in DOMAIN StatusAt
  /\ arg[t] # Unread
  /\ busying' = arg[t]
  /\ status' = StatusAt[at[t]]
  /\ arg' = [arg EXCEPT ![t] = Unread]
  /\ at' = [at EXCEPT ![t] = AfterSet[at[t]]]
  /\ UNCHANGED <<dequeVars, ready, ran, listed, expired, freed>>

-----------------------------------------------------------------------------
(* thread_proc and clean_func.                                             *)

(* The loop ends on the abort flag, with or without tasks in the queue;    *)
(* PopFront tests the flag again.                                          *)
TestAbort == Returned(Worker, "loop", IF aborted THEN "clean" ELSE "fetch")

Fetch == Call(Worker, "fetch", "PopFront", "popping")

(* Mutant: the result of PopFront is not tested.                           *)
FetchedAnything == Returned(Worker, "popping", "dec")

Fetched ==
  \/ ret[Worker] # 0 /\ Returned(Worker, "popping", "dec")
  \/ ret[Worker] = 0 /\ Returned(Worker, "popping", "loop")

(* The task runs, and returns or throws: the handlers end the same way.    *)
RunTask ==
  /\ Go(Worker, "run", "sleep")
  /\ ran' = Append(ran, ret[Worker])
  /\ UNCHANGED <<dequeVars, arg, busying, status, ready, listed, expired, freed>>

Clean == Call(Worker, "clean", "Clear", "clearing")

Cleaned == Returned(Worker, "clearing", "exit")

ReadyRunningPost ==
  /\ Go(Worker, "post", "exited")
  /\ ready' = ready + 1
  /\ UNCHANGED <<dequeVars, arg, busying, status, ran, listed, expired, freed>>

-----------------------------------------------------------------------------
(* AddThreadTask, by a caller that found the object in the pool.           *)

AddThreadTask(c) == listed /\ Call(c, "idle", "PushBack", "adding")

Added(c) ==
  \/ ret[c] # 0 /\ Returned(c, "adding", "inc")
  \/ ret[c] = 0 /\ Returned(c, "adding", "idle")

-----------------------------------------------------------------------------
(* ClearThreadPool, as far as this object goes: the pool's map is swapped  *)
(* away, then CancleThreadObject, then the last reference is dropped.      *)

Unlist ==
  /\ Go(Owner, "idle", "cancel")
  /\ listed
  /\ listed' = FALSE
  /\ UNCHANGED <<dequeVars, arg, busying, status, ready, ran, expired, freed>>

(* Mutant: the owner clears the queue itself.                              *)
CancleAndClear == Call(Owner, "cancel", "Clear", "aborting")

CancleThreadObject == Call(Owner, "cancel", "AbortWait", "aborting")

Aborted == Returned(Owner, "aborting", "waitquit")

(* Mutant: the owner does not wait.                                        *)
ThreadObjectNoWait ==
  /\ Go(Owner, "waitquit", "quit")
  /\ UNCHANGED <<dequeVars, arg, busying, status, ready, ran, listed, expired, freed>>

(* ThreadObjectWaitquit ignores whether the wait succeeded or timed out.   *)
(* The worker then goes on in an object that may be destroyed: the model   *)
(* goes on as if nothing else had taken its memory.                        *)
ThreadObjectWaitquit ==
  /\ Go(Owner, "waitquit", "quit")
  /\ \/ ready > 0 /\ ready' = ready - 1 /\ expired' = expired
     \/ ready = 0 /\ ready' = ready /\ expired' = TRUE
  /\ UNCHANGED <<dequeVars, arg, busying, status, ran, listed, freed>>

(* A caller inside AddThreadTask holds a reference of its own.             *)
Destroy ==
  /\ Go(Owner, "quit", "gone")
  /\ \A c \in Callers \ {Owner} : at[c] = "idle"
  /\ freed' = TRUE
  /\ UNCHANGED <<dequeVars, arg, busying, status, ready, ran, listed, expired>>

-----------------------------------------------------------------------------
Bookkeeping(t) == ReadBusying(t) \/ Increment(t) \/ Decrement(t) \/ SetThreadStatus(t)

WorkerStep ==
  TestAbort \/ Fetch \/ Fetched \/ Clean \/ Cleaned \/ ReadyRunningPost
OwnerStep  == CancleThreadObject \/ Aborted \/ ThreadObjectWaitquit \/ Destroy

ThreadNext ==
  \/ \E t \in Threads : Inner(t) \/ Bookkeeping(t)
  \/ WorkerStep \/ RunTask
  \/ \E c \in Callers : AddThreadTask(c) \/ Added(c)
  \/ Unlist \/ OwnerStep

ThreadSpec == ThreadInit /\ [][ThreadNext]_vars

(***************************************************************************)
(* Fairness: what a thread has begun goes on, a task ends, and mutex and   *)
(* semaphores do not starve a thread for ever.  Nobody has to add a task   *)
(* or to cancel.                                                           *)
(***************************************************************************)
ThreadFairness ==
  /\ WF_vars(RunTask)
  /\ WF_vars(WorkerStep)
  /\ WF_vars(OwnerStep)
  /\ \A c \in Callers : WF_vars(Added(c))
  /\ \A t \in Threads :
       /\ WF_vars(Bookkeeping(t))
       /\ WF_vars(/\ WaitCheck(t) \/ Woke(t) \/ Body(t) \/ ClearUnlocked(t)
                  /\ UNCHANGED threadVars)
       /\ SF_vars(Lock(t) /\ UNCHANGED threadVars)
  /\ SF_vars(SemTake(Worker) /\ UNCHANGED threadVars)

FairThreadSpec == ThreadSpec /\ ThreadFairness
=============================================================================
