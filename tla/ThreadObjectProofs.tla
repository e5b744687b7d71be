------------------------- MODULE ThreadObjectProofs -------------------------
(***************************************************************************)
(* Theorems about CThreadObject, for any number of callers and tasks.      *)
(***************************************************************************)
EXTENDS ThreadObjectProps, MsgDequeProofs

LEMMA CallsKnown ==
  /\ UsedAsQueue
  /\ OneWaiter
  /\ \A t \in Threads, o \in Ops :
       o \in Calls[t] <=> o \in (IF t = Worker THEN {"PopFront", "Clear"}
                                 ELSE {"PushBack", "AbortWait"})
  BY ThreadAssumption DEF ThreadAssumption, UsedAsQueue, OneWaiter, Waiting, Callers

(* A step of CThreadObject is a step of its deque, or leaves it alone.     *)
LEMMA ThreadStepIsDequeStep ==
  ASSUME ThreadNext
  PROVE  [Next]_dequeVars
<1>1. ASSUME NEW t \in Threads, NEW o, Begin(t, o), o \in Calls[t]
      PROVE  Next
  BY <1>1 DEF Next
<1>2. ASSUME NEW t \in Threads, Inner(t) PROVE Next
  BY <1>2 DEF Next, Inner
<1>3. Worker \in Threads /\ Owner \in Threads /\ Owner # Worker
      /\ \A c \in Callers : c \in Threads /\ c # Worker
  BY ThreadAssumption DEF ThreadAssumption, Callers
<1>4. CASE Fetch \/ Clean
  BY <1>1, <1>3, <1>4, CallsKnown DEF Fetch, Clean, Call, Ops, Waiting
<1>5. CASE CancleThreadObject
  BY <1>1, <1>3, <1>5, CallsKnown DEF CancleThreadObject, Call, Ops
<1>6. ASSUME NEW c \in Callers, AddThreadTask(c) PROVE Next
  BY <1>1, <1>3, <1>6, CallsKnown DEF AddThreadTask, Call, Ops
<1>7. ASSUME NEW t \in Threads, Bookkeeping(t) PROVE UNCHANGED dequeVars
  BY <1>7 DEF Bookkeeping, ReadBusying, Increment, Decrement, WriteBusying, SetThreadStatus
<1>8. CASE TestAbort \/ Fetched \/ Cleaned \/ ReadyRunningPost \/ RunTask
           \/ Aborted \/ ThreadObjectWaitquit \/ Destroy \/ Unlist
           \/ \E c \in Callers : Added(c)
  BY <1>8 DEF TestAbort, Fetched, Cleaned, ReadyRunningPost, RunTask, Aborted,
     ThreadObjectWaitquit, Destroy, Unlist, Added, Returned
<1> QED
  BY <1>2, <1>4, <1>5, <1>6, <1>7, <1>8 DEF ThreadNext, WorkerStep, OwnerStep

(* The queue inside CThreadObject is used within the contract of CMsgDeque,*)
(* so every theorem about that use holds of m_pTasks (ThreadObject.h:50).  *)
THEOREM UsesDeque == ThreadSpec => Spec
<1>1. [ThreadNext]_vars => [Next]_dequeVars
  BY ThreadStepIsDequeStep DEF vars
<1> QED
  BY <1>1, PTL DEF ThreadSpec, ThreadInit, Spec

(* No task waits in m_pTasks without a token that wakes the worker, no     *)
(* task is out of order, and a cancel leaves the worker its token.         *)
THEOREM TasksHaveTokens ==
  ThreadSpec => [](TokensMatchElements /\ InOrder /\ AbortLeavesToken)
  BY UsesDeque, CallsKnown, TokensMatch, FirstInFirstOut, AbortWakesTheWaiter, PTL

(* Whoever adds tasks, the worker sees an atomic first-in first-out queue  *)
(* (ThreadObject.h:51): it gets the oldest task there is, its pop comes    *)
(* back with none only once the object is cancelled, and no task is thrown *)
(* away before that.                                                       *)
THEOREM TasksAreQueued == ThreadSpec => Abstract!Safety
  BY UsesDeque, CallsKnown, Refinement, PTL

-----------------------------------------------------------------------------
(* Type correctness.                                                       *)

LEMMA Roles ==
  /\ Worker \in Threads /\ Owner \in Threads /\ Owner # Worker
  /\ Callers \subseteq Threads /\ Owner \in Callers /\ Worker \notin Callers
  BY ThreadAssumption DEF ThreadAssumption, Callers

LEMMA ThreadTypeInit == ThreadInit => ThreadTypeOK
<1> SUFFICES ASSUME ThreadInit PROVE ThreadTypeOK
  OBVIOUS
<1>1. BusyMod \in Nat \ {0}
  BY ThreadAssumption DEF ThreadAssumption
<1>2. ran \in Seq(Nat)
  BY DEF ThreadInit
<1>3. /\ at \in [Threads -> WorkerStatements \cup CallerStatements]
      /\ \A t \in Threads : at[t] \in WorkerStatements <=> t = Worker
  BY Roles DEF ThreadInit, WorkerStatements, CallerStatements
<1>4. arg \in [Threads -> (0..BusyMod - 1) \cup {Unread}] /\ busying \in 0..BusyMod - 1
  BY <1>1 DEF ThreadInit
<1>5. \A t \in Threads : pc[t] = "idle"
  BY DEF ThreadInit, Init
<1> QED
  BY <1>2, <1>3, <1>4, <1>5 DEF ThreadInit, ThreadTypeOK

LEMMA CallType ==
  ASSUME TypeOK, ThreadTypeOK, NEW t \in Threads, NEW from, NEW o \in Ops, NEW to,
         Call(t, from, o, to),
         from \in WorkerStatements <=> to \in WorkerStatements,
         to \in DOMAIN CallOf, {o, Entered(o)} \subseteq CallOf[to]
  PROVE  ThreadTypeOK'
<1>1. at' = [at EXCEPT ![t] = to] /\ at[t] = from
      /\ to \in WorkerStatements \cup CallerStatements
  BY DEF Call, Go, CallOf, WorkerStatements, CallerStatements
<1>2. op' = [op EXCEPT ![t] = Entered(o)]
      /\ \A s \in Threads : s # t => pc'[s] = pc[s]
  BY DEF Call, Begin, Goto, TypeOK
<1> QED
  BY <1>1, <1>2 DEF ThreadTypeOK, TypeOK, Call

LEMMA ReturnedType ==
  ASSUME TypeOK, ThreadTypeOK, NEW t \in Threads, NEW from, NEW to,
         Returned(t, from, to), to \in WorkerStatements \cup CallerStatements,
         from \in WorkerStatements <=> to \in WorkerStatements
  PROVE  ThreadTypeOK'
  BY DEF Returned, Go, ThreadTypeOK, dequeVars

LEMMA BookkeepingType ==
  ASSUME TypeOK, ThreadTypeOK, NEW t \in Threads, Bookkeeping(t)
  PROVE  ThreadTypeOK'
<1> USE DEF ThreadTypeOK, dequeVars
<1>1. BusyMod \in Nat \ {0} /\ Unread \notin Nat
  BY ThreadAssumption DEF ThreadAssumption
<1>2. CASE ReadBusying(t)
  BY <1>1, <1>2 DEF ReadBusying
<1>3. ASSUME NEW from, NEW to, NEW value \in Int, WriteBusying(t, from, to, value),
             to \in WorkerStatements \cup CallerStatements,
             to \notin DOMAIN CallOf, from \notin DOMAIN CallOf,
             from \in WorkerStatements <=> to \in WorkerStatements
      PROVE  ThreadTypeOK'
  <2>1. value % BusyMod \in 0..BusyMod - 1
    BY <1>1
  <2>2. busying' \in 0..BusyMod - 1 /\ arg' = [arg EXCEPT ![t] = busying']
    BY <1>3, <2>1 DEF WriteBusying
  <2>3. /\ at' = [at EXCEPT ![t] = to] /\ at[t] = from
        /\ UNCHANGED <<dequeVars, status, ready, ran, listed, expired, freed>>
    BY <1>3 DEF WriteBusying, Go
  <2> HIDE DEF CallOf
  <2> QED
    BY <1>3, <2>2, <2>3
<1>4. arg[t] # Unread => arg[t] \in Int
  OBVIOUS
<1>5. CASE Increment(t)
  <2>1. WriteBusying(t, "inc", "waiting", arg[t] + 1) /\ arg[t] + 1 \in Int
    BY <1>4, <1>5 DEF Increment, WriteBusying
  <2>2. /\ "waiting" \in WorkerStatements \cup CallerStatements
        /\ "waiting" \notin DOMAIN CallOf /\ "inc" \notin DOMAIN CallOf
        /\ "inc" \in WorkerStatements <=> "waiting" \in WorkerStatements
    BY DEF CallOf, WorkerStatements, CallerStatements
  <2> QED
    BY <1>3, <2>1, <2>2
<1>6. CASE Decrement(t)
  <2>1. WriteBusying(t, "dec", "running", arg[t] - 1) /\ arg[t] - 1 \in Int
    BY <1>4, <1>6 DEF Decrement, WriteBusying
  <2>2. /\ "running" \in WorkerStatements \cup CallerStatements
        /\ "running" \notin DOMAIN CallOf /\ "dec" \notin DOMAIN CallOf
        /\ "dec" \in WorkerStatements <=> "running" \in WorkerStatements
    BY DEF CallOf, WorkerStatements, CallerStatements
  <2> QED
    BY <1>3, <2>1, <2>2
<1>7. CASE SetThreadStatus(t)
  <2>1. at[t] \in {"sleep", "exit", "running", "waiting"}
    BY <1>7 DEF SetThreadStatus, StatusAt
  <2>2. /\ StatusAt[at[t]] \in {"SLEEP", "RUNNING", "WAITING", "EXITED"}
        /\ AfterSet[at[t]] \in WorkerStatements \cup CallerStatements
        /\ AfterSet[at[t]] \in WorkerStatements <=> at[t] \in WorkerStatements
        /\ at[t] \notin DOMAIN CallOf
    BY <2>1 DEF StatusAt, AfterSet, WorkerStatements, CallerStatements, CallOf
  <2> HIDE DEF CallOf
  <2>3. arg[t] \in 0..BusyMod - 1
    BY <1>7 DEF SetThreadStatus
  <2> QED
    BY <1>7, <2>2, <2>3 DEF SetThreadStatus
<1> QED
  BY <1>2, <1>5, <1>6, <1>7 DEF Bookkeeping

LEMMA ThreadTypeStep ==
  ASSUME TypeOK, ThreadTypeOK, ThreadNext
  PROVE  ThreadTypeOK'
<1> DEFINE All == WorkerStatements \cup CallerStatements
<1>1. ASSUME NEW t \in Threads, Inner(t) PROVE ThreadTypeOK'
  BY <1>1, InnerCall DEF Inner, threadVars, ThreadTypeOK
<1>2. ASSUME NEW t \in Threads, Bookkeeping(t) PROVE ThreadTypeOK'
  BY <1>2, BookkeepingType
<1>3. CASE Fetch
  <2>1. /\ {"PopFront", Entered("PopFront")} \subseteq CallOf["popping"]
        /\ "popping" \in DOMAIN CallOf /\ "PopFront" \in Ops
        /\ "fetch" \in WorkerStatements <=> "popping" \in WorkerStatements
    BY DEF Entered, CallOf, Ops, Waiting, WorkerStatements
  <2> QED
    BY <1>3, <2>1, Roles, CallType DEF Fetch
<1>4. CASE Clean
  <2>1. /\ {"Clear", Entered("Clear")} \subseteq CallOf["clearing"]
        /\ "clearing" \in DOMAIN CallOf /\ "Clear" \in Ops
        /\ "clean" \in WorkerStatements <=> "clearing" \in WorkerStatements
    BY DEF Entered, CallOf, Ops, WorkerStatements
  <2> QED
    BY <1>4, <2>1, Roles, CallType DEF Clean
<1>5. CASE CancleThreadObject
  <2>1. /\ {"AbortWait", Entered("AbortWait")} \subseteq CallOf["aborting"]
        /\ "aborting" \in DOMAIN CallOf /\ "AbortWait" \in Ops
        /\ "cancel" \in WorkerStatements <=> "aborting" \in WorkerStatements
    BY DEF Entered, CallOf, Ops, WorkerStatements
  <2> QED
    BY <1>5, <2>1, Roles, CallType DEF CancleThreadObject
<1>6. ASSUME NEW c \in Callers, AddThreadTask(c) PROVE ThreadTypeOK'
  <2>1. /\ {"PushBack", Entered("PushBack")} \subseteq CallOf["adding"]
        /\ "adding" \in DOMAIN CallOf /\ "PushBack" \in Ops
        /\ "idle" \in WorkerStatements <=> "adding" \in WorkerStatements
    BY DEF Entered, CallOf, Ops, WorkerStatements
  <2> QED
    BY <1>6, <2>1, Roles, CallType DEF AddThreadTask
<1>7. CASE TestAbort
  <2>1. /\ (IF aborted THEN "clean" ELSE "fetch") \in All
        /\ "loop" \in WorkerStatements
             <=> (IF aborted THEN "clean" ELSE "fetch") \in WorkerStatements
    BY DEF WorkerStatements
  <2> QED
    BY <1>7, <2>1, Roles, ReturnedType DEF TestAbort
<1>8. CASE Fetched \/ Cleaned
  <2>1. \A l \in {"dec", "loop", "popping", "clearing", "exit"} : l \in WorkerStatements
    BY DEF WorkerStatements
  <2> QED
    BY <1>8, <2>1, Roles, ReturnedType DEF Fetched, Cleaned
<1>9. CASE Aborted \/ \E c \in Callers : Added(c)
  <2>1. \A l \in {"aborting", "waitquit", "adding", "inc", "idle"} :
          l \in CallerStatements /\ l \notin WorkerStatements
    BY DEF WorkerStatements, CallerStatements
  <2> QED
    BY <1>9, <2>1, Roles, ReturnedType DEF Aborted, Added
<1>10. CASE RunTask
  <2>1. Append(ran, ret[Worker]) \in Seq(Nat)
    BY Roles DEF ThreadTypeOK, TypeOK
  <2> QED
    BY <1>10, <2>1, Roles
       DEF RunTask, Go, ThreadTypeOK, WorkerStatements, dequeVars, CallOf
<1>11. CASE ReadyRunningPost
  BY <1>11, Roles DEF ReadyRunningPost, Go, ThreadTypeOK, WorkerStatements, dequeVars, CallOf
<1>12. ASSUME NEW from, NEW to, Go(Owner, from, to), UNCHANGED <<dequeVars, arg, busying, status, ran>>,
              from \notin DOMAIN CallOf, {from, to} \subseteq CallerStatements,
              ready' \in Nat, listed' \in BOOLEAN, expired' \in BOOLEAN, freed' \in BOOLEAN
       PROVE  ThreadTypeOK'
  <2>1. to \notin WorkerStatements
    BY <1>12 DEF CallerStatements, WorkerStatements
  <2> QED
    BY <1>12, <2>1, Roles DEF Go, ThreadTypeOK, dequeVars
<1>13. CASE Unlist \/ ThreadObjectWaitquit \/ Destroy
  <2>1. \A l \in {"idle", "cancel", "waitquit", "quit", "gone"} :
          l \in CallerStatements
    BY DEF CallerStatements
  <2>2. \A l \in {"idle", "waitquit", "quit"} : l \notin DOMAIN CallOf
    BY DEF CallOf
  <2>3. ready' \in Nat /\ listed' \in BOOLEAN /\ expired' \in BOOLEAN /\ freed' \in BOOLEAN
    <3>1. ready' \in Nat
      BY <1>13 DEF Unlist, ThreadObjectWaitquit, Destroy, ThreadTypeOK
    <3>2. CASE Unlist
      BY <3>1, <3>2 DEF Unlist, ThreadTypeOK
    <3>3. CASE ThreadObjectWaitquit
      BY <3>1, <3>3 DEF ThreadObjectWaitquit, ThreadTypeOK
    <3>4. CASE Destroy
      BY <3>1, <3>4 DEF Destroy, ThreadTypeOK
    <3> QED
      BY <1>13, <3>2, <3>3, <3>4
  <2> QED
    BY <1>12, <1>13, <2>1, <2>2, <2>3 DEF Unlist, ThreadObjectWaitquit, Destroy
<1> QED
  BY <1>1, <1>2, <1>3, <1>4, <1>5, <1>6, <1>7, <1>8, <1>9, <1>10, <1>11, <1>13
     DEF ThreadNext, WorkerStep, OwnerStep

(* The counter busying stays in its width and a thread inside m_pTasks is  *)
(* there by the call its statement makes.                                  *)
THEOREM ThreadTypeCorrect == ThreadSpec => []ThreadTypeOK
<1>1. TypeOK /\ ThreadTypeOK /\ [ThreadNext]_vars => ThreadTypeOK'
  <2>1. CASE ThreadNext
    BY <2>1, ThreadTypeStep
  <2>2. CASE UNCHANGED vars
    BY <2>2 DEF vars, dequeVars, threadVars, ThreadTypeOK
  <2> QED
    BY <2>1, <2>2
<1> QED
  BY <1>1, ThreadTypeInit, UsesDeque, TypeCorrect, PTL DEF ThreadSpec

-----------------------------------------------------------------------------
(* Tasks are run once and in order.                                        *)

Leaving == at[Worker] \in {"clearing", "exit", "post", "exited"}

(* The inductive invariant: the tasks run are the first ones, the one in   *)
(* hand is the next, and with those in the queue they are all there are.   *)
Progress ==
  /\ \A i \in 1..Len(ran) : ran[i] = i
  /\ Holding => ret[Worker] = Len(ran) + 1
  /\ ~Leaving => pushed = Len(ran) + (IF Holding THEN 1 ELSE 0) + Len(deque)
  /\ pc[Worker] # "idle" => ret[Worker] = 0

LEMMA ProgressInit == ThreadInit => Progress
  BY EmptySeq, Roles DEF ThreadInit, Init, Progress, Holding

(* Inside the deque, callers only append to it.                            *)
LEMMA CallerInside ==
  ASSUME TypeOK, CallOK, ThreadTypeOK, NEW t \in Threads, t # Worker, Step(t)
  PROVE  \/ Len(deque') = Len(deque) + 1 /\ pushed' = pushed + 1
         \/ UNCHANGED <<deque, pushed>>
<1>1. op[t] \in {"PushBack", "AbortWait"}
  BY InnerCall DEF ThreadTypeOK, CallOf, WorkerStatements
<1>2. CASE PushBack(t)
  BY <1>2, PushTypes DEF PushBack, Push, TypeOK
<1>3. ~ClearUnlocked(t)
  BY <1>1 DEF ClearUnlocked, CallOK
<1>4. CASE ~PushBack(t)
  BY <1>1, <1>3, <1>4 DEF Step, Body, WaitCheck, SemTake, SemTimeout, SemInterrupted,
     Woke, Lock, PushFront, Insert, Refused, PopFront, PopBack, Peek, FoundEmpty,
     Swap, AbortWait, Inside, Waiting, Drains
<1> QED
  BY <1>2, <1>4

(* Inside PopFront, the worker gets the first element or nothing.          *)
LEMMA WorkerInside ==
  ASSUME TypeOK, CallOK, ThreadTypeOK, at[Worker] = "popping", Step(Worker),
         ret[Worker] = 0
  PROVE  /\ pushed' = pushed
         /\ \/ /\ deque # <<>> /\ deque' = Tail(deque)
               /\ ret'[Worker] = Head(deque) /\ pc'[Worker] = "idle"
            \/ deque' = deque /\ ret'[Worker] = 0
<1>1. op[Worker] \in {"PopFront", "DrainFront"}
  BY InnerCall, Roles DEF ThreadTypeOK, CallOf
<1>2. CASE PopFront(Worker)
  BY <1>2, Roles DEF PopFront, Leave, Return, Goto, TypeOK
<1>3. CASE FoundEmpty(Worker)
  BY <1>3, Roles DEF FoundEmpty, Leave, Return, Goto, TypeOK
<1>4. ~ClearUnlocked(Worker)
  BY <1>1, Roles DEF ClearUnlocked, CallOK
<1>5. CASE ~PopFront(Worker) /\ ~FoundEmpty(Worker)
  BY <1>1, <1>4, <1>5 DEF Step, Body, WaitCheck, SemTake, SemTimeout, SemInterrupted,
     Woke, Lock, PushBack, PushFront, Insert, Refused, PopBack, Peek,
     Swap, AbortWait, Inside, Waiting, Drains
<1> QED
  BY <1>2, <1>3, <1>5

LEMMA ProgressInside ==
  ASSUME TypeOK, CallOK, ThreadTypeOK, InOrder, Progress, NEW t \in Threads, Inner(t)
  PROVE  Progress'
<1>1. Step(t) /\ UNCHANGED <<at, ran>>
  BY DEF Inner, threadVars
<1>2. Len(ran) \in Nat /\ Len(deque) \in Nat /\ pushed \in Nat /\ deque \in Seq(Nat)
  BY LenProperties DEF ThreadTypeOK, TypeOK
<1>3. CASE t # Worker
  <2>1. pc'[Worker] = pc[Worker] /\ ret'[Worker] = ret[Worker]
    BY <1>1, <1>3, InnerCall, Roles
  <2>2. \/ Len(deque') = Len(deque) + 1 /\ pushed' = pushed + 1
        \/ UNCHANGED <<deque, pushed>>
    BY <1>1, <1>3, CallerInside
  <2> QED
    BY <1>1, <1>2, <2>1, <2>2 DEF Progress, Holding, Leaving
<1>4. CASE t = Worker /\ at[Worker] = "popping"
  <2>1. pc[Worker] # "idle" /\ ret[Worker] = 0 /\ ~Holding /\ ~Leaving
    BY <1>1, <1>4, InnerCall, Roles DEF Progress, Holding, Leaving
  <2>2. pushed = Len(ran) + Len(deque)
    BY <2>1, <1>2 DEF Progress
  <2>3. CASE deque # <<>> /\ deque' = Tail(deque) /\ ret'[Worker] = Head(deque)
             /\ pc'[Worker] = "idle" /\ pushed' = pushed
    <3>1. Len(deque') = Len(deque) - 1 /\ Len(deque) # 0
      BY <1>2, <2>3, PopTypes
    <3>2. Head(deque) = Len(ran) + 1
      BY <1>2, <2>2, <3>1 DEF InOrder, Abstract!Consecutive
    <3>3. Holding' /\ ~Leaving'
      BY <1>1, <1>2, <1>4, <2>3, <3>2 DEF Holding, Leaving
    <3> QED
      BY <1>1, <1>2, <2>2, <2>3, <3>1, <3>2, <3>3 DEF Progress
  <2>4. CASE UNCHANGED <<deque, pushed>> /\ ret'[Worker] = 0
    BY <1>1, <1>2, <1>4, <2>1, <2>2, <2>4 DEF Progress, Holding, Leaving
  <2> QED
    BY <1>1, <1>4, <2>1, <2>3, <2>4, WorkerInside
<1>5. CASE t = Worker /\ at[Worker] # "popping"
  <2>1. at[Worker] = "clearing" /\ op[Worker] = "Clear" /\ ret[Worker] = 0
    BY <1>1, <1>5, InnerCall, Roles
       DEF ThreadTypeOK, CallOf, CallerStatements, WorkerStatements, Progress
  <2>2. ret' = ret
    BY <1>1, <1>5, <2>1 DEF Step, Body, WaitCheck, SemTake, SemTimeout, SemInterrupted,
       Woke, Lock, PushBack, PushFront, Insert, Refused, PopFront, PopBack, Peek,
       FoundEmpty, Swap, AbortWait, ClearUnlocked, Inside, Waiting, Drains
  <2> QED
    BY <1>1, <2>1, <2>2 DEF Progress, Holding, Leaving
<1> QED
  BY <1>3, <1>4, <1>5

(* Outside the deque only RunTask finishes the task in hand; no other      *)
(* statement of the worker drops it or makes one up.                       *)
LEMMA ProgressOutside ==
  ASSUME ThreadTypeOK, TypeOK, Progress, ThreadNext, \A t \in Threads : ~Inner(t)
  PROVE  Progress'
<1>1. Len(ran) \in Nat /\ Len(deque) \in Nat /\ pushed \in Nat
  BY LenProperties DEF ThreadTypeOK, TypeOK
<1>2. ASSUME NEW c \in Callers, NEW from, NEW o, NEW to, Call(c, from, o, to)
      PROVE  Progress'
  <2>1. /\ at'[Worker] = at[Worker] /\ pc'[Worker] = pc[Worker]
        /\ ret'[Worker] = ret[Worker] /\ UNCHANGED <<deque, pushed, ran>>
    BY <1>2, Roles DEF Call, Go, Begin, Goto, TypeOK, ThreadTypeOK
  <2> QED
    BY <2>1 DEF Progress, Holding, Leaving
<1>3. CASE Fetch \/ Clean
  <2>1. ret'[Worker] = 0 /\ UNCHANGED <<deque, pushed, ran>>
    BY <1>3, Roles DEF Fetch, Clean, Call, Begin, TypeOK
  <2>2. ~Holding /\ ~Leaving
    BY <1>3 DEF Fetch, Clean, Call, Go, Holding, Leaving
  <2>3. ~Holding'
    BY <1>3, <2>1, Roles DEF Fetch, Clean, Call, Go, Holding, ThreadTypeOK
  <2> QED
    BY <1>1, <2>1, <2>2, <2>3 DEF Progress
<1>4. ASSUME UNCHANGED <<dequeVars, ran>>, Holding' = Holding,
             Leaving => Leaving'
      PROVE  Progress'
  BY <1>4 DEF dequeVars, Progress
<1>5. CASE TestAbort \/ Fetched \/ Cleaned \/ ReadyRunningPost
  BY <1>4, <1>5, Roles DEF TestAbort, Fetched, Cleaned, ReadyRunningPost, Returned, Go,
     Holding, Leaving, ThreadTypeOK, dequeVars
<1>6. CASE Unlist \/ Aborted \/ ThreadObjectWaitquit \/ Destroy
           \/ \E c \in Callers : Added(c)
  BY <1>4, <1>6, Roles DEF Unlist, Aborted, ThreadObjectWaitquit, Destroy, Added, Returned,
     Go, Holding, Leaving, ThreadTypeOK, dequeVars
<1>7. ASSUME NEW t \in Threads, Bookkeeping(t) PROVE Progress'
  <2>1. UNCHANGED <<dequeVars, ran>>
    BY <1>7 DEF Bookkeeping, ReadBusying, Increment, Decrement, WriteBusying, SetThreadStatus
  <2>2. \/ at' = at
        \/ at[t] = "inc" /\ at' = [at EXCEPT ![t] = "waiting"]
        \/ at[t] = "dec" /\ at' = [at EXCEPT ![t] = "running"]
        \/ at[t] = "running" /\ at' = [at EXCEPT ![t] = "run"]
        \/ at[t] = "sleep" /\ at' = [at EXCEPT ![t] = "loop"]
        \/ at[t] = "exit" /\ at' = [at EXCEPT ![t] = "post"]
        \/ at[t] = "waiting" /\ at' = [at EXCEPT ![t] = "idle"]
    BY <1>7 DEF Bookkeeping, ReadBusying, Increment, Decrement, WriteBusying,
                SetThreadStatus, Go, StatusAt, AfterSet
  <2>3. Holding' = Holding /\ (Leaving => Leaving')
    BY <2>1, <2>2, Roles DEF Holding, Leaving, ThreadTypeOK, dequeVars, WorkerStatements
  <2> QED
    BY <1>4, <2>1, <2>3
<1>8. CASE RunTask
  <2>1. at[Worker] = "run" /\ at'[Worker] = "sleep" /\ UNCHANGED dequeVars
        /\ ran' = Append(ran, ret[Worker])
    BY <1>8, Roles DEF RunTask, Go, ThreadTypeOK
  <2>2. Holding /\ ~Leaving /\ ~Holding' /\ ~Leaving' /\ UNCHANGED <<deque, pushed, pc, ret>>
    BY <2>1 DEF Holding, Leaving, dequeVars
  <2>3. ret[Worker] = Len(ran) + 1 /\ ret[Worker] \in Nat /\ ran \in Seq(Nat)
    BY <2>2, Roles DEF Progress, TypeOK, ThreadTypeOK
  <2>4. /\ Len(ran') = Len(ran) + 1
        /\ \A i \in 1..Len(ran') : ran'[i] = i
    BY <1>1, <2>1, <2>3, AppendProperties DEF Progress
  <2> QED
    BY <1>1, <2>2, <2>4 DEF Progress
<1> QED
  BY <1>2, <1>3, <1>5, <1>6, <1>7, <1>8, Roles
     DEF ThreadNext, WorkerStep, OwnerStep, CancleThreadObject, AddThreadTask

(* Two sequences that count on from each other count on together.          *)
LEMMA CountOn ==
  ASSUME NEW a \in Seq(Nat), NEW b \in Seq(Nat),
         \A i \in 1..Len(a) : a[i] = i,
         \A i \in 1..Len(b) : b[i] = Len(a) + i
  PROVE  /\ a \o b \in Seq(Nat)
         /\ Len(a \o b) = Len(a) + Len(b)
         /\ \A i \in 1..Len(a) + Len(b) : (a \o b)[i] = i
<1>1. Len(a) \in Nat /\ Len(b) \in Nat
  BY LenProperties
<1>2. /\ a \o b \in Seq(Nat) /\ Len(a \o b) = Len(a) + Len(b)
      /\ \A i \in 1..Len(a) + Len(b) :
           (a \o b)[i] = IF i <= Len(a) THEN a[i] ELSE b[i - Len(a)]
  BY ConcatProperties
<1>3. ASSUME NEW i \in 1..Len(a) + Len(b) PROVE (a \o b)[i] = i
  <2>1. CASE i <= Len(a)
    BY <1>1, <1>2, <2>1
  <2>2. CASE i > Len(a)
    <3> DEFINE j == i - Len(a)
    <3>1. j \in 1..Len(b) /\ Len(a) + j = i
      BY <1>1, <2>2
    <3>2. b[j] = Len(a) + j
      BY <3>1
    <3> QED
      BY <1>1, <1>2, <2>2, <3>1, <3>2
  <2> QED
    BY <1>1, <2>1, <2>2
<1> QED
  BY <1>2, <1>3

LEMMA ProgressConserves ==
  ASSUME TypeOK, ThreadTypeOK, InOrder, Progress
  PROVE  TasksConserved
<1> DEFINE taken == ran \o InHand
<1>1. /\ ran \in Seq(Nat) /\ deque \in Seq(Nat) /\ ret[Worker] \in Nat
      /\ Len(ran) \in Nat /\ Len(deque) \in Nat /\ pushed \in Nat
  BY LenProperties, Roles DEF ThreadTypeOK, TypeOK
<1>2. /\ InHand \in Seq(Nat) /\ Len(InHand) = IF Holding THEN 1 ELSE 0
      /\ \A i \in 1..Len(InHand) : InHand[i] = Len(ran) + i
  BY <1>1 DEF InHand, Progress
<1>3. \A i \in 1..Len(ran) : ran[i] = i
  BY DEF Progress
<1>4. /\ taken \in Seq(Nat) /\ Len(taken) = Len(ran) + Len(InHand)
      /\ \A i \in 1..Len(ran) + Len(InHand) : taken[i] = i
  BY <1>1, <1>2, <1>3, CountOn
<1> HIDE DEF taken
<1>5. ASSUME ~Leaving PROVE taken \o deque = [i \in 1..pushed |-> i]
  <2> DEFINE all == taken \o deque
  <2>1. pushed = Len(taken) + Len(deque) /\ Len(taken) \in Nat
    BY <1>1, <1>2, <1>4, <1>5 DEF Progress
  <2>2. \A i \in 1..Len(deque) : deque[i] = Len(taken) + i
    BY <1>1, <2>1 DEF InOrder, Abstract!Consecutive
  <2>3. \A i \in 1..Len(taken) : taken[i] = i
    BY <1>4
  <2>4. /\ all \in Seq(Nat) /\ Len(all) = Len(taken) + Len(deque)
        /\ \A i \in 1..Len(taken) + Len(deque) : all[i] = i
    BY <1>1, <1>4, <2>2, <2>3, CountOn
  <2> HIDE DEF all
  <2>5. all \in [1..Len(all) -> Nat]
    BY <2>4, LenProperties
  <2>6. all = [i \in 1..pushed |-> i]
    BY <2>1, <2>4, <2>5
  <2> QED
    BY <2>6 DEF all
<1> QED
  BY <1>4, <1>5 DEF TasksConserved, taken, Leaving

(* Every queued task is run once and in order, is in hand, or is in the    *)
(* queue, until the worker's own Clear; AddThreadTask, PopFront and the    *)
(* abort can interleave as they like (ThreadObject.cpp:68, 91, 127).       *)
THEOREM TasksConservedCorrect == ThreadSpec => []TasksConserved
<1>1. TypeOK /\ CallOK /\ ThreadTypeOK /\ InOrder /\ Progress /\ [ThreadNext]_vars
        => Progress'
  <2> SUFFICES ASSUME TypeOK, CallOK, ThreadTypeOK, InOrder, Progress, [ThreadNext]_vars
               PROVE  Progress'
    OBVIOUS
  <2>1. CASE UNCHANGED vars
    BY <2>1 DEF vars, dequeVars, threadVars, Progress, Holding, Leaving
  <2>2. CASE ThreadNext
    BY <2>2, ProgressInside, ProgressOutside
  <2> QED
    BY <2>1, <2>2
<1>2. TypeOK /\ ThreadTypeOK /\ InOrder /\ Progress => TasksConserved
  BY ProgressConserves
<1> QED
  BY <1>1, <1>2, ProgressInit, UsesDeque, ControlCorrect, TypeCorrect, ThreadTypeCorrect,
     TasksHaveTokens, PTL DEF ThreadSpec

-----------------------------------------------------------------------------
(* The end of the object.                                                  *)

(* ~CThreadObject runs only while no caller is inside AddThreadTask, and   *)
(* after the worker has left the object, unless the wait in                *)
(* ThreadObjectWaitquit (ThreadObject.cpp:48) ran out.                     *)
THEOREM FreedIsUnusedCorrect == ThreadSpec => []FreedIsUnused
<1> DEFINE Inv ==
      /\ ready > 0 => at[Worker] = "exited"
      /\ at[Owner] \in {"quit", "gone"} => at[Worker] = "exited" \/ expired
      /\ freed => at[Owner] = "gone"
      /\ at[Owner] \in {"cancel", "aborting", "waitquit", "quit", "gone"} => ~listed
      /\ freed => \A c \in Callers \ {Owner} : at[c] = "idle"
<1>1. ThreadInit => Inv
  BY Roles DEF ThreadInit
<1>2. ThreadTypeOK /\ Inv /\ [ThreadNext]_vars => Inv'
  <2> SUFFICES ASSUME ThreadTypeOK, Inv, [ThreadNext]_vars PROVE Inv'
    OBVIOUS
  <2> USE Roles DEF ThreadTypeOK
  <2>1. CASE UNCHANGED threadVars
    BY <2>1 DEF threadVars
  <2>2. ASSUME NEW t \in Threads, Bookkeeping(t) PROVE Inv'
    BY <2>2 DEF Bookkeeping, ReadBusying, Increment, Decrement, WriteBusying,
       SetThreadStatus, Go, StatusAt, AfterSet
  <2>3. CASE WorkerStep \/ RunTask
    BY <2>3 DEF WorkerStep, RunTask, TestAbort, Fetch, Fetched, Clean, Cleaned,
       ReadyRunningPost, Call, Returned, Go
  <2>4. ASSUME NEW c \in Callers, AddThreadTask(c) \/ Added(c) PROVE Inv'
    BY <2>4 DEF AddThreadTask, Added, Call, Returned, Go
  <2>5. CASE Unlist \/ OwnerStep
    BY <2>5 DEF Unlist, OwnerStep, CancleThreadObject, Aborted,
       ThreadObjectWaitquit, Destroy, Call, Returned, Go
  <2> QED
    BY <2>1, <2>2, <2>3, <2>4, <2>5 DEF ThreadNext, Inner, vars
<1>3. Inv => FreedIsUnused
  BY DEF FreedIsUnused
<1> QED
  BY <1>1, <1>2, <1>3, ThreadTypeCorrect, PTL DEF ThreadSpec

(* With the owner as the only caller, an abort finds it past its last call *)
(* into the deque, and from then on the worker has the object to itself.   *)
LastWords ==
  /\ aborted => /\ at[Owner] \in {"aborting", "waitquit", "quit", "gone"}
                /\ pc[Owner] = "idle"
  /\ at[Worker] \in {"clean", "clearing", "exit", "post", "exited"} => aborted
  /\ at[Worker] = "clearing" /\ pc[Worker] = "idle" => deque = <<>>
  /\ at[Worker] \in {"exit", "post", "exited"} => deque = <<>>
  /\ at[Worker] \in {"post", "exited"} => status = "EXITED"

LEMMA AloneInClear ==
  ASSUME Callers = {Owner}, TypeOK, CallOK, ThreadTypeOK, LastWords
  PROVE  ClearIsAlone
<1>1. Threads = {Owner, Worker}
  BY Roles DEF Callers
<1>2. ASSUME NEW t \in Threads, pc[t] = "clear" PROVE mutex = NoThread
  <2>1. aborted /\ op[t] = "Clear"
    BY <1>2 DEF CallOK
  <2>2. t = Worker /\ pc[Owner] = "idle"
    BY <1>1, <1>2, <2>1 DEF LastWords
  <2> QED
    BY <1>1, <1>2, <2>2, Roles DEF TypeOK
<1> QED
  BY <1>2 DEF ClearIsAlone

LEMMA LastWordsStep ==
  ASSUME Callers = {Owner}, TypeOK, CallOK, ThreadTypeOK, LastWords, ThreadNext
  PROVE  LastWords'
<1> USE Roles DEF ThreadTypeOK
<1>1. Threads = {Owner, Worker}
  BY DEF Callers
<1>2. CASE Inner(Owner)
  <2>1. Step(Owner) /\ UNCHANGED <<at, status>> /\ pc[Owner] # "idle" /\ ~aborted
    BY <1>2, InnerCall DEF Inner, threadVars, LastWords
  <2>2. at[Owner] \in {"adding", "aborting"} /\ op[Owner] \in CallOf[at[Owner]]
    BY <2>1 DEF CallOf, WorkerStatements
  <2>3. CASE aborted'
    <3>1. AbortWait(Owner)
      BY <2>1, <2>3 DEF Step, Body, WaitCheck, SemTake, SemTimeout, SemInterrupted,
         Woke, Lock, PushBack, PushFront, Insert, Push, Refused, PopFront, PopBack, Peek,
         FoundEmpty, Swap, ClearUnlocked
    <3>2. op[Owner] = "AbortWait" /\ at[Owner] = "aborting"
      BY <2>2, <3>1 DEF AbortWait, Inside, CallOf
    <3>3. pc'[Owner] = "idle"
      BY <3>1, <3>2 DEF AbortWait, Goto, TypeOK
    <3> QED
      BY <2>1, <3>2, <3>3 DEF LastWords
  <2>4. CASE ~aborted'
    BY <2>1, <2>4 DEF LastWords
  <2> QED
    BY <2>3, <2>4
<1>3. CASE Inner(Worker)
  <2>1. Step(Worker) /\ UNCHANGED <<at, status>> /\ pc[Worker] # "idle"
        /\ pc'[Owner] = pc[Owner]
    BY <1>3, InnerCall DEF Inner, threadVars
  <2>2. at[Worker] \in {"popping", "clearing"} /\ op[Worker] \in CallOf[at[Worker]]
    BY <2>1 DEF CallOf, CallerStatements, WorkerStatements
  <2>3. CASE at[Worker] = "popping"
    <3>1. op[Worker] \in {"PopFront", "DrainFront"}
      BY <2>2, <2>3 DEF CallOf
    <3>2. ~AbortWait(Worker)
      BY <3>1 DEF AbortWait, Inside
    <3>3. aborted' = aborted
      BY <2>1, <3>2 DEF Step, Body, WaitCheck, SemTake, SemTimeout, SemInterrupted,
         Woke, Lock, PushBack, PushFront, Insert, Push, Refused, PopFront, PopBack, Peek,
         FoundEmpty, Swap, ClearUnlocked
    <3> QED
      BY <2>1, <2>3, <3>3 DEF LastWords
  <2>4. CASE at[Worker] = "clearing"
    <3>1. op[Worker] = "Clear" /\ aborted
      BY <2>2, <2>4 DEF CallOf, LastWords
    <3>2. aborted'
      BY <2>1, <3>1, AbortedStays DEF Step, WaitCheck, SemTake, SemTimeout,
         SemInterrupted, Woke, Lock, ClearUnlocked
    <3>3. pc'[Worker] = "idle" => ClearUnlocked(Worker)
      BY <2>1, <3>1 DEF Step, Body, WaitCheck, SemTake, SemTimeout, SemInterrupted,
         Woke, Lock, PushBack, PushFront, Insert, Push, Refused, PopFront, PopBack, Peek,
         FoundEmpty, Swap, AbortWait, Inside, Goto, TypeOK, CallOK, Waiting, Drains
    <3>4. ClearUnlocked(Worker) => deque' = <<>>
      BY AloneInClear DEF ClearUnlocked, ClearIsAlone
    <3> QED
      BY <2>1, <2>4, <3>1, <3>2, <3>3, <3>4 DEF LastWords
  <2> QED
    BY <2>2, <2>3, <2>4
<1>4. ASSUME NEW t \in Threads, Bookkeeping(t) PROVE LastWords'
  BY <1>1, <1>4 DEF Bookkeeping, ReadBusying, Increment, Decrement, WriteBusying,
     SetThreadStatus, Go, StatusAt, AfterSet, dequeVars, LastWords, WorkerStatements
<1>5. CASE WorkerStep \/ RunTask
  <2>1. CASE Fetch \/ Clean
    BY <2>1 DEF Fetch, Clean, Call, Begin, Go, Goto, FirstStop, LastWords, TypeOK
  <2>2. CASE TestAbort \/ Fetched \/ Cleaned \/ ReadyRunningPost \/ RunTask
    BY <2>2 DEF TestAbort, Fetched, Cleaned, ReadyRunningPost, RunTask, Returned, Go,
       dequeVars, LastWords
  <2> QED
    BY <1>5, <2>1, <2>2 DEF WorkerStep
<1>6. CASE AddThreadTask(Owner) \/ Added(Owner)
  BY <1>6 DEF AddThreadTask, Added, Call, Returned, Begin, Go, Goto, dequeVars, LastWords, TypeOK
<1>7. CASE Unlist \/ OwnerStep
  BY <1>7 DEF Unlist, OwnerStep, CancleThreadObject, Aborted, ThreadObjectWaitquit,
     Destroy, Call, Returned, Begin, Go, Goto, dequeVars, LastWords, TypeOK
<1> QED
  BY <1>1, <1>2, <1>3, <1>4, <1>5, <1>6, <1>7 DEF ThreadNext

(* In lynetx the epoll thread alone adds tasks and cancels: the unlocked   *)
(* m_deque.clear() of clean_func (MsgDeque.h:264) then never races, and a  *)
(* worker that has left leaves an empty queue and the status IS_EXITED.    *)
THEOREM CleanExit ==
  ASSUME Callers = {Owner}
  PROVE  ThreadSpec => []ExitIsClean
<1>1. ThreadInit => LastWords
  BY Roles DEF ThreadInit, Init, LastWords
<1>2. TypeOK /\ CallOK /\ ThreadTypeOK /\ LastWords /\ [ThreadNext]_vars => LastWords'
  <2> SUFFICES ASSUME TypeOK, CallOK, ThreadTypeOK, LastWords, [ThreadNext]_vars
               PROVE  LastWords'
    OBVIOUS
  <2>1. CASE UNCHANGED vars
    BY <2>1 DEF vars, dequeVars, threadVars, LastWords
  <2> QED
    BY <2>1, LastWordsStep
<1>3. TypeOK /\ CallOK /\ ThreadTypeOK /\ LastWords => ExitIsClean
  BY AloneInClear DEF ExitIsClean, ExitIsFinal, LastWords
<1> QED
  BY <1>1, <1>2, <1>3, UsesDeque, ControlCorrect, TypeCorrect, ThreadTypeCorrect, PTL
     DEF ThreadSpec
=============================================================================
