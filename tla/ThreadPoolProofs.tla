-------------------------- MODULE ThreadPoolProofs --------------------------
(***************************************************************************)
(* Theorems about CThreadPool, for any number of threads and of callers.   *)
(***************************************************************************)
EXTENDS ThreadPoolProps, MsgDequeProofs

-----------------------------------------------------------------------------
(* Control.                                                                *)

MainStatements ==
  {"create", "created", "creating", "idle", "cancel", "remove", "swap", "swapping"}
CallerStatements ==
  {"idle", "popping", "find", "dumped", "back", "pushing", "hrp", "task",
   "clearing", "unlist", "done"}

(* The calls of CMsgDeque that are made at a statement.                    *)
CallsAt(s) ==
  CASE s = "popping" -> {"PopFront", "DrainFront"}
    [] s \in {"creating", "pushing"} -> {"PushBack"}
    [] s = "clearing" -> {"Clear"}
    [] s = "swapping" -> {"Swap"}
    [] OTHER -> {}

AtOK ==
  /\ at[Main] \in MainStatements
  /\ \A c \in Dispatchers : at[c] \in CallerStatements
  /\ \A t \in Threads : pc[t] # "idle" => op[t] \in CallsAt(at[t])
  /\ \A t \in Threads :
       at[t] \in {"created", "creating", "find", "dumped", "back", "pushing",
                 "cancel", "remove"} =>
         thread[t] \in Workers
  /\ Creating => \A c \in Dispatchers : at[c] = "idle"

Control == TypeOK /\ CallOK /\ NumbersOK /\ PoolTypeOK /\ AtOK

(* The steps outside CMsgDeque, but for the creation of a thread.          *)
MainStep ==
  PushThread \/ ThreadPushed \/ Remove \/ \E w \in Workers : FindObject(w)
CallerStep(c) == GetBestThread(c) \/ ClearThreads(c) \/ Dispatch(c)

LEMMA Cases ==
  ASSUME PoolNext
  PROVE  \/ \E t \in Threads : Inner(t)
         \/ SetThread
         \/ MainStep
         \/ \E c \in Dispatchers : CallerStep(c)
  BY DEF PoolNext, Create, MainStep, CallerStep

LEMMA WhoIsWho ==
  /\ Main \in Threads /\ Main \notin Dispatchers
  /\ Dispatchers \subseteq Threads
  /\ \A t \in Threads : t = Main \/ t \in Dispatchers
  /\ NoWorker \notin Workers /\ Workers # {}
  BY PoolAssumption DEF PoolAssumption

(* The pool's use of its deque is a use of CMsgDeque.                      *)
LEMMA DequeStep == [PoolNext]_vars => [Next]_dequeVars
<1> SUFFICES ASSUME [PoolNext]_vars PROVE [Next]_dequeVars
  OBVIOUS
<1>1. /\ \A c \in Dispatchers : Calls[c] = {"PopFront", "PushBack", "Clear"}
      /\ Calls[Main] = {"PushBack", "Swap"}
  BY PoolAssumption DEF PoolAssumption
<1>2. CASE UNCHANGED vars
  BY <1>2 DEF vars
<1>3. CASE \E t \in Threads : Inner(t)
  BY <1>3 DEF Inner, Next
<1>4. CASE SetThread
  BY <1>4 DEF SetThread
<1>5. CASE MainStep
  BY <1>1, <1>5, WhoIsWho
     DEF MainStep, PushThread, ThreadPushed, Remove, pthread_cancel, RemoveObject,
         SwapThreads, Swapped, FindObject, Call, Returned, Next
<1>6. ASSUME NEW c \in Dispatchers, CallerStep(c) PROVE [Next]_dequeVars
  BY <1>1, <1>6, WhoIsWho
     DEF CallerStep, GetBestThread, ClearThreads, Dispatch, Popped, NothingPopped,
         FindThread, Dump, PutBack, Back, schedulingHRP, AddTask, Cleared,
         CancleThreadObjects, Call, Returned, Next
<1> QED
  BY <1>2, <1>3, <1>4, <1>5, <1>6, Cases

LEMMA DequeControl == PoolSpec => [](TypeOK /\ CallOK)
<1>1. PoolSpec => Spec
  BY DequeStep, PTL DEF PoolSpec, PoolInit, Spec
<1> QED
  BY <1>1, ControlCorrect, PTL

(* Outside CMsgDeque a thread moves alone and leaves the deque as it is.   *)
Elsewhere(t) ==
  \A s \in Threads \ {t} :
    /\ at'[s] = at[s] /\ thread'[s] = thread[s]
    /\ pc'[s] = pc[s] /\ op'[s] = op[s] /\ ret'[s] = ret[s]

MovesAlone(t) == Elsewhere(t) /\ UNCHANGED <<deque, names, pushed>>

LEMMA MainAlone ==
  ASSUME Control, SetThread \/ MainStep
  PROVE  MovesAlone(Main)
<1> USE DEF Control, TypeOK, PoolTypeOK, MovesAlone, Elsewhere, Go
<1>1. CASE SetThread
  BY <1>1 DEF SetThread, dequeVars
<1>2. CASE PushThread \/ SwapThreads
  BY <1>2 DEF PushThread, SwapThreads, Call, Begin, Goto
<1>3. CASE ThreadPushed \/ Swapped
  BY <1>3 DEF ThreadPushed, Swapped, Returned, dequeVars
<1>4. CASE pthread_cancel \/ RemoveObject \/ \E w \in Workers : FindObject(w)
  BY <1>4 DEF pthread_cancel, RemoveObject, FindObject, dequeVars
<1> QED
  BY <1>1, <1>2, <1>3, <1>4 DEF MainStep, Remove

LEMMA CallerAlone ==
  ASSUME Control, NEW c \in Dispatchers, CallerStep(c)
  PROVE  MovesAlone(c)
<1> USE DEF Control, TypeOK, PoolTypeOK, MovesAlone, Elsewhere, Go
<1>1. CASE GetBestThread(c) \/ ClearThreads(c) \/ PutBack(c)
  BY <1>1 DEF GetBestThread, ClearThreads, PutBack, Call, Begin, Goto
<1>2. CASE Popped(c) \/ NothingPopped(c) \/ Back(c) \/ Cleared(c)
  BY <1>2 DEF Popped, NothingPopped, Back, Cleared, Returned, dequeVars
<1>3. CASE FindThread(c) \/ Dump(c) \/ schedulingHRP(c) \/ AddTask(c)
           \/ CancleThreadObjects(c)
  BY <1>3 DEF FindThread, Dump, schedulingHRP, AddTask, CancleThreadObjects, dequeVars
<1> QED
  BY <1>1, <1>2, <1>3 DEF CallerStep, Dispatch

(* Inside, it stays at its statement, in the calls the statement makes.    *)
LEMMA InnerCalls ==
  ASSUME Control, NEW t \in Threads, Inner(t)
  PROVE  /\ pc[t] # "idle" /\ op' = op /\ at' = at /\ thread' = thread
         /\ Elsewhere(t)
         /\ op[t] \in CallsAt(at[t])
         /\ op[t] \in QueueOps \cup {"DrainFront", "Swap"}
<1>1. /\ pc[t] # "idle" /\ op' = op
      /\ \A s \in Threads : s # t => pc'[s] = pc[s] /\ ret'[s] = ret[s]
  BY InnerCall DEF Inner, Control
<1> QED
  BY <1>1 DEF Control, AtOK, Inner, Elsewhere, CallsAt, QueueOps

-----------------------------------------------------------------------------
(* The type invariant and the control invariant are preserved.             *)

LEMMA NamesGrow ==
  ASSUME Control, NEW t \in Threads, Inner(t), StepAdds(t)
  PROVE  /\ thread[t] \in Workers
         /\ names' \in Seq(Workers) /\ Len(names') = pushed'
         /\ \A i \in 1..pushed : names'[i] = names[i]
         /\ names'[pushed + 1] = thread[t]
<1>1. at[t] \in {"creating", "pushing"}
  BY InnerCalls DEF StepAdds, CallsAt
<1>2. thread[t] \in Workers
  BY <1>1 DEF Control, AtOK
<1>3. names \in Seq(Workers) /\ Len(names) = pushed /\ pushed \in Nat
  BY DEF Control, TypeOK, PoolTypeOK
<1>4. names' = Append(names, thread[t]) /\ pushed' = pushed + 1
  BY <1>3 DEF Inner, StepAdds
<1> QED
  BY <1>2, <1>3, <1>4, AppendProperties

LEMMA PoolTypeStep ==
  ASSUME Control, NumbersOK', [PoolNext]_vars
  PROVE  PoolTypeOK'
<1> USE DEF PoolTypeOK, PoolStatements, Go
<1>1. \A i \in 1..Len(deque') : deque'[i] \in 1..pushed'
  BY DEF NumbersOK
<1>2. CASE UNCHANGED vars
  BY <1>1, <1>2 DEF Control, vars, dequeVars, poolVars
<1>3. ASSUME NEW t \in Threads, Inner(t) PROVE PoolTypeOK'
  <2>1. names' \in Seq(Workers) /\ Len(names') = pushed'
    <3>1. CASE StepAdds(t)
      BY <1>3, <3>1, NamesGrow
    <3>2. CASE pushed' = pushed
      BY <1>3, <3>2 DEF Inner, Control
    <3> QED
      BY <1>3, <3>1, <3>2, StepEffect, InnerCalls
         DEF Inner, Control, StepTakes, StepEmpties, StepKeeps
  <2> QED
    BY <1>1, <1>3, <2>1 DEF Inner, Control
<1>4. CASE SetThread
  BY <1>1, <1>4, WhoIsWho DEF SetThread, Control, dequeVars
<1>5. CASE MainStep
  <2>1. /\ at' \in [Threads -> PoolStatements]
        /\ thread' \in [Threads -> Workers \cup {NoWorker}]
        /\ listed' \subseteq Workers /\ UNCHANGED <<lost, exited>>
    BY <1>5, WhoIsWho
       DEF MainStep, PushThread, ThreadPushed, Remove, pthread_cancel, RemoveObject,
           SwapThreads, Swapped, FindObject, Call, Returned, Control
  <2>2. cancelled' \subseteq Workers
    <3>1. CASE pthread_cancel
      BY <3>1, WhoIsWho DEF pthread_cancel, Control, AtOK
    <3> QED
      BY <1>5, <3>1
         DEF MainStep, PushThread, ThreadPushed, Remove, RemoveObject,
             SwapThreads, Swapped, FindObject, Call, Returned, Control
  <2>3. disturbed' \in 0..MaxDisturb
    BY <1>5, PoolAssumption
       DEF MainStep, PushThread, ThreadPushed, Remove, pthread_cancel, RemoveObject,
           SwapThreads, Swapped, FindObject, Call, Returned, Control, PoolAssumption
  <2> QED
    BY <1>1, <1>5, <2>1, <2>2, <2>3, MainAlone DEF MovesAlone, Control
<1>6. ASSUME NEW c \in Dispatchers, CallerStep(c) PROVE PoolTypeOK'
  <2>1. ret[c] # 0 => names[ret[c]] \in Workers
    BY WhoIsWho, ElementOfSeq DEF Control, NumbersOK, TypeOK
  <2>2. /\ at' \in [Threads -> PoolStatements]
        /\ thread' \in [Threads -> Workers \cup {NoWorker}]
    BY <1>6, <2>1, WhoIsWho
       DEF CallerStep, GetBestThread, ClearThreads, Dispatch, Popped, NothingPopped,
           FindThread, Dump, PutBack, Back, schedulingHRP, AddTask, Cleared,
           CancleThreadObjects, Call, Returned, Control
  <2>3. lost' \in BOOLEAN /\ exited' \in BOOLEAN
    <3>1. lost' = lost \/ AddTask(c)
      BY <1>6
         DEF CallerStep, GetBestThread, ClearThreads, Dispatch, Popped, NothingPopped,
             FindThread, Dump, PutBack, Back, schedulingHRP, Cleared,
             CancleThreadObjects, Call, Returned
    <3>2. exited' = exited \/ exited' = TRUE
      BY <1>6
         DEF CallerStep, GetBestThread, ClearThreads, Dispatch, Popped, NothingPopped,
             FindThread, Dump, PutBack, Back, schedulingHRP, AddTask, Cleared,
             CancleThreadObjects, Call, Returned
    <3> QED
      BY <3>1, <3>2, Zenon DEF AddTask, Control
  <2>4. /\ listed' \subseteq Workers /\ cancelled' \subseteq Workers
        /\ disturbed' \in 0..MaxDisturb
    BY <1>6, PoolAssumption
       DEF CallerStep, GetBestThread, ClearThreads, Dispatch, Popped, NothingPopped,
           FindThread, Dump, PutBack, Back, schedulingHRP, AddTask, Cleared,
           CancleThreadObjects, Call, Returned, Control, PoolAssumption
  <2> QED
    BY <1>1, <1>6, <2>2, <2>3, <2>4, CallerAlone DEF MovesAlone, Control
<1> QED
  BY <1>2, <1>3, <1>4, <1>5, <1>6, Cases

LEMMA AtStep ==
  ASSUME Control, [PoolNext]_vars
  PROVE  AtOK'
<1> USE DEF AtOK, Go
<1>1. CASE UNCHANGED vars
  BY <1>1 DEF Control, vars, dequeVars, poolVars, Creating
<1>2. ASSUME NEW t \in Threads, Inner(t) PROVE AtOK'
  BY <1>2, InnerCalls DEF Control, Elsewhere, Creating
<1>3. CASE SetThread
  <2>1. /\ at[Main] = "create" /\ at'[Main] = "created" /\ pc'[Main] = pc[Main]
        /\ thread'[Main] \in Workers
    BY <1>3, WhoIsWho DEF SetThread, Control, PoolTypeOK, dequeVars
  <2>2. pc[Main] = "idle"
    BY <2>1, WhoIsWho DEF Control, CallsAt
  <2> QED
    BY <1>3, <2>1, <2>2, MainAlone, WhoIsWho
       DEF MovesAlone, Elsewhere, Control, Creating, MainStatements
<1>4. CASE MainStep
  <2>1. /\ at'[Main] \in MainStatements
        /\ pc'[Main] # "idle" => op'[Main] \in CallsAt(at'[Main])
        /\ at'[Main] \in {"created", "creating", "cancel", "remove"} =>
             thread'[Main] \in Workers
    <3> USE WhoIsWho DEF Control, TypeOK, PoolTypeOK, MainStatements, CallsAt
    <3>1. CASE PushThread \/ SwapThreads
      BY <1>4, <3>1 DEF PushThread, SwapThreads, Call, Begin, Goto, Entered
    <3>2. CASE ThreadPushed \/ Swapped
      BY <1>4, <3>2 DEF ThreadPushed, Swapped, Returned, dequeVars
    <3>3. CASE pthread_cancel \/ RemoveObject \/ \E w \in Workers : FindObject(w)
      BY <1>4, <3>3 DEF pthread_cancel, RemoveObject, FindObject, dequeVars
    <3> QED
      BY <1>4, <3>1, <3>2, <3>3 DEF MainStep, Remove
  <2>2. Creating' => Creating
    BY <1>4, WhoIsWho
       DEF MainStep, PushThread, ThreadPushed, Remove, pthread_cancel, RemoveObject,
           SwapThreads, Swapped, FindObject, Call, Returned, Control, PoolTypeOK, Creating
  <2> QED
    BY <1>4, <2>1, <2>2, MainAlone, WhoIsWho
       DEF MovesAlone, Elsewhere, Control, MainStatements
<1>5. ASSUME NEW c \in Dispatchers, CallerStep(c) PROVE AtOK'
  <2>1. /\ at'[c] \in CallerStatements
        /\ pc'[c] # "idle" => op'[c] \in CallsAt(at'[c])
        /\ at'[c] \in {"find", "dumped", "back", "pushing"} => thread'[c] \in Workers
    <3> USE WhoIsWho DEF Control, TypeOK, PoolTypeOK, CallerStatements, CallsAt
    <3>1. CASE GetBestThread(c) \/ ClearThreads(c) \/ PutBack(c)
      BY <1>5, <3>1
         DEF GetBestThread, ClearThreads, PutBack, Call, Begin, Goto, Entered
    <3>2. CASE Popped(c)
      <4>1. names[ret[c]] \in Workers
        BY <3>2, ElementOfSeq DEF Popped, NumbersOK
      <4> QED
        BY <1>5, <3>2, <4>1 DEF Popped, Returned, dequeVars
    <3>3. CASE NothingPopped(c) \/ Back(c) \/ Cleared(c)
      BY <1>5, <3>3 DEF NothingPopped, Back, Cleared, Returned, dequeVars
    <3>4. CASE FindThread(c) \/ Dump(c) \/ schedulingHRP(c) \/ AddTask(c)
               \/ CancleThreadObjects(c)
      BY <1>5, <3>4
         DEF FindThread, Dump, schedulingHRP, AddTask, CancleThreadObjects, dequeVars
    <3> QED
      BY <1>5, <3>1, <3>2, <3>3, <3>4 DEF CallerStep, Dispatch
  <2>2. ~Creating
    <3>1. CASE at[c] = "idle"
      BY <1>5, <3>1
         DEF CallerStep, GetBestThread, ClearThreads, Dispatch, Popped, NothingPopped,
             FindThread, Dump, PutBack, Back, schedulingHRP, AddTask, Cleared,
             CancleThreadObjects, Call, Returned
    <3> QED
      BY <3>1 DEF Control
  <2>3. ~Creating'
    BY <1>5, <2>2, CallerAlone, WhoIsWho DEF MovesAlone, Elsewhere, Creating
  <2> QED
    BY <1>5, <2>1, <2>3, CallerAlone, WhoIsWho
       DEF MovesAlone, Elsewhere, Control, CallerStatements
<1> QED
  BY <1>1, <1>2, <1>3, <1>4, <1>5, Cases

LEMMA PoolNumbersStep ==
  ASSUME Control, [PoolNext]_vars
  PROVE  NumbersOK'
<1>1. CASE UNCHANGED dequeVars
  BY <1>1 DEF Control, NumbersOK, dequeVars
<1>2. ASSUME NEW t \in Threads, Inner(t) PROVE NumbersOK'
  BY <1>2, InnerCalls, NumbersStep DEF Control, Inner
<1>3. ASSUME NEW t \in Threads, NEW o, Begin(t, o) PROVE NumbersOK'
  BY <1>3, NumbersBegin DEF Control
<1>4. CASE SetThread \/ MainStep
  BY <1>1, <1>3, <1>4, WhoIsWho
     DEF SetThread, MainStep, PushThread, ThreadPushed, Remove, pthread_cancel,
         RemoveObject, SwapThreads, Swapped, FindObject, Call, Returned
<1>5. ASSUME NEW c \in Dispatchers, CallerStep(c) PROVE NumbersOK'
  BY <1>1, <1>3, <1>5, WhoIsWho
     DEF CallerStep, GetBestThread, ClearThreads, Dispatch, Popped, NothingPopped,
         FindThread, Dump, PutBack, Back, schedulingHRP, AddTask, Cleared,
         CancleThreadObjects, Call, Returned
<1> QED
  BY <1>1, <1>2, <1>4, <1>5, Cases DEF vars

LEMMA PoolControlInit == PoolInit => NumbersOK /\ PoolTypeOK /\ AtOK
<1> SUFFICES ASSUME PoolInit PROVE NumbersOK /\ PoolTypeOK /\ AtOK
  OBVIOUS
<1>1. NumbersOK
  BY NumbersInit DEF PoolInit
<1>2. names \in Seq(Workers) /\ Len(names) = pushed
  BY EmptySeq DEF PoolInit, Init
<1>3. PoolTypeOK
  <2>1. /\ at \in [Threads -> PoolStatements]
        /\ thread \in [Threads -> Workers \cup {NoWorker}]
    BY DEF PoolInit, PoolStatements
  <2>2. disturbed \in 0..MaxDisturb
    BY PoolAssumption DEF PoolInit, PoolAssumption
  <2> QED
    BY <1>1, <1>2, <2>1, <2>2 DEF PoolInit, PoolTypeOK, NumbersOK
<1>4. AtOK
  BY WhoIsWho
     DEF PoolInit, Init, AtOK, MainStatements, CallerStatements, Creating
<1> QED
  BY <1>1, <1>3, <1>4

(* Every element of m_Threads stands for a thread of the pool, and every   *)
(* call of the deque is made at its statement.                             *)
THEOREM PoolTypeCorrect == PoolSpec => []Control
<1>1. TypeOK /\ CallOK /\ NumbersOK /\ PoolTypeOK /\ AtOK /\ [PoolNext]_vars
        => NumbersOK' /\ PoolTypeOK' /\ AtOK'
  BY PoolNumbersStep, PoolTypeStep, AtStep DEF Control
<1> QED
  BY <1>1, DequeControl, PoolControlInit, PTL DEF PoolSpec, Control

-----------------------------------------------------------------------------
(* A turn is in one place.                                                 *)

(* The thread whose turn is at place i of m_Threads.                       *)
TurnAt(i) == names[deque[i]]

TurnsApart ==
  /\ \A i, j \in 1..Len(deque) : TurnAt(i) = TurnAt(j) => i = j
  /\ \A s, t \in Threads : \A w \in Workers : Holds(s, w) /\ Holds(t, w) => s = t
  /\ \A t \in Threads : \A i \in 1..Len(deque) : ~Holds(t, TurnAt(i))
  /\ Creating =>
       /\ \A i \in 1..Len(deque) : TurnAt(i) \in listed
       /\ \A t \in Threads : \A w \in Workers : Holds(t, w) => w \in listed

(* Who holds a turn does not depend on a thread that is elsewhere ...      *)
LEMMA OthersHold ==
  ASSUME Control, NEW t \in Threads, Elsewhere(t),
         \A i \in 1..pushed : names'[i] = names[i]
  PROVE  \A s \in Threads \ {t} : \A w \in Workers : Holds(s, w)' <=> Holds(s, w)
<1>1. \A s \in Threads : ret[s] \in 0..pushed /\ pushed \in Nat
  BY DEF Control, NumbersOK, TypeOK
<1> QED
  BY <1>1 DEF Elsewhere, Holds

(* ... a push moves the pusher's turn to the end of m_Threads ...          *)
LEMMA AddsTurn ==
  ASSUME Control, NEW t \in Threads, Inner(t), StepAdds(t)
  PROVE  /\ Len(deque') = Len(deque) + 1
         /\ \A i \in 1..Len(deque) : TurnAt(i)' = TurnAt(i)
         /\ names'[deque'[Len(deque) + 1]] = thread[t]
         /\ Holds(t, thread[t])
         /\ \A s \in Threads : \A w \in Workers :
              Holds(s, w)' <=> s # t /\ Holds(s, w)
<1>1. deque \in Seq(Nat) /\ pushed \in Nat /\ Len(deque) \in Nat
  BY LenProperties DEF Control, TypeOK
<1>2. /\ Len(deque') = Len(deque) + 1
      /\ \A i \in 1..Len(deque) : deque'[i] = deque[i]
      /\ deque'[Len(deque) + 1] = pushed + 1
  BY <1>1, AppendProperties DEF StepAdds
<1>3. \A i \in 1..Len(deque) : deque[i] \in 1..pushed
  BY DEF Control, PoolTypeOK
<1>4. /\ pc[t] # "idle" /\ at' = at /\ thread' = thread /\ Elsewhere(t)
      /\ at[t] \in {"creating", "pushing"}
  BY InnerCalls DEF StepAdds, CallsAt
<1>5. /\ \A i \in 1..pushed : names'[i] = names[i]
      /\ names'[pushed + 1] = thread[t]
  BY NamesGrow
<1>6. Holds(t, thread[t])
  BY <1>4 DEF Holds
<1>7. \A w \in Workers : ~Holds(t, w)'
  BY <1>4 DEF Holds, StepAdds
<1>8. \A s \in Threads \ {t} : \A w \in Workers : Holds(s, w)' <=> Holds(s, w)
  BY <1>4, <1>5, OthersHold
<1>9. /\ \A i \in 1..Len(deque) : TurnAt(i)' = TurnAt(i)
      /\ names'[deque'[Len(deque) + 1]] = thread[t]
  BY <1>1, <1>2, <1>3, <1>5 DEF TurnAt
<1> QED
  BY <1>2, <1>6, <1>7, <1>8, <1>9

(* ... a pop moves the first one to the popper ...                         *)
LEMMA TakesTurn ==
  ASSUME Control, NEW t \in Threads, Inner(t), StepTakes(t)
  PROVE  /\ Len(deque) \in Nat \ {0} /\ Len(deque') = Len(deque) - 1
         /\ \A i \in 1..Len(deque') : TurnAt(i)' = TurnAt(i + 1)
         /\ \A w \in Workers : ~Holds(t, w)
         /\ \A s \in Threads : \A w \in Workers :
              Holds(s, w)' <=> IF s = t THEN w = TurnAt(1) ELSE Holds(s, w)
<1>1. deque \in Seq(Nat) /\ pushed \in Nat /\ Len(deque) \in Nat \ {0}
  BY LenProperties, EmptySeq DEF Control, TypeOK, StepTakes
<1>2. /\ Len(deque') = Len(deque) - 1
      /\ \A i \in 1..Len(deque') : deque'[i] = deque[i + 1]
      /\ Head(deque) = deque[1]
  BY <1>1, HeadTailProperties DEF StepTakes
<1>3. /\ pc[t] # "idle" /\ at' = at /\ thread' = thread /\ Elsewhere(t)
      /\ at[t] = "popping"
  BY InnerCalls DEF StepTakes, CallsAt
<1>4. names' = names
  BY DEF Inner, StepTakes
<1>5. \A w \in Workers : ~Holds(t, w)
  BY <1>3 DEF Holds
<1>6. deque[1] \in 1..pushed
  BY <1>1 DEF Control, PoolTypeOK
<1>7. \A w \in Workers : Holds(t, w)' <=> w = TurnAt(1)
  BY <1>1, <1>2, <1>3, <1>4, <1>6 DEF Holds, StepTakes, TurnAt
<1>8. \A s \in Threads \ {t} : \A w \in Workers : Holds(s, w)' <=> Holds(s, w)
  BY <1>3, <1>4, OthersHold
<1>9. \A i \in 1..Len(deque') : TurnAt(i)' = TurnAt(i + 1)
  BY <1>2, <1>4 DEF TurnAt
<1> QED
  BY <1>1, <1>2, <1>5, <1>7, <1>8, <1>9

(* ... and any other step of a call moves no turn, unless it is a push     *)
(* that returns without one.                                               *)
LEMMA KeepsTurns ==
  ASSUME Control, NEW t \in Threads, Inner(t), StepKeeps(t) \/ StepEmpties(t)
  PROVE  /\ names' = names
         /\ \A s \in Threads : \A w \in Workers :
              /\ Holds(s, w)' => Holds(s, w)
              /\ ~(op[t] = "PushBack" /\ pc'[t] = "idle") =>
                   (Holds(s, w) => Holds(s, w)')
<1>1. names' = names
  BY DEF Inner, StepKeeps, StepEmpties
<1>2. /\ pc[t] # "idle" /\ at' = at /\ thread' = thread /\ Elsewhere(t)
      /\ op[t] \in CallsAt(at[t])
  BY InnerCalls
<1>3. ret[t] = 0 /\ ret'[t] = 0
  BY <1>2 DEF Control, NumbersOK, StepKeeps, StepEmpties
<1>4. \A w \in Workers :
        /\ Holds(t, w)' => Holds(t, w)
        /\ ~(op[t] = "PushBack" /\ pc'[t] = "idle") => (Holds(t, w) => Holds(t, w)')
  BY <1>2, <1>3 DEF Holds, CallsAt
<1>5. \A s \in Threads \ {t} : \A w \in Workers : Holds(s, w)' <=> Holds(s, w)
  BY <1>1, <1>2, OthersHold
<1> QED
  BY <1>1, <1>4, <1>5

(* Outside the deque nobody finds a turn, and loses one only by a push     *)
(* that an aborted deque refuses.                                          *)
LEMMA OutsideTurns ==
  ASSUME Control, MainStep \/ \E c \in Dispatchers : CallerStep(c)
  PROVE  \A s \in Threads : \A w \in Workers :
           (Holds(s, w)' => Holds(s, w)) /\ (~aborted => (Holds(s, w) => Holds(s, w)'))
<1>1. CASE MainStep
  <2>1. \A w \in Workers : (Holds(Main, w)' => Holds(Main, w))
                         /\ (~aborted => (Holds(Main, w) => Holds(Main, w)'))
    <3> USE WhoIsWho DEF Holds, Go, Control, TypeOK, PoolTypeOK
    <3>1. CASE PushThread
      BY <3>1 DEF PushThread, Call, Begin, Goto, FirstStop
    <3>2. CASE SwapThreads
      BY <3>2 DEF SwapThreads, Call, Begin
    <3>3. CASE ThreadPushed \/ Swapped
      BY <3>3 DEF ThreadPushed, Swapped, Returned, dequeVars
    <3>4. CASE pthread_cancel \/ RemoveObject \/ \E w \in Workers : FindObject(w)
      BY <3>4 DEF pthread_cancel, RemoveObject, FindObject, dequeVars
    <3> QED
      BY <1>1, <3>1, <3>2, <3>3, <3>4 DEF MainStep, Remove
  <2> QED
    BY <1>1, <2>1, MainAlone, OthersHold, WhoIsWho DEF MovesAlone
<1>2. ASSUME NEW c \in Dispatchers, CallerStep(c)
      PROVE  \A s \in Threads : \A w \in Workers :
               (Holds(s, w)' => Holds(s, w)) /\ (~aborted => (Holds(s, w) => Holds(s, w)'))
  <2>1. \A w \in Workers : (Holds(c, w)' => Holds(c, w))
                         /\ (~aborted => (Holds(c, w) => Holds(c, w)'))
    <3> USE WhoIsWho DEF Holds, Go, Control, TypeOK, PoolTypeOK
    <3>1. CASE GetBestThread(c) \/ ClearThreads(c)
      BY <3>1 DEF GetBestThread, ClearThreads, Call, Begin, Goto, FirstStop
    <3>2. CASE PutBack(c)
      BY <3>2 DEF PutBack, Call, Begin, Goto, FirstStop
    <3>3. CASE Popped(c) \/ NothingPopped(c) \/ Back(c) \/ Cleared(c)
      BY <3>3 DEF Popped, NothingPopped, Back, Cleared, Returned, dequeVars
    <3>4. CASE FindThread(c) \/ Dump(c) \/ schedulingHRP(c) \/ AddTask(c)
               \/ CancleThreadObjects(c)
      BY <3>4 DEF FindThread, Dump, schedulingHRP, AddTask, CancleThreadObjects, dequeVars
    <3> QED
      BY <1>2, <3>1, <3>2, <3>3, <3>4 DEF CallerStep, Dispatch
  <2> QED
    BY <1>2, <2>1, CallerAlone, OthersHold, WhoIsWho DEF MovesAlone
<1> QED
  BY <1>1, <1>2

LEMMA TurnTypes ==
  ASSUME Control
  PROVE  /\ Len(deque) \in Nat
         /\ \A i \in 1..Len(deque) : TurnAt(i) \in Workers
<1>1. /\ deque \in Seq(Nat) /\ names \in Seq(Workers) /\ Len(names) = pushed
      /\ \A i \in 1..Len(deque) : deque[i] \in 1..pushed
  BY DEF Control, TypeOK, PoolTypeOK
<1> QED
  BY <1>1, ElementOfSeq, LenProperties DEF TurnAt

LEMMA ApartStep ==
  ASSUME Control, TurnsApart, [PoolNext]_vars
  PROVE  TurnsApart'
<1>1. CASE UNCHANGED vars
  BY <1>1 DEF vars, dequeVars, poolVars, TurnsApart, TurnAt, Holds, Creating
<1>2. ASSUME NEW t \in Threads, Inner(t) PROVE TurnsApart'
  <2>1. Creating' = Creating /\ listed' = listed
    BY <1>2 DEF Inner, Creating
  <2>2. CASE StepAdds(t)
    <3>1. thread[t] \in Workers
      BY <1>2, <2>2, NamesGrow
    <3>2. \A i \in 1..Len(deque) : TurnAt(i) # thread[t]
      BY <1>2, <2>2, AddsTurn DEF TurnsApart
    <3>3. \A i \in 1..Len(deque') :
            \/ i \in 1..Len(deque) /\ TurnAt(i)' = TurnAt(i)
            \/ i = Len(deque) + 1 /\ TurnAt(i)' = thread[t]
      BY <1>2, <2>2, AddsTurn, TurnTypes DEF TurnAt
    <3>4. /\ \A i, j \in 1..Len(deque') : TurnAt(i)' = TurnAt(j)' => i = j
          /\ \A s \in Threads : \A i \in 1..Len(deque') : \A w \in Workers :
               Holds(s, w)' => w # TurnAt(i)'
      BY <1>2, <2>2, <3>1, <3>2, <3>3, AddsTurn DEF TurnsApart
    <3>5. \A i \in 1..Len(deque') : TurnAt(i)' \in Workers
      BY <3>1, <3>3, TurnTypes
    <3>6. Creating => thread[t] \in listed
      BY <1>2, <2>2, <3>1, AddsTurn DEF TurnsApart
    <3>7. Creating' => \A i \in 1..Len(deque') : TurnAt(i)' \in listed'
      BY <2>1, <3>3, <3>6 DEF TurnsApart
    <3>8. /\ \A r, s \in Threads : \A w \in Workers : Holds(r, w)' /\ Holds(s, w)' => r = s
          /\ Creating' => \A s \in Threads : \A w \in Workers : Holds(s, w)' => w \in listed'
      BY <1>2, <2>1, <2>2, AddsTurn DEF TurnsApart
    <3> QED
      BY <3>4, <3>5, <3>7, <3>8, Zenon DEF TurnsApart
  <2>3. CASE StepTakes(t)
    <3>1. /\ \A i \in 1..Len(deque') : i + 1 \in 1..Len(deque) /\ TurnAt(i)' = TurnAt(i + 1)
          /\ 1 \in 1..Len(deque) /\ TurnAt(1) \in Workers
          /\ \A i \in 1..Len(deque') : i + 1 # 1 /\ i \in Nat
      BY <1>2, <2>3, TakesTurn, TurnTypes
    <3>2. \A i, j \in 1..Len(deque') : TurnAt(i)' = TurnAt(j)' => i = j
      BY <3>1 DEF TurnsApart
    <3>3. \A s \in Threads : \A w \in Workers :
            Holds(s, w)' <=> IF s = t THEN w = TurnAt(1) ELSE Holds(s, w)
      BY <1>2, <2>3, TakesTurn
    <3>4. \A s \in Threads : \A i \in 1..Len(deque') : \A w \in Workers :
            Holds(s, w)' => w # TurnAt(i)'
      BY <3>1, <3>3 DEF TurnsApart
    <3>5. \A i \in 1..Len(deque') : TurnAt(i)' \in Workers
      BY <3>1, TurnTypes
    <3>6. \A r, s \in Threads : \A w \in Workers : Holds(r, w)' /\ Holds(s, w)' => r = s
      BY <3>1, <3>3 DEF TurnsApart
    <3>7. Creating' =>
            /\ \A i \in 1..Len(deque') : TurnAt(i)' \in listed'
            /\ \A s \in Threads : \A w \in Workers : Holds(s, w)' => w \in listed'
      BY <2>1, <3>1, <3>3 DEF TurnsApart
    <3> QED
      BY <3>2, <3>4, <3>5, <3>6, <3>7, Zenon DEF TurnsApart
  <2>4. CASE StepKeeps(t) \/ StepEmpties(t)
    <3>1. deque' = deque \/ Len(deque') = 0
      BY <2>4, EmptySeq DEF StepKeeps, StepEmpties
    <3>2. /\ names' = names
          /\ \A s \in Threads : \A w \in Workers : Holds(s, w)' => Holds(s, w)
      BY <1>2, <2>4, KeepsTurns
    <3>3. \A i \in 1..Len(deque') :
            i \in 1..Len(deque) /\ TurnAt(i)' = TurnAt(i) /\ TurnAt(i) \in Workers
      BY <3>1, <3>2, TurnTypes DEF TurnAt
    <3> QED
      BY <2>1, <3>2, <3>3 DEF TurnsApart
  <2> QED
    BY <1>2, <2>2, <2>3, <2>4, InnerCalls, StepEffect DEF Inner, Control
<1>3. CASE SetThread
  <2>1. PICK w \in Workers \ listed :
          thread' = [thread EXCEPT ![Main] = w] /\ listed' = listed \cup {w}
    BY <1>3 DEF SetThread
  <2>2. at[Main] = "create" /\ at'[Main] = "created"
    BY <1>3, WhoIsWho DEF SetThread, Go, Control, PoolTypeOK
  <2>3. Creating /\ Creating'
    BY <2>2 DEF Creating
  <2>4. thread'[Main] = w
    BY <2>1, WhoIsWho DEF Control, PoolTypeOK
  <2>5. \A v \in Workers : Holds(Main, v)' <=> v = w
    BY <2>2, <2>4 DEF Holds
  <2>6. \A s \in Threads \ {Main} : \A v \in Workers : Holds(s, v)' <=> Holds(s, v)
    BY <1>3, MainAlone, OthersHold, WhoIsWho DEF MovesAlone
  <2>7. \A i : TurnAt(i)' = TurnAt(i)
    BY <1>3 DEF SetThread, dequeVars, TurnAt
  <2>8. deque' = deque
    BY <1>3 DEF SetThread, dequeVars
  <2> QED
    BY <2>1, <2>3, <2>5, <2>6, <2>7, <2>8, TurnTypes DEF TurnsApart
<1>4. CASE MainStep \/ \E c \in Dispatchers : CallerStep(c)
  <2>1. deque' = deque /\ names' = names
    BY <1>4, MainAlone, CallerAlone DEF MovesAlone
  <2>2. \A s \in Threads : \A w \in Workers : Holds(s, w)' => Holds(s, w)
    BY <1>4, OutsideTurns
  <2>3. Creating' => Creating /\ listed' = listed
    <3>1. CASE MainStep
      BY <3>1, WhoIsWho
         DEF MainStep, PushThread, ThreadPushed, Remove, pthread_cancel, RemoveObject,
             SwapThreads, Swapped, FindObject, Call, Returned, Go, Control, PoolTypeOK,
             Creating
    <3>2. ASSUME NEW c \in Dispatchers, CallerStep(c), Creating' PROVE FALSE
      <4>1. Creating /\ at[c] = "idle"
        BY <3>2, CallerAlone, WhoIsWho DEF MovesAlone, Elsewhere, Creating, Control, AtOK
      <4> QED
        BY <3>2, <4>1
           DEF CallerStep, GetBestThread, ClearThreads, Dispatch, Popped, NothingPopped,
               FindThread, Dump, PutBack, Back, schedulingHRP, AddTask, Cleared,
               CancleThreadObjects, Call, Returned, Go
    <3> QED
      BY <1>4, <3>1, <3>2
  <2> QED
    BY <2>1, <2>2, <2>3, TurnTypes DEF TurnsApart, TurnAt
<1> QED
  BY <1>1, <1>2, <1>3, <1>4, Cases

LEMMA ApartInit == PoolInit => TurnsApart
<1> SUFFICES ASSUME PoolInit PROVE TurnsApart
  OBVIOUS
<1>1. Len(deque) = 0
  BY EmptySeq DEF PoolInit, Init
<1>2. \A t \in Threads : at[t] \in {"create", "idle"}
  BY DEF PoolInit
<1>3. \A t \in Threads : \A w \in Workers : ~Holds(t, w)
  BY <1>2 DEF Holds
<1> QED
  BY <1>1, <1>3 DEF TurnsApart

LEMMA ApartCorrect == PoolSpec => []TurnsApart
<1>1. Control /\ TurnsApart /\ [PoolNext]_vars => TurnsApart'
  BY ApartStep
<1> QED
  BY <1>1, ApartInit, PoolTypeCorrect, PTL DEF PoolSpec

-----------------------------------------------------------------------------
(* Counting turns.                                                         *)

(* The thread has a turn, in m_Threads or with a caller.                   *)
HasTurn(w) ==
  \/ \E i \in 1..Len(deque) : TurnAt(i) = w
  \/ \E t \in Threads : Holds(t, w)

LEMMA CountTurns ==
  ASSUME Control, TurnsApart, NEW w \in Workers
  PROVE  Turns(w) = IF HasTurn(w) THEN 1 ELSE 0
<1> DEFINE Places == {i \in 1..Len(deque) : TurnAt(i) = w}
           Bearers == {t \in Threads : Holds(t, w)}
<1>1. \A i, j \in Places : i = j
  BY DEF TurnsApart
<1>2. \A s, t \in Bearers : s = t
  BY DEF TurnsApart
<1>3. Places = {} \/ Bearers = {}
  BY DEF TurnsApart
<1>4. Turns(w) = Cardinality(Places) + Cardinality(Bearers)
  BY DEF Turns, TurnAt
<1>5. HasTurn(w) <=> Places # {} \/ Bearers # {}
  BY DEF HasTurn
<1> HIDE DEF Places, Bearers
<1>6. Cardinality(Places) \in {0, 1} /\ (Cardinality(Places) = 0 <=> Places = {})
  BY <1>1, AtMostOne
<1>7. Cardinality(Bearers) \in {0, 1} /\ (Cardinality(Bearers) = 0 <=> Bearers = {})
  BY <1>2, AtMostOne
<1> QED
  BY <1>3, <1>4, <1>5, <1>6, <1>7

(* However many callers dispatch, remove and clear at once, no thread is   *)
(* ever given two turns (ThreadPool.cpp:20, 25).                           *)
THEOREM OneTurnEachCorrect == PoolSpec => []OneTurnEach
<1>1. Control /\ TurnsApart => OneTurnEach
  BY CountTurns DEF OneTurnEach
<1> QED
  BY <1>1, ApartCorrect, PoolTypeCorrect, PTL

-----------------------------------------------------------------------------
(* Before anything is removed or cleared.                                  *)

Disturbing ==
  {"dumped", "clearing", "unlist", "done", "cancel", "remove", "swap", "swapping"}

Calm ==
  /\ ~aborted /\ ~exited /\ ~lost
  /\ \A t \in Threads : at[t] \notin Disturbing
  /\ \A t \in Threads : at[t] = "task" => thread[t] \in Workers
  /\ ~Creating => listed = Workers
  /\ \A w \in listed : HasTurn(w)
  /\ Surplus = 0
  /\ \A i \in 1..Len(deque) : deque[i] = pushed - Len(deque) + i

(* With no more callers than threads every PopFront has a turn to return.  *)
EnoughTurns ==
  Cardinality(Dispatchers) <= Cardinality(Workers) =>
    \A c \in Dispatchers :
      /\ at[c] # "hrp"
      /\ at[c] = "popping" /\ pc[c] = "idle" => ret[c] # 0

CalmOK == Undisturbed => Calm /\ EnoughTurns

(* Only AbortWait and Clear abort a deque.                                 *)
LEMMA StaysOpen ==
  ASSUME NEW t \in Threads, Step(t), op[t] \notin {"AbortWait", "Clear"}
  PROVE  aborted' = aborted
  BY DEF Step, Body, WaitCheck, SemTake, SemTimeout, SemInterrupted, Woke, Lock,
         ClearUnlocked, PushBack, PushFront, Insert, Push, Refused, PopFront, PopBack,
         Peek, FoundEmpty, Swap, AbortWait, Inside

(* With a turn each the deque of turns always has room for one more.       *)
LEMMA Room ==
  ASSUME Control, TurnsApart
  PROVE  ~isFull(0)
<1> DEFINE f == [i \in 1..Len(deque) |-> TurnAt(i)]
<1>1. f \in Injection(1..Len(deque), Workers)
  <2>1. f \in [1..Len(deque) -> Workers]
    BY TurnTypes
  <2>2. \A i, j \in 1..Len(deque) : f[i] = f[j] => i = j
    BY DEF TurnsApart
  <2> QED
    BY <2>1, <2>2 DEF Injection, IsInjective
<1>2. IsFiniteSet(Workers) /\ Cardinality(Workers) \in Nat /\ Cardinality(Workers) < MaxSize
  BY PoolAssumption, FS_CardinalityType DEF PoolAssumption
<1>3. Cardinality(1..Len(deque)) <= Cardinality(Workers)
  BY <1>1, <1>2, FS_Injection
<1>4. Len(deque) \in Nat /\ Cardinality(1..Len(deque)) = Len(deque)
  <2>1. Len(deque) \in Nat
    BY TurnTypes
  <2>2. Cardinality(1..Len(deque)) =
          IF 1 > Len(deque) THEN 0 ELSE Len(deque) - 1 + 1
    BY <2>1, FS_Interval
  <2> QED
    BY <2>1, <2>2
<1> QED
  BY <1>2, <1>3, <1>4, DequeAssumption DEF isFull, DequeAssumption

(* Inside the deque, before anything is removed or cleared, turns are      *)
(* taken and put back and nothing else.                                    *)
LEMMA CalmCalls ==
  ASSUME Control, TurnsApart, Calm, NEW t \in Threads, Inner(t)
  PROVE  /\ \/ at[t] = "popping" /\ op[t] = "PopFront"
            \/ at[t] \in {"creating", "pushing"} /\ op[t] = "PushBack"
         /\ aborted' = FALSE /\ Surplus' = 0
         /\ \/ StepAdds(t) \/ StepTakes(t)
            \/ StepKeeps(t) /\ ~(op[t] = "PushBack" /\ pc'[t] = "idle")
<1>1. /\ pc[t] # "idle" /\ op[t] \in CallsAt(at[t])
      /\ op[t] \in QueueOps \cup {"DrainFront", "Swap"}
  BY InnerCalls
<1>2. at[t] \notin Disturbing /\ ~aborted /\ Surplus = 0
  BY DEF Calm
<1>3. \/ at[t] = "popping" /\ op[t] = "PopFront"
      \/ at[t] \in {"creating", "pushing"} /\ op[t] = "PushBack"
  BY <1>1, <1>2 DEF CallsAt, Disturbing, Control, CallOK, Drains
<1>4. aborted' = FALSE
  BY <1>2, <1>3, StaysOpen DEF Inner, Control, TypeOK
<1>5. Surplus' = 0
  BY <1>2, <1>3, <1>4, SurplusStep DEF Inner, Control, QueueOps
<1> QED
  BY <1>1, <1>3, <1>4, <1>5, Room, StepEffect DEF Inner, Control, StepEmpties

(* Every thread keeps its turn through a step in the deque.                *)
LEMMA CalmTurns ==
  ASSUME Control, TurnsApart, Calm, NEW t \in Threads, Inner(t)
  PROVE  /\ \A w \in Workers : HasTurn(w) => HasTurn(w)'
         /\ \A i \in 1..Len(deque') : deque'[i] = pushed' - Len(deque') + i
<1>1. deque \in Seq(Nat) /\ Len(deque) \in Nat /\ pushed \in Nat
  BY LenProperties DEF Control, TypeOK
<1>5. \A i \in 1..Len(deque) : deque[i] = pushed - Len(deque) + i
  BY DEF Calm
<1>2. CASE StepAdds(t)
  <2>1. /\ Len(deque') = Len(deque) + 1 /\ pushed' = pushed + 1
        /\ \A i \in 1..Len(deque) : deque'[i] = deque[i]
        /\ deque'[Len(deque) + 1] = pushed + 1
    BY <1>1, <1>2, AppendProperties DEF StepAdds
  <2>2. ASSUME NEW w \in Workers, HasTurn(w) PROVE HasTurn(w)'
    <3>1. CASE \E i \in 1..Len(deque) : TurnAt(i) = w
      BY <1>1, <1>2, <2>1, <3>1, AddsTurn DEF HasTurn
    <3>2. CASE Holds(t, w)
      <4>1. w = thread[t]
        BY <1>2, <3>2, CalmCalls DEF Holds, StepAdds
      <4>2. Len(deque) + 1 \in 1..Len(deque') /\ names'[deque'[Len(deque) + 1]] = w
        BY <1>1, <1>2, <2>1, <4>1, AddsTurn
      <4> QED
        BY <4>2 DEF HasTurn, TurnAt
    <3>3. ASSUME NEW s \in Threads \ {t}, Holds(s, w) PROVE HasTurn(w)'
      BY <1>2, <3>3, AddsTurn DEF HasTurn
    <3> QED
      BY <2>2, <3>1, <3>2, <3>3 DEF HasTurn
  <2>3. ASSUME NEW i \in 1..Len(deque') PROVE deque'[i] = pushed' - Len(deque') + i
    <3>1. CASE i \in 1..Len(deque)
      BY <1>1, <1>5, <2>1, <3>1
    <3>2. CASE i = Len(deque) + 1
      BY <1>1, <2>1, <3>2
    <3> QED
      BY <1>1, <2>1, <3>1, <3>2
  <2> QED
    BY <2>2, <2>3
<1>3. CASE StepTakes(t)
  <2>1. /\ Len(deque) # 0 /\ Len(deque') = Len(deque) - 1 /\ pushed' = pushed
        /\ \A i \in 1..Len(deque') : deque'[i] = deque[i + 1]
    BY <1>1, <1>3, HeadTailProperties, EmptySeq DEF StepTakes
  <2>2. ASSUME NEW w \in Workers, HasTurn(w) PROVE HasTurn(w)'
    <3>1. CASE \E i \in 1..Len(deque) : TurnAt(i) = w
      <4>1. PICK i \in 1..Len(deque) : TurnAt(i) = w
        BY <3>1
      <4>2. CASE i = 1
        BY <1>3, <4>1, <4>2, TakesTurn DEF HasTurn
      <4>3. CASE i # 1
        <5>1. i - 1 \in 1..Len(deque') /\ i - 1 + 1 = i
          BY <1>1, <2>1, <4>3
        <5>2. names'[deque'[i - 1]] = w
          BY <1>3, <2>1, <4>1, <5>1 DEF Inner, StepTakes, TurnAt
        <5> QED
          BY <5>1, <5>2 DEF HasTurn, TurnAt
      <4> QED
        BY <4>2, <4>3
    <3>2. ASSUME NEW s \in Threads, Holds(s, w) PROVE HasTurn(w)'
      BY <1>3, <3>2, TakesTurn DEF HasTurn
    <3> QED
      BY <2>2, <3>1, <3>2 DEF HasTurn
  <2>3. ASSUME NEW i \in 1..Len(deque') PROVE deque'[i] = pushed' - Len(deque') + i
    <3>1. i + 1 \in 1..Len(deque)
      BY <1>1, <2>1
    <3> QED
      BY <1>1, <1>5, <2>1, <3>1
  <2> QED
    BY <2>2, <2>3
<1>4. CASE StepKeeps(t) /\ ~(op[t] = "PushBack" /\ pc'[t] = "idle")
  <2>1. /\ names' = names /\ deque' = deque /\ pushed' = pushed
        /\ \A s \in Threads : \A w \in Workers : Holds(s, w) => Holds(s, w)'
    BY <1>4, KeepsTurns DEF StepKeeps
  <2> QED
    BY <1>5, <2>1 DEF HasTurn, TurnAt
<1> QED
  BY <1>2, <1>3, <1>4, CalmCalls
(* A PopFront that waits in vain: there are fewer threads than callers.    *)
LEMMA Shortage ==
  ASSUME Control, TurnsApart, Calm, ~Creating,
         NEW c \in Dispatchers, pc[c] = "sem", notEmpty = 0
  PROVE  Cardinality(Workers) < Cardinality(Dispatchers)
<1> DEFINE Queued == {w \in Workers : \E i \in 1..Len(deque) : TurnAt(i) = w}
           Lent == {w \in Workers : \E t \in Threads : Holds(t, w)}
           Bearers == {t \in Threads : \E w \in Workers : Holds(t, w)}
<1>1. /\ IsFiniteSet(Threads) /\ IsFiniteSet(Workers) /\ IsFiniteSet(Dispatchers)
      /\ Len(deque) \in Nat
  BY DequeAssumption, PoolAssumption, FS_Subset, TurnTypes, WhoIsWho
     DEF DequeAssumption, PoolAssumption
<1>2. Workers = Queued \cup Lent
  BY DEF Calm, HasTurn
<1>3. Cardinality(Queued) <= Len(deque)
  <2> DEFINE f == [i \in 1..Len(deque) |-> TurnAt(i)]
  <2>1. f \in Surjection(1..Len(deque), Queued)
    <3>1. f \in [1..Len(deque) -> Queued]
      BY TurnTypes
    <3>2. \A w \in Queued : \E i \in 1..Len(deque) : f[i] = w
      OBVIOUS
    <3> QED
      BY <3>1, <3>2 DEF Surjection
  <2>2. /\ IsFiniteSet(1..Len(deque))
        /\ Cardinality(1..Len(deque)) = IF 1 > Len(deque) THEN 0 ELSE Len(deque) - 1 + 1
    BY <1>1, FS_Interval
  <2>3. Cardinality(Queued) <= Cardinality(1..Len(deque))
    BY <2>1, <2>2, FS_Surjection
  <2> QED
    BY <1>1, <2>2, <2>3
<1>4. IsFiniteSet(Bearers) /\ Cardinality(Lent) <= Cardinality(Bearers)
  <2> DEFINE g == [w \in Lent |-> CHOOSE t \in Threads : Holds(t, w)]
  <2>1. \A w \in Lent : g[w] \in Threads /\ Holds(g[w], w)
    OBVIOUS
  <2>2. \A t \in Threads : \A v, w \in Workers : Holds(t, v) /\ Holds(t, w) => v = w
    BY DEF Holds
  <2>3. g \in [Lent -> Bearers]
    BY <2>1
  <2>4. \A v, w \in Lent : g[v] = g[w] => v = w
    BY <2>1, <2>2
  <2>5. g \in Injection(Lent, Bearers)
    BY <2>3, <2>4 DEF Injection, IsInjective
  <2>6. IsFiniteSet(Bearers)
    BY <1>1, FS_Subset
  <2> QED
    BY <2>5, <2>6, FS_Injection
<1>5. Len(deque) = Cardinality(Holders)
  BY <1>1, HoldersFinite DEF Calm, Surplus, Control
<1>6. at[Main] = "idle" /\ pc[Main] = "idle"
  BY WhoIsWho DEF Control, AtOK, MainStatements, CallsAt, Calm, Disturbing, Creating
<1>7. at[c] = "popping"
  BY WhoIsWho DEF Control, AtOK, CallOK, CallsAt, Waiting
<1>8. Holders \cap Bearers = {}
  BY DEF Holders, Holds, Control, AtOK, CallsAt, Waiting
<1>9. Holders \cup Bearers \subseteq Dispatchers \ {c}
  BY <1>6, <1>7, WhoIsWho DEF Holders, Holds
<1>10. Cardinality(Workers) <= Cardinality(Queued) + Cardinality(Lent)
  <2>1. IsFiniteSet(Queued) /\ IsFiniteSet(Lent)
    BY <1>1, FS_Subset
  <2>2. Queued \cap Lent = {}
    BY DEF TurnsApart
  <2> HIDE DEF Queued, Lent
  <2> QED
    <3>1. Cardinality(Queued \cup Lent)
            = Cardinality(Queued) + Cardinality(Lent) - Cardinality(Queued \cap Lent)
      BY <2>1, FS_Union
    <3>2. Cardinality(Queued) \in Nat /\ Cardinality(Lent) \in Nat
      BY <2>1, FS_CardinalityType
    <3>3. Cardinality(Queued \cap Lent) = 0
      BY <2>2, FS_EmptySet
    <3> QED
      BY <1>2, <3>1, <3>2, <3>3
<1>11. Cardinality(Holders) + Cardinality(Bearers) <= Cardinality(Dispatchers) - 1
  <2> HIDE DEF Bearers
  <2>1. IsFiniteSet(Holders)
    BY HoldersFinite DEF Control
  <2>2. Cardinality(Holders \cup Bearers) = Cardinality(Holders) + Cardinality(Bearers)
    BY <1>4, <1>8, <2>1, FS_Union, FS_EmptySet, FS_CardinalityType
  <2>3. /\ IsFiniteSet(Dispatchers \ {c})
        /\ Cardinality(Dispatchers \ {c}) = Cardinality(Dispatchers) - 1
    BY <1>1, FS_RemoveElement
  <2> QED
    BY <1>9, <2>2, <2>3, FS_Subset
<1>12. /\ Cardinality(Queued) \in Nat /\ Cardinality(Lent) \in Nat
       /\ Cardinality(Bearers) \in Nat /\ Cardinality(Holders) \in Nat
       /\ Cardinality(Workers) \in Nat /\ Cardinality(Dispatchers) \in Nat
  <2>1. IsFiniteSet(Queued) /\ IsFiniteSet(Lent)
    BY <1>1, FS_Subset
  <2>2. Cardinality(Holders) \in Nat
    BY HoldersFinite DEF Control
  <2> HIDE DEF Queued, Lent, Bearers
  <2> QED
    BY <1>1, <1>4, <2>1, <2>2, FS_CardinalityType
<1> HIDE DEF Queued, Lent, Bearers
<1> QED
  BY <1>3, <1>4, <1>5, <1>10, <1>11, <1>12

(* Only a wait that times out makes PopFront come back without a turn.     *)
LEMMA PopFails ==
  ASSUME Control, TurnsApart, Calm, NEW t \in Threads, Inner(t),
         at[t] = "popping", pc'[t] = "idle", ret'[t] = 0
  PROVE  pc[t] = "sem" /\ notEmpty = 0
<1>1. op[t] = "PopFront" /\ ~aborted /\ Surplus = 0 /\ Step(t)
  BY CalmCalls DEF Calm, Inner
<1>2. CASE FoundEmpty(t)
  <2>1. t \in Holders
    BY <1>1, <1>2 DEF FoundEmpty, Inside, Holders, Waiting
  <2>2. Cardinality(Holders) # 0
    BY <2>1, HoldersFinite, FS_EmptySet DEF Control
  <2>3. Len(deque) = 0
    BY <1>2, EmptySeq DEF FoundEmpty
  <2> QED
    BY <1>1, <2>2, <2>3, HoldersFinite DEF Surplus, Control, TypeOK
<1>3. CASE PopFront(t)
  <2>1. deque \in Seq(Nat) /\ deque # <<>>
    BY <1>3 DEF PopFront, Control, TypeOK
  <2>2. 1 \in 1..Len(deque) /\ Head(deque) = deque[1]
    BY <2>1, HeadTailProperties, EmptySeq, LenProperties
  <2>3. ret'[t] = deque[1]
    BY <1>3, <2>2 DEF PopFront, Leave, Return, Control, TypeOK
  <2> QED
    BY <2>2, <2>3 DEF Control, PoolTypeOK
<1>4. CASE SemTimeout(t)
  BY <1>4 DEF SemTimeout
<1>5. ~(PushBack(t) \/ PushFront(t) \/ Insert(t) \/ Refused(t) \/ PopBack(t)
          \/ Peek(t) \/ Swap(t) \/ AbortWait(t))
  BY <1>1 DEF PushBack, PushFront, Insert, Refused, PopBack, Peek, Swap, AbortWait, Inside
<1>6. ~(WaitCheck(t) \/ SemTake(t) \/ SemInterrupted(t) \/ Woke(t) \/ Lock(t)
          \/ ClearUnlocked(t))
  BY <1>1 DEF WaitCheck, SemTake, SemInterrupted, Woke, Lock, ClearUnlocked, Goto,
              Control, TypeOK, CallOK
<1> QED
  BY <1>1, <1>2, <1>3, <1>4, <1>5, <1>6 DEF Step, Body

-----------------------------------------------------------------------------
(* The calm lasts until a removal or a clear.                              *)

LEMMA CalmInner ==
  ASSUME Control, TurnsApart, Calm, EnoughTurns, NEW t \in Threads, Inner(t)
  PROVE  Calm' /\ EnoughTurns'
<1>1. /\ at' = at /\ thread' = thread /\ listed' = listed /\ Elsewhere(t)
      /\ UNCHANGED <<exited, lost>>
  BY InnerCalls DEF Inner
<1>2. Calm'
  <2>1. listed \subseteq Workers
    BY DEF Control, PoolTypeOK
  <2>2. /\ ~aborted' /\ Surplus' = 0
        /\ \A w \in Workers : HasTurn(w) => HasTurn(w)'
        /\ \A i \in 1..Len(deque') : deque'[i] = pushed' - Len(deque') + i
    BY CalmCalls, CalmTurns
  <2> QED
    BY <1>1, <2>1, <2>2 DEF Calm, Creating
<1>3. ASSUME Cardinality(Dispatchers) <= Cardinality(Workers), at[t] = "popping",
             t \in Dispatchers, pc'[t] = "idle", ret'[t] = 0
      PROVE  FALSE
  <2>1. pc[t] = "sem" /\ notEmpty = 0
    BY <1>3, PopFails
  <2>2. ~Creating
    BY <1>3 DEF Control, AtOK
  <2>3. Cardinality(Workers) < Cardinality(Dispatchers)
    BY <1>3, <2>1, <2>2, Shortage
  <2>4. Cardinality(Workers) \in Nat /\ Cardinality(Dispatchers) \in Nat
    BY DequeAssumption, PoolAssumption, FS_Subset, FS_CardinalityType, WhoIsWho
       DEF DequeAssumption, PoolAssumption
  <2> QED
    BY <1>3, <2>3, <2>4
<1> QED
  BY <1>1, <1>2, <1>3, WhoIsWho DEF EnoughTurns, Elsewhere

LEMMA CalmSetThread ==
  ASSUME Control, Calm, SetThread
  PROVE  Calm' /\ (EnoughTurns => EnoughTurns')
<1>1. /\ at[Main] = "create" /\ at' = [at EXCEPT ![Main] = "created"]
      /\ UNCHANGED <<dequeVars, names, cancelled, disturbed, lost, exited>>
  BY DEF SetThread, Go
<1>2. PICK v \in Workers \ listed :
        thread' = [thread EXCEPT ![Main] = v] /\ listed' = listed \cup {v}
  BY DEF SetThread
<1>3. at'[Main] = "created" /\ thread'[Main] = v
  BY <1>1, <1>2, WhoIsWho DEF Control, PoolTypeOK
<1>4. HasTurn(v)'
  BY <1>3, WhoIsWho DEF HasTurn, Holds
<1>5. \A s \in Threads \ {Main} : \A w \in Workers : Holds(s, w)' <=> Holds(s, w)
  BY <1>1, MainAlone, OthersHold, WhoIsWho DEF MovesAlone
<1>6. \A w \in Workers : ~Holds(Main, w)
  BY <1>1 DEF Holds
<1>7. \A w \in Workers : HasTurn(w) => HasTurn(w)'
  BY <1>1, <1>5, <1>6 DEF HasTurn, TurnAt, dequeVars
<1>8. Surplus' = Surplus
  BY <1>1, StutterStep
<1>9. \A t \in Threads : t # Main => at'[t] = at[t] /\ thread'[t] = thread[t]
  BY MainAlone DEF MovesAlone, Elsewhere
<1>10. Creating'
  BY <1>3 DEF Creating
<1>11. listed \subseteq Workers
  BY DEF Control, PoolTypeOK
<1>12. Calm'
  <2>1. \A t \in Threads : at'[t] = "task" => thread'[t] \in Workers
    BY <1>3, <1>9 DEF Calm, Disturbing
  <2>2. \A t \in Threads : at'[t] \notin Disturbing
    BY <1>3, <1>9 DEF Calm, Disturbing
  <2>3. \A w \in listed' : HasTurn(w)'
    BY <1>2, <1>4, <1>7, <1>11 DEF Calm
  <2> QED
    BY <1>1, <1>8, <1>10, <2>1, <2>2, <2>3 DEF Calm, dequeVars
<1> QED
  BY <1>1, <1>9, <1>12, WhoIsWho DEF EnoughTurns, dequeVars

(* What the first step of a call does to the tokens.                       *)
LEMMA CalmBegin ==
  ASSUME Control, Calm, NEW t \in Threads, NEW o \in Calls[t], Begin(t, o)
  PROVE  ~aborted' /\ Surplus' = 0
<1>1. ~aborted' /\ pc[t] = "idle" /\ Surplus = 0
  BY DEF Begin, Calm
<1> QED
  BY <1>1, SurplusStep DEF Control

(* A step outside the deque that leaves the flags and the list alone, and  *)
(* takes its thread t to a harmless statement, keeps the calm.             *)
LEMMA CalmMove ==
  ASSUME Control, Calm, NEW t \in Threads, MovesAlone(t),
         MainStep \/ \E c \in Dispatchers : CallerStep(c),
         ~aborted' /\ Surplus' = 0 /\ UNCHANGED <<listed, lost, exited>>,
         at'[t] \notin Disturbing,
         at'[t] = "task" => thread'[t] \in Workers,
         ~Creating' => listed = Workers
  PROVE  Calm'
<1>1. \A s \in Threads : \A w \in Workers : Holds(s, w) => Holds(s, w)'
  BY OutsideTurns DEF Calm
<1>2. deque' = deque /\ names' = names /\ pushed' = pushed
  BY DEF MovesAlone
<1>3. \A w \in Workers : HasTurn(w) => HasTurn(w)'
  BY <1>1, <1>2 DEF HasTurn, TurnAt
<1>4. /\ \A s \in Threads : at'[s] \notin Disturbing
      /\ \A s \in Threads : at'[s] = "task" => thread'[s] \in Workers
  BY DEF MovesAlone, Elsewhere, Calm
<1>5. \A w \in listed' : HasTurn(w)'
  BY <1>3 DEF Calm, Control, PoolTypeOK
<1>6. \A i \in 1..Len(deque') : deque'[i] = pushed' - Len(deque') + i
  BY <1>2 DEF Calm
<1> QED
  BY <1>4, <1>5, <1>6 DEF Calm

LEMMA CalmMain ==
  ASSUME Control, Calm, MainStep, Undisturbed'
  PROVE  Calm' /\ (EnoughTurns => EnoughTurns')
<1> USE WhoIsWho
<1>1. at[Main] \notin Disturbing
  BY DEF Calm
<1>2. PushThread \/ ThreadPushed
  <2>1. \A w \in Workers : ~FindObject(w)
    BY DEF FindObject, Undisturbed, Control, PoolTypeOK
  <2>2. ~Remove
    BY <1>1 DEF Remove, pthread_cancel, RemoveObject, SwapThreads, Swapped, Call,
                Returned, Go, Disturbing
  <2> QED
    BY <2>1, <2>2 DEF MainStep
<1>3. /\ UNCHANGED <<listed, lost, exited>>
      /\ at'[Main] \in {"creating", "idle", "create"}
      /\ ~Creating' => listed = Workers
  BY <1>2 DEF PushThread, ThreadPushed, Call, Returned, Go, Control, PoolTypeOK, Creating
<1>4. ~aborted' /\ Surplus' = 0
  <2>1. CASE PushThread
    <3>1. "PushBack" \in Calls[Main]
      BY PoolAssumption DEF PoolAssumption
    <3> QED
      BY <2>1, <3>1, CalmBegin DEF PushThread, Call
  <2>2. CASE ThreadPushed
    BY <2>2, StutterStep DEF ThreadPushed, Returned, Calm
  <2> QED
    BY <1>2, <2>1, <2>2
<1>5. Calm'
  BY <1>3, <1>4, MainAlone, CalmMove DEF Disturbing
<1>6. \A c \in Dispatchers : at'[c] = at[c] /\ pc'[c] = pc[c] /\ ret'[c] = ret[c]
  BY MainAlone DEF MovesAlone, Elsewhere
<1> QED
  BY <1>5, <1>6 DEF EnoughTurns

LEMMA CalmCaller ==
  ASSUME Control, Calm, EnoughTurns, NEW c \in Dispatchers, CallerStep(c), Undisturbed'
  PROVE  Calm' /\ EnoughTurns'
<1> USE WhoIsWho
<1>1. at[c] \notin Disturbing /\ (at[c] # "idle" => listed = Workers)
  BY DEF Calm, Control, AtOK
<1>2. \/ GetBestThread(c) \/ Popped(c) \/ NothingPopped(c) \/ FindThread(c)
      \/ PutBack(c) \/ Back(c) \/ schedulingHRP(c) \/ AddTask(c)
  <2>1. ~ClearThreads(c)
    BY DEF ClearThreads, Undisturbed, Control, PoolTypeOK
  <2>2. ~(Cleared(c) \/ CancleThreadObjects(c))
    BY <1>1 DEF Cleared, CancleThreadObjects, Returned, Go, Disturbing
  <2>3. ~Dump(c)
    BY <1>1 DEF Dump, Go, Control, AtOK
  <2> QED
    BY <2>1, <2>2, <2>3 DEF CallerStep, Dispatch
<1>3. UNCHANGED <<listed, exited>> /\ lost' = FALSE
  <2>1. UNCHANGED <<listed, exited>> /\ (AddTask(c) \/ lost' = lost)
    BY <1>2 DEF GetBestThread, Popped, NothingPopped, FindThread, PutBack, Back,
                schedulingHRP, AddTask, Call, Returned
  <2>2. CASE AddTask(c)
    <3>1. thread[c] \in listed /\ ~lost
      BY <1>1, <2>2 DEF AddTask, Go, Calm
    <3> QED
      BY <2>1, <2>2, <3>1 DEF AddTask
  <2> QED
    BY <2>1, <2>2 DEF Calm, Control, PoolTypeOK
<1>4. ~aborted' /\ Surplus' = 0
  <2>1. "PopFront" \in Calls[c] /\ "PushBack" \in Calls[c]
    BY PoolAssumption DEF PoolAssumption
  <2>2. CASE GetBestThread(c) \/ PutBack(c)
    BY <2>1, <2>2, CalmBegin DEF GetBestThread, PutBack, Call
  <2>3. CASE dequeVars' = dequeVars
    BY <2>3, StutterStep DEF Calm
  <2> QED
    BY <1>2, <2>2, <2>3 DEF Popped, NothingPopped, FindThread, Back, schedulingHRP,
                            AddTask, Returned
<1>5. /\ at'[c] \notin Disturbing
      /\ at'[c] = "task" => thread'[c] \in Workers
      /\ at'[c] = "hrp" => NothingPopped(c)
      /\ at'[c] = "popping" => pc'[c] # "idle"
  <2> USE DEF Disturbing, Go, Control, TypeOK, PoolTypeOK
  <2>1. CASE GetBestThread(c) \/ PutBack(c)
    BY <2>1 DEF GetBestThread, PutBack, Call, Begin, Goto, FirstStop
  <2>2. CASE Popped(c) \/ NothingPopped(c)
    BY <2>2 DEF Popped, NothingPopped, Returned
  <2>3. CASE Back(c)
    BY <2>3 DEF Back, Returned, AtOK
  <2>4. CASE FindThread(c) \/ schedulingHRP(c) \/ AddTask(c)
    BY <1>1, <2>4 DEF FindThread, schedulingHRP, AddTask
  <2> QED
    BY <1>2, <2>1, <2>2, <2>3, <2>4
<1>6. MovesAlone(c)
  BY CallerAlone
<1>7. Calm'
  <2>1. ~Creating' => listed = Workers
    BY <1>6 DEF MovesAlone, Elsewhere, Calm, Creating
  <2>2. UNCHANGED <<listed, lost, exited>>
    BY <1>3 DEF Calm, Control, PoolTypeOK
  <2> QED
    BY <1>4, <1>5, <1>6, <2>1, <2>2, CalmMove
<1>8. EnoughTurns'
  <2>1. Cardinality(Dispatchers) <= Cardinality(Workers) => ~NothingPopped(c)
    BY DEF NothingPopped, Returned, Go, EnoughTurns
  <2>2. \A d \in Dispatchers \ {c} : at'[d] = at[d] /\ pc'[d] = pc[d] /\ ret'[d] = ret[d]
    BY <1>6 DEF MovesAlone, Elsewhere
  <2> QED
    BY <1>5, <2>1, <2>2 DEF EnoughTurns
<1> QED
  BY <1>7, <1>8

LEMMA CalmStep ==
  ASSUME Control, TurnsApart, CalmOK, [PoolNext]_vars
  PROVE  CalmOK'
<1>1. CASE UNCHANGED vars
  <2>1. /\ \A w : HasTurn(w)' = HasTurn(w)
        /\ Surplus' = Surplus
    BY <1>1, StutterStep DEF vars, poolVars, dequeVars, HasTurn, TurnAt, Holds
  <2> QED
    BY <1>1, <2>1 DEF vars, poolVars, dequeVars, CalmOK, Calm, EnoughTurns, Undisturbed,
                      Creating
<1>2. CASE PoolNext
  <2>1. Undisturbed' => Undisturbed
    <3>1. disturbed' = disturbed \/ disturbed' = disturbed + 1
      BY <1>2
         DEF PoolNext, Inner, Create, SetThread, PushThread, ThreadPushed, Remove,
             pthread_cancel, RemoveObject, SwapThreads, Swapped, FindObject, Call, Returned,
             GetBestThread, ClearThreads, Dispatch, Popped, NothingPopped, FindThread,
             Dump, PutBack, Back, schedulingHRP, AddTask, Cleared, CancleThreadObjects
    <3>2. disturbed \in Nat
      BY DEF Control, PoolTypeOK
    <3> QED
      BY <3>1, <3>2 DEF Undisturbed
  <2>2. Undisturbed' => Calm /\ EnoughTurns
    BY <2>1 DEF CalmOK
  <2> QED
    BY <1>2, <2>2, Cases, CalmInner, CalmSetThread, CalmMain, CalmCaller DEF CalmOK
<1> QED
  BY <1>1, <1>2

LEMMA CalmInit == PoolInit => CalmOK
<1> SUFFICES ASSUME PoolInit PROVE Calm /\ EnoughTurns
  BY DEF CalmOK
<1>1. Surplus = 0 /\ Len(deque) = 0
  BY SurplusInit, EmptySeq DEF PoolInit, Init
<1>2. Creating /\ listed = {}
  BY WhoIsWho DEF PoolInit, Creating
<1>3. \A t \in Threads : at[t] \in {"create", "idle"}
  BY DEF PoolInit
<1> QED
  BY <1>1, <1>2, <1>3, WhoIsWho
     DEF PoolInit, Init, Calm, EnoughTurns, Disturbing

LEMMA PoolInvariants == PoolSpec => [](Control /\ TurnsApart /\ CalmOK)
<1>1. Control /\ TurnsApart /\ CalmOK /\ [PoolNext]_vars => CalmOK'
  BY CalmStep
<1> QED
  BY <1>1, CalmInit, ApartCorrect, PoolTypeCorrect, PTL DEF PoolSpec

(* Until a removal or a clear begins no thread loses its turn, however the *)
(* pops and the pushes of any number of callers interleave                 *)
(* (ThreadPool.cpp:20, 25).                                                *)
THEOREM TurnsConservedCorrect == PoolSpec => []TurnsConserved
<1>1. Control /\ TurnsApart /\ CalmOK => TurnsConserved
  BY CountTurns DEF TurnsConserved, CalmOK, Calm, Control, PoolTypeOK
<1> QED
  BY <1>1, PoolInvariants, PTL

(* ... no turn is of a thread that is not listed, no task is lost, and a   *)
(* pool with as many threads as callers never runs out of turns            *)
(* (ThreadPool.cpp:29, 101, 156).                                          *)
THEOREM NothingFailsCorrect == PoolSpec => []NothingFails
<1>1. CalmOK => NothingFails
  BY DEF NothingFails, CalmOK, Calm, EnoughTurns
<1> QED
  BY <1>1, PoolInvariants, PTL

(* ... and a thread is not given a second turn before every other one was  *)
(* given or is being given one.                                            *)
THEOREM FirstComeFirstServedCorrect == PoolSpec => []FirstComeFirstServed
<1>1. Control /\ TurnsApart /\ CalmOK => FirstComeFirstServed
  <2> SUFFICES ASSUME Control, TurnsApart, Calm, at[Main] = "idle",
                      NEW i \in 1..(pushed - 1), names[i] = names[pushed],
                      NEW v \in Workers \ {names[pushed]},
                      \A t \in Threads : ~Holds(t, v)
               PROVE  \E k \in i..pushed : names[k] = v
    BY DEF FirstComeFirstServed, CalmOK
  <2> DEFINE n == Len(deque)
  <2>1. n \in Nat /\ pushed \in Nat
    BY TurnTypes DEF Control, TypeOK
  <2>2. \A j \in 1..n : deque[j] = pushed - n + j /\ deque[j] \in 1..pushed
    BY DEF Calm, Control, PoolTypeOK
  <2>3. PICK j \in 1..n : names[deque[j]] = v
    BY DEF Calm, HasTurn, TurnAt, Creating
  <2> HIDE DEF n
  <2>4. CASE deque[j] >= i
    BY <2>1, <2>2, <2>3, <2>4
  <2>5. CASE deque[j] < i
    <3> DEFINE a == i - pushed + n
    <3>1. a \in 1..n /\ n \in 1..n /\ a # n
      BY <2>1, <2>2, <2>5
    <3>2. deque[a] = i /\ deque[n] = pushed
      BY <2>1, <2>2, <3>1
    <3>3. TurnAt(a) = TurnAt(n)
      BY <3>2 DEF TurnAt
    <3> QED
      BY <3>1, <3>3 DEF TurnsApart, n
  <2> QED
    BY <2>1, <2>2, <2>4, <2>5
<1> QED
  BY <1>1, PoolInvariants, PTL
=============================================================================
