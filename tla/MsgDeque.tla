------------------------------ MODULE MsgDeque ------------------------------
(***************************************************************************)
(* CMsgDeque (base/src/MsgDeque.h): the queue every other part of lynetx   *)
(* passes work through.  A std::deque is guarded by a mutex and paired     *)
(* with a semaphore, m_sNotEmpty, that is meant to hold one token for each *)
(* element.  A consumer first takes a token and only then, in a second     *)
(* step, locks the mutex and removes an element: all the subtle behaviour  *)
(* lives between those two steps.                                          *)
(*                                                                         *)
(* The module is an object: Begin(t, o) is the entry of a call, Step(t)    *)
(* runs it, and ret[t] is what it returned.  Spec is its most general      *)
(* client: every thread t calls the operations in Calls[t], in any order   *)
(* and interleaving.                                                       *)
(*                                                                         *)
(* m_sNotFull is left out: the code posts it and never waits on it         *)
(* (WaitforNotFull waits on m_sNotEmpty), so nothing depends on its value. *)
(* Also left out is SafeClose: both its flags are set by the constructor   *)
(* and its test asks for both to be clear, so it never destroys anything.  *)
(***************************************************************************)
EXTENDS Integers, Sequences, FiniteSets

CONSTANTS
  Threads,    \* the threads that share the deque
  Pollers,    \* those that pass a finite timeout instead of -1
  Calls,      \* Calls[t]: the operations thread t calls
  MaxSize,    \* m_maxSize
  MaxPush,    \* bound: no push begins once so many elements were pushed
  MaxTokens,  \* bound: no abort begins while the semaphore holds so many
  NoThread    \* "the mutex is free"

Waiting == {"PopFront", "PopBack", "Front", "Back", "PushFront"}
Ops     == Waiting \cup {"PushBack", "Insert", "Swap", "AbortWait", "Clear"}

ASSUME DequeAssumption ==
  /\ IsFiniteSet(Threads)
  /\ NoThread \notin Threads
  /\ Pollers \subseteq Threads
  /\ Calls \in [Threads -> SUBSET Ops]
  /\ MaxSize \in Nat
  /\ MaxPush \in Nat
  /\ MaxTokens \in Nat

VARIABLES
  deque,      \* m_deque; its elements are numbered in the order of arrival
  notEmpty,   \* the value of the semaphore m_sNotEmpty
  aborted,    \* m_bAbort
  mutex,      \* the owner of m_mutex
  pc,         \* pc[t]: where thread t is in its call
  op,         \* op[t]: the call thread t is in
  ret,        \* ret[t]: what its last call returned: an element, or 0 for false
  pushed      \* the number of elements pushed so far

dequeVars == <<deque, notEmpty, aborted, mutex, pc, op, ret, pushed>>

(***************************************************************************)
(* DrainFront and DrainBack are what PopFront and PopBack turn into when   *)
(* they find the deque aborted: no wait, and no token is taken.            *)
(***************************************************************************)
Drains == {"DrainFront", "DrainBack"}

Init ==
  /\ deque = <<>>
  /\ notEmpty = 0
  /\ aborted = FALSE
  /\ mutex = NoThread
  /\ pc = [t \in Threads |-> "idle"]
  /\ op = [t \in Threads |-> "PushBack"]
  /\ ret = [t \in Threads |-> 0]
  /\ pushed = 0

-----------------------------------------------------------------------------
(* The control every call shares.                                          *)

Goto(t, label) == pc' = [pc EXCEPT ![t] = label]

Return(t, value) == Goto(t, "idle") /\ ret' = [ret EXCEPT ![t] = value]

(* Where a call goes after its first, unlocked, test of m_bAbort.          *)
FirstStop(o) ==
  CASE o \in {"PushBack", "Insert"} -> IF aborted THEN "idle" ELSE "lock"
    [] o = "PushFront"              -> IF aborted THEN "idle" ELSE "check"
    [] o \in {"PopFront", "PopBack"} -> IF aborted THEN "lock" ELSE "check"
    [] o \in {"Front", "Back"}      -> "check"
    [] OTHER                        -> "lock"

Entered(o) ==
  CASE aborted /\ o = "PopFront" -> "DrainFront"
    [] aborted /\ o = "PopBack"  -> "DrainBack"
    [] OTHER                     -> o

Begin(t, o) ==
  /\ pc[t] = "idle"
  /\ o \in {"PushBack", "PushFront", "Insert"} => pushed < MaxPush
  /\ o \in {"AbortWait", "Clear"} => notEmpty < MaxTokens
  /\ Goto(t, FirstStop(o))
  /\ op' = [op EXCEPT ![t] = Entered(o)]
  /\ ret' = [ret EXCEPT ![t] = 0]
  /\ UNCHANGED <<deque, notEmpty, aborted, mutex, pushed>>

(* WaitforNotEmpty and WaitforNotFull: the loop's test of m_bAbort ...     *)
WaitCheck(t) ==
  /\ pc[t] = "check"
  /\ Goto(t, IF aborted THEN "idle" ELSE "sem")
  /\ UNCHANGED <<deque, notEmpty, aborted, mutex, op, ret, pushed>>

(* ... sem_wait or sem_timedwait on m_sNotEmpty takes a token ...          *)
SemTake(t) ==
  /\ pc[t] = "sem"
  /\ notEmpty > 0
  /\ notEmpty' = notEmpty - 1
  /\ Goto(t, "woke")
  /\ UNCHANGED <<deque, aborted, mutex, op, ret, pushed>>

(* Mutant: a wait that timed out starts over with its full timeout.        *)
SemTimeoutRetries(t) ==
  /\ pc[t] = "sem"
  /\ t \in Pollers
  /\ notEmpty = 0
  /\ Goto(t, "check")
  /\ UNCHANGED <<deque, notEmpty, aborted, mutex, op, ret, pushed>>

(* ... or times out, which needs a finite timeout and no token ...         *)
SemTimeout(t) ==
  /\ pc[t] = "sem"
  /\ t \in Pollers
  /\ notEmpty = 0
  /\ Goto(t, "idle")
  /\ UNCHANGED <<deque, notEmpty, aborted, mutex, op, ret, pushed>>

(* ... or is interrupted by a signal (EINTR) and goes round the loop;      *)
SemInterrupted(t) ==
  /\ pc[t] = "sem"
  /\ notEmpty = 0
  /\ Goto(t, "check")
  /\ UNCHANGED <<deque, notEmpty, aborted, mutex, op, ret, pushed>>

(* a token taken after an abort is a wake-up and not an element.           *)
Woke(t) ==
  /\ pc[t] = "woke"
  /\ Goto(t, IF aborted THEN "idle" ELSE "lock")
  /\ UNCHANGED <<deque, notEmpty, aborted, mutex, op, ret, pushed>>

Lock(t) ==
  /\ pc[t] = "lock"
  /\ mutex = NoThread
  /\ mutex' = t
  /\ Goto(t, "body")
  /\ UNCHANGED <<deque, notEmpty, aborted, op, ret, pushed>>

-----------------------------------------------------------------------------
(* The critical sections.  Each runs with the mutex held and releases it.  *)

Inside(t, o) == pc[t] = "body" /\ mutex = t /\ op[t] = o

(* Mutant: a return that skips the guard's destructor.                     *)
LeaveLocked(t, value) == mutex' = mutex /\ Return(t, value)

Leave(t, value) == mutex' = NoThread /\ Return(t, value)

(* Mutant: > for >=.                                                       *)
isFullLate(offset) == Len(deque) + offset > MaxSize

isFull(offset) == Len(deque) + offset >= MaxSize

Push(t, contents, posted, count) ==
  /\ deque' = contents
  /\ notEmpty' = notEmpty + posted
  /\ pushed' = pushed + count
  /\ Leave(t, pushed + 1)
  /\ UNCHANGED <<aborted, op>>

(* Mutants: a push that posts only when the deque was empty; a push at the *)
(* wrong end.                                                              *)
PushBackSignalsOnce(t) ==
  /\ Inside(t, "PushBack")
  /\ ~isFull(0)
  /\ Push(t, Append(deque, pushed + 1), IF deque = <<>> THEN 1 ELSE 0, 1)
PushBackInFront(t) ==
  /\ Inside(t, "PushBack")
  /\ ~isFull(0)
  /\ Push(t, <<pushed + 1>> \o deque, 1, 1)

PushBack(t) ==
  /\ Inside(t, "PushBack")
  /\ ~isFull(0)
  /\ Push(t, Append(deque, pushed + 1), 1, 1)

PushFront(t) ==
  /\ Inside(t, "PushFront")
  /\ ~isFull(0)
  /\ Push(t, <<pushed + 1>> \o deque, 1, 1)

(* A range of two elements goes in anywhere, and one token is posted.      *)
Insert(t) ==
  /\ Inside(t, "Insert")
  /\ ~isFull(2)
  /\ \E i \in 0..Len(deque) :
       Push(t, SubSeq(deque, 1, i) \o <<pushed + 1, pushed + 2>>
                 \o SubSeq(deque, i + 1, Len(deque)), 1, 2)

(* Mutant: a refused push posts its token all the same.                    *)
RefusedPosts(t) ==
  /\ \/ Inside(t, "PushBack") /\ isFull(0)
     \/ Inside(t, "PushFront") /\ isFull(0)
     \/ Inside(t, "Insert") /\ isFull(2)
  /\ notEmpty' = notEmpty + 1
  /\ Leave(t, 0)
  /\ UNCHANGED <<deque, aborted, op, pushed>>

(* A push refused for want of room; a PushFront has already lost its token.*)
Refused(t) ==
  /\ \/ Inside(t, "PushBack") /\ isFull(0)
     \/ Inside(t, "PushFront") /\ isFull(0)
     \/ Inside(t, "Insert") /\ isFull(2)
  /\ Leave(t, 0)
  /\ UNCHANGED <<deque, notEmpty, aborted, op, pushed>>

PopFront(t) ==
  /\ Inside(t, "PopFront") \/ Inside(t, "DrainFront")
  /\ deque # <<>>
  /\ deque' = Tail(deque)
  /\ Leave(t, Head(deque))
  /\ UNCHANGED <<notEmpty, aborted, op, pushed>>

PopBack(t) ==
  /\ Inside(t, "PopBack") \/ Inside(t, "DrainBack")
  /\ deque # <<>>
  /\ deque' = SubSeq(deque, 1, Len(deque) - 1)
  /\ Leave(t, deque[Len(deque)])
  /\ UNCHANGED <<notEmpty, aborted, op, pushed>>

(* Front and Back look and do not remove: the token they took is gone.     *)
Peek(t) ==
  /\ Inside(t, "Front") \/ Inside(t, "Back")
  /\ deque # <<>>
  /\ Leave(t, IF op[t] = "Front" THEN Head(deque) ELSE deque[Len(deque)])
  /\ UNCHANGED <<deque, notEmpty, aborted, op, pushed>>

(* Nothing there.  PopFront, Front and the drains test for it; PopBack and *)
(* Back do not, and reach this step only by undefined behaviour.           *)
FoundEmpty(t) ==
  /\ \E o \in (Waiting \ {"PushFront"}) \cup Drains : Inside(t, o)
  /\ deque = <<>>
  /\ Leave(t, 0)
  /\ UNCHANGED <<deque, notEmpty, aborted, op, pushed>>

(* Swap with a fresh deque, its only use: the contents go, the tokens stay.*)
Swap(t) ==
  /\ Inside(t, "Swap")
  /\ deque' = <<>>
  /\ Leave(t, 0)
  /\ UNCHANGED <<notEmpty, aborted, op, pushed>>

(* Mutant: an abort that forgets to wake the waiter.                       *)
AbortWaitSilently(t) ==
  /\ Inside(t, "AbortWait") \/ Inside(t, "Clear")
  /\ aborted' = TRUE
  /\ mutex' = NoThread
  /\ Goto(t, IF op[t] = "Clear" THEN "clear" ELSE "idle")
  /\ UNCHANGED <<deque, notEmpty, op, ret, pushed>>

(* AbortWait, also the first half of Clear, posts a single token.          *)
AbortWait(t) ==
  /\ Inside(t, "AbortWait") \/ Inside(t, "Clear")
  /\ aborted' = TRUE
  /\ notEmpty' = notEmpty + 1
  /\ mutex' = NoThread
  /\ Goto(t, IF op[t] = "Clear" THEN "clear" ELSE "idle")
  /\ UNCHANGED <<deque, op, ret, pushed>>

(* The second half of Clear empties the deque without taking the mutex.    *)
(* Overlapping a critical section it is a data race, whose outcomes here   *)
(* are that it comes first, comes last, or is lost.                        *)
ClearUnlocked(t) ==
  /\ pc[t] = "clear"
  /\ deque' = <<>> \/ (mutex # NoThread /\ deque' = deque)
  /\ Goto(t, "idle")
  /\ UNCHANGED <<notEmpty, aborted, mutex, op, ret, pushed>>

-----------------------------------------------------------------------------
Body(t) ==
  \/ PushBack(t) \/ PushFront(t) \/ Insert(t) \/ Refused(t)
  \/ PopFront(t) \/ PopBack(t) \/ Peek(t) \/ FoundEmpty(t)
  \/ Swap(t) \/ AbortWait(t)

Step(t) ==
  \/ WaitCheck(t) \/ SemTake(t) \/ SemTimeout(t) \/ SemInterrupted(t)
  \/ Woke(t) \/ Lock(t) \/ Body(t) \/ ClearUnlocked(t)

Next == \E t \in Threads : Step(t) \/ \E o \in Calls[t] : Begin(t, o)

Spec == Init /\ [][Next]_dequeVars

(***************************************************************************)
(* Fairness: the kernel runs every runnable thread, and hands the mutex    *)
(* and a semaphore token to a thread that keeps asking for them.  Nothing  *)
(* makes a client start a call.  Signals do not outlast a timeout, which   *)
(* is why SemTimeout may be assumed strongly fair.                         *)
(***************************************************************************)
Fairness ==
  \A t \in Threads :
    /\ WF_dequeVars(WaitCheck(t) \/ Woke(t) \/ Body(t) \/ ClearUnlocked(t))
    /\ SF_dequeVars(Lock(t))
    /\ SF_dequeVars(SemTake(t))
    /\ t \in Pollers => SF_dequeVars(SemTimeout(t))

FairSpec == Spec /\ Fairness
=============================================================================
