--------------------------- MODULE MsgDequeProofs ---------------------------
(***************************************************************************)
(* Theorems about CMsgDeque, for any number of threads, any bound on the   *)
(* deque and any calls, under the use the statement names.                 *)
(***************************************************************************)
EXTENDS MsgDequeProps, TLAPS, SequenceTheorems, FiniteSetTheorems

(* What each sequence expression in a critical section builds.             *)
LEMMA SliceTypes ==
  ASSUME NEW s \in Seq(Nat), NEW m \in Nat \ {0}, NEW n \in Nat,
         m <= n + 1, n <= Len(s)
  PROVE  SubSeq(s, m, n) \in Seq(Nat) /\ Len(SubSeq(s, m, n)) = n - m + 1
<1>1. Len(s) \in Nat
  BY LenProperties
<1>2. \A i \in m..n : s[i] \in Nat
  BY <1>1, ElementOfSeq
<1>3. m \in Int /\ n \in Int
  OBVIOUS
<1>4. /\ SubSeq(s, m, n) \in Seq(Nat)
      /\ Len(SubSeq(s, m, n)) = IF m <= n THEN n - m + 1 ELSE 0
  BY <1>2, <1>3, SubSeqProperties
<1> QED
  BY <1>4

LEMMA PopTypes ==
  ASSUME NEW s \in Seq(Nat), s # <<>>
  PROVE  /\ Tail(s) \in Seq(Nat)
         /\ Len(Tail(s)) = Len(s) - 1
         /\ Head(s) \in Nat
         /\ SubSeq(s, 1, Len(s) - 1) \in Seq(Nat)
         /\ Len(SubSeq(s, 1, Len(s) - 1)) = Len(s) - 1
         /\ s[Len(s)] \in Nat
         /\ Len(s) \in Nat \ {0}
<1>1. Len(s) \in Nat \ {0}
  BY EmptySeq, LenProperties
<1>2. Tail(s) \in Seq(Nat) /\ Len(Tail(s)) = Len(s) - 1 /\ Head(s) \in Nat
  BY HeadTailProperties
<1>3. s[Len(s)] \in Nat
  BY <1>1, ElementOfSeq
<1>4. /\ SubSeq(s, 1, Len(s) - 1) \in Seq(Nat)
      /\ Len(SubSeq(s, 1, Len(s) - 1)) = Len(s) - 1
  <2> DEFINE n == Len(s) - 1
  <2>1. n \in Nat /\ 1 <= n + 1 /\ n <= Len(s) /\ n - 1 + 1 = n
    BY <1>1
  <2> HIDE DEF n
  <2>2. SubSeq(s, 1, n) \in Seq(Nat) /\ Len(SubSeq(s, 1, n)) = n - 1 + 1
    BY <2>1, SliceTypes
  <2> QED
    BY <2>1, <2>2 DEF n
<1> QED
  BY <1>1, <1>2, <1>3, <1>4

LEMMA PushTypes ==
  ASSUME NEW s \in Seq(Nat), NEW e \in Nat
  PROVE  /\ Append(s, e) \in Seq(Nat) /\ Len(Append(s, e)) = Len(s) + 1
         /\ <<e>> \o s \in Seq(Nat)   /\ Len(<<e>> \o s) = Len(s) + 1
         /\ Len(s) \in Nat
<1>1. <<e>> \in Seq(Nat) /\ Len(<<e>>) = 1
  OBVIOUS
<1> QED
  BY <1>1, AppendProperties, ConcatProperties, LenProperties

LEMMA SpliceTypes ==
  ASSUME NEW front \in Seq(Nat), NEW mid \in Seq(Nat), NEW back \in Seq(Nat)
  PROVE  /\ front \o mid \o back \in Seq(Nat)
         /\ Len(front \o mid \o back) = Len(front) + Len(mid) + Len(back)
<1>1. front \o mid \in Seq(Nat) /\ Len(front \o mid) = Len(front) + Len(mid)
  BY ConcatProperties
<1> DEFINE head == front \o mid
<1> HIDE DEF head
<1>2. head \o back \in Seq(Nat) /\ Len(head \o back) = Len(head) + Len(back)
  BY <1>1, ConcatProperties DEF head
<1> QED
  BY <1>1, <1>2, Zenon DEF head

LEMMA InsertTypes ==
  ASSUME NEW s \in Seq(Nat), NEW a \in Nat, NEW b \in Nat,
         NEW i \in 0..Len(s)
  PROVE  LET r == SubSeq(s, 1, i) \o <<a, b>> \o SubSeq(s, i + 1, Len(s))
         IN  r \in Seq(Nat) /\ Len(r) = Len(s) + 2
<1> DEFINE front == SubSeq(s, 1, i)
           mid   == <<a, b>>
           back  == SubSeq(s, i + 1, Len(s))
           r     == front \o mid \o back
<1>1. Len(s) \in Nat
  BY LenProperties
<1>2. front \in Seq(Nat) /\ Len(front) = i
  BY <1>1, SliceTypes
<1>3. back \in Seq(Nat) /\ Len(back) = Len(s) - i
  BY <1>1, SliceTypes
<1>4. mid \in Seq(Nat) /\ Len(mid) = 2
  OBVIOUS
<1> HIDE DEF front, mid, back
<1>5. r \in Seq(Nat) /\ Len(r) = Len(front) + Len(mid) + Len(back)
  BY <1>2, <1>3, <1>4, SpliceTypes
<1> HIDE DEF r
<1>6. r \in Seq(Nat) /\ Len(r) = Len(s) + 2
  BY <1>1, <1>2, <1>3, <1>4, <1>5
<1> QED
  BY <1>6, Zenon DEF front, mid, back, r

LEMMA InsertGrows ==
  ASSUME TypeOK, NEW t \in Threads, Insert(t)
  PROVE  Len(deque') = Len(deque) + 2
<1>1. PICK i \in 0..Len(deque) :
        deque' = SubSeq(deque, 1, i) \o <<pushed + 1, pushed + 2>>
                   \o SubSeq(deque, i + 1, Len(deque))
  BY DEF Insert, Push
<1>2. pushed + 1 \in Nat /\ pushed + 2 \in Nat /\ deque \in Seq(Nat)
  BY DEF TypeOK
<1> DEFINE r == SubSeq(deque, 1, i) \o <<pushed + 1, pushed + 2>>
                  \o SubSeq(deque, i + 1, Len(deque))
<1>3. Len(r) = Len(deque) + 2
  BY <1>2, InsertTypes, Zenon
<1> HIDE DEF r
<1> QED
  BY <1>1, <1>3, Zenon DEF r

(* A set with no two members has one, or none.                             *)
LEMMA AtMostOne ==
  ASSUME NEW S, \A x, y \in S : x = y
  PROVE  /\ IsFiniteSet(S) /\ Cardinality(S) \in {0, 1}
         /\ Cardinality(S) = 0 <=> S = {}
<1>1. CASE S = {}
  BY <1>1, FS_EmptySet
<1>2. CASE S # {}
  <2>1. PICK x : S = {x}
    BY <1>2
  <2>2. IsFiniteSet({x}) /\ Cardinality({x}) = 1
    BY FS_Singleton
  <2> QED
    BY <1>2, <2>1, <2>2
<1> QED
  BY <1>1, <1>2

-----------------------------------------------------------------------------
(* Type correctness.                                                       *)

LEMMA TypeInit == Init => TypeOK
<1> SUFFICES ASSUME Init PROVE TypeOK
  OBVIOUS
<1>1. deque \in Seq(Nat)
  BY DEF Init
<1>2. pc \in [Threads -> Labels] /\ op \in [Threads -> Ops \cup Drains]
  BY DEF Init, Labels, Ops, Waiting
<1>3. \A t \in Threads : pc[t] = "body" <=> mutex = t
  BY DequeAssumption DEF Init
<1> QED
  BY <1>1, <1>2, <1>3 DEF Init, TypeOK

(* A step inside a critical section leaves the deque and the counters      *)
(* well typed ...                                                          *)
LEMMA BodyData ==
  ASSUME TypeOK, NEW t \in Threads, Body(t)
  PROVE  deque' \in Seq(Nat) /\ notEmpty' \in Nat /\ pushed' \in Nat
         /\ ret' \in [Threads -> Nat] /\ aborted' \in BOOLEAN
<1> USE DEF TypeOK, Return
<1>1. CASE PushBack(t)
  BY <1>1, PushTypes DEF PushBack, Push, Leave
<1>2. CASE PushFront(t)
  BY <1>2, PushTypes DEF PushFront, Push, Leave
<1>3. CASE Insert(t)
  BY <1>3, InsertTypes DEF Insert, Push, Leave
<1>4. CASE PopFront(t)
  BY <1>4, PopTypes DEF PopFront, Leave
<1>5. CASE PopBack(t)
  BY <1>5, PopTypes DEF PopBack, Leave
<1>6. CASE Peek(t)
  BY <1>6, PopTypes DEF Peek, Leave
<1>7. CASE Refused(t) \/ FoundEmpty(t)
  BY <1>7 DEF Refused, FoundEmpty, Leave
<1>8. CASE Swap(t)
  BY <1>8 DEF Swap, Leave
<1>9. CASE AbortWait(t)
  BY <1>9 DEF AbortWait
<1> QED
  BY <1>1, <1>2, <1>3, <1>4, <1>5, <1>6, <1>7, <1>8, <1>9 DEF Body

(* ... and moves the thread out of it, giving the mutex back.              *)
LEMMA BodyControl ==
  ASSUME TypeOK, NEW t \in Threads, Body(t)
  PROVE  /\ pc[t] = "body" /\ mutex = t /\ mutex' = NoThread
         /\ op' = op
         /\ \/ pc' = [pc EXCEPT ![t] = "idle"]
            \/ op[t] = "Clear" /\ aborted' /\ pc' = [pc EXCEPT ![t] = "clear"]
  BY DEF Body, PushBack, PushFront, Insert, Push, PopFront, PopBack, Peek,
         Refused, FoundEmpty, Swap, AbortWait, Leave, Return, Goto, Inside

LEMMA TypeStep ==
  ASSUME TypeOK, NEW t \in Threads,
         Step(t) \/ \E o \in Calls[t] : Begin(t, o)
  PROVE  TypeOK'
<1> USE DequeAssumption DEF TypeOK, Goto, Labels
<1>1. ASSUME NEW o \in Calls[t], Begin(t, o) PROVE TypeOK'
  <2>1. FirstStop(o) \in {"idle", "lock", "check"}
    BY DEF FirstStop
  <2>2. Entered(o) \in Ops \cup Drains
    BY DEF Entered, Drains
  <2> QED
    BY <1>1, <2>1, <2>2 DEF Begin
<1>2. CASE WaitCheck(t) \/ SemInterrupted(t) \/ SemTimeout(t) \/ Woke(t)
  BY <1>2 DEF WaitCheck, SemInterrupted, SemTimeout, Woke
<1>3. CASE SemTake(t)
  BY <1>3 DEF SemTake
<1>4. CASE Lock(t)
  BY <1>4 DEF Lock
<1>5. CASE Body(t)
  BY <1>5, BodyData, BodyControl
<1>6. CASE ClearUnlocked(t)
  <2>1. deque' = <<>> \/ deque' = deque
    BY <1>6 DEF ClearUnlocked
  <2>2. <<>> \in Seq(Nat) /\ deque \in Seq(Nat)
    OBVIOUS
  <2>3. deque' \in Seq(Nat)
    BY <2>1, <2>2, Zenon
  <2> QED
    BY <1>6, <2>3 DEF ClearUnlocked
<1> QED
  BY <1>1, <1>2, <1>3, <1>4, <1>5, <1>6 DEF Step

(* Every count stays a natural number and m_mutex is owned by exactly the  *)
(* thread inside a critical section, in every use of the deque.            *)
THEOREM TypeCorrect == Spec => []TypeOK
<1>1. TypeOK /\ [Next]_dequeVars => TypeOK'
  <2>1. CASE Next
    BY <2>1, TypeStep DEF Next
  <2>2. CASE UNCHANGED dequeVars
    BY <2>2 DEF dequeVars, TypeOK
  <2> QED
    BY <2>1, <2>2
<1> QED
  BY <1>1, TypeInit, PTL DEF Spec

-----------------------------------------------------------------------------
(* What a thread's place in its call says of the call, and of the abort.   *)
DrainOf(o) == IF o = "DrainFront" THEN "PopFront" ELSE "PopBack"

CallOK ==
  \A t \in Threads :
    /\ pc[t] # "idle" => \/ op[t] \in Calls[t]
                         \/ op[t] \in Drains /\ DrainOf(op[t]) \in Calls[t]
    /\ pc[t] # "idle" /\ op[t] \in Drains => aborted
    /\ pc[t] \in {"check", "sem", "woke"} => op[t] \in Waiting
    /\ pc[t] = "clear" => aborted /\ op[t] = "Clear"

LEMMA CallInit == Init => CallOK
  BY DEF Init, CallOK

LEMMA AbortedStays ==
  ASSUME NEW t \in Threads, Body(t), aborted
  PROVE  aborted'
  BY DEF Body, PushBack, PushFront, Insert, Push, PopFront, PopBack,
         Peek, Refused, FoundEmpty, Swap, AbortWait

LEMMA CallStep ==
  ASSUME TypeOK, CallOK, NEW t \in Threads,
         Step(t) \/ \E o \in Calls[t] : Begin(t, o)
  PROVE  CallOK'
<1> USE DequeAssumption DEF TypeOK, CallOK, Goto
<1>1. ASSUME NEW o \in Calls[t], Begin(t, o) PROVE CallOK'
  <2>1. /\ Entered(o) = o \/ (Entered(o) \in Drains /\ DrainOf(Entered(o)) = o)
        /\ Entered(o) \in Drains => aborted
        /\ FirstStop(o) \in {"idle", "lock", "check"}
        /\ FirstStop(o) = "check" => Entered(o) \in Waiting
    BY DEF FirstStop, Entered, Drains, Ops, Waiting, DrainOf
  <2> QED
    BY <1>1, <2>1 DEF Begin
<1>2. CASE WaitCheck(t) \/ SemInterrupted(t) \/ SemTimeout(t) \/ Woke(t)
  BY <1>2 DEF WaitCheck, SemInterrupted, SemTimeout, Woke
<1>3. CASE SemTake(t)
  BY <1>3 DEF SemTake
<1>4. CASE Lock(t)
  BY <1>4 DEF Lock
<1>5. CASE Body(t)
  BY <1>5, AbortedStays, BodyControl
<1>6. CASE ClearUnlocked(t)
  BY <1>6 DEF ClearUnlocked
<1> QED
  BY <1>1, <1>2, <1>3, <1>4, <1>5, <1>6 DEF Step

-----------------------------------------------------------------------------
(* The tokens.                                                             *)

(* The elements that have no token; negative if tokens outnumber them.     *)
Surplus == Len(deque) - notEmpty - Cardinality(Holders)

LEMMA HoldersFinite ==
  ASSUME TypeOK
  PROVE  IsFiniteSet(Holders) /\ Cardinality(Holders) \in Nat
<1>1. Holders \subseteq Threads
  BY DEF Holders
<1> QED
  BY <1>1, DequeAssumption, FS_Subset, FS_CardinalityType DEF DequeAssumption

(* A thread that leaves its critical section hands its token over, if it   *)
(* holds one.                                                              *)
LEMMA HoldersAfterBody ==
  ASSUME TypeOK, NEW t \in Threads, Body(t), ~aborted'
  PROVE  /\ Holders' = Holders \ {t}
         /\ Cardinality(Holders') = Cardinality(Holders)
                                    - (IF op[t] \in Waiting THEN 1 ELSE 0)
<1>1. /\ pc[t] = "body" /\ op' = op /\ pc' = [pc EXCEPT ![t] = "idle"]
  BY BodyControl
<1>2. Holders' = Holders \ {t}
  BY <1>1 DEF Holders, TypeOK
<1>3. t \in Holders <=> op[t] \in Waiting
  BY <1>1 DEF Holders
<1>4. Cardinality(Holders \ {t}) = IF t \in Holders THEN Cardinality(Holders) - 1
                                  ELSE Cardinality(Holders)
  BY HoldersFinite, FS_RemoveElement
<1> QED
  BY <1>2, <1>3, <1>4, HoldersFinite

(* No step before the abort gives a token to an element that is not there; *)
(* the calls of a task queue keep the count exact.  A deque that may be    *)
(* swapped behaves so as long as nobody is in Swap.                        *)
QueueOps == {"PushBack", "PopFront", "AbortWait", "Clear"}

LEMMA SurplusStep ==
  ASSUME TypeOK, CallOK, Surplus >= 0, NEW t \in Threads, ~aborted',
         pc[t] # "idle" => op[t] # "Swap",
         Step(t) \/ \E o \in Calls[t] : Begin(t, o)
  PROVE  /\ Surplus' \in {Surplus, Surplus + 1}
         /\ (pc[t] # "idle" => op[t] \in QueueOps) => Surplus' = Surplus
<1> DEFINE Same == deque' = deque /\ notEmpty' = notEmpty /\ Holders' = Holders
<1>1. Same => Surplus' = Surplus
  BY DEF Surplus
<1>2. Surplus \in Int
  BY HoldersFinite, LenProperties DEF Surplus, TypeOK
<1>3. ASSUME NEW o \in Calls[t], Begin(t, o) PROVE Same
  <2>1. /\ FirstStop(o) = "lock" => Entered(o) \notin Waiting
        /\ FirstStop(o) \in {"idle", "lock", "check"}
    BY <1>3, DequeAssumption DEF FirstStop, Entered, Waiting, Ops, Begin, DequeAssumption
  <2> QED
    BY <1>3, <2>1 DEF Begin, Goto, Holders, TypeOK
<1>4. CASE WaitCheck(t) \/ SemInterrupted(t) \/ SemTimeout(t)
  <2> QED
    BY <1>1, <1>2, <1>4
       DEF WaitCheck, SemInterrupted, SemTimeout, Goto, Holders, TypeOK
<1>5. CASE Woke(t) \/ Lock(t)
  <2>1. Same
    BY <1>5 DEF Woke, Lock, Goto, Holders, TypeOK
  <2> QED
    BY <1>1, <1>2, <2>1
<1>6. CASE SemTake(t)
  <2>1. Holders' = Holders \cup {t} /\ t \notin Holders
    BY <1>6 DEF SemTake, Goto, Holders, TypeOK, CallOK
  <2>2. Cardinality(Holders') = Cardinality(Holders) + 1
    BY <2>1, HoldersFinite, FS_AddElement
  <2> QED
    BY <1>2, <1>6, <2>2, HoldersFinite, LenProperties
       DEF SemTake, Surplus, TypeOK
<1>7. CASE Body(t)
  <2> DEFINE n == IF op[t] \in Waiting THEN 1 ELSE 0
  <2>1. Cardinality(Holders') = Cardinality(Holders) - n
    BY <1>7, HoldersAfterBody
  <2>2. /\ op[t] \in Calls[t] /\ op[t] \notin Drains /\ op[t] # "Swap"
        /\ pc[t] = "body"
    BY <1>7, BodyControl, AbortedStays DEF CallOK
  <2>3. (pc[t] # "idle" => op[t] \in QueueOps) =>
          op[t] \in {"PushBack", "PopFront", "AbortWait", "Clear"}
    BY <2>2 DEF QueueOps
  <2>4. n \in {0, 1} /\ (op[t] \in Waiting => n = 1) /\ (op[t] \notin Waiting => n = 0)
    OBVIOUS
  <2>5. Len(deque) \in Nat /\ notEmpty \in Nat
    BY LenProperties DEF TypeOK
  <2> HIDE DEF n
  <2> DEFINE Delta(k) == Len(deque') - notEmpty' = Len(deque) - notEmpty + k - n
  <2>6. ASSUME NEW k \in {0, 1}, Len(deque') \in Nat, notEmpty' \in Nat, Delta(k)
        PROVE  Surplus' = Surplus + k
    BY <2>1, <2>4, <2>5, <2>6, HoldersFinite DEF Surplus
  <2>7. Len(deque') \in Nat /\ notEmpty' \in Nat
    BY <1>7, BodyData, LenProperties
  <2>8. CASE PushBack(t)
    <3>1. Delta(0)
      BY <2>4, <2>5, <2>8, PushTypes DEF PushBack, Push, Inside, Waiting, TypeOK
    <3> QED
      BY <1>2, <2>6, <2>7, <3>1
  <2>9. CASE PushFront(t) \/ Insert(t) \/ Peek(t)
    <3>1. op[t] \in {"PushFront", "Insert", "Front", "Back"}
      BY <2>9 DEF PushFront, Insert, Peek, Inside
    <3>2. ASSUME PushFront(t) PROVE Delta(1)
      BY <2>4, <2>5, <3>2, PushTypes DEF PushFront, Push, Inside, Waiting, TypeOK
    <3>3. ASSUME Insert(t) PROVE Delta(1)
      <4>1. op[t] = "Insert" /\ notEmpty' = notEmpty + 1
        BY <3>3 DEF Insert, Push, Inside
      <4>4. Len(deque') = Len(deque) + 2
        BY <3>3, InsertGrows
      <4> QED
        BY <2>4, <2>5, <4>1, <4>4 DEF Waiting
    <3>4. ASSUME Peek(t) PROVE Delta(1)
      BY <2>4, <2>5, <3>4 DEF Peek, Inside, Waiting
    <3>5. Surplus' = Surplus + 1
      BY <2>6, <2>7, <2>9, <3>2, <3>3, <3>4
    <3> QED
      BY <2>3, <3>1, <3>5
  <2>10. CASE Refused(t)
    BY <1>2, <2>3, <2>4, <2>5, <2>6, <2>7, <2>10 DEF Refused, Inside, Waiting
  <2>11. CASE PopFront(t) \/ PopBack(t)
    <3>1. op[t] \in Waiting /\ deque # <<>> /\ notEmpty' = notEmpty
      BY <2>2, <2>11 DEF PopFront, PopBack, Inside, Waiting, Drains
    <3>2. Len(deque') = Len(deque) - 1
      BY <2>11, PopTypes DEF PopFront, PopBack, TypeOK
    <3> QED
      BY <1>2, <2>4, <2>5, <2>6, <2>7, <3>1, <3>2
  <2>12. CASE FoundEmpty(t)
    <3>1. deque = <<>> /\ op[t] \in Waiting
      BY <2>2, <2>12 DEF FoundEmpty, Inside
    <3>2. t \in Holders
      BY <2>2, <3>1 DEF Holders
    <3>3. Cardinality(Holders) # 0
      BY <3>2, HoldersFinite, FS_EmptySet
    <3> QED
      BY <2>5, <3>1, <3>3, HoldersFinite, EmptySeq DEF Surplus
  <2>13. CASE Swap(t) \/ AbortWait(t)
    BY <2>2, <2>13 DEF Swap, AbortWait, Inside
  <2> QED
    BY <1>7, <2>8, <2>9, <2>10, <2>11, <2>12, <2>13 DEF Body
<1>8. CASE ClearUnlocked(t)
  BY <1>8 DEF ClearUnlocked, CallOK
<1> QED
  BY <1>1, <1>2, <1>3, <1>4, <1>5, <1>6, <1>7, <1>8 DEF Step

LEMMA StutterStep ==
  ASSUME UNCHANGED dequeVars
  PROVE  /\ TypeOK => TypeOK'
         /\ CallOK => CallOK'
         /\ Surplus' = Surplus
         /\ aborted' = aborted
  BY DEF dequeVars, TypeOK, CallOK, Surplus, Holders

LEMMA ControlCorrect == Spec => [](TypeOK /\ CallOK)
<1>1. CallOK /\ TypeOK /\ [Next]_dequeVars => CallOK'
  BY CallStep, StutterStep DEF Next
<1> QED
  BY <1>1, CallInit, TypeCorrect, PTL DEF Spec

LEMMA SurplusInit == Init => Surplus = 0
<1> SUFFICES ASSUME Init PROVE Surplus = 0
  OBVIOUS
<1>1. Holders = {}
  BY DEF Init, Holders
<1> QED
  BY <1>1, FS_EmptySet, EmptySeq DEF Init, Surplus

LEMMA SurplusInt == TypeOK => Surplus \in Int
  BY HoldersFinite, LenProperties DEF Surplus, TypeOK

(* What a deque's callers never call is not what a thread is in.           *)
LEMMA CalledOnly ==
  ASSUME CallOK, NEW t \in Threads
  PROVE  /\ NeverSwapped => (pc[t] # "idle" => op[t] # "Swap")
         /\ UsedAsQueue /\ ~aborted => (pc[t] # "idle" => op[t] \in QueueOps)
  BY DEF CallOK, NeverSwapped, UsedAsQueue, QueueOps, Drains, DrainOf

(* The abort flag is only ever set.                                        *)
LEMMA AbortedForGood ==
  ASSUME NEW t \in Threads, ~aborted',
         Step(t) \/ \E o \in Calls[t] : Begin(t, o)
  PROVE  ~aborted
  BY AbortedStays DEF Step, Begin, WaitCheck, SemTake, SemTimeout,
     SemInterrupted, Woke, Lock, ClearUnlocked

(* Before an abort no token stands for an element that is not there: a     *)
(* consumer that gets through sem_wait (MsgDeque.h:279) always has an      *)
(* element to take, whichever operations but Swap the threads mix.         *)
THEOREM TokensNeverExceed ==
  ASSUME NeverSwapped
  PROVE  Spec => []TokensNeverExceedElements
<1> DEFINE Inv == ~aborted => Surplus >= 0
<1>1. Init => Inv
  BY SurplusInit
<1>2. TypeOK /\ CallOK /\ Inv /\ [Next]_dequeVars => Inv'
  <2> SUFFICES ASSUME TypeOK, CallOK, Inv, [Next]_dequeVars, ~aborted'
               PROVE  Surplus' >= 0
    OBVIOUS
  <2>1. CASE UNCHANGED dequeVars
    BY <2>1, StutterStep
  <2>2. CASE Next
    <3>1. PICK t \in Threads : Step(t) \/ \E o \in Calls[t] : Begin(t, o)
      BY <2>2 DEF Next
    <3>2. Surplus >= 0
      BY <3>1, AbortedForGood
    <3>3. Surplus' \in {Surplus, Surplus + 1}
      BY <3>1, <3>2, SurplusStep, CalledOnly
    <3> QED
      BY <3>2, <3>3, SurplusInt
  <2> QED
    BY <2>1, <2>2
<1>3. TypeOK /\ Inv => TokensNeverExceedElements
  BY HoldersFinite, LenProperties
     DEF TokensNeverExceedElements, Surplus, TypeOK
<1> QED
  BY <1>1, <1>2, <1>3, ControlCorrect, TypeCorrect, PTL DEF Spec

(* Used as a task queue, a deque has exactly one token per element until   *)
(* it is aborted: PushBack's sem_post (MsgDeque.h:227) is never lost to a  *)
(* consumer that took no element, so no task waits beside a sleeping       *)
(* worker.                                                                 *)
THEOREM TokensMatch ==
  ASSUME UsedAsQueue
  PROVE  Spec => []TokensMatchElements
<1> DEFINE Inv == ~aborted => Surplus = 0
<1>1. Init => Inv
  BY SurplusInit
<1>2. TypeOK /\ CallOK /\ Inv /\ [Next]_dequeVars => Inv'
  <2> SUFFICES ASSUME TypeOK, CallOK, Inv, [Next]_dequeVars, ~aborted'
               PROVE  Surplus' = 0
    OBVIOUS
  <2>1. CASE UNCHANGED dequeVars
    BY <2>1, StutterStep
  <2>2. CASE Next
    <3>1. PICK t \in Threads : Step(t) \/ \E o \in Calls[t] : Begin(t, o)
      BY <2>2 DEF Next
    <3>2. Surplus = 0 /\ ~aborted
      BY <3>1, AbortedForGood
    <3>3. NeverSwapped
      BY DEF UsedAsQueue, NeverSwapped
    <3> QED
      BY <3>1, <3>2, <3>3, SurplusStep, CalledOnly
  <2> QED
    BY <2>1, <2>2
<1>3. TypeOK /\ Inv => TokensMatchElements
  BY HoldersFinite, LenProperties DEF TokensMatchElements, Surplus, TypeOK
<1> QED
  BY <1>1, <1>2, <1>3, ControlCorrect, TypeCorrect, PTL DEF Spec

(* m_deque.back() is reached with an element there, in Back and PopBack    *)
(* (MsgDeque.h:182, 199), until the deque is aborted.                      *)
THEOREM BackSafe ==
  ASSUME NeverSwapped
  PROVE  Spec => []BackFindsAnElement
<1>1. TypeOK /\ TokensNeverExceedElements => BackFindsAnElement
  <2> SUFFICES ASSUME TypeOK, TokensNeverExceedElements, ~aborted,
                      NEW t \in Threads, pc[t] = "body", op[t] \in {"Back", "PopBack"}
               PROVE  deque # <<>>
    BY DEF BackFindsAnElement
  <2>1. t \in Holders
    BY DEF Holders, Waiting
  <2>2. Cardinality(Holders) # 0
    BY <2>1, HoldersFinite, FS_EmptySet
  <2> QED
    BY <2>2, HoldersFinite, EmptySeq DEF TokensNeverExceedElements, TypeOK
<1> QED
  BY <1>1, TypeCorrect, TokensNeverExceed, PTL

(* m_maxSize is never exceeded, at either end and however many elements    *)
(* one Insert brings (MsgDeque.h:166, 224, 241).                           *)
THEOREM BoundedCorrect == Spec => []Bounded
<1>1. Init => Bounded
  BY EmptySeq, DequeAssumption DEF Init, Bounded, DequeAssumption
<1>2. TypeOK /\ Bounded /\ [Next]_dequeVars => Bounded'
  <2> SUFFICES ASSUME TypeOK, Bounded, [Next]_dequeVars PROVE Bounded'
    OBVIOUS
  <2> USE DequeAssumption DEF DequeAssumption, Bounded
  <2>1. Len(deque) \in Nat /\ deque \in Seq(Nat) /\ pushed \in Nat
    BY LenProperties DEF TypeOK
  <2>2. CASE UNCHANGED deque
    BY <2>2
  <2>3. ASSUME NEW t \in Threads, PushBack(t) \/ PushFront(t) PROVE Bounded'
    BY <2>1, <2>3, PushTypes DEF PushBack, PushFront, Push, isFull
  <2>4. ASSUME NEW t \in Threads, Insert(t) PROVE Bounded'
    <3>4. Len(deque') = Len(deque) + 2
      BY <2>4, InsertGrows
    <3> QED
      BY <2>1, <2>4, <3>4 DEF Insert, isFull
  <2>5. ASSUME NEW t \in Threads, PopFront(t) \/ PopBack(t) PROVE Bounded'
    BY <2>1, <2>5, PopTypes DEF PopFront, PopBack
  <2>6. ASSUME deque' = <<>> PROVE Bounded'
    BY <2>6, EmptySeq
  <2> QED
    BY <2>2, <2>3, <2>4, <2>5, <2>6
       DEF Next, Step, Body, Begin, WaitCheck, SemTake, SemTimeout, dequeVars,
           SemInterrupted, Woke, Lock, ClearUnlocked, Refused, Peek, FoundEmpty,
           Swap, AbortWait
<1> QED
  BY <1>1, <1>2, TypeCorrect, PTL DEF Spec

(* One token is enough to release one waiter: with a single consumer, as   *)
(* every worker of the thread pool has, nobody sleeps on an aborted deque  *)
(* whose token AbortWait posted (MsgDeque.h:83) is gone.                   *)
THEOREM AbortWakesTheWaiter ==
  ASSUME OneWaiter
  PROVE  Spec => []AbortLeavesToken
<1> DEFINE Inv == \A t \in Threads : aborted /\ pc[t] = "sem" => notEmpty > 0
<1>1. Init => Inv
  BY DEF Init
<1>2. TypeOK /\ CallOK /\ Inv /\ [Next]_dequeVars => Inv'
  <2> SUFFICES ASSUME TypeOK, CallOK, Inv, [Next]_dequeVars PROVE Inv'
    OBVIOUS
  <2>1. CASE UNCHANGED dequeVars
    BY <2>1 DEF dequeVars
  <2>2. ASSUME NEW t \in Threads, NEW o \in Calls[t], Begin(t, o) PROVE Inv'
    <3>1. FirstStop(o) # "sem"
      BY DEF FirstStop
    <3> QED
      BY <2>2, <3>1 DEF Begin, Goto, TypeOK
  <2>3. ASSUME NEW t \in Threads,
               WaitCheck(t) \/ SemInterrupted(t) \/ SemTimeout(t) \/ Woke(t) \/ Lock(t)
        PROVE  Inv'
    BY <2>3 DEF WaitCheck, SemInterrupted, SemTimeout, Woke, Lock, Goto, TypeOK
  <2>4. ASSUME NEW t \in Threads, SemTake(t) PROVE Inv'
    <3>1. \A s \in Threads : pc[s] = "sem" => Calls[s] \cap Waiting # {}
      BY DEF CallOK, Waiting, Drains
    <3>2. \A s \in Threads : pc[s] = "sem" => s = t
      BY <2>4, <3>1 DEF OneWaiter, SemTake
    <3> QED
      BY <2>4, <3>2 DEF SemTake, Goto, TypeOK
  <2>5. ASSUME NEW t \in Threads, Body(t) PROVE Inv'
    <3>1. \A s \in Threads : pc'[s] = "sem" => pc[s] = "sem"
      BY <2>5, BodyControl DEF TypeOK
    <3>2. CASE AbortWait(t)
      BY <3>1, <3>2 DEF AbortWait, TypeOK
    <3>3. CASE PushBack(t) \/ PushFront(t) \/ Insert(t)
      <4>1. notEmpty' = notEmpty + 1 /\ aborted' = aborted
        BY <3>3 DEF PushBack, PushFront, Insert, Push
      <4> QED
        BY <3>1, <4>1 DEF TypeOK
    <3>4. CASE UNCHANGED <<notEmpty, aborted>>
      BY <3>1, <3>4
    <3> QED
      BY <2>5, <3>2, <3>3, <3>4
         DEF Body, PopFront, PopBack, Peek, Refused, FoundEmpty, Swap
  <2>6. ASSUME NEW t \in Threads, ClearUnlocked(t) PROVE Inv'
    BY <2>6 DEF ClearUnlocked, Goto, TypeOK
  <2> QED
    BY <2>1, <2>2, <2>3, <2>4, <2>5, <2>6 DEF Next, Step
<1>3. Inv => AbortLeavesToken
  BY DEF AbortLeavesToken
<1> QED
  BY <1>1, <1>2, <1>3, ControlCorrect, PTL DEF Spec

-----------------------------------------------------------------------------
(* What a step does, seen from a component that calls PushBack, PopFront,  *)
(* AbortWait, Clear and Swap.                                              *)

(* Inside the deque a thread stays in the call it began.                   *)
LEMMA InnerCall ==
  ASSUME TypeOK, NEW t \in Threads, Step(t)
  PROVE  /\ pc[t] # "idle" /\ op' = op
         /\ \A s \in Threads : s # t => pc'[s] = pc[s] /\ ret'[s] = ret[s]
<1>1. CASE Body(t)
  <2>1. \A s \in Threads : s # t => ret'[s] = ret[s]
    BY <1>1 DEF Body, PushBack, PushFront, Insert, Push, PopFront, PopBack, Peek,
         Refused, FoundEmpty, Swap, AbortWait, Leave, Return, TypeOK
  <2> QED
    BY <1>1, <2>1, BodyControl DEF TypeOK
<1>2. CASE ~Body(t)
  BY <1>2 DEF Step, WaitCheck, SemTake, SemTimeout, SemInterrupted, Woke, Lock,
              ClearUnlocked, Goto, TypeOK
<1> QED
  BY <1>1, <1>2

StepAdds(t) ==
  /\ op[t] = "PushBack" /\ pc'[t] = "idle" /\ ~isFull(0)
  /\ deque' = Append(deque, pushed + 1)
  /\ pushed' = pushed + 1
  /\ ret'[t] = pushed'

StepTakes(t) ==
  /\ op[t] \in {"PopFront", "DrainFront"} /\ pc'[t] = "idle"
  /\ deque # <<>>
  /\ deque' = Tail(deque)
  /\ ret'[t] = Head(deque)
  /\ pushed' = pushed

StepEmpties(t) ==
  /\ op[t] \in {"Clear", "Swap"}
  /\ deque' = <<>>
  /\ pushed' = pushed
  /\ ret'[t] \in {0, ret[t]}

StepKeeps(t) ==
  /\ deque' = deque
  /\ pushed' = pushed
  /\ ret'[t] \in {0, ret[t]}

LEMMA StepEffect ==
  ASSUME TypeOK, CallOK, NEW t \in Threads, Step(t),
         op[t] \in QueueOps \cup {"DrainFront", "Swap"}
  PROVE  \/ StepAdds(t) \/ StepTakes(t) \/ StepEmpties(t)
         \/ StepKeeps(t) /\ (op[t] = "PushBack" /\ pc'[t] = "idle" => isFull(0))
<1> USE DEF TypeOK, QueueOps
<1>1. CASE PushBack(t)
  BY <1>1 DEF PushBack, Push, Leave, Return, Goto, Inside, StepAdds
<1>2. CASE PopFront(t)
  BY <1>2 DEF PopFront, Leave, Return, Goto, Inside, StepTakes
<1>3. CASE Swap(t)
  BY <1>3 DEF Swap, Leave, Return, Inside, StepEmpties
<1>4. CASE Refused(t) \/ FoundEmpty(t)
  BY <1>4 DEF Refused, FoundEmpty, Leave, Return, Inside, StepKeeps, Waiting, Drains
<1>5. CASE AbortWait(t)
  BY <1>5 DEF AbortWait, StepKeeps, Inside
<1>6. CASE ClearUnlocked(t)
  BY <1>6 DEF ClearUnlocked, StepKeeps, StepEmpties, CallOK
<1>7. CASE WaitCheck(t) \/ SemTake(t) \/ SemTimeout(t) \/ SemInterrupted(t) \/ Woke(t)
  BY <1>7 DEF WaitCheck, SemTake, SemTimeout, SemInterrupted, Woke, StepKeeps, CallOK,
              Waiting
<1>8. CASE Lock(t)
  BY <1>8 DEF Lock, Goto, StepKeeps
<1>9. ~(PushFront(t) \/ Insert(t) \/ PopBack(t) \/ Peek(t))
  BY DEF PushFront, Insert, PopBack, Peek, Inside
<1> QED
  BY <1>1, <1>2, <1>3, <1>4, <1>5, <1>6, <1>7, <1>8, <1>9 DEF Step, Body

(* Elements have the numbers 1 to pushed, and a call has no result before  *)
(* it returns.                                                             *)
NumbersOK ==
  /\ \A i \in 1..Len(deque) : deque[i] \in 1..pushed
  /\ \A t \in Threads : ret[t] \in 0..pushed /\ (pc[t] # "idle" => ret[t] = 0)

LEMMA NumbersInit == Init => NumbersOK
  BY EmptySeq DEF Init, NumbersOK

LEMMA NumbersBegin ==
  ASSUME TypeOK, NumbersOK, NEW t \in Threads, NEW o, Begin(t, o)
  PROVE  NumbersOK'
  BY DEF Begin, Goto, TypeOK, NumbersOK

LEMMA NumbersStep ==
  ASSUME TypeOK, CallOK, NumbersOK, NEW t \in Threads, Step(t),
         op[t] \in QueueOps \cup {"DrainFront", "Swap"}
  PROVE  NumbersOK'
<1> USE DEF NumbersOK
<1>1. /\ deque \in Seq(Nat) /\ Len(deque) \in Nat /\ pushed \in Nat
      /\ \A s \in Threads : s # t => pc'[s] = pc[s] /\ ret'[s] = ret[s]
      /\ ret[t] = 0
  BY InnerCall, LenProperties DEF TypeOK
<1>2. CASE StepAdds(t)
  <2>1. /\ Len(deque') = Len(deque) + 1
        /\ \A i \in 1..Len(deque) : deque'[i] = deque[i]
        /\ deque'[Len(deque) + 1] = pushed + 1
    BY <1>1, <1>2, AppendProperties DEF StepAdds
  <2>2. pushed' = pushed + 1 /\ ret'[t] = pushed' /\ pc'[t] = "idle"
    BY <1>2 DEF StepAdds
  <2>3. \A i \in 1..Len(deque') : deque'[i] \in 1..pushed'
    BY <1>1, <2>1, <2>2
  <2>4. \A s \in Threads : ret'[s] \in 0..pushed' /\ (pc'[s] # "idle" => ret'[s] = 0)
    BY <1>1, <2>2
  <2> QED
    BY <2>3, <2>4
<1>3. CASE StepTakes(t)
  <2>1. /\ Len(deque') = Len(deque) - 1 /\ Len(deque) # 0
        /\ \A i \in 1..Len(deque') : deque'[i] = deque[i + 1]
        /\ Head(deque) = deque[1]
    BY <1>1, <1>3, HeadTailProperties, EmptySeq DEF StepTakes
  <2> QED
    BY <1>1, <1>3, <2>1 DEF StepTakes
<1>4. CASE StepEmpties(t)
  BY <1>1, <1>4, EmptySeq DEF StepEmpties
<1>5. CASE StepKeeps(t)
  BY <1>1, <1>5 DEF StepKeeps
<1> QED
  BY <1>2, <1>3, <1>4, <1>5, StepEffect

-----------------------------------------------------------------------------
(* Refinement.                                                             *)

(* How a step changes who is inside PopFront.                              *)
LEMMA WaitersMove ==
  ASSUME TypeOK, NEW t \in Threads, NEW l, pc[t] # "idle", op' = op,
         pc' = [pc EXCEPT ![t] = l]
  PROVE  InPopFront' = IF l = "idle" THEN InPopFront \ {t} ELSE InPopFront
  BY DEF InPopFront, TypeOK

(* A call of a task queue that takes elements out is a PopFront.           *)
LEMMA WaiterPops ==
  ASSUME UsedAsQueue, CallOK, NEW t \in Threads, pc[t] # "idle",
         op[t] \in Waiting \cup Drains
  PROVE  op[t] \in {"PopFront", "DrainFront"} /\ t \in InPopFront
  BY DEF UsedAsQueue, CallOK, Waiting, Drains, DrainOf, InPopFront

LEMMA BeginRefines ==
  ASSUME UsedAsQueue, TypeOK, NEW t \in Threads, NEW o \in Calls[t], Begin(t, o)
  PROVE  Abstract!Wait(t) \/ UNCHANGED Abstract!vars
<1>1. o \in {"PushBack", "PopFront", "AbortWait", "Clear"}
  BY DEF UsedAsQueue
<1>2. UNCHANGED <<deque, pushed, aborted>>
  BY DEF Begin
<1>3. pc[t] = "idle" /\ pc' = [pc EXCEPT ![t] = FirstStop(o)]
      /\ op' = [op EXCEPT ![t] = Entered(o)]
  BY DEF Begin, Goto
<1>4. CASE o = "PopFront"
  <2>1. FirstStop(o) # "idle" /\ Entered(o) \in {"PopFront", "DrainFront"}
    BY <1>4 DEF FirstStop, Entered
  <2>2. InPopFront' = InPopFront \cup {t}
    BY <1>3, <2>1 DEF InPopFront, TypeOK
  <2> QED
    BY <1>2, <2>2 DEF Abstract!Wait
<1>5. CASE o # "PopFront"
  <2>1. Entered(o) = o
    BY <1>1, <1>5 DEF Entered
  <2>2. InPopFront' = InPopFront
    BY <1>1, <1>3, <1>5, <2>1 DEF InPopFront, TypeOK
  <2> QED
    BY <1>2, <2>2 DEF Abstract!vars
<1> QED
  BY <1>4, <1>5

LEMMA WaitRefines ==
  ASSUME UsedAsQueue, TypeOK, CallOK, NEW t \in Threads,
         WaitCheck(t) \/ SemTake(t) \/ SemTimeout(t)
           \/ SemInterrupted(t) \/ Woke(t) \/ Lock(t)
  PROVE  Abstract!GiveUp(t) \/ UNCHANGED Abstract!vars
<1>1. pc[t] # "idle" /\ op' = op /\ UNCHANGED <<deque, pushed, aborted>>
  BY DEF WaitCheck, SemTake, SemTimeout, SemInterrupted, Woke, Lock
<1>2. PICK l : pc' = [pc EXCEPT ![t] = l]
  BY DEF WaitCheck, SemTake, SemTimeout, SemInterrupted, Woke, Lock, Goto
<1>3. l = "idle" => aborted \/ t \in Pollers
  BY <1>2 DEF WaitCheck, SemTake, SemTimeout, SemInterrupted, Woke, Lock, Goto, TypeOK
<1>4. l = "idle" => op[t] \in Waiting
  BY <1>2 DEF WaitCheck, SemTake, SemTimeout, SemInterrupted, Woke, Lock, Goto, TypeOK, CallOK
<1>5. CASE l = "idle"
  BY <1>1, <1>2, <1>3, <1>4, <1>5, WaitersMove, WaiterPops DEF Abstract!GiveUp
<1>6. CASE l # "idle"
  BY <1>1, <1>2, <1>6, WaitersMove DEF Abstract!vars
<1> QED
  BY <1>5, <1>6

LEMMA BodyRefines ==
  ASSUME UsedAsQueue, TypeOK, CallOK, ~aborted => Surplus = 0,
         NEW t \in Threads, Body(t)
  PROVE  \/ Abstract!Put \/ Abstract!Take(t) \/ Abstract!GiveUp(t) \/ Abstract!Close
         \/ UNCHANGED Abstract!vars
<1>1. pc[t] = "body" /\ op' = op
  BY BodyControl
<1>2. InPopFront' = IF pc'[t] = "idle" THEN InPopFront \ {t} ELSE InPopFront
  <2>1. CASE pc' = [pc EXCEPT ![t] = "idle"]
    BY <1>1, <2>1, WaitersMove DEF TypeOK
  <2>2. CASE pc' = [pc EXCEPT ![t] = "clear"]
    BY <1>1, <2>2, WaitersMove DEF TypeOK
  <2> QED
    BY <2>1, <2>2, BodyControl
<1>3. op[t] \in {"PushBack", "AbortWait", "Clear"} => t \notin InPopFront
  BY DEF InPopFront
<1>4. op[t] \in {"PushBack", "PopFront", "AbortWait", "Clear", "DrainFront"}
  BY <1>1 DEF UsedAsQueue, CallOK, Drains, DrainOf
<1>5. CASE op[t] = "PushBack"
  <2>1. InPopFront' = InPopFront
    BY <1>2, <1>3, <1>5
  <2>2. PushBack(t) \/ Refused(t)
    BY <1>5 DEF Body, PushFront, Insert, PopFront, PopBack, Peek, FoundEmpty,
                Swap, AbortWait, Inside, Waiting, Drains
  <2>3. ASSUME PushBack(t) PROVE Abstract!Put
    <3>1. Len(deque) < MaxSize
      BY <2>3, LenProperties, DequeAssumption
         DEF PushBack, isFull, TypeOK, DequeAssumption
    <3> QED
      BY <2>1, <2>3, <3>1 DEF PushBack, Push, Abstract!Put
  <2>4. ASSUME Refused(t) PROVE UNCHANGED Abstract!vars
    BY <2>1, <2>4 DEF Refused, Abstract!vars
  <2> QED
    BY <2>2, <2>3, <2>4
<1>6. CASE op[t] \in {"AbortWait", "Clear"}
  <2>1. InPopFront' = InPopFront
    BY <1>2, <1>3, <1>6
  <2>2. AbortWait(t)
    BY <1>6 DEF Body, PushBack, PushFront, Insert, Refused, PopFront, PopBack,
                Peek, FoundEmpty, Swap, Inside, Waiting, Drains
  <2> QED
    BY <2>1, <2>2 DEF AbortWait, Abstract!Close
<1>7. CASE op[t] \in {"PopFront", "DrainFront"}
  <2>1. t \in InPopFront
    BY <1>1, <1>7 DEF InPopFront
  <2>2. PopFront(t) \/ FoundEmpty(t)
    BY <1>7 DEF Body, PushBack, PushFront, Insert, Refused, PopBack, Peek,
                Swap, AbortWait, Inside
  <2>3. pc' = [pc EXCEPT ![t] = "idle"]
    BY <1>7, BodyControl
  <2>4. InPopFront' = InPopFront \ {t}
    BY <1>2, <2>3 DEF TypeOK
  <2>5. ASSUME PopFront(t) PROVE Abstract!Take(t)
    BY <2>1, <2>4, <2>5 DEF PopFront, Abstract!Take
  <2>6. ASSUME FoundEmpty(t) PROVE Abstract!GiveUp(t)
    <3>1. aborted
      <4> SUFFICES ASSUME ~aborted PROVE FALSE
        OBVIOUS
      <4>1. Surplus = 0 /\ op[t] \in Waiting
        BY <1>1, <1>7 DEF CallOK, Waiting, Drains
      <4>2. Cardinality(Holders) # 0
        BY <1>1, <4>1, HoldersFinite, FS_EmptySet DEF Holders
      <4>3. Len(deque) = 0 /\ notEmpty \in Nat
        BY <2>6, EmptySeq DEF FoundEmpty, TypeOK
      <4> QED
        BY <4>1, <4>2, <4>3, HoldersFinite DEF Surplus
    <3> QED
      BY <2>1, <2>4, <2>6, <3>1 DEF FoundEmpty, Abstract!GiveUp
  <2> QED
    BY <2>2, <2>5, <2>6
<1> QED
  BY <1>4, <1>5, <1>6, <1>7

LEMMA ClearRefines ==
  ASSUME TypeOK, CallOK, NEW t \in Threads, ClearUnlocked(t)
  PROVE  Abstract!Discard \/ UNCHANGED Abstract!vars
<1>1. op[t] = "Clear" /\ aborted
  BY DEF ClearUnlocked, CallOK
<1>2. InPopFront' = InPopFront
  BY <1>1 DEF ClearUnlocked, Goto, InPopFront, TypeOK
<1> QED
  BY <1>1, <1>2 DEF ClearUnlocked, Abstract!Discard, Abstract!vars

LEMMA StepRefines ==
  ASSUME UsedAsQueue, TypeOK, CallOK, TokensMatchElements, [Next]_dequeVars
  PROVE  [Abstract!Next]_Abstract!vars
<1>1. ~aborted => Surplus = 0
  BY HoldersFinite, LenProperties DEF TokensMatchElements, Surplus, TypeOK
<1>2. CASE UNCHANGED dequeVars
  BY <1>2 DEF dequeVars, Abstract!vars, InPopFront
<1>3. ASSUME NEW t \in Threads, Step(t) \/ \E o \in Calls[t] : Begin(t, o)
      PROVE  [Abstract!Next]_Abstract!vars
  BY <1>1, <1>3, BeginRefines, WaitRefines, BodyRefines, ClearRefines
     DEF Step, Abstract!Next
<1> QED
  BY <1>2, <1>3 DEF Next

LEMMA InitRefines == Init => Abstract!Init
  BY DEF Init, Abstract!Init, InPopFront

(* Used as a task queue, CMsgDeque is an atomic bounded FIFO queue that    *)
(* refuses to wait once closed: the token protocol and the double-checked  *)
(* abort flag are invisible to its callers.                                *)
THEOREM Refinement ==
  ASSUME UsedAsQueue
  PROVE  Spec => Abstract!Safety
<1>1. TypeOK /\ CallOK /\ TokensMatchElements /\ [Next]_dequeVars
        => [Abstract!Next]_Abstract!vars
  BY StepRefines
<1> QED
  BY <1>1, InitRefines, ControlCorrect, TokensMatch, PTL
     DEF Spec, Abstract!Safety

(* The deque is at all times a gapless run of the elements pushed last: a  *)
(* consumer's PopFront (MsgDeque.h:137) can neither skip nor repeat one.   *)
THEOREM FirstInFirstOut ==
  ASSUME UsedAsQueue
  PROVE  Spec => []InOrder
<1>1. Init => InOrder
  BY EmptySeq DEF Init, InOrder, Abstract!Consecutive
<1>2. ASSUME TypeOK, InOrder, [Abstract!Next]_Abstract!vars
      PROVE  InOrder'
  <2> USE <1>2 DEF InOrder, Abstract!Consecutive
  <2>1. deque \in Seq(Nat) /\ Len(deque) \in Nat /\ pushed \in Nat
    BY LenProperties DEF TypeOK
  <2>2. CASE Abstract!Put
    <3>1. deque' = Append(deque, pushed + 1) /\ pushed' = pushed + 1
      BY <2>2 DEF Abstract!Put
    <3>2. /\ Len(deque') = Len(deque) + 1
          /\ \A i \in 1..Len(deque) : deque'[i] = deque[i]
          /\ deque'[Len(deque) + 1] = pushed + 1
      BY <2>1, <3>1, AppendProperties
    <3> QED
      BY <2>1, <3>1, <3>2
  <2>3. ASSUME NEW t \in Threads, Abstract!Take(t) PROVE InOrder'
    <3>1. deque # <<>> /\ deque' = Tail(deque) /\ pushed' = pushed
      BY <2>3 DEF Abstract!Take
    <3>2. /\ Len(deque') = Len(deque) - 1
          /\ \A i \in 1..Len(deque') : deque'[i] = deque[i + 1]
      BY <2>1, <3>1, HeadTailProperties
    <3> QED
      BY <2>1, <3>1, <3>2
  <2>4. CASE Abstract!Discard
    BY <2>4, EmptySeq DEF Abstract!Discard
  <2>5. CASE UNCHANGED <<deque, pushed>>
    BY <2>5
  <2> QED
    BY <1>2, <2>2, <2>3, <2>4, <2>5
       DEF Abstract!Next, Abstract!Wait, Abstract!GiveUp, Abstract!Close, Abstract!vars
<1>3. TypeOK /\ CallOK /\ TokensMatchElements /\ InOrder /\ [Next]_dequeVars
        => InOrder'
  BY <1>2, StepRefines
<1> QED
  BY <1>1, <1>3, ControlCorrect, TokensMatch, PTL DEF Spec
=============================================================================
