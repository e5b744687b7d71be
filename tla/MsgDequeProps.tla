---------------------------- MODULE MsgDequeProps ---------------------------
(***************************************************************************)
(* What CMsgDeque is for, stated over the steps of MsgDeque.               *)
(***************************************************************************)
EXTENDS MsgDeque

Labels == {"idle", "check", "sem", "woke", "lock", "body", "clear"}

(* The type invariant: tokens and elements are counted in Nat, and a       *)
(* thread in a critical section is the owner of m_mutex.                   *)
TypeOK ==
  /\ deque \in Seq(Nat)
  /\ notEmpty \in Nat
  /\ pushed \in Nat
  /\ aborted \in BOOLEAN
  /\ mutex \in Threads \cup {NoThread}
  /\ pc \in [Threads -> Labels]
  /\ op \in [Threads -> Ops \cup Drains]
  /\ ret \in [Threads -> Nat]
  /\ \A t \in Threads : pc[t] = "body" <=> mutex = t

(* The way the callers use a deque: as a queue of tasks; with one thread   *)
(* that waits; without the swap that only RemoveThreadObject makes.        *)
UsedAsQueue ==
  \A t \in Threads :
    Calls[t] \subseteq {"PushBack", "PopFront", "AbortWait", "Clear"}
OneWaiter ==
  \A s, t \in Threads :
    Calls[s] \cap Waiting # {} /\ Calls[t] \cap Waiting # {} => s = t
NeverSwapped == \A t \in Threads : "Swap" \notin Calls[t]

(* The threads that hold a token they have not yet turned into a removal.  *)
Holders ==
  {t \in Threads : pc[t] \in {"woke", "lock", "body"} /\ op[t] \in Waiting}

(* Until an abort, a deque used through PushBack and PopFront has exactly  *)
(* one token, in the semaphore or in a consumer's hands, per element: no   *)
(* element is stranded (MsgDeque.h:229, 132) and no consumer is woken for  *)
(* nothing.                                                                *)
TokensMatchElements ==
  ~aborted => notEmpty + Cardinality(Holders) = Len(deque)

(* Whatever is called but Swap, tokens never outnumber elements until an   *)
(* abort: Front, PushFront and Insert can only lose tokens.                *)
TokensNeverExceedElements ==
  ~aborted => notEmpty + Cardinality(Holders) <= Len(deque)

(* Back and PopBack (MsgDeque.h:182, 199) use m_deque.back() with no test  *)
(* that there is an element; before an abort the token is what makes that  *)
(* safe.                                                                   *)
BackFindsAnElement ==
  \A t \in Threads :
    pc[t] = "body" /\ op[t] \in {"Back", "PopBack"} /\ ~aborted => deque # <<>>

(* The deque never holds more than m_maxSize elements, whichever end they  *)
(* were pushed at and however many were inserted at once.                  *)
Bounded == Len(deque) <= MaxSize

(* The single token AbortWait posts (MsgDeque.h:83) is enough for a single *)
(* blocking consumer: it is never left asleep on an aborted deque.         *)
AbortLeavesToken ==
  \A t \in Threads \ Pollers :
    aborted /\ pc[t] = "sem" => notEmpty > 0

-----------------------------------------------------------------------------
(* The abstract queue this deque implements.  A thread is inside PopFront  *)
(* from the call to its return, however the call is spent.                 *)
InPopFront ==
  {t \in Threads : pc[t] # "idle" /\ op[t] \in {"PopFront", "DrainFront"}}

Abstract == INSTANCE TaskQueue
              WITH queue <- deque, accepted <- pushed,
                   open <- ~aborted, waiting <- InPopFront

(* What is in the deque is the elements pushed last, in the order they     *)
(* came, so PopFront returned the earlier ones in that order.              *)
InOrder == Abstract!Consecutive

(* PushBack, PopFront, AbortWait and Clear behave as atomic operations on  *)
(* a bounded first-in first-out queue that delivers while it is open and   *)
(* lets its consumer go when it is closed.                                 *)
ImplementsTaskQueue == Abstract!Spec
=============================================================================
