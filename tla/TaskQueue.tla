------------------------------ MODULE TaskQueue -----------------------------
(***************************************************************************)
(* What a user of CMsgDeque is promised when it only calls PushBack,       *)
(* PopFront, AbortWait and Clear: a bounded first-in first-out queue whose *)
(* operations are atomic, with no mutex, no semaphore and no token.        *)
(***************************************************************************)
EXTENDS Integers, Sequences

CONSTANTS Threads, Pollers, MaxSize

VARIABLES
  queue,      \* the elements, numbered in the order they were accepted
  accepted,   \* how many were accepted so far
  open,       \* FALSE once the queue is aborted
  waiting     \* the threads inside PopFront

vars == <<queue, accepted, open, waiting>>

Init ==
  /\ queue = <<>>
  /\ accepted = 0
  /\ open = TRUE
  /\ waiting = {}

(* A producer may have passed its test of the abort flag before the abort, *)
(* so an element can still arrive in a closed queue.                       *)
Put ==
  /\ Len(queue) < MaxSize
  /\ queue' = Append(queue, accepted + 1)
  /\ accepted' = accepted + 1
  /\ UNCHANGED <<open, waiting>>

Wait(c) ==
  /\ waiting' = waiting \cup {c}
  /\ UNCHANGED <<queue, accepted, open>>

(* The oldest element goes to a waiting thread, and to no other.           *)
Take(c) ==
  /\ c \in waiting
  /\ queue # <<>>
  /\ queue' = Tail(queue)
  /\ waiting' = waiting \ {c}
  /\ UNCHANGED <<accepted, open>>

(* A wait ends without an element only by the abort or by its timeout.     *)
GiveUp(c) ==
  /\ c \in waiting
  /\ ~open \/ c \in Pollers
  /\ waiting' = waiting \ {c}
  /\ UNCHANGED <<queue, accepted, open>>

Close ==
  /\ open' = FALSE
  /\ UNCHANGED <<queue, accepted, waiting>>

(* Elements are thrown away only once the queue is closed.                 *)
Discard ==
  /\ ~open
  /\ queue' = <<>>
  /\ UNCHANGED <<accepted, open, waiting>>

Next ==
  \/ Put \/ Close \/ Discard
  \/ \E c \in Threads : Wait(c) \/ Take(c) \/ GiveUp(c)

Safety == Init /\ [][Next]_vars

(* First in, first out, and no gap: the queue holds the elements accepted  *)
(* last, so those that left it are the first ones.                         *)
Consecutive ==
  \A i \in 1..Len(queue) : queue[i] = accepted - Len(queue) + i

(***************************************************************************)
(* An element does not stay behind while a thread waits for one, and a     *)
(* thread does not wait in a closed queue.                                 *)
(***************************************************************************)
Delivers == WF_vars(open /\ \E c \in Threads : Take(c))
Releases == \A c \in Threads : WF_vars(~open /\ (Take(c) \/ GiveUp(c)))

Spec == Safety /\ Delivers /\ Releases
=============================================================================
