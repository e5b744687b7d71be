----------------------------- MODULE MCMsgDeque -----------------------------
(***************************************************************************)
(* The deque, its properties, and the call profiles TLC checks it under.   *)
(***************************************************************************)
EXTENDS MsgDequeProps

CONSTANTS p1, c1, c2

(* A thread that pushes, at either end and several at once, and aborts,    *)
(* clears or swaps, and two that take, from either end, or only look.      *)
Three == {p1, c1, c2}
AllCalls == [t \in Three |->
             CASE t = p1 -> {"PushBack", "PushFront", "Insert", "AbortWait", "Clear", "Swap"}
               [] t = c1 -> {"PopBack", "Front", "PushBack"}
               [] t = c2 -> {"PopFront", "PopBack", "Back"}]

(* A Swap takes the elements and leaves their tokens, so what the deque    *)
(* promises ends with the first one.  The run goes on up to there; what    *)
(* comes after it, in its only use, is in the run of ThreadPool.           *)
UpToFirstSwap == \A t \in Threads : ~(op[t] = "Swap" /\ pc[t] = "idle")
=============================================================================
