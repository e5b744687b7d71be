-------------------------- MODULE ThreadObjectProps -------------------------
(***************************************************************************)
(* What a thread of the pool owes the tasks given to it, its owner and its *)
(* callers.                                                                *)
(***************************************************************************)
EXTENDS ThreadObject

WorkerStatements ==
  {"sleep", "loop", "fetch", "popping", "dec", "running", "run",
   "clean", "clearing", "exit", "post", "exited"}
CallerStatements ==
  {"idle", "adding", "inc", "waiting", "cancel", "aborting", "waitquit",
   "quit", "gone"}

(* The call into the deque each statement stands for.                      *)
CallOf == [popping |-> {"PopFront", "DrainFront"}, clearing |-> {"Clear"},
           adding |-> {"PushBack"}, aborting |-> {"AbortWait"}]

(* The type invariant: busying wraps at its width, and a thread inside the *)
(* deque is at the statement that called it.                               *)
ThreadTypeOK ==
  /\ at \in [Threads -> WorkerStatements \cup CallerStatements]
  /\ \A t \in Threads : at[t] \in WorkerStatements <=> t = Worker
  /\ arg \in [Threads -> (0..BusyMod - 1) \cup {Unread}]
  /\ busying \in 0..BusyMod - 1
  /\ status \in {"SLEEP", "RUNNING", "WAITING", "EXITED"}
  /\ ready \in Nat
  /\ ran \in Seq(Nat)
  /\ listed \in BOOLEAN /\ expired \in BOOLEAN /\ freed \in BOOLEAN
  /\ \A t \in Threads :
       pc[t] # "idle" => at[t] \in DOMAIN CallOf /\ op[t] \in CallOf[at[t]]

(* The task the worker has taken from the queue and not finished.          *)
Holding ==
  \/ at[Worker] \in {"dec", "running", "run"}
  \/ at[Worker] = "popping" /\ pc[Worker] = "idle" /\ ret[Worker] # 0
InHand == IF Holding THEN <<ret[Worker]>> ELSE <<>>

(* Every task AddThreadTask queued (ThreadObject.cpp:68) is run once, in   *)
(* the order it was queued, or is still in hand or in the queue; only the  *)
(* worker's own Clear, after a cancel, drops tasks.                        *)
TasksConserved ==
  LET taken == ran \o InHand
  IN  /\ \A i \in 1..Len(taken) : taken[i] = i
      /\ at[Worker] \notin {"clearing", "exit", "post", "exited"}
           => taken \o deque = [i \in 1..pushed |-> i]

(* When the epoll thread is the only caller, a Clear                       *)
(* (MsgDeque.h:264, without the mutex) meets no thread inside the deque.   *)
ClearIsAlone == \A t \in Threads : pc[t] = "clear" => mutex = NoThread

(* ... and what the worker leaves behind stays: nothing queued, and the    *)
(* status of an exited thread (ThreadObject.cpp:127, 128).                 *)
ExitIsFinal == at[Worker] = "exited" => deque = <<>> /\ status = "EXITED"

(* A worker leaves its queue cleared, alone and for good.                  *)
ExitIsClean == ClearIsAlone /\ ExitIsFinal

(* The object is destroyed only when no caller will touch it again, and the*)
(* worker neither, unless its owner's 30 seconds ran out                   *)
(* (ThreadObject.cpp:48): whatever was queued or ran when the cancel came. *)
FreedIsUnused ==
  freed => /\ at[Worker] = "exited" \/ expired
           /\ \A c \in Callers \ {Owner} : at[c] = "idle"

(* A queued task is run, unless the worker is cancelled first.             *)
TasksRun == \A n \in 1..MaxPush : pushed >= n ~> Len(ran) >= n \/ aborted

(* A cancel ends: the worker leaves, from wherever it is, whether or not   *)
(* its owner still waits, and the object is destroyed.                     *)
CancelEnds == at[Owner] = "cancel" ~> at[Worker] = "exited" /\ freed

=============================================================================
