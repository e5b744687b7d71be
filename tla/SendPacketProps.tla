--------------------------- MODULE SendPacketProps --------------------------
(***************************************************************************)
(* What the queue of packets owes its clients.                             *)
(***************************************************************************)
EXTENDS SendPacket, MsgDequeProps

(* The type invariant: senders have the elements of the deque in hand.     *)
SendTypeOK ==
  /\ TypeOK
  /\ at \in [Threads -> {"absent", "loop", "pop", "popping", "find", "write", "ended",
                         "idle", "pushing", "start", "stopping"}]
  /\ data \in [Clients -> Packets \cup {NoPacket}]
  /\ accepted \in Seq(Packets)
  /\ Len(accepted) = pushed
  /\ packet \in [Senders -> 0..pushed]
  /\ lentmp \in [Senders -> Nat]
  /\ done \in Seq(Nat) /\ Len(done) = pushed

(* The places a packet is in, with the number of times it is there.        *)
Places(n) ==
  Cardinality({i \in 1..Len(deque) : deque[i] = n})
    + Cardinality({t \in Senders : at[t] = "popping" /\ pc[t] = "idle" /\ ret[t] = n})
    + Cardinality({t \in Senders : packet[t] = n})
    + done[n]

(* A packet that was accepted is queued, or with one sender, or done: no   *)
(* sender takes it twice and none drops it, before or after a Stop         *)
(* (SendPacket.cpp:103).                                                   *)
PacketsConserved == \A n \in 1..pushed : Places(n) = 1

(* Once Stop has been called every sender leaves its loop, wherever it is  *)
(* (SendPacket.cpp:100): they poll, the token of AbortWait is not needed.   *)
SendersEnd == aborted ~> \A t \in Senders : at[t] = "ended"

(* A queued packet is taken and dealt with, unless a Stop comes first.     *)
PacketsHandled ==
  \A n \in 1..MaxPush :
    pushed >= n ~> aborted \/ (pushed >= n /\ done[n] > 0)
=============================================================================
