----------------------------- MODULE SendPacket -----------------------------
(***************************************************************************)
(* SendPacket (net/src/SendPacket.cpp) and CTcpConnection::Write: clients  *)
(* queue packets for a host, sender threads poll the queue, look the host  *)
(* up among the connections and write the packet to its socket.            *)
(*                                                                         *)
(* m_SendPackets is the CMsgDeque of module MsgDeque.  Who is connected is *)
(* the environment's business: a lookup finds the host or does not.  The   *)
(* bytes themselves are left out, with what write(2) takes of them and the *)
(* descriptor it is given: the module is about the packets, until they are *)
(* dealt with, well or badly.                                              *)
(***************************************************************************)
EXTENDS MsgDeque

CONSTANTS
  Senders,    \* the threads of send_proc
  Clients,    \* the callers of PushSendPacket
  Main,       \* the caller of Start and Stop
  Packets,    \* the packets clients send: [tcp, len]
  Chunk       \* 1024 bytes

ASSUME SendAssumption ==
  /\ IsFiniteSet(Senders) /\ Senders # {}
  /\ IsFiniteSet(Clients)
  /\ Main \notin Senders \cup Clients /\ Senders \cap Clients = {}
  /\ Threads = Senders \cup Clients \cup {Main}
  /\ Pollers = Senders
  /\ Calls = [t \in Threads |-> IF t \in Senders THEN {"PopFront"}
                                ELSE IF t = Main THEN {"AbortWait"}
                                ELSE {"PushBack"}]
  /\ Packets \subseteq [tcp : BOOLEAN, len : Nat]
  /\ Chunk \in Nat \ {0}

VARIABLES
  at,         \* at[t]: the statement thread t is at, outside CMsgDeque
  data,       \* data[t]: the packet client t is pushing
  accepted,   \* accepted[n]: the packet that the n-th element is
  packet,     \* packet[t]: the element sender t has in hand, or 0
  lentmp,     \* lentmp[t]: what Write has yet to write of it
  done        \* done[n]: how often WriteSendPacket returned for element n

sendVars == <<at, data, accepted, packet, lentmp, done>>
vars == <<dequeVars, sendVars>>

NoPacket == [tcp |-> FALSE, len |-> 0]

SendInit ==
  /\ Init
  /\ at = [t \in Threads |-> IF t \in Senders THEN "absent"
                             ELSE IF t = Main THEN "start" ELSE "idle"]
  /\ data = [t \in Clients |-> NoPacket]
  /\ accepted = <<>>
  /\ packet = [t \in Senders |-> 0]
  /\ lentmp = [t \in Senders |-> 0]
  /\ done = <<>>

Go(t, from, to) == at[t] = from /\ at' = [at EXCEPT ![t] = to]

(* A step in a call.  An element pushed is the packet of its client, with  *)
(* nothing written of it yet.                                              *)
Inner(t) ==
  /\ Step(t)
  /\ IF pushed' = pushed
     THEN UNCHANGED <<accepted, done>>
     ELSE /\ accepted' = Append(accepted, data[t])
          /\ done' = Append(done, 0)
  /\ UNCHANGED <<at, data, packet, lentmp>>

-----------------------------------------------------------------------------
(* Start creates the senders one after another.                            *)
Start(t) ==
  /\ at[Main] = "start"
  /\ at[t] = "absent"
  /\ at' = [at EXCEPT ![t] = "loop",
              ![Main] = IF \E s \in Senders \ {t} : at[s] = "absent" THEN "start" ELSE "idle"]
  /\ UNCHANGED <<dequeVars, data, accepted, packet, lentmp, done>>

Stop ==
  /\ Go(Main, "idle", "stopping")
  /\ Begin(Main, "AbortWait")
  /\ UNCHANGED <<data, accepted, packet, lentmp, done>>

(* PushSendPacket returns true whatever PushBack returned.                 *)
PushSendPacket(c) ==
  /\ Go(c, "idle", "pushing")
  /\ Begin(c, "PushBack")
  /\ \E p \in Packets : data' = [data EXCEPT ![c] = p]
  /\ UNCHANGED <<accepted, packet, lentmp, done>>

Queued(c) ==
  /\ pc[c] = "idle"
  /\ Go(c, "pushing", "idle")
  /\ data' = [data EXCEPT ![c] = NoPacket]
  /\ UNCHANGED <<dequeVars, accepted, packet, lentmp, done>>

-----------------------------------------------------------------------------
(* send_proc: the test of isAbort, then PopFront with a timeout of zero.   *)

(* Mutant: a loop without the test.                                        *)
TestNothing(t) ==
  /\ Go(t, "loop", "pop")
  /\ UNCHANGED <<dequeVars, data, accepted, packet, lentmp, done>>

TestAbort(t) ==
  /\ Go(t, "loop", IF aborted THEN "ended" ELSE "pop")
  /\ UNCHANGED <<dequeVars, data, accepted, packet, lentmp, done>>

Pop(t) ==
  /\ Go(t, "pop", "popping")
  /\ Begin(t, "PopFront")
  /\ UNCHANGED <<data, accepted, packet, lentmp, done>>

(* Mutant: a wait that timed out ends the thread.                          *)
PoppedEnds(t) ==
  /\ pc[t] = "idle"
  /\ Go(t, "popping", IF ret[t] = 0 THEN "ended" ELSE "find")
  /\ packet' = [packet EXCEPT ![t] = ret[t]]
  /\ UNCHANGED <<dequeVars, data, accepted, lentmp, done>>

Popped(t) ==
  /\ pc[t] = "idle"
  /\ Go(t, "popping", IF ret[t] = 0 THEN "loop" ELSE "find")
  /\ packet' = [packet EXCEPT ![t] = ret[t]]
  /\ UNCHANGED <<dequeVars, data, accepted, lentmp, done>>

Finish(t) ==
  /\ packet' = [packet EXCEPT ![t] = 0]
  /\ done' = [done EXCEPT ![packet[t]] = @ + 1]

(* WriteSendPacket: only TCP packets are sent, and only to a host in the   *)
(* table; the others are dropped, with a log entry.                        *)
DropPacket(t) ==
  /\ Go(t, "find", "loop")
  /\ Finish(t)
  /\ UNCHANGED <<dequeVars, data, accepted, lentmp>>

FindConnection(t) ==
  /\ Go(t, "find", "write")
  /\ accepted[packet[t]].tcp
  /\ lentmp' = [lentmp EXCEPT ![t] = accepted[packet[t]].len]
  /\ UNCHANGED <<dequeVars, data, accepted, packet, done>>

(* CTcpConnection::Write.  While more than a chunk is left it takes a chunk*)
(* off and calls write(2).  What that returns (some of the bytes, none, an *)
(* error) changes nothing here: the loop goes on, the packet counts as     *)
(* dealt with, and send_proc never comes back to it.                       *)
WriteChunk(t) ==
  /\ at[t] = "write"
  /\ lentmp[t] > Chunk
  /\ lentmp' = [lentmp EXCEPT ![t] = @ - Chunk]
  /\ UNCHANGED <<dequeVars, at, data, accepted, packet, done>>

(* Mutant: the packet is put back in hand.                                 *)
WriteRestKeeps(t) ==
  /\ Go(t, "write", "write")
  /\ lentmp[t] <= Chunk
  /\ done' = [done EXCEPT ![packet[t]] = @ + 1]
  /\ UNCHANGED <<dequeVars, data, accepted, packet, lentmp>>

WriteRest(t) ==
  /\ Go(t, "write", "loop")
  /\ lentmp[t] <= Chunk
  /\ Finish(t)
  /\ UNCHANGED <<dequeVars, data, accepted, lentmp>>

-----------------------------------------------------------------------------
send_proc(t) ==
  \/ TestAbort(t) \/ Pop(t) \/ Popped(t) \/ DropPacket(t) \/ FindConnection(t)
  \/ WriteChunk(t) \/ WriteRest(t)

SendNext ==
  \/ \E t \in Threads : Inner(t)
  \/ \E t \in Senders : Start(t) \/ send_proc(t)
  \/ \E c \in Clients : PushSendPacket(c) \/ Queued(c)
  \/ Stop

SendSpec == SendInit /\ [][SendNext]_vars

(***************************************************************************)
(* Fairness: every thread runs, and who keeps asking for m_mutex, or for a *)
(* token, gets it or times out.  Nobody has to push or to stop.           *)
(***************************************************************************)
SendFairness ==
  /\ WF_vars(\E t \in Senders : Start(t))
  /\ \A t \in Senders : WF_vars(send_proc(t) \/ Inner(t))
  /\ \A t \in Threads \ Senders : WF_vars(Inner(t))
  /\ \A t \in Threads :
       SF_vars((Lock(t) \/ SemTake(t) \/ SemTimeout(t)) /\ UNCHANGED sendVars)

FairSendSpec == SendSpec /\ SendFairness
=============================================================================
