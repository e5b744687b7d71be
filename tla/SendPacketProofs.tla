-------------------------- MODULE SendPacketProofs --------------------------
(***************************************************************************)
(* Theorems about SendPacket, for any number of senders and clients, any   *)
(* packets and any size of a chunk.                                        *)
(***************************************************************************)
EXTENDS SendPacketProps, MsgDequeProofs

-----------------------------------------------------------------------------
(* Control.                                                                *)

SenderStatements == {"absent", "loop", "pop", "popping", "find", "write", "ended"}

(* Who is inside the deque; a sender has a packet in hand from the return  *)
(* of PopFront to the end of WriteSendPacket, and a client while it pushes.*)
SendAtOK ==
  /\ \A t \in Senders :
       /\ at[t] \in SenderStatements
       /\ pc[t] # "idle" => at[t] = "popping"
       /\ packet[t] # 0 <=> at[t] \in {"find", "write"}
  /\ \A c \in Clients :
       /\ at[c] \in {"idle", "pushing"}
       /\ pc[c] # "idle" => at[c] = "pushing"
       /\ at[c] = "pushing" => data[c] \in Packets
  /\ at[Main] \in {"start", "idle", "stopping"}

SendControl == SendTypeOK /\ CallOK /\ NumbersOK /\ InOrder /\ SendAtOK

LEMMA SendWho ==
  /\ Main \in Threads /\ Main \notin Senders /\ Main \notin Clients
  /\ Senders \subseteq Threads /\ Clients \subseteq Threads
  /\ Senders \cap Clients = {}
  /\ \A t \in Threads : t \in Senders \/ t \in Clients \/ t = Main
  /\ Calls[Main] = {"AbortWait"}
  /\ \A t \in Senders : Calls[t] = {"PopFront"}
  /\ \A c \in Clients : Calls[c] = {"PushBack"}
  BY SendAssumption DEF SendAssumption

(* The queue of packets is a task queue.                                   *)
LEMMA QueueUse == UsedAsQueue
  BY SendWho DEF UsedAsQueue

LEMMA SendDequeStep == [SendNext]_vars => [Next]_dequeVars
<1> SUFFICES ASSUME [SendNext]_vars PROVE [Next]_dequeVars
  OBVIOUS
<1>1. CASE UNCHANGED vars
  BY <1>1 DEF vars
<1>2. ASSUME NEW t \in Threads, Inner(t) PROVE [Next]_dequeVars
  BY <1>2 DEF Inner, Next
<1>3. ASSUME NEW t \in Senders, Start(t) \/ send_proc(t) PROVE [Next]_dequeVars
  BY <1>3, SendWho
     DEF Start, send_proc, TestAbort, Pop, Popped, DropPacket, FindConnection,
         WriteChunk, WriteRest, Next
<1>4. ASSUME NEW c \in Clients, PushSendPacket(c) \/ Queued(c) PROVE [Next]_dequeVars
  BY <1>4, SendWho DEF PushSendPacket, Queued, Next
<1>5. CASE Stop
  BY <1>5, SendWho DEF Stop, Next
<1> QED
  BY <1>1, <1>2, <1>3, <1>4, <1>5 DEF SendNext

(* So what was proved of a deque used as a queue holds of this one.        *)
LEMMA SendUsesDeque == SendSpec => Spec
  BY SendDequeStep, PTL DEF SendSpec, SendInit, Spec

LEMMA SendDeque == SendSpec => [](TypeOK /\ CallOK /\ InOrder /\ TokensMatchElements)
  BY SendUsesDeque, QueueUse, ControlCorrect, FirstInFirstOut, TokensMatch, PTL

(* However many senders poll it, the queue of packets is an atomic         *)
(* first-in first-out queue to all of them (SendPacket.h:55): each takes   *)
(* the oldest packet there is, and none is thrown away before a Stop.      *)
THEOREM PacketsAreQueued == SendSpec => Abstract!Safety
  BY SendUsesDeque, QueueUse, Refinement, PTL

(* Until a Stop there is a token for each packet in the queue, however     *)
(* many senders poll it (MsgDeque.h:132, 229).                             *)
THEOREM PacketTokens == SendSpec => []TokensMatchElements
  BY SendDeque, PTL

(* A step inside the deque: a client adds, a sender takes, or nothing      *)
(* moves.                                                                  *)
LEMMA SendInner ==
  ASSUME SendControl, NEW t \in Threads, Inner(t)
  PROVE  /\ pc[t] # "idle" /\ op' = op
         /\ \A s \in Threads : s # t => pc'[s] = pc[s] /\ ret'[s] = ret[s]
         /\ t \in Senders => at[t] = "popping"
         /\ t \in Clients => at[t] = "pushing"
         /\ op[t] \in QueueOps \cup {"DrainFront", "Swap"}
         /\ \/ StepAdds(t) /\ t \in Clients
            \/ StepTakes(t) /\ t \in Senders
            \/ StepKeeps(t)
<1>1. /\ pc[t] # "idle" /\ op' = op
      /\ \A s \in Threads : s # t => pc'[s] = pc[s] /\ ret'[s] = ret[s]
  BY InnerCall DEF Inner, SendControl, SendTypeOK
<1>2. /\ t \in Senders => at[t] = "popping" /\ op[t] \in {"PopFront", "DrainFront"}
      /\ t \in Clients => at[t] = "pushing" /\ op[t] = "PushBack"
      /\ t = Main => op[t] = "AbortWait"
  BY <1>1, SendWho DEF SendControl, SendAtOK, CallOK, Drains, DrainOf
<1>3. op[t] \in QueueOps \cup {"DrainFront", "Swap"}
  BY <1>2, SendWho DEF QueueOps
<1>4. StepAdds(t) \/ StepTakes(t) \/ StepEmpties(t) \/ StepKeeps(t)
  BY <1>3, StepEffect DEF Inner, SendControl, SendTypeOK
<1>5. ~StepEmpties(t) /\ (StepAdds(t) => t \in Clients) /\ (StepTakes(t) => t \in Senders)
  BY <1>2, SendWho DEF StepEmpties, StepAdds, StepTakes
<1> QED
  BY <1>1, <1>2, <1>3, <1>4, <1>5

(* A push records the client's packet, not done.                           *)
LEMMA Records ==
  ASSUME SendControl, NEW t \in Clients, Inner(t), StepAdds(t)
  PROVE  /\ pushed' = pushed + 1 /\ data[t] \in Packets
         /\ accepted' \in Seq(Packets) /\ Len(accepted') = pushed'
         /\ done' \in Seq(Nat) /\ Len(done') = pushed'
         /\ \A n \in 1..pushed :
              accepted'[n] = accepted[n] /\ done'[n] = done[n]
         /\ done'[pushed + 1] = 0
<1>1. data[t] \in Packets
  BY SendInner, SendWho DEF SendControl, SendAtOK
<1>2. pushed \in Nat /\ pushed' = pushed + 1
  BY DEF SendControl, SendTypeOK, TypeOK, StepAdds
<1>3. /\ accepted' = Append(accepted, data[t])
      /\ done' = Append(done, 0)
  BY <1>2 DEF Inner
<1>4. /\ accepted \in Seq(Packets) /\ Len(accepted) = pushed
      /\ done \in Seq(Nat) /\ Len(done) = pushed
  BY DEF SendControl, SendTypeOK
<1>5. /\ accepted' \in Seq(Packets) /\ Len(accepted') = pushed + 1
      /\ \A n \in 1..pushed : accepted'[n] = accepted[n]
  BY <1>1, <1>3, <1>4, AppendProperties
<1>6. /\ done' \in Seq(Nat) /\ Len(done') = pushed + 1
      /\ \A n \in 1..pushed : done'[n] = done[n]
      /\ done'[pushed + 1] = 0
  BY <1>3, <1>4, AppendProperties
<1> QED
  BY <1>1, <1>2, <1>5, <1>6

(* A thread outside the deque moves alone.                                 *)
MovesAlone(t) ==
  /\ UNCHANGED <<deque, pushed, accepted>>
  /\ \A s \in Threads \ {t} : at'[s] = at[s] /\ pc'[s] = pc[s] /\ ret'[s] = ret[s]
  /\ \A s \in Senders \ {t} : packet'[s] = packet[s] /\ lentmp'[s] = lentmp[s]
  /\ \A c \in Clients \ {t} : data'[c] = data[c]

LEMMA SenderAlone ==
  ASSUME SendControl, NEW t \in Senders, send_proc(t)
  PROVE  MovesAlone(t)
<1> USE SendWho DEF MovesAlone, SendControl, SendTypeOK, TypeOK, Go, dequeVars
<1>1. CASE TestAbort(t) \/ Popped(t) \/ FindConnection(t) \/ WriteChunk(t)
  BY <1>1 DEF TestAbort, Popped, FindConnection, WriteChunk
<1>2. CASE Pop(t)
  BY <1>2 DEF Pop, Begin, Goto
<1>3. CASE DropPacket(t) \/ WriteRest(t)
  BY <1>3 DEF DropPacket, WriteRest, Finish
<1> QED
  BY <1>1, <1>2, <1>3 DEF send_proc

(* The other threads leave the senders' packets as they are.               *)
OthersStep ==
  \/ \E c \in Clients : PushSendPacket(c) \/ Queued(c)
  \/ Stop

LEMMA OthersAlone ==
  ASSUME SendControl, OthersStep
  PROVE  /\ UNCHANGED <<packet, lentmp, done>>
         /\ \A t \in Senders : at'[t] = at[t] /\ pc'[t] = pc[t] /\ ret'[t] = ret[t]
         /\ \E t \in Clients \cup {Main} : MovesAlone(t)
<1> USE SendWho DEF MovesAlone, SendControl, SendTypeOK, TypeOK, Go, dequeVars
<1>1. ASSUME NEW c \in Clients, PushSendPacket(c) \/ Queued(c)
      PROVE  MovesAlone(c) /\ UNCHANGED <<packet, lentmp, done>>
  BY <1>1 DEF PushSendPacket, Queued, Begin, Goto
<1>2. ASSUME Stop PROVE MovesAlone(Main) /\ UNCHANGED <<packet, lentmp, done>>
  BY <1>2 DEF Stop, Begin, Goto
<1>3. PICK t \in Clients \cup {Main} :
        MovesAlone(t) /\ UNCHANGED <<packet, lentmp, done>>
  BY <1>1, <1>2 DEF OthersStep
<1> QED
  BY <1>3

LEMMA SendCases ==
  ASSUME SendNext
  PROVE  \/ \E t \in Threads : Inner(t)
         \/ \E t \in Senders : Start(t)
         \/ \E t \in Senders : send_proc(t)
         \/ OthersStep
  BY DEF SendNext, OthersStep

(* What WriteSendPacket does to the packet in hand.                        *)
LEMMA InHand ==
  ASSUME SendControl, NEW t \in Senders, at[t] \in {"find", "write"}
  PROVE  packet[t] \in 1..pushed /\ accepted[packet[t]] \in Packets
<1>1. packet[t] \in 1..pushed
  BY DEF SendControl, SendTypeOK, SendAtOK, TypeOK
<1> QED
  BY <1>1, ElementOfSeq DEF SendControl, SendTypeOK

LEMMA Finishes ==
  ASSUME SendControl, NEW t \in Senders, at[t] \in {"find", "write"}, Finish(t)
  PROVE  /\ packet'[t] = 0
         /\ done' \in Seq(Nat) /\ Len(done') = pushed
         /\ \A n \in 1..pushed : done'[n] = IF n = packet[t] THEN done[n] + 1 ELSE done[n]
<1>1. done \in Seq(Nat) /\ packet[t] \in 1..Len(done) /\ Len(done) = pushed
  BY InHand DEF SendControl, SendTypeOK
<1>2. done[packet[t]] + 1 \in Nat
  BY <1>1, ElementOfSeq
<1>3. done' = [done EXCEPT ![packet[t]] = done[packet[t]] + 1] /\ packet'[t] = 0
  BY DEF Finish, SendControl, SendTypeOK
<1> QED
  BY <1>1, <1>2, <1>3, ExceptSeq

LEMMA Sizes ==
  /\ Chunk \in Nat \ {0}
  /\ \A p \in Packets : p.tcp \in BOOLEAN /\ p.len \in Nat
  BY SendAssumption DEF SendAssumption

LEMMA SendTypeStep ==
  ASSUME SendControl, TypeOK', NumbersOK', [SendNext]_vars
  PROVE  SendTypeOK'
<1> USE SendWho, Sizes DEF SendTypeOK
<1>1. CASE UNCHANGED vars
  BY <1>1 DEF vars, sendVars, dequeVars, SendControl
<1>2. ASSUME NEW t \in Threads, Inner(t) PROVE SendTypeOK'
  <2>1. at' = at /\ data' = data /\ packet' = packet /\ lentmp' = lentmp
    BY <1>2 DEF Inner
  <2>2. CASE StepAdds(t) /\ t \in Clients
    <3>1. packet' \in [Senders -> 0..pushed']
      <4>1. pushed \in Nat /\ pushed' = pushed + 1 /\ packet \in [Senders -> 0..pushed]
        BY <1>2, <2>2, Records DEF SendControl, TypeOK
      <4>2. 0..pushed \subseteq 0..pushed'
        BY <4>1
      <4> QED
        BY <2>1, <4>1, <4>2
    <3> QED
      BY <1>2, <2>1, <2>2, <3>1, Records DEF SendControl
  <2>3. CASE pushed' = pushed
    BY <1>2, <2>1, <2>3 DEF Inner, SendControl
  <2> QED
    BY <1>2, <2>2, <2>3, SendInner DEF StepTakes, StepKeeps
<1>3. ASSUME NEW t \in Senders, Start(t) PROVE SendTypeOK'
  BY <1>3 DEF Start, SendControl, dequeVars
<1>4. ASSUME NEW t \in Senders, send_proc(t) PROVE SendTypeOK'
  <2>1. UNCHANGED <<deque, pushed, accepted, data>>
    BY <1>4 DEF send_proc, TestAbort, Pop, Begin, Popped, DropPacket, FindConnection,
                WriteChunk, WriteRest, dequeVars
  <2>2. /\ at' \in [Threads -> {"absent", "loop", "pop", "popping", "find", "write", "ended",
                              "idle", "pushing", "start", "stopping"}]
        /\ packet' \in [Senders -> 0..pushed]
    <3>1. ret[t] \in 0..pushed /\ 0 \in 0..pushed
      BY DEF SendControl, NumbersOK, TypeOK
    <3>2. packet \in [Senders -> 0..pushed]
      BY DEF SendControl
    <3>3. packet' \in [Senders -> 0..pushed]
      BY <1>4, <3>1, <3>2
         DEF send_proc, TestAbort, Pop, Popped, DropPacket, FindConnection, WriteChunk,
             WriteRest, Finish
    <3> QED
      BY <1>4, <3>3
         DEF send_proc, TestAbort, Pop, Popped, DropPacket, FindConnection, WriteChunk,
             WriteRest, Go, SendControl
  <2>3. lentmp' \in [Senders -> Nat]
    <3>1. CASE WriteChunk(t)
      <4>1. lentmp[t] - Chunk \in Nat
        BY <3>1 DEF WriteChunk, SendControl
      <4> QED
        BY <3>1, <4>1 DEF WriteChunk, SendControl
    <3>2. CASE FindConnection(t)
      <4>1. accepted[packet[t]].len \in Nat
        BY <3>2, InHand DEF FindConnection, Go
      <4> QED
        BY <3>2, <4>1 DEF FindConnection, SendControl
    <3> QED
      BY <1>4, <3>1, <3>2 DEF send_proc, TestAbort, Pop, Popped, DropPacket, WriteRest,
                              SendControl
  <2>4. done' \in Seq(Nat) /\ Len(done') = pushed
    <3>1. CASE DropPacket(t) \/ WriteRest(t)
      BY <3>1, Finishes DEF DropPacket, WriteRest, Go
    <3> QED
      BY <1>4, <3>1 DEF send_proc, TestAbort, Pop, Popped, FindConnection, WriteChunk,
                        SendControl
  <2> QED
    BY <2>1, <2>2, <2>3, <2>4 DEF SendControl
<1>5. CASE OthersStep
  <2>1. UNCHANGED <<pushed, accepted, packet, lentmp, done>>
    BY <1>5, OthersAlone DEF MovesAlone
  <2>2. /\ at' \in [Threads -> {"absent", "loop", "pop", "popping", "find", "write", "ended",
                              "idle", "pushing", "start", "stopping"}]
        /\ data' \in [Clients -> Packets \cup {NoPacket}]
    <3>1. ASSUME NEW c \in Clients, PushSendPacket(c)
          PROVE  data' \in [Clients -> Packets \cup {NoPacket}]
      <4>1. PICK p \in Packets : data' = [data EXCEPT ![c] = p]
        BY <3>1 DEF PushSendPacket
      <4> QED
        BY <4>1 DEF SendControl
    <3>2. ASSUME NEW c \in Clients, Queued(c)
          PROVE  data' \in [Clients -> Packets \cup {NoPacket}]
      BY <3>2 DEF Queued, SendControl
    <3> QED
      BY <1>5, <3>1, <3>2 DEF OthersStep, PushSendPacket, Queued, Stop, Go, SendControl
  <2> QED
    BY <2>1, <2>2 DEF SendControl
<1> QED
  BY <1>1, <1>2, <1>3, <1>4, <1>5, SendCases

LEMMA SendAtStep ==
  ASSUME SendControl, [SendNext]_vars
  PROVE  SendAtOK'
<1> USE SendWho DEF SendAtOK
<1>1. CASE UNCHANGED vars
  BY <1>1 DEF vars, sendVars, dequeVars, SendControl
<1>2. ASSUME NEW t \in Threads, Inner(t) PROVE SendAtOK'
  BY <1>2, SendInner DEF Inner, SendControl
<1>3. ASSUME NEW t \in Senders, Start(t) PROVE SendAtOK'
  <2>1. /\ pc' = pc /\ packet' = packet /\ data' = data
        /\ at'[t] = "loop" /\ at[t] = "absent" /\ at'[Main] \in {"start", "idle"}
        /\ \A s \in Threads : s # t /\ s # Main => at'[s] = at[s]
    BY <1>3 DEF Start, SendControl, SendTypeOK, dequeVars
  <2> QED
    BY <2>1 DEF SendControl, SenderStatements
<1>4. ASSUME NEW t \in Senders, send_proc(t) PROVE SendAtOK'
  <2>1. /\ at'[t] \in SenderStatements
        /\ pc'[t] # "idle" => at'[t] = "popping"
        /\ packet'[t] # 0 <=> at'[t] \in {"find", "write"}
    <3> USE DEF SendControl, SendTypeOK, TypeOK, SenderStatements, Go
    <3>1. CASE TestAbort(t) \/ Popped(t) \/ FindConnection(t) \/ WriteChunk(t)
      BY <3>1 DEF TestAbort, Popped, FindConnection, WriteChunk, dequeVars
    <3>2. CASE Pop(t)
      BY <3>2 DEF Pop, Begin, Goto
    <3>3. CASE DropPacket(t) \/ WriteRest(t)
      BY <3>3 DEF DropPacket, WriteRest, Finish, dequeVars
    <3> QED
      BY <1>4, <3>1, <3>2, <3>3 DEF send_proc
  <2>2. data' = data
    BY <1>4 DEF send_proc, TestAbort, Pop, Popped, DropPacket, FindConnection,
                WriteChunk, WriteRest
  <2> QED
    BY <1>4, <2>1, <2>2, SenderAlone DEF MovesAlone, SendControl
<1>5. CASE OthersStep
  <2>1. ASSUME NEW c \in Clients, PushSendPacket(c) \/ Queued(c)
        PROVE  /\ MovesAlone(c) /\ packet' = packet
               /\ at'[c] \in {"idle", "pushing"}
               /\ pc'[c] # "idle" => at'[c] = "pushing"
               /\ at'[c] = "pushing" => data'[c] \in Packets
    <3> USE DEF SendControl, SendTypeOK, TypeOK, Go, dequeVars
    <3>1. CASE PushSendPacket(c)
      BY <3>1 DEF PushSendPacket, Begin, Goto, MovesAlone
    <3>2. CASE Queued(c)
      BY <3>2 DEF Queued, MovesAlone
    <3> QED
      BY <2>1, <3>1, <3>2
  <2>2. ASSUME Stop PROVE MovesAlone(Main) /\ packet' = packet /\ at'[Main] = "stopping"
                          /\ data' = data
    BY <2>2 DEF Stop, Go, Begin, Goto, MovesAlone, SendControl, SendTypeOK, TypeOK
  <2> QED
    BY <1>5, <2>1, <2>2 DEF OthersStep, MovesAlone, SendControl
<1> QED
  BY <1>1, <1>2, <1>3, <1>4, <1>5, SendCases

LEMMA SendNumbersStep ==
  ASSUME SendControl, [SendNext]_vars
  PROVE  NumbersOK'
<1>1. CASE UNCHANGED dequeVars
  BY <1>1 DEF SendControl, NumbersOK, dequeVars
<1>2. ASSUME NEW t \in Threads, Inner(t) PROVE NumbersOK'
  BY <1>2, SendInner, NumbersStep DEF SendControl, SendTypeOK, Inner
<1>3. ASSUME NEW t \in Threads, NEW o, Begin(t, o) PROVE NumbersOK'
  BY <1>3, NumbersBegin DEF SendControl, SendTypeOK
<1>4. ASSUME NEW t \in Senders, Start(t) \/ send_proc(t) PROVE NumbersOK'
  BY <1>1, <1>3, <1>4, SendWho
     DEF Start, send_proc, TestAbort, Pop, Popped, DropPacket, FindConnection,
         WriteChunk, WriteRest
<1>5. CASE OthersStep
  BY <1>1, <1>3, <1>5, SendWho DEF OthersStep, PushSendPacket, Queued, Stop
<1> QED
  BY <1>1, <1>2, <1>4, <1>5, SendCases DEF vars

LEMMA SendControlInit == SendInit => SendTypeOK /\ NumbersOK /\ SendAtOK
<1> SUFFICES ASSUME SendInit PROVE SendTypeOK /\ NumbersOK /\ SendAtOK
  OBVIOUS
<1>1. NumbersOK /\ TypeOK
  BY NumbersInit, TypeInit DEF SendInit
<1>2. /\ accepted \in Seq(Packets) /\ done \in Seq(Nat)
      /\ Len(accepted) = pushed /\ Len(done) = pushed
  BY EmptySeq DEF SendInit, Init
<1>3. packet \in [Senders -> 0..pushed]
  BY DEF SendInit, Init
<1>4. at \in [Threads -> {"absent", "loop", "pop", "popping", "find", "write", "ended",
                         "idle", "pushing", "start", "stopping"}]
  BY DEF SendInit
<1>5. SendTypeOK
  BY <1>1, <1>2, <1>3, <1>4 DEF SendInit, SendTypeOK
<1>6. SendAtOK
  BY SendWho DEF SendInit, Init, SendAtOK, SenderStatements
<1> QED
  BY <1>1, <1>5, <1>6

(* Every element of the queue is a packet a client pushed, and the deque   *)
(* is a gapless run of those pushed last.                                  *)
THEOREM SendTypeCorrect == SendSpec => []SendControl
<1>1. SendTypeOK /\ CallOK /\ NumbersOK /\ InOrder /\ SendAtOK /\ TypeOK'
        /\ [SendNext]_vars => SendTypeOK' /\ NumbersOK' /\ SendAtOK'
  BY SendNumbersStep, SendTypeStep, SendAtStep DEF SendControl
<1> QED
  BY <1>1, SendDeque, SendControlInit, PTL DEF SendSpec, SendControl

-----------------------------------------------------------------------------
(* A packet is in one place.                                               *)

(* The element sender t has taken and not dealt with, or 0.                *)
Hand(t) == IF at[t] = "popping" THEN ret[t] ELSE packet[t]

(* The number of elements that were taken out of the deque.                *)
Taken == pushed - Len(deque)

HandsOK ==
  /\ \A s, t \in Senders : Hand(s) = Hand(t) /\ Hand(s) # 0 => s = t
  /\ \A t \in Senders : Hand(t) \in 0..Taken
  /\ \A n \in 1..pushed :
       done[n] = IF n <= Taken /\ \A t \in Senders : Hand(t) # n THEN 1 ELSE 0

LEMMA TakenType ==
  ASSUME SendControl
  PROVE  Taken \in Nat /\ Len(deque) \in Nat /\ pushed \in Nat /\ Taken <= pushed
<1>1. Len(deque) \in Nat /\ pushed \in Nat
  BY LenProperties DEF SendControl, SendTypeOK, TypeOK
<1>2. Len(deque) <= pushed
  <2>1. CASE Len(deque) = 0
    BY <1>1, <2>1
  <2>2. CASE Len(deque) # 0
    <3>1. 1 \in 1..Len(deque)
      BY <1>1, <2>2
    <3>2. deque[1] = pushed - Len(deque) + 1 /\ deque[1] \in 1..pushed
      BY <3>1 DEF SendControl, InOrder, Abstract!Consecutive, NumbersOK
    <3> QED
      BY <1>1, <3>2
  <2> QED
    BY <2>1, <2>2
<1> QED
  BY <1>1, <1>2 DEF Taken

LEMMA HandsInner ==
  ASSUME SendControl, HandsOK, NEW t \in Threads, Inner(t)
  PROVE  HandsOK'
<1> USE SendWho DEF HandsOK
<1>1. at' = at /\ packet' = packet
  BY DEF Inner
<1>2. \A s \in Senders : s # t => Hand(s)' = Hand(s)
  BY <1>1, SendInner DEF Hand
<1>3. CASE StepAdds(t) /\ t \in Clients
  <2>1. pushed' = pushed + 1 /\ deque' = Append(deque, pushed + 1) /\ deque \in Seq(Nat)
    BY <1>3 DEF StepAdds, SendControl, SendTypeOK, TypeOK
  <2>2. Len(deque') = Len(deque) + 1
    BY <2>1, TakenType, AppendProperties
  <2>3. Taken' = Taken
    BY <2>1, <2>2, TakenType DEF Taken
  <2>4. \A s \in Senders : Hand(s)' = Hand(s)
    BY <1>2, <1>3
  <2>5. /\ \A n \in 1..pushed : done'[n] = done[n]
        /\ done'[pushed + 1] = 0
    BY <1>3, Records
  <2>6. \A n \in 1..pushed' : n \in 1..pushed \/ (n = pushed + 1 /\ ~(n <= Taken))
    BY <2>1, TakenType
  <2> QED
    BY <2>3, <2>4, <2>5, <2>6
<1>4. CASE StepTakes(t) /\ t \in Senders
  <2>1. deque # <<>> /\ deque' = Tail(deque) /\ pushed' = pushed /\ deque \in Seq(Nat)
    BY <1>4 DEF StepTakes, SendControl, SendTypeOK, TypeOK
  <2>2. /\ Len(deque') = Len(deque) - 1 /\ Head(deque) = deque[1] /\ 1 \in 1..Len(deque)
    BY <2>1, TakenType, HeadTailProperties, EmptySeq
  <2>3. Taken' = Taken + 1
    BY <2>1, <2>2, TakenType DEF Taken
  <2>4. deque[1] = Taken + 1
    BY <2>2 DEF Taken, SendControl, InOrder, Abstract!Consecutive
  <2>5. Hand(t)' = Taken + 1 /\ Hand(t) = 0
    BY <1>1, <1>4, <2>2, <2>4, SendInner DEF Hand, StepTakes, SendControl, NumbersOK
  <2>6. done' = done
    BY <2>1 DEF Inner
  <2>7. \A n \in 1..pushed :
          (n <= Taken' /\ \A s \in Senders : Hand(s)' # n)
            <=> (n <= Taken /\ \A s \in Senders : Hand(s) # n)
    <3> TAKE n \in 1..pushed
    <3>1. CASE n = Taken + 1
      BY <1>4, <2>5, <3>1, TakenType
    <3>2. CASE n # Taken + 1
      <4>1. n <= Taken' <=> n <= Taken
        BY <2>3, <3>2, TakenType
      <4>2. \A s \in Senders : Hand(s)' # n <=> Hand(s) # n
        BY <1>2, <2>5, <3>2
      <4> QED
        BY <4>1, <4>2
    <3> QED
      BY <3>1, <3>2
  <2>8. \A s \in Senders : Hand(s)' \in 0..Taken'
    <3>1. \A s \in Senders : Hand(s) \in 0..Taken'
      BY <2>3, TakenType
    <3> QED
      BY <1>2, <2>3, <2>5, <3>1, TakenType
  <2>9. \A r, s \in Senders : Hand(r)' = Hand(s)' /\ Hand(s)' # 0 => r = s
    <3>1. \A s \in Senders : s # t => Hand(s)' # Hand(t)'
      BY <1>2, <2>5, TakenType
    <3> QED
      BY <1>2, <3>1
  <2> QED
    BY <2>1, <2>6, <2>7, <2>8, <2>9
<1>5. CASE StepKeeps(t)
  <2>1. deque' = deque /\ pushed' = pushed /\ done' = done
    BY <1>5 DEF StepKeeps, Inner
  <2>2. \A s \in Senders : Hand(s)' = Hand(s)
    BY <1>1, <1>2, <1>5, SendInner DEF Hand, StepKeeps, SendControl, NumbersOK
  <2> QED
    BY <2>1, <2>2 DEF Taken
<1> QED
  BY <1>3, <1>4, <1>5, SendInner

LEMMA HandsKept ==
  ASSUME HandsOK, UNCHANGED <<deque, pushed, done>>,
         \A t \in Senders : Hand(t)' = Hand(t)
  PROVE  HandsOK'
  BY DEF HandsOK, Taken

LEMMA HandsSender ==
  ASSUME SendControl, HandsOK, NEW t \in Senders, send_proc(t)
  PROVE  HandsOK'
<1> USE SendWho
<1>1. deque' = deque /\ pushed' = pushed
  BY SenderAlone DEF MovesAlone
<1>2. \A s \in Senders : s # t => Hand(s)' = Hand(s)
  BY SenderAlone DEF MovesAlone, Hand
<1>3. CASE TestAbort(t) \/ Popped(t) \/ FindConnection(t) \/ WriteChunk(t)
  <2>1. done' = done /\ Hand(t)' = Hand(t)
    BY <1>3 DEF TestAbort, Popped, FindConnection, WriteChunk, Go, dequeVars, Hand,
                SendControl, SendTypeOK
  <2> QED
    BY <1>1, <1>2, <2>1, HandsKept
<1>4. CASE Pop(t)
  <2>1. done' = done /\ Hand(t) = 0 /\ Hand(t)' = 0
    BY <1>4 DEF Pop, Begin, Go, Hand, SendControl, SendTypeOK, TypeOK, SendAtOK
  <2> QED
    BY <1>1, <1>2, <2>1, HandsKept
<1>5. CASE DropPacket(t) \/ WriteRest(t)
  <2>1. at[t] \in {"find", "write"} /\ at'[t] = "loop" /\ Finish(t)
    BY <1>5 DEF DropPacket, WriteRest, Go, SendControl, SendTypeOK
  <2>2. Hand(t) = packet[t] /\ packet[t] \in 1..pushed /\ Hand(t)' = 0
    BY <2>1, InHand, Finishes DEF Hand
  <2>3. Hand(t) \in 1..Taken
    BY <2>2, TakenType DEF HandsOK
  <2>4. \A n \in 1..pushed : done'[n] = IF n = Hand(t) THEN done[n] + 1 ELSE done[n]
    BY <2>1, <2>2, Finishes
  <2>5. Taken' = Taken
    BY <1>1 DEF Taken
  <2>6. \A n \in 1..pushed :
          done'[n] = IF n <= Taken /\ \A s \in Senders : Hand(s)' # n THEN 1 ELSE 0
    <3> TAKE n \in 1..pushed
    <3>1. CASE n = Hand(t)
      <4>1. n <= Taken /\ \A s \in Senders : Hand(s)' # n
        BY <1>2, <2>2, <2>3, <3>1, TakenType DEF HandsOK
      <4>2. done[n] = 0
        BY <3>1 DEF HandsOK
      <4> QED
        BY <2>4, <3>1, <4>1, <4>2
    <3>2. CASE n # Hand(t)
      <4>1. \A s \in Senders : Hand(s)' # n <=> Hand(s) # n
        BY <1>2, <2>2, <3>2
      <4> QED
        BY <2>4, <3>2, <4>1 DEF HandsOK
    <3> QED
      BY <3>1, <3>2
  <2>7. \A s \in Senders : Hand(s)' \in 0..Taken
    BY <1>2, <2>2, TakenType DEF HandsOK
  <2>8. \A r, s \in Senders : Hand(r)' = Hand(s)' /\ Hand(s)' # 0 => r = s
    BY <1>2, <2>2 DEF HandsOK
  <2> QED
    BY <1>1, <2>5, <2>6, <2>7, <2>8 DEF HandsOK
<1> QED
  BY <1>3, <1>4, <1>5 DEF send_proc

LEMMA HandsStep ==
  ASSUME SendControl, HandsOK, [SendNext]_vars
  PROVE  HandsOK'
<1>1. CASE UNCHANGED vars
  BY <1>1, HandsKept DEF vars, sendVars, dequeVars, Hand
<1>2. ASSUME NEW t \in Senders, Start(t) PROVE HandsOK'
  <2>1. /\ UNCHANGED <<deque, pushed, done, ret, packet>>
        /\ at[t] = "absent" /\ at'[t] = "loop"
        /\ \A s \in Senders : s # t => at'[s] = at[s]
    BY <1>2, SendWho DEF Start, dequeVars, SendControl, SendTypeOK
  <2> QED
    BY <2>1, HandsKept DEF Hand
<1>3. CASE OthersStep
  <2>1. /\ UNCHANGED <<deque, pushed, done>>
        /\ \A s \in Senders : Hand(s)' = Hand(s)
    BY <1>3, OthersAlone DEF MovesAlone, Hand
  <2> QED
    BY <2>1, HandsKept
<1> QED
  BY <1>1, <1>2, <1>3, HandsInner, HandsSender, SendCases

LEMMA HandsInit == SendInit => HandsOK
<1> SUFFICES ASSUME SendInit PROVE HandsOK
  OBVIOUS
<1>1. pushed = 0 /\ Taken = 0
  <2>1. pushed = 0 /\ Len(deque) = 0
    BY EmptySeq DEF SendInit, Init
  <2> QED
    BY <2>1 DEF Taken
<1>2. \A t \in Senders : Hand(t) = 0
  BY SendWho DEF SendInit, Init, Hand
<1> QED
  BY <1>1, <1>2 DEF HandsOK

LEMMA HandsCorrect == SendSpec => []HandsOK
<1>1. SendControl /\ HandsOK /\ [SendNext]_vars => HandsOK'
  BY HandsStep
<1> QED
  BY <1>1, HandsInit, SendTypeCorrect, PTL DEF SendSpec

(* The three sets of Places count an element once at most.                 *)
LEMMA PlacesCount ==
  ASSUME SendControl, HandsOK, NEW n \in 1..pushed
  PROVE  Places(n) = 1
<1> DEFINE Queue == {i \in 1..Len(deque) : deque[i] = n}
           Popping == {t \in Senders : at[t] = "popping" /\ pc[t] = "idle" /\ ret[t] = n}
           Holding == {t \in Senders : packet[t] = n}
<1>1. /\ \A i \in 1..Len(deque) : deque[i] = Taken + i
      /\ Taken \in Nat /\ Len(deque) = pushed - Taken /\ Len(deque) \in Nat /\ pushed \in Nat
  BY TakenType DEF Taken, SendControl, InOrder, Abstract!Consecutive
<1>2. \A t \in Senders :
        /\ t \in Popping <=> at[t] = "popping" /\ Hand(t) = n
        /\ t \in Holding <=> at[t] # "popping" /\ Hand(t) = n
  BY SendWho DEF Hand, SendControl, SendAtOK, NumbersOK
<1>3. Queue # {} <=> n > Taken
  <2>1. ASSUME n > Taken PROVE n - Taken \in Queue
    <3>1. n - Taken \in 1..Len(deque)
      BY <1>1, <2>1
    <3> QED
      BY <1>1, <3>1
  <2>2. ASSUME NEW i \in Queue PROVE n > Taken
    BY <1>1, <2>2
  <2> QED
    BY <2>1, <2>2
<1>4. \A i, j \in Queue : i = j
  BY <1>1
<1>5. \A s, t \in Popping \cup Holding : s = t
  BY <1>2 DEF HandsOK
<1>6. Popping \cap Holding = {}
  BY <1>2
<1>7. Popping \cup Holding = {} <=> \A t \in Senders : Hand(t) # n
  BY <1>2
<1>8. n > Taken => Popping \cup Holding = {}
  BY <1>1, <1>7 DEF HandsOK
<1>9. done[n] = IF n <= Taken /\ Popping \cup Holding = {} THEN 1 ELSE 0
  BY <1>7 DEF HandsOK
<1>10. Places(n) = Cardinality(Queue) + Cardinality(Popping) + Cardinality(Holding) + done[n]
  BY DEF Places
<1> HIDE DEF Queue, Popping, Holding
<1>11. Cardinality(Queue) \in {0, 1} /\ (Cardinality(Queue) = 0 <=> Queue = {})
  BY <1>4, AtMostOne
<1>12. Cardinality(Popping) \in {0, 1} /\ (Cardinality(Popping) = 0 <=> Popping = {})
  BY <1>5, AtMostOne
<1>13. Cardinality(Holding) \in {0, 1} /\ (Cardinality(Holding) = 0 <=> Holding = {})
  BY <1>5, AtMostOne
<1>14. Popping = {} \/ Holding = {}
  BY <1>5, <1>6
<1> QED
  BY <1>1, <1>3, <1>8, <1>9, <1>10, <1>11, <1>12, <1>13, <1>14

(* A packet that was accepted is queued, or with one sender, or done: for  *)
(* any number of senders no packet is taken twice and none is dropped,     *)
(* before or after a Stop (SendPacket.cpp:103).                            *)
THEOREM PacketsConservedCorrect == SendSpec => []PacketsConserved
<1>1. SendControl /\ HandsOK => PacketsConserved
  BY PlacesCount DEF PacketsConserved
<1> QED
  BY <1>1, HandsCorrect, SendTypeCorrect, PTL

=============================================================================
