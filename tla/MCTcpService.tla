---------------------------- MODULE MCTcpService ----------------------------
(***************************************************************************)
(* One or two peers, descriptors and workers.                              *)
(***************************************************************************)
EXTENDS TcpServiceProps, TLC

CONSTANTS h1, h2, w1, w2

(* How often each host connects, and how much it sends.                    *)
One        == [h \in Hosts |-> 1]
Two        == [h \in Hosts |-> 2]
FirstTwice == [h \in Hosts |-> IF h = h1 THEN 2 ELSE 1]
FirstSends == [h \in Hosts |-> IF h = h1 THEN 2 ELSE 0]

(* Workers are interchangeable; descriptors are ordered.                   *)
Symmetry == Permutations(Workers)

(* What the next steps depend on: not the variables of an accept or a task *)
(* that has ended, nor those it has not set yet.                           *)
View ==
  <<peerVars, kernelVars, ep, batch, eventSize, bEpollWait, maxNumbers, tables,
    poolVars, received,
    IF ep \in {"loop", "wait"} THEN 0 ELSE served,
    IF ep \in {"add", "connection", "inetaddr"} THEN accepting ELSE None,
    [w \in Workers |->
       <<wpc[w],
         IF wpc[w] \in {"fetch", "exited"} THEN None ELSE fd[w],
         IF wpc[w] \in {"fetch", "exited", "peer", "lookup"} THEN None
         ELSE szPeerAddr[w],
         IF wpc[w] \in {"read", "deliver"} THEN buff[w] ELSE <<>> >>]>>
=============================================================================
