---------------------------- MODULE StreamService ---------------------------
(***************************************************************************)
(* What a peer of CTcpService that waits for its turn is promised: one     *)
(* stream to the service that carries its messages one by one, with no     *)
(* descriptors, events, tables or workers.                                 *)
(***************************************************************************)
EXTENDS Integers, Sequences

CONSTANT Hosts

VARIABLES
  live,       \* the hosts with a connection they have not ended
  sent,       \* sent[h]: how many messages h has sent
  received,   \* received[h]: the messages delivered as coming from h
  up          \* FALSE once the service has stopped

vars == <<live, sent, received, up>>

Init ==
  /\ live = {}
  /\ sent = [h \in Hosts |-> 0]
  /\ received = [h \in Hosts |-> <<>>]
  /\ up = TRUE

(* Nothing of h is on its way while the service is up.                     *)
HasTurn(h) == up => sent[h] = Len(received[h])

Connect(h) ==
  /\ up
  /\ h \notin live
  /\ live' = live \cup {h}
  /\ UNCHANGED <<sent, received, up>>

(* The peer's turn: it sends a message, or closes or resets its connection.*)
Send(h) ==
  /\ h \in live
  /\ HasTurn(h)
  /\ sent' = [sent EXCEPT ![h] = @ + 1]
  /\ UNCHANGED <<live, received, up>>

Leave(h) ==
  /\ h \in live
  /\ HasTurn(h)
  /\ live' = live \ {h}
  /\ UNCHANGED <<sent, received, up>>

(* The service's turn: the message is delivered whole, to a host that is   *)
(* still there.                                                            *)
Deliver(h) ==
  /\ up
  /\ h \in live
  /\ sent[h] = Len(received[h]) + 1
  /\ received' = [received EXCEPT ![h] = Append(@, sent[h])]
  /\ UNCHANGED <<live, sent, up>>

(* Only a stop ends the connection of a host that has not left.            *)
Stop ==
  /\ up
  /\ up' = FALSE
  /\ live' \subseteq live
  /\ UNCHANGED <<sent, received>>

Next ==
  \/ Stop
  \/ \E h \in Hosts : Connect(h) \/ Send(h) \/ Leave(h) \/ Deliver(h)

Spec == Init /\ [][Next]_vars
=============================================================================
