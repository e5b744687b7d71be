---------------------------- MODULE MCSendPacket ----------------------------
(***************************************************************************)
(* Two senders, one client, packets shorter and longer than a chunk.       *)
(***************************************************************************)
EXTENDS SendPacketProps

CONSTANTS s1, s2, c1, m

All == {s1, s2, c1, m}
UseSend == [t \in All |-> IF t \in {s1, s2} THEN {"PopFront"}
                          ELSE IF t = m THEN {"AbortWait"} ELSE {"PushBack"}]
Kinds == {[tcp |-> TRUE, len |-> 1],
          [tcp |-> TRUE, len |-> 3]}
=============================================================================
