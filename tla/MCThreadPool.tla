---------------------------- MODULE MCThreadPool ----------------------------
(***************************************************************************)
(* Two dispatchers, and a main thread that creates and removes.            *)
(***************************************************************************)
EXTENDS ThreadPoolProps

CONSTANTS d1, d2, m, w1, w2

Two == {d1, d2, m}
UseTwo == [t \in Two |-> IF t = m THEN {"PushBack", "Swap"}
                         ELSE {"PopFront", "PushBack", "Clear"}]
=============================================================================
