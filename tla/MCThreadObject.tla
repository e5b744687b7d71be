--------------------------- MODULE MCThreadObject ---------------------------
(***************************************************************************)
(* A worker and the owner that also adds tasks: the epoll thread of lynetx.*)
(***************************************************************************)
EXTENDS ThreadObjectProps, MsgDequeProps, TLC

CONSTANTS w, o

Alone == {w, o}
UseAlone == [t \in Alone |-> IF t = w THEN {"PopFront", "Clear"}
                             ELSE {"PushBack", "AbortWait"}]
=============================================================================
