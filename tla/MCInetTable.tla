---------------------------- MODULE MCInetTable -----------------------------
(***************************************************************************)
(* Two threads that change the table, one of which can clear it, and a     *)
(* reader, all with the same names.                                        *)
(***************************************************************************)
EXTENDS InetTableProps, TLC

CONSTANTS a, b, r, k1, k2

UsesOf == [t \in {a, b, r} |-> IF t = a THEN {"add", "remove"}
                              ELSE IF t = b THEN {"add", "remove", "clear"} ELSE {"get"}]
Budget == [t \in {a, b, r} |-> IF t = r THEN 1 ELSE 2]

Names == Permutations({k1, k2})
=============================================================================
