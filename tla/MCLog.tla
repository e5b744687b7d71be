------------------------------- MODULE MCLog --------------------------------
(***************************************************************************)
(* One writer, two clients, messages of one cell and of more than a chunk, *)
(* and three days, the last of a month, the first and one of another year. *)
(***************************************************************************)
EXTENDS LogProps

CONSTANTS w1, c1, c2, m

SomeDays == <<[year |-> 2015, mon |-> 8, mday |-> 31],
              [year |-> 2015, mon |-> 9, mday |-> 1],
              [year |-> 2016, mon |-> 1, mday |-> 1]>>
=============================================================================
