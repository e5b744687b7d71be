------------------------- MODULE MCServiceLifecycle -------------------------
(***************************************************************************)
(* Two starts, the second also while the first thread runs, and two failing*)
(* calls.                                                                  *)
(***************************************************************************)
EXTENDS ServiceLifecycleProps
=============================================================================
