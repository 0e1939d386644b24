--------------------------- MODULE MCDynamicThreads ---------------------------
(***************************************************************************)
(* An instance of DynamicThreads for TLC.                                  *)
(***************************************************************************)
EXTENDS DynamicThreads

CONSTANTS w1, w2, w3, w4

\* One thread id more than the slots can hold.
MCWorkers == {w1, w2, w3, w4}
=============================================================================
