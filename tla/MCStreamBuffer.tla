---------------------------- MODULE MCStreamBuffer ----------------------------
(***************************************************************************)
(* Small instances of StreamBuffer: a producer and two consumers.          *)
(***************************************************************************)
EXTENDS StreamBuffer, TLC

CONSTANTS t1, t2, t3

MCTwo   == {t1, t2}
MCThree == {t1, t2, t3}
MCThreadSymmetry == Permutations(Threads)

MCPipeline(dataParallel, jump, mayStop, width, nonFixed, lengths, stride) ==
  [dataParallel |-> dataParallel, jumpTarget |-> jump, mayStop |-> mayStop,
   blockWidth |-> width, nonFixedRate |-> nonFixed, segmentLengths |-> lengths,
   strideLength |-> stride]

MCNoJump == (2 :> 3) @@ (3 :> 4)

\* A data-parallel producer whose first consumer may stop; a data-parallel
\* consumer that jumps past the last kernel, which may stop; a consumer with
\* state that jumps past it and may stop.
MCPipelines ==
  { MCPipeline({1}, MCNoJump, {2}, 2, TRUE, {1, 2}, 2),
    MCPipeline({2}, (2 :> 4) @@ (3 :> 4), {3}, 2, FALSE, {1, 3}, 3),
    MCPipeline({}, (2 :> 4) @@ (3 :> 4), {2}, 1, FALSE, {1, 2, 7}, 3) }

MCSequential == { MCPipeline({}, MCNoJump, {}, 1, FALSE, {1, 2, 3}, 1) }
=============================================================================
