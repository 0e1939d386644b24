-------------------------- MODULE MCSegmentPipeline --------------------------
(***************************************************************************)
(* Instances of SegmentPipeline for TLC.                                   *)
(***************************************************************************)
EXTENDS SegmentPipeline, TLC

CONSTANTS t1, t2, t3

MCTwo   == {t1, t2}
MCThree == {t1, t2, t3}
MCThreadSymmetry == Permutations(Threads)

\* Branching pipeline of six kernels: a source; a partition {2, 3} whose last
\* kernel is data-parallel; its consumer 4; and a last partition {5, 6} on a
\* disjoint path, which partition 2 jumps to and which itself jumps past the
\* end of the phase.
MCPartition6  == <<1, 2, 2, 3, 4, 4>>
MCFirst6      == <<1, 2, 4, 5, 7>>
MCJump6       == <<2, 4, 4, 5>>
MCProducers6  == <<{}, {1}, {2}, {3}, {1}, {5}>>

\* Source and two sinks.
MCPartition3  == <<1, 2, 3>>
MCFirst3      == <<1, 2, 3, 4>>
MCJump3       == <<2, 3, 4>>
MCProducers3  == <<{}, {1}, {1}>>
=============================================================================
