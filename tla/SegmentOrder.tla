---------------------------- MODULE SegmentOrder ----------------------------
(***************************************************************************)
(* What the two lock counters of a kernel promise, without threads, locks  *)
(* or jumps.  begun[k] counts the segments whose item counts kernel k has  *)
(* fixed (the next segment may begin); finished[k] counts the segments     *)
(* whose output is complete.  The header comment of                        *)
(* synchronization_logic.cpp is the source: "we must ensure that T1 is     *)
(* always completely finished before T2 may execute Kj".                   *)
(***************************************************************************)
EXTENDS Naturals

CONSTANTS NumKernels,    \* kernels of the pipeline, in execution order
          DataParallel   \* those that may run several segments at once

Kernels == 1 .. NumKernels

VARIABLES begun, finished

orderVars == <<begun, finished>>

OrderInit == /\ begun = [k \in Kernels |-> 0]
             /\ finished = [k \in Kernels |-> 0]

\* Kernel k may begin its next segment only when every earlier kernel has
\* finished that segment.
Begin(k) == /\ k \in DataParallel
            /\ \A j \in 1 .. k - 1 : finished[j] > begun[k]
            /\ begun' = [begun EXCEPT ![k] = @ + 1]
            /\ UNCHANGED finished

\* Segments of a data-parallel kernel finish in order, after they began.
Finish(k) == /\ k \in DataParallel
             /\ finished[k] < begun[k]
             /\ finished' = [finished EXCEPT ![k] = @ + 1]
             /\ UNCHANGED begun

\* A kernel with state runs whole segments, one after the other.
Whole(k) == /\ k \notin DataParallel
            /\ \A j \in 1 .. k - 1 : finished[j] > finished[k]
            /\ finished' = [finished EXCEPT ![k] = @ + 1]
            /\ UNCHANGED begun

OrderNext == \E k \in Kernels : Begin(k) \/ Finish(k) \/ Whole(k)

OrderSpec == OrderInit /\ [][OrderNext]_orderVars
=============================================================================
