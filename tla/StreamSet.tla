------------------------------ MODULE StreamSet ------------------------------
(***************************************************************************)
(* What a stream set between kernels promises, whatever memory holds it:   *)
(* a producer appends items, each consumer reads a prefix of them in       *)
(* order, and only items that every consumer still running has processed   *)
(* are given back to the producer.                                         *)
(***************************************************************************)
EXTENDS Naturals

CONSTANT Consumers  \* the kernels that read the stream set

VARIABLES
  produced,   \* number of items the producer has published
  processed,  \* consumer -> number of items it has finished with
  stopped,    \* consumers that have terminated
  consumed    \* number of items whose memory may be used again

streamVars == <<produced, processed, stopped, consumed>>

StreamInit ==
  /\ produced = 0
  /\ processed = [k \in Consumers |-> 0]
  /\ stopped = {}
  /\ consumed = 0

Produce ==
  /\ produced' \in Nat
  /\ produced' > produced
  /\ UNCHANGED <<processed, stopped, consumed>>

Process(k) ==
  /\ k \notin stopped
  /\ \E p \in processed[k] .. produced :
       processed' = [processed EXCEPT ![k] = p]
  /\ stopped' \in {stopped, stopped \union {k}}
  /\ UNCHANGED <<produced, consumed>>

Reclaim ==
  /\ \E c \in consumed + 1 .. produced :
       /\ \A k \in Consumers \ stopped : c <= processed[k]
       /\ consumed' = c
  /\ UNCHANGED <<produced, processed, stopped>>

StreamNext == Produce \/ Reclaim \/ \E k \in Consumers : Process(k)

StreamSpec == StreamInit /\ [][StreamNext]_streamVars
=============================================================================
