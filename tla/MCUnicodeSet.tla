---------------------------- MODULE MCUnicodeSet ----------------------------
(***************************************************************************)
(* Instances of UnicodeSet for TLC: four quads of three code points, so    *)
(* that a quad may hold two intervals and a run may be split in the middle *)
(* with two quads left.                                                    *)
(***************************************************************************)
EXTENDS UnicodeSet

MCSet(q1, q2, q3, q4) == {cp \in 0 .. 11 : cp % 3 \in <<q1, q2, q3, q4>>[cp \div 3 + 1]}

\* Other sets: runs of each type and several lengths against every position.
MCOperands ==
  LET E == {}
      F == {0, 1, 2}
  IN { MCSet(E, {0, 2}, F, F), MCSet({1, 2}, F, {0}, E), MCSet(F, E, E, {2}),
       MCSet({0, 2}, {1}, {0, 1}, E), MCSet(F, {1}, {1, 2}, F), MCSet(E, F, E, F) }
=============================================================================
