--------------------------- MODULE MCGrepScheduler ---------------------------
(***************************************************************************)
(* Instances of GrepScheduler for TLC.                                     *)
(***************************************************************************)
EXTENDS GrepScheduler

CONSTANTS main, w1, w2, a, b, c, d

MCThreads == {main, w1, w2}
MCFiles   == {a, b, c, d}

\* A batch of two small files, a file that is its own group, and one more.
MCGroups == << <<a, b>>, <<c>>, <<d>> >>
MCGroupsShort == << <<a, b>>, <<c>> >>
=============================================================================
