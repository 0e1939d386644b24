--------------------------- MODULE GrepScheduler ---------------------------
(***************************************************************************)
(* GrepEngine::searchAllFiles: a team of threads takes groups of files     *)
(* from a shared counter, searches them into one result string per group,  *)
(* and the engine's own thread prints the results in the order of the      *)
(* groups while the search goes on.                                        *)
(*                                                                         *)
(* A result string is abstracted to the number of files of its group whose *)
(* result or error message it holds.  The search of a file is one step:    *)
(* whether it matches is chosen initially.  mFileStatus and grepMatchFound *)
(* are plain variables; each store is one step, which is what a machine    *)
(* that keeps the order of stores shows of them.                           *)
(***************************************************************************)
EXTENDS Naturals, Sequences

CONSTANTS
  Threads,      \* TaskThreads threads, the engine's own among them
  EngineThread, \* mEngineThread
  Files,
  StdIn,        \* the input "-"
  FileGroups,   \* mFileGroups: a sequence of non-empty sequences of files
  Unreadable,   \* files that openFile fails to open
  GrepStdIn,    \* mGrepStdIn
  StdInIsPipe,  \* fstat reports size 0 for the standard input
  EngineKinds   \* the engines to choose from

ASSUME ThreadAssumption == EngineThread \in Threads

ASSUME FileAssumption ==
  /\ FileGroups \in Seq(Seq(Files) \ {<<>>})
  /\ Unreadable \subseteq Files
  /\ StdIn \notin Files
  /\ GrepStdIn \in BOOLEAN
  /\ StdInIsPipe \in BOOLEAN
  /\ EngineKinds \subseteq {"QuietMode", "MatchOnly", "EmitMatches"}

Groups == 1 .. Len(FileGroups)

VARIABLES
  engineKind,      \* mEngineKind
  matching,        \* the inputs that contain a match
  nextFileToGrep,  \* the atomic counters
  nextFileToPrint,
  fileStatus,      \* mFileStatus
  resultStrs,      \* mResultStrs
  grepMatchFound,
  output,          \* what was written to llvm::outs()
  pc, fileIdx,
  grepResult       \* thread -> doGrep has counted a match in its group

vars == <<engineKind, matching, nextFileToGrep, nextFileToPrint, fileStatus,
          resultStrs, grepMatchFound, output, pc, fileIdx, grepResult>>
inputs == <<engineKind, matching>>
printing == <<nextFileToPrint, output>>

\* What is written to llvm::outs(): a group's result string, or that of the
\* standard input as group 0.
Entry == [group : Groups \cup {0}, shown : Nat]

\* Types of the engine's fields and of each thread's local state; the printing
\* index passes the last group by one at most.
TypeOK ==
  /\ engineKind \in EngineKinds
  /\ matching \subseteq Files \cup {StdIn}
  /\ nextFileToGrep \in Nat \ {0}
  /\ nextFileToPrint \in 1 .. Len(FileGroups) + 1
  /\ fileStatus \in [Groups -> {"Pending", "GrepComplete", "PrintComplete"}]
  /\ resultStrs \in [Groups -> Nat]
  /\ grepMatchFound \in BOOLEAN
  /\ output \in Seq(Entry)
  /\ pc \in [Threads -> {"start", "grep", "complete", "record", "next", "flush",
                         "drain", "stdin", "join", "exited", "returned"}]
  /\ fileIdx \in [Threads -> Nat]
  /\ grepResult \in [Threads -> BOOLEAN]

-----------------------------------------------------------------------------
At(t, label) == pc[t] = label
Goto(t, label) == pc' = [pc EXCEPT ![t] = label]

Init ==
  /\ engineKind \in EngineKinds
  /\ matching \in SUBSET (Files \cup {StdIn})
  /\ nextFileToGrep = 1
  /\ nextFileToPrint = 1
  /\ fileStatus = [g \in Groups |-> "Pending"]
  /\ resultStrs = [g \in Groups |-> 0]
  /\ grepMatchFound = FALSE
  /\ output = <<>>
  /\ pc = [t \in Threads |-> "start"]
  /\ fileIdx = [t \in Threads |-> 0]
  /\ grepResult = [t \in Threads |-> FALSE]

\* Seeded faults: the last group is taken but not searched; the engine's
\* thread returns without printing the rest.
LoopShort(t, idx) == IF idx < Len(FileGroups) THEN "grep"
                     ELSE IF t = EngineThread THEN "drain" ELSE "exited"
LoopUnprinted(t, idx) == IF idx <= Len(FileGroups) THEN "grep"
                         ELSE IF t = EngineThread THEN "join" ELSE "exited"

\* Where a thread goes with group idx: past the last group a worker exits.
Loop(t, idx) == IF idx <= Len(FileGroups) THEN "grep"
                ELSE IF t = EngineThread THEN "drain" ELSE "exited"

\* Seeded fault: the counter is read and stored, not incremented atomically.
TakeSeen(t) == fileIdx[t] + 1

\* The number mNextFileToGrep++ returns.
Take(t) == nextFileToGrep

\* The engine's thread prints what is ready each time it has taken a group.
TakeGroup(t) ==
  /\ At(t, "start") \/ At(t, "next")
  /\ fileIdx' = [fileIdx EXCEPT ![t] = Take(t)]
  /\ nextFileToGrep' = nextFileToGrep + 1
  /\ grepResult' = [grepResult EXCEPT ![t] = FALSE]
  /\ Goto(t, IF At(t, "next") /\ t = EngineThread THEN "flush" ELSE Loop(t, Take(t)))
  /\ UNCHANGED <<inputs, printing, fileStatus, resultStrs, grepMatchFound>>

\* EmitMatchesEngine skips a file that cannot be opened; the doGrep of the
\* other engines returns 0 for the whole group.
GivesUp(f) == f \in Unreadable /\ engineKind # "EmitMatches"

\* Seeded faults: a group ends after its first file; an error is a match.
EndsGroupEarly(g) == TRUE
CountsErrors(t, f) == grepResult[t] \/ f \in matching

EndsGroup(g) == resultStrs[g] + 1 = Len(FileGroups[g])
Counts(t, f) == ~GivesUp(f) /\ (grepResult[t] \/ f \in matching \ Unreadable)

\* doGrep searches the next file of the group.  The EmitMatches engine sets
\* grepMatchFound before it returns.
GrepFile(t) ==
  LET g == fileIdx[t]
      f == FileGroups[g][resultStrs[g] + 1]
      ends == EndsGroup(g) \/ GivesUp(f) IN
  /\ At(t, "grep")
  /\ resultStrs' = [resultStrs EXCEPT ![g] = @ + 1]
  /\ grepResult' = [grepResult EXCEPT ![t] = Counts(t, f)]
  /\ grepMatchFound' = (\/ grepMatchFound
                        \/ ends /\ engineKind = "EmitMatches" /\ Counts(t, f))
  /\ Goto(t, IF ends THEN "complete" ELSE "grep")
  /\ UNCHANGED <<inputs, nextFileToGrep, printing, fileStatus, fileIdx>>

CompleteGroup(t) ==
  /\ At(t, "complete")
  /\ fileStatus' = [fileStatus EXCEPT ![fileIdx[t]] = "GrepComplete"]
  /\ Goto(t, "record")
  /\ UNCHANGED <<inputs, nextFileToGrep, printing, resultStrs, grepMatchFound,
                 fileIdx, grepResult>>

\* Seeded fault: in quiet mode a thread stops after its first group.
StopsAtOnce(found) == engineKind = "QuietMode"

\* In quiet mode a thread stops once a match is known.
Stops(found) == engineKind = "QuietMode" /\ found

RecordMatch(t) ==
  /\ At(t, "record")
  /\ grepMatchFound' = (grepMatchFound \/ grepResult[t])
  /\ Goto(t, IF ~Stops(grepMatchFound') THEN "next"
             ELSE IF t = EngineThread THEN "join" ELSE "exited")
  /\ UNCHANGED <<inputs, nextFileToGrep, printing, fileStatus, resultStrs,
                 fileIdx, grepResult>>

\* Seeded fault: a group is printed as soon as it was taken.
ReadyOnceTaken == /\ nextFileToPrint <= Len(FileGroups)
                  /\ nextFileToPrint < nextFileToGrep

ReadyToPrint == /\ nextFileToPrint <= Len(FileGroups)
                /\ fileStatus[nextFileToPrint] = "GrepComplete"

\* Both printing loops of the engine's thread; the second yields while the
\* next group is not ready.
PrintGroup(t) ==
  /\ At(t, "flush") \/ At(t, "drain")
  /\ ReadyToPrint
  /\ output' = Append(output, [group |-> nextFileToPrint,
                               shown |-> resultStrs[nextFileToPrint]])
  /\ fileStatus' = [fileStatus EXCEPT ![nextFileToPrint] = "PrintComplete"]
  /\ nextFileToPrint' = nextFileToPrint + 1
  /\ UNCHANGED <<inputs, nextFileToGrep, resultStrs, grepMatchFound, pc, fileIdx,
                 grepResult>>

EndFlush(t) ==
  /\ At(t, "flush")
  /\ ~ReadyToPrint
  /\ Goto(t, Loop(t, fileIdx[t]))
  /\ UNCHANGED <<inputs, nextFileToGrep, printing, fileStatus, resultStrs,
                 grepMatchFound, fileIdx, grepResult>>

EndDrain(t) ==
  /\ At(t, "drain")
  /\ nextFileToPrint > Len(FileGroups)
  /\ Goto(t, IF GrepStdIn THEN "stdin" ELSE "join")
  /\ UNCHANGED <<inputs, nextFileToGrep, printing, fileStatus, resultStrs,
                 grepMatchFound, fileIdx, grepResult>>

\* The standard input is searched and printed last.  The doGrep of
\* EmitMatchesEngine returns at once when fstat reports no size.
SearchStdIn(t) ==
  LET searched == ~(engineKind = "EmitMatches" /\ StdInIsPipe) IN
  /\ At(t, "stdin")
  /\ output' = Append(output, [group |-> 0, shown |-> IF searched THEN 1 ELSE 0])
  /\ grepMatchFound' = (grepMatchFound \/ (searched /\ StdIn \in matching))
  /\ Goto(t, "join")
  /\ UNCHANGED <<inputs, nextFileToGrep, nextFileToPrint, fileStatus, resultStrs,
                 fileIdx, grepResult>>

\* searchAllFiles joins the workers and returns grepMatchFound.
JoinWorkers(t) ==
  /\ At(t, "join")
  /\ \A u \in Threads \ {EngineThread} : At(u, "exited")
  /\ Goto(t, "returned")
  /\ UNCHANGED <<inputs, nextFileToGrep, printing, fileStatus, resultStrs,
                 grepMatchFound, fileIdx, grepResult>>

ThreadStep(t) ==
  \/ TakeGroup(t) \/ GrepFile(t) \/ CompleteGroup(t) \/ RecordMatch(t)
  \/ PrintGroup(t) \/ EndFlush(t) \/ EndDrain(t) \/ SearchStdIn(t)
  \/ JoinWorkers(t)

Returned == At(EngineThread, "returned")

Next == \/ \E t \in Threads : ThreadStep(t)
        \/ Returned /\ UNCHANGED vars

Spec == Init /\ [][Next]_vars

\* pthreads that the scheduler keeps running.
FairSpec == Spec /\ \A t \in Threads : WF_vars(ThreadStep(t))

-----------------------------------------------------------------------------
(* Properties.                                                             *)

\* Every input that can be opened and that the options name.
Readable == {f \in Files \ Unreadable :
               \E g \in Groups : \E i \in 1 .. Len(FileGroups[g]) : FileGroups[g][i] = f}
            \cup (IF GrepStdIn THEN {StdIn} ELSE {})

\* No group is searched by two threads: the increment of mNextFileToGrep hands
\* each index out once, so no result string has two writers.
GroupsNotShared ==
  \A t, u \in Threads :
    pc[t] \in {"grep", "complete"} /\ pc[u] \in {"grep", "complete"}
      /\ fileIdx[t] = fileIdx[u] => t = u

\* doGrep of group g has written all that it writes.
FullySearched(g) ==
  /\ resultStrs[g] > 0
  /\ \/ resultStrs[g] = Len(FileGroups[g])
     \/ GivesUp(FileGroups[g][resultStrs[g]])

\* Groups are printed in their order, each once and only when its search is
\* complete, however the threads of DoGrepThreadMethod interleave.
PrintedInOrder ==
  \A i \in 1 .. Len(output) :
    IF i <= Len(FileGroups)
      THEN /\ output[i].group = i
           /\ output[i].shown = resultStrs[i]
           /\ FullySearched(i)
      ELSE output[i].group = 0

\* When searchAllFiles returns, every group and the standard input have been
\* printed, except in quiet mode once a match was found.
EverythingPrinted ==
  Returned /\ ~Stops(grepMatchFound) =>
    Len(output) = Len(FileGroups) + (IF GrepStdIn THEN 1 ELSE 0)

\* "set the return to zero status if a match is found" (the option -q), and
\* likewise for the other modes: searchAllFiles returns true if and only if
\* some input that could be read contains a match.
AnswerCorrect ==
  Returned => (grepMatchFound <=> matching \cap Readable # {})

\* "stdin, will always be searched" (file_select.cpp): when searchAllFiles
\* returns without having stopped at a match, the standard input was read.
StdInSearched ==
  Returned /\ GrepStdIn /\ ~Stops(grepMatchFound) =>
    \E i \in 1 .. Len(output) : output[i] = [group |-> 0, shown |-> 1]

-----------------------------------------------------------------------------
(* The invariant from which the safety properties follow.                  *)

\* Thread t has taken a group that it has not completed.
Holding(t) == pc[t] \in {"flush", "grep", "complete"}

\* Only the engine's thread prints, and only workers exit their thread.
Roles ==
  \A t \in Threads :
    /\ pc[t] \in {"flush", "drain", "stdin", "join", "returned"} => t = EngineThread
    /\ At(t, "exited") => t # EngineThread

\* The index a thread holds was handed out to it alone.
Claims ==
  /\ \A t \in Threads :
       /\ Holding(t) => fileIdx[t] \in 1 .. nextFileToGrep - 1
       /\ pc[t] \in {"grep", "complete"} => fileIdx[t] \in Groups
  /\ \A t, u \in Threads :
       Holding(t) /\ Holding(u) /\ fileIdx[t] = fileIdx[u] => t = u

\* A group is untouched, in the hands of one thread, or completely searched.
GroupSearched(g) ==
  /\ resultStrs[g] <= Len(FileGroups[g])
  /\ g >= nextFileToGrep => fileStatus[g] = "Pending" /\ resultStrs[g] = 0
  /\ fileStatus[g] # "Pending" => FullySearched(g)

HolderSearched(t) ==
  /\ Holding(t) /\ fileIdx[t] \in Groups => fileStatus[fileIdx[t]] = "Pending"
  /\ At(t, "flush") /\ fileIdx[t] \in Groups => resultStrs[fileIdx[t]] = 0
  /\ At(t, "grep") => resultStrs[fileIdx[t]] < Len(FileGroups[fileIdx[t]])
  /\ At(t, "complete") => FullySearched(fileIdx[t])

Searched == /\ \A g \in Groups : GroupSearched(g)
            /\ \A t \in Threads : HolderSearched(t)

\* The output holds one entry per printed group, the standard input's last.
Printed ==
  /\ \A g \in Groups : fileStatus[g] = "PrintComplete" <=> g < nextFileToPrint
  /\ PrintedInOrder
  /\ Len(output) < nextFileToPrint \/ nextFileToPrint > Len(FileGroups)
  /\ pc[EngineThread] \notin {"join", "returned"} => Len(output) = nextFileToPrint - 1
  /\ At(EngineThread, "stdin") => GrepStdIn /\ nextFileToPrint = Len(FileGroups) + 1
  /\ pc[EngineThread] \in {"join", "returned"} /\ ~Stops(grepMatchFound) =>
       Len(output) = Len(FileGroups) + (IF GrepStdIn THEN 1 ELSE 0)

\* The invariant of DoGrepThreadMethod that the proofs use.
SearchInvariant == TypeOK /\ Roles /\ Claims /\ Searched /\ Printed

\* Every match that some thread knows of is real, and every match in a file
\* that was searched is known: to grepMatchFound, or to the thread that has not
\* yet recorded it.
MatchesReal ==
  /\ grepMatchFound => matching \cap Readable # {}
  /\ \A t \in Threads : grepResult[t] => matching \cap Readable # {}

CarriesMatch(t, g) ==
  pc[t] \in {"grep", "complete", "record"} /\ fileIdx[t] = g /\ grepResult[t]
MatchesKnown ==
  \A g \in Groups : \A i \in 1 .. resultStrs[g] :
    FileGroups[g][i] \in matching \ Unreadable =>
      grepMatchFound \/ \E t \in Threads : CarriesMatch(t, g)

\* The engine's thread returns after the other threads, and searches the
\* standard input before it joins them.
LastToReturn ==
  /\ Returned => \A t \in Threads \ {EngineThread} : At(t, "exited")
  /\ pc[EngineThread] \in {"join", "returned"} /\ GrepStdIn /\ StdIn \in matching =>
       grepMatchFound

AnswerInvariant == MatchesReal /\ MatchesKnown /\ LastToReturn

-----------------------------------------------------------------------------
\* searchAllFiles returns: the engine's thread does not wait for ever on a
\* group that nobody searches, also when quiet mode stops the others.
SearchReturns == <>Returned
=============================================================================
