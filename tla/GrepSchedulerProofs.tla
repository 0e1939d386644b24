------------------------ MODULE GrepSchedulerProofs ------------------------
(***************************************************************************)
(* Proofs about GrepScheduler: whatever the number of threads and groups,  *)
(* no group is searched twice, the output is in order and complete, and    *)
(* the answer is right for the inputs that doGrep does not give up; and    *)
(* the search never stops before searchAllFiles has returned.              *)
(***************************************************************************)
EXTENDS GrepScheduler, TLAPS

\* formFileGroups makes no empty group.
LEMMA GroupLengths ==
  /\ Len(FileGroups) \in Nat
  /\ \A g \in Groups : Len(FileGroups[g]) \in Nat \ {0}
<1>1. FileGroups \in Seq(Seq(Files) \ {<<>>})
  BY FileAssumption
<1>2. Len(FileGroups) \in Nat
  BY <1>1
<1>3. ASSUME NEW g \in Groups
      PROVE  Len(FileGroups[g]) \in Nat \ {0}
  <2>1. FileGroups[g] \in Seq(Files) /\ FileGroups[g] # <<>>
    BY <1>1, <1>2 DEF Groups
  <2>2. QED BY <2>1
<1>4. QED BY <1>2, <1>3

\* initFileResult and the constructor leave every group unsearched, nothing
\* printed and both counters at the first group.
LEMMA SearchInit == Init => SearchInvariant
<1> SUFFICES ASSUME Init PROVE SearchInvariant
  OBVIOUS
<1> USE DEF Init
<1>1. TypeOK
  <2>1. /\ output \in Seq(Entry)
        /\ nextFileToGrep \in Nat \ {0}
        /\ nextFileToPrint \in 1 .. Len(FileGroups) + 1
    BY GroupLengths
  <2>2. /\ fileStatus \in [Groups -> {"Pending", "GrepComplete", "PrintComplete"}]
        /\ resultStrs \in [Groups -> Nat]
    OBVIOUS
  <2>3. /\ pc \in [Threads -> {"start", "grep", "complete", "record", "next", "flush",
                               "drain", "stdin", "join", "exited", "returned"}]
        /\ fileIdx \in [Threads -> Nat]
        /\ grepResult \in [Threads -> BOOLEAN]
    OBVIOUS
  <2>4. /\ engineKind \in EngineKinds
        /\ matching \subseteq Files \cup {StdIn}
        /\ grepMatchFound \in BOOLEAN
    OBVIOUS
  <2>5. QED BY <2>1, <2>2, <2>3, <2>4 DEF TypeOK
<1>2. Roles
  BY DEF Roles, At
<1>3. Claims
  BY DEF Claims, Holding
<1>4. Searched
  BY GroupLengths DEF Searched, GroupSearched, HolderSearched, Groups, Holding, At
<1>5. Printed
  BY GroupLengths, ThreadAssumption DEF Printed, Groups, PrintedInOrder, At
<1>6. QED BY <1>1, <1>2, <1>3, <1>4, <1>5 DEF SearchInvariant

-----------------------------------------------------------------------------
\* A thread takes the next group: the index is new and its group untouched.
LEMMA TakeKeeps ==
  ASSUME SearchInvariant, NEW t \in Threads, TakeGroup(t)
  PROVE  SearchInvariant'
<1> DEFINE idx == nextFileToGrep
           label == IF At(t, "next") /\ t = EngineThread THEN "flush" ELSE Loop(t, idx)
<1> USE DEF SearchInvariant
<1>1. /\ idx \in Nat \ {0}
      /\ fileIdx' = [fileIdx EXCEPT ![t] = idx] /\ fileIdx'[t] = idx
      /\ pc' = [pc EXCEPT ![t] = label] /\ pc'[t] = label
      /\ nextFileToGrep' = idx + 1
  BY DEF TakeGroup, Goto, Take, TypeOK
<1>2. UNCHANGED <<inputs, printing, fileStatus, resultStrs, grepMatchFound>>
  BY DEF TakeGroup
<1>3. /\ label \in {"grep", "flush", "drain", "exited"}
      /\ label = "grep" => idx \in Groups
      /\ label \in {"flush", "drain"} => t = EngineThread
      /\ label = "exited" => t # EngineThread
  BY <1>1, GroupLengths DEF Loop, Groups
<1> HIDE DEF label
<1>4. TypeOK'
  BY <1>1, <1>2, <1>3 DEF TypeOK, TakeGroup, inputs, printing
<1>5. Roles'
  BY <1>1, <1>3 DEF Roles, At, TypeOK
<1>6. \A u \in Threads : Holding(u) => fileIdx[u] # idx
  BY <1>1 DEF Claims, TypeOK
<1>7. Claims'
  BY <1>1, <1>3, <1>6 DEF Claims, Holding, TypeOK
<1>8. Searched'
  <2>1. \A g \in Groups : FullySearched(g) => FullySearched(g)'
    BY <1>2 DEF FullySearched, GivesUp, inputs
  <2>2. ASSUME NEW g \in Groups PROVE GroupSearched(g)'
    BY <1>1, <1>2, <2>1, GroupLengths DEF Searched, GroupSearched, Groups
  <2>3. idx \in Groups => fileStatus[idx] = "Pending" /\ resultStrs[idx] = 0
    BY <1>1 DEF Searched, GroupSearched
  <2>4. ASSUME NEW u \in Threads PROVE HolderSearched(u)'
    <3>1. CASE u = t
      BY <1>1, <1>2, <1>3, <2>3, <3>1, GroupLengths DEF HolderSearched, Holding, At
    <3>2. CASE u # t
      <4>1. pc'[u] = pc[u] /\ fileIdx'[u] = fileIdx[u]
        BY <1>1, <3>2 DEF TypeOK
      <4>2. At(u, "complete") => fileIdx[u] \in Groups
        BY DEF Claims, At
      <4>3. HolderSearched(u)
        BY DEF Searched
      <4>4. QED BY <1>2, <2>1, <4>1, <4>2, <4>3 DEF HolderSearched, Holding, At
    <3>3. QED BY <3>1, <3>2
  <2>5. QED BY <2>2, <2>4 DEF Searched, Groups
<1>9. Printed'
  <2>1. PrintedInOrder'
    BY <1>2 DEF Printed, PrintedInOrder, FullySearched, GivesUp, inputs, printing
  <2>2. pc[t] \notin {"join", "returned"}
    BY DEF TakeGroup, At
  <2>3. QED
    BY <1>1, <1>2, <1>3, <2>1, <2>2, ThreadAssumption
       DEF Printed, At, TypeOK, inputs, printing, Stops
<1>10. QED BY <1>4, <1>5, <1>7, <1>8, <1>9

-----------------------------------------------------------------------------
\* What was printed is marked so: a group in the hands of a thread is not yet
\* in the output.
LEMMA PrintedIsMarked ==
  ASSUME SearchInvariant, NEW i \in 1 .. Len(output), i <= Len(FileGroups)
  PROVE  i \in Groups /\ fileStatus[i] = "PrintComplete"
<1>1. Len(output) \in Nat /\ nextFileToPrint \in Nat
  BY GroupLengths DEF SearchInvariant, TypeOK
<1>2. i \in Groups
  BY <1>1, GroupLengths DEF Groups
<1>3. i < nextFileToPrint
  BY <1>1, GroupLengths DEF SearchInvariant, Printed
<1>4. QED BY <1>2, <1>3 DEF SearchInvariant, Printed

\* The steps that only move a thread, and perhaps record a match: the end of a
\* printing loop, the test for a match, and the joins.
LEMMA MoveKeeps ==
  ASSUME SearchInvariant, NEW t \in Threads, NEW l, Goto(t, l),
         UNCHANGED <<inputs, nextFileToGrep, printing, fileStatus, resultStrs,
                     fileIdx, grepResult>>,
         grepMatchFound' \in BOOLEAN, grepMatchFound => grepMatchFound',
         l \in {"grep", "next", "drain", "stdin", "join", "exited", "returned"},
         l = "grep" => At(t, "flush") /\ fileIdx[t] \in Groups,
         l = "exited" <=> (t # EngineThread /\ l # "grep" /\ l # "next"),
         l = "stdin" => GrepStdIn /\ nextFileToPrint = Len(FileGroups) + 1,
         pc[t] \in {"join", "returned"} => l \in {"join", "returned"},
         l \in {"join", "returned"} /\ ~Stops(grepMatchFound') =>
           Len(output) = Len(FileGroups) + (IF GrepStdIn THEN 1 ELSE 0)
  PROVE  SearchInvariant'
<1> USE DEF SearchInvariant
<1>1. pc' = [pc EXCEPT ![t] = l] /\ pc'[t] = l
  BY DEF Goto, TypeOK
<1>2. UNCHANGED <<engineKind, matching, nextFileToGrep, nextFileToPrint, output,
                  fileStatus, resultStrs, fileIdx, grepResult>>
  BY DEF inputs, printing
<1>3. TypeOK'
  BY <1>1, <1>2 DEF TypeOK
<1>4. Roles'
  BY <1>1 DEF Roles, At, TypeOK
<1>5. Claims'
  BY <1>1, <1>2 DEF Claims, Holding, At, TypeOK
<1>6. \A g : FullySearched(g)' <=> FullySearched(g)
  BY <1>2 DEF FullySearched, GivesUp
<1>7. Searched'
  <2>1. ASSUME NEW g \in Groups PROVE GroupSearched(g)'
    BY <1>2, <1>6 DEF Searched, GroupSearched
  <2>2. ASSUME NEW u \in Threads PROVE HolderSearched(u)'
    <3>1. HolderSearched(u)
      BY DEF Searched
    <3>2. CASE u = t
      BY <1>1, <1>2, <3>1, <3>2, GroupLengths DEF HolderSearched, Holding, At
    <3>3. CASE u # t
      BY <1>1, <1>2, <1>6, <3>1, <3>3 DEF HolderSearched, Holding, At, TypeOK
    <3>4. QED BY <3>2, <3>3
  <2>3. QED BY <2>1, <2>2 DEF Searched, Groups
<1>8. Printed'
  <2>1. PrintedInOrder'
    BY <1>2, <1>6 DEF Printed, PrintedInOrder
  <2>2. ~Stops(grepMatchFound') => ~Stops(grepMatchFound)
    BY DEF Stops
  <2>3. Stops(grepMatchFound)' <=> Stops(grepMatchFound')
    BY <1>2 DEF Stops
  <2>4. CASE t = EngineThread
    BY <1>1, <1>2, <2>1, <2>3, <2>4, ThreadAssumption DEF Printed, At
  <2>5. CASE t # EngineThread
    <3>1. pc'[EngineThread] = pc[EngineThread]
      BY <1>1, <2>5, ThreadAssumption DEF TypeOK
    <3>2. QED BY <1>2, <2>1, <2>2, <2>3, <3>1 DEF Printed, At
  <2>6. QED BY <2>4, <2>5
<1>9. QED BY <1>3, <1>4, <1>5, <1>7, <1>8

\* A match is recorded, and quiet mode may stop the thread.
LEMMA RecordKeeps ==
  ASSUME SearchInvariant, NEW t \in Threads, RecordMatch(t)
  PROVE  SearchInvariant'
<1> DEFINE l == IF ~Stops(grepMatchFound') THEN "next"
                ELSE IF t = EngineThread THEN "join" ELSE "exited"
<1>1. /\ Goto(t, l) /\ At(t, "record")
      /\ UNCHANGED <<inputs, nextFileToGrep, printing, fileStatus, resultStrs,
                     fileIdx, grepResult>>
      /\ grepMatchFound' = (grepMatchFound \/ grepResult[t])
  BY DEF RecordMatch
<1>2. grepMatchFound' \in BOOLEAN /\ (grepMatchFound => grepMatchFound')
  BY <1>1 DEF SearchInvariant, TypeOK
<1>3. /\ l \in {"next", "join", "exited"}
      /\ l = "exited" <=> (t # EngineThread /\ l # "grep" /\ l # "next")
      /\ l = "join" => Stops(grepMatchFound')
  OBVIOUS
<1>4. pc[t] = "record"
  BY <1>1 DEF At
<1> HIDE DEF l
<1>5. QED BY <1>1, <1>2, <1>3, <1>4, MoveKeeps

\* The engine's thread ends its first printing loop and goes on to its group.
LEMMA EndFlushKeeps ==
  ASSUME SearchInvariant, NEW t \in Threads, EndFlush(t)
  PROVE  SearchInvariant'
<1> DEFINE l == Loop(t, fileIdx[t])
<1>1. /\ Goto(t, l) /\ At(t, "flush") /\ pc[t] = "flush"
      /\ UNCHANGED <<inputs, nextFileToGrep, printing, fileStatus, resultStrs,
                     fileIdx, grepResult>>
      /\ grepMatchFound' = grepMatchFound
  BY DEF EndFlush, At
<1>2. t = EngineThread /\ fileIdx[t] \in Nat \ {0} /\ grepMatchFound \in BOOLEAN
  BY <1>1 DEF SearchInvariant, TypeOK, Roles, Claims, Holding
<1>3. /\ l \in {"grep", "drain"}
      /\ l = "grep" => fileIdx[t] \in Groups
  BY <1>2, GroupLengths DEF Loop, Groups
<1> HIDE DEF l
<1>4. QED BY <1>1, <1>2, <1>3, MoveKeeps

\* Every group is printed; the standard input is next, or the joins.
LEMMA EndDrainKeeps ==
  ASSUME SearchInvariant, NEW t \in Threads, EndDrain(t)
  PROVE  SearchInvariant'
<1> DEFINE l == IF GrepStdIn THEN "stdin" ELSE "join"
<1>1. /\ Goto(t, l) /\ pc[t] = "drain"
      /\ UNCHANGED <<inputs, nextFileToGrep, printing, fileStatus, resultStrs,
                     fileIdx, grepResult>>
      /\ grepMatchFound' = grepMatchFound
      /\ nextFileToPrint > Len(FileGroups)
  BY DEF EndDrain, At
<1>2. t = EngineThread /\ grepMatchFound \in BOOLEAN
  BY <1>1 DEF SearchInvariant, TypeOK, Roles
<1>3. nextFileToPrint = Len(FileGroups) + 1 /\ Len(output) = nextFileToPrint - 1
  BY <1>1, <1>2, GroupLengths DEF SearchInvariant, TypeOK, Printed
<1>4. l \in {"stdin", "join"} /\ (l = "join" <=> ~GrepStdIn)
  OBVIOUS
<1>5. Len(FileGroups) + 1 - 1 = Len(FileGroups) + 0
  BY GroupLengths
<1> HIDE DEF l
<1>6. QED BY <1>1, <1>2, <1>3, <1>4, <1>5, MoveKeeps

\* All workers have exited; the engine returns.
LEMMA JoinKeeps ==
  ASSUME SearchInvariant, NEW t \in Threads, JoinWorkers(t)
  PROVE  SearchInvariant'
<1>1. /\ Goto(t, "returned") /\ pc[t] = "join"
      /\ UNCHANGED <<inputs, nextFileToGrep, printing, fileStatus, resultStrs,
                     fileIdx, grepResult>>
      /\ grepMatchFound' = grepMatchFound
  BY DEF JoinWorkers, At
<1>2. t = EngineThread /\ grepMatchFound \in BOOLEAN
  BY <1>1 DEF SearchInvariant, TypeOK, Roles
<1>3. ~Stops(grepMatchFound) =>
        Len(output) = Len(FileGroups) + (IF GrepStdIn THEN 1 ELSE 0)
  BY <1>1, <1>2 DEF SearchInvariant, Printed
<1>4. QED BY <1>1, <1>2, <1>3, MoveKeeps

-----------------------------------------------------------------------------
\* doGrep searches one more file of the group that the thread holds.
LEMMA GrepKeeps ==
  ASSUME SearchInvariant, NEW t \in Threads, GrepFile(t)
  PROVE  SearchInvariant'
<1> DEFINE g == fileIdx[t]
           f == FileGroups[g][resultStrs[g] + 1]
           l == IF EndsGroup(g) \/ GivesUp(f) THEN "complete" ELSE "grep"
<1> USE DEF SearchInvariant
<1>1. /\ pc[t] = "grep" /\ g \in Groups /\ resultStrs[g] \in Nat
      /\ resultStrs[g] < Len(FileGroups[g]) /\ fileStatus[g] = "Pending"
  BY DEF GrepFile, At, Claims, Searched, HolderSearched, Holding, TypeOK
<1>2. /\ resultStrs' = [resultStrs EXCEPT ![g] = resultStrs[g] + 1]
      /\ pc' = [pc EXCEPT ![t] = l] /\ pc'[t] = l
      /\ UNCHANGED <<engineKind, matching, nextFileToGrep, nextFileToPrint, output,
                     fileStatus, fileIdx>>
  BY DEF GrepFile, Goto, TypeOK, inputs, printing
<1>3. /\ l \in {"grep", "complete"}
      /\ l = "grep" => resultStrs[g] + 1 # Len(FileGroups[g])
      /\ l = "complete" => resultStrs[g] + 1 = Len(FileGroups[g]) \/ GivesUp(f)
  BY DEF EndsGroup
<1>4. \A h : GivesUp(h)' <=> GivesUp(h)
  BY <1>2 DEF GivesUp
<1>5. \A h \in Groups : h # g => resultStrs'[h] = resultStrs[h]
  BY <1>2 DEF TypeOK
<1>6. resultStrs'[g] = resultStrs[g] + 1
  BY <1>1, <1>2 DEF TypeOK
<1> HIDE DEF l
<1>7. TypeOK'
  <2>1. /\ grepMatchFound' \in BOOLEAN
        /\ grepResult' \in [Threads -> BOOLEAN]
    BY DEF GrepFile, Counts, TypeOK
  <2>2. resultStrs' \in [Groups -> Nat]
    BY <1>1, <1>2 DEF TypeOK
  <2>3. pc' \in [Threads -> {"start", "grep", "complete", "record", "next", "flush",
                            "drain", "stdin", "join", "exited", "returned"}]
    BY <1>2, <1>3 DEF TypeOK
  <2>4. QED BY <1>2, <2>1, <2>2, <2>3 DEF TypeOK
<1>8. Roles'
  BY <1>2, <1>3 DEF Roles, At, TypeOK
<1>9. Claims'
  BY <1>1, <1>2, <1>3 DEF Claims, Holding, TypeOK
<1>10. \A h \in Groups : h # g => (FullySearched(h)' <=> FullySearched(h))
  BY <1>4, <1>5 DEF FullySearched
<1>11. Searched'
  <2>1. ASSUME NEW h \in Groups PROVE GroupSearched(h)'
    <3>1. GroupSearched(h)
      BY DEF Searched
    <3>2. CASE h = g
      <4>1. g < nextFileToGrep
        BY <1>1 DEF Claims, Holding, TypeOK, Groups
      <4>2. QED BY <1>1, <1>2, <1>6, <3>1, <3>2, <4>1, GroupLengths
                DEF GroupSearched, Groups, TypeOK
    <3>3. CASE h # g
      BY <1>2, <1>5, <1>10, <3>1, <3>3 DEF GroupSearched
    <3>4. QED BY <3>2, <3>3
  <2>2. ASSUME NEW u \in Threads PROVE HolderSearched(u)'
    <3>1. CASE u = t
      <4>1. l = "complete" => FullySearched(g)'
        <5>1. resultStrs[g] + 1 > 0
          BY <1>1
        <5>2. engineKind' = engineKind
          BY <1>2
        <5>3. fileIdx' = fileIdx /\ resultStrs'[fileIdx[t]] = resultStrs[g] + 1
          BY <1>2, <1>6
        <5>4. QED BY <1>3, <5>1, <5>2, <5>3 DEF FullySearched, GivesUp
      <4>2. l = "grep" => resultStrs'[g] < Len(FileGroups[g])
        BY <1>1, <1>3, <1>6, GroupLengths
      <4>3. QED BY <1>1, <1>2, <1>3, <3>1, <4>1, <4>2
                DEF HolderSearched, Holding, At
    <3>2. CASE u # t
      <4>1. pc'[u] = pc[u] /\ fileIdx'[u] = fileIdx[u]
        BY <1>2, <3>2 DEF TypeOK
      <4>2. Holding(u) => fileIdx[u] # g
        BY <1>1, <3>2 DEF Claims, Holding
      <4>3. HolderSearched(u) /\ (pc[u] \in {"grep", "complete"} => fileIdx[u] \in Groups)
        BY DEF Searched, Claims
      <4>4. QED BY <1>2, <1>5, <1>10, <4>1, <4>2, <4>3 DEF HolderSearched, Holding, At
    <3>3. QED BY <3>1, <3>2
  <2>3. QED BY <2>1, <2>2 DEF Searched, Groups
<1>12. Printed'
  <2>1. \A i \in 1 .. Len(output) : i <= Len(FileGroups) => i \in Groups /\ i # g
    BY <1>1, PrintedIsMarked
  <2>2. PrintedInOrder'
    BY <1>2, <1>5, <1>10, <2>1 DEF Printed, PrintedInOrder
  <2>3. grepMatchFound => grepMatchFound'
    BY DEF GrepFile
  <2>4. ~Stops(grepMatchFound)' => ~Stops(grepMatchFound)
    BY <1>2, <2>3 DEF Stops
  <2>5. CASE t = EngineThread
    BY <1>1, <1>2, <1>3, <2>2, <2>4, <2>5 DEF Printed, At
  <2>6. CASE t # EngineThread
    <3>1. pc'[EngineThread] = pc[EngineThread]
      BY <1>2, <2>6, ThreadAssumption DEF TypeOK
    <3>2. QED BY <1>2, <2>2, <2>4, <3>1 DEF Printed, At
  <2>7. QED BY <2>5, <2>6
<1>13. QED BY <1>7, <1>8, <1>9, <1>11, <1>12

\* A group whose search is complete is marked GrepComplete by its holder.
LEMMA CompleteKeeps ==
  ASSUME SearchInvariant, NEW t \in Threads, CompleteGroup(t)
  PROVE  SearchInvariant'
<1> DEFINE g == fileIdx[t]
<1> USE DEF SearchInvariant
<1>1. /\ pc[t] = "complete" /\ g \in Groups /\ FullySearched(g)
      /\ fileStatus[g] = "Pending" /\ g < nextFileToGrep
  BY DEF CompleteGroup, At, Claims, Searched, HolderSearched, Holding, TypeOK
<1>2. /\ fileStatus' = [fileStatus EXCEPT ![g] = "GrepComplete"]
      /\ pc' = [pc EXCEPT ![t] = "record"] /\ pc'[t] = "record"
      /\ UNCHANGED <<engineKind, matching, nextFileToGrep, nextFileToPrint, output,
                     resultStrs, grepMatchFound, fileIdx, grepResult>>
  BY DEF CompleteGroup, Goto, TypeOK, inputs, printing
<1>3. TypeOK'
  BY <1>1, <1>2 DEF TypeOK
<1>4. Roles'
  BY <1>2 DEF Roles, At, TypeOK
<1>5. Claims'
  BY <1>2 DEF Claims, Holding, TypeOK
<1>6. \A h : FullySearched(h)' <=> FullySearched(h)
  BY <1>2 DEF FullySearched, GivesUp
<1>7. fileStatus'[g] = "GrepComplete" /\ \A h \in Groups : h # g => fileStatus'[h] = fileStatus[h]
  BY <1>1, <1>2 DEF TypeOK
<1>8. Searched'
  <2>1. ASSUME NEW h \in Groups PROVE GroupSearched(h)'
    <3>1. GroupSearched(h)
      BY DEF Searched
    <3>2. CASE h = g
      BY <1>1, <1>2, <1>6, <3>1, <3>2, GroupLengths DEF GroupSearched, Groups, TypeOK
    <3>3. CASE h # g
      BY <1>2, <1>6, <1>7, <3>1, <3>3 DEF GroupSearched
    <3>4. QED BY <3>2, <3>3
  <2>2. ASSUME NEW u \in Threads PROVE HolderSearched(u)'
    <3>1. CASE u = t
      BY <1>2, <3>1 DEF HolderSearched, Holding, At
    <3>2. CASE u # t
      <4>1. pc'[u] = pc[u] /\ fileIdx'[u] = fileIdx[u]
        BY <1>2, <3>2 DEF TypeOK
      <4>2. Holding(u) => fileIdx[u] # g
        BY <1>1, <3>2 DEF Claims, Holding
      <4>3. HolderSearched(u)
        BY DEF Searched
      <4>4. QED BY <1>2, <1>6, <1>7, <4>1, <4>2, <4>3 DEF HolderSearched, Holding, At, Groups
    <3>3. QED BY <3>1, <3>2
  <2>3. QED BY <2>1, <2>2 DEF Searched, Groups
<1>9. Printed'
  <2>1. PrintedInOrder'
    BY <1>2, <1>6 DEF Printed, PrintedInOrder
  <2>2. \A h \in Groups : fileStatus'[h] = "PrintComplete" <=> h < nextFileToPrint'
    BY <1>1, <1>2, <1>7 DEF Printed
  <2>3. Stops(grepMatchFound)' <=> Stops(grepMatchFound)
    BY <1>2 DEF Stops
  <2>4. \A l \in {"join", "returned", "stdin"} : pc'[EngineThread] = l => pc[EngineThread] = l
    BY <1>2, ThreadAssumption DEF TypeOK
  <2>5. pc'[EngineThread] \notin {"join", "returned"} => pc[EngineThread] \notin {"join", "returned"}
    BY <1>1, <1>2, ThreadAssumption DEF TypeOK
  <2>6. QED BY <1>2, <2>1, <2>2, <2>3, <2>4, <2>5 DEF Printed, At, Groups
<1>10. QED BY <1>3, <1>4, <1>5, <1>8, <1>9

-----------------------------------------------------------------------------
\* The engine's thread prints the next group, whose search is complete.
LEMMA PrintKeeps ==
  ASSUME SearchInvariant, NEW t \in Threads, PrintGroup(t)
  PROVE  SearchInvariant'
<1> DEFINE g == nextFileToPrint
<1> USE DEF SearchInvariant
<1>1. /\ t = EngineThread /\ pc[t] \in {"flush", "drain"}
      /\ g \in Groups /\ g \in Nat /\ fileStatus[g] = "GrepComplete"
      /\ FullySearched(g) /\ resultStrs[g] \in Nat
  <2>1. pc[t] \in {"flush", "drain"} /\ g <= Len(FileGroups)
        /\ fileStatus[g] = "GrepComplete"
    BY DEF PrintGroup, At, ReadyToPrint
  <2>2. g \in Groups /\ g \in Nat
    BY <2>1, GroupLengths DEF TypeOK, Groups
  <2>3. QED BY <2>1, <2>2 DEF Roles, Searched, GroupSearched, TypeOK
<1>2. /\ output' = Append(output, [group |-> g, shown |-> resultStrs[g]])
      /\ fileStatus' = [fileStatus EXCEPT ![g] = "PrintComplete"]
      /\ nextFileToPrint' = g + 1
      /\ UNCHANGED <<engineKind, matching, nextFileToGrep, resultStrs, grepMatchFound,
                     pc, fileIdx, grepResult>>
  BY DEF PrintGroup, inputs
<1>3. Len(output) = g - 1 /\ output \in Seq(Entry)
  BY <1>1 DEF Printed, TypeOK
<1>4. /\ fileStatus'[g] = "PrintComplete"
      /\ \A h \in Groups : h # g => fileStatus'[h] = fileStatus[h]
  BY <1>1, <1>2 DEF TypeOK
<1>5. TypeOK'
  <2>1. [group |-> g, shown |-> resultStrs[g]] \in Entry
    BY <1>1 DEF Entry
  <2>2. output' \in Seq(Entry)
    BY <1>2, <1>3, <2>1
  <2>3. nextFileToPrint' \in 1 .. Len(FileGroups) + 1
    BY <1>1, <1>2, GroupLengths DEF Groups
  <2>4. fileStatus' \in [Groups -> {"Pending", "GrepComplete", "PrintComplete"}]
    BY <1>2 DEF TypeOK
  <2>5. QED BY <1>2, <2>2, <2>3, <2>4 DEF TypeOK
<1>6. Roles' /\ Claims'
  BY <1>2 DEF Roles, Claims, Holding, At
<1>7. \A h : FullySearched(h)' <=> FullySearched(h)
  BY <1>2 DEF FullySearched, GivesUp
<1>8. Searched'
  <2>1. ASSUME NEW h \in Groups PROVE GroupSearched(h)'
    <3>1. GroupSearched(h)
      BY DEF Searched
    <3>2. CASE h = g
      BY <1>1, <1>2, <1>7, <3>1, <3>2 DEF GroupSearched
    <3>3. CASE h # g
      BY <1>2, <1>4, <1>7, <3>1, <3>3 DEF GroupSearched
    <3>4. QED BY <3>2, <3>3
  <2>2. ASSUME NEW u \in Threads PROVE HolderSearched(u)'
    <3>1. HolderSearched(u)
      BY DEF Searched
    <3>2. Holding(u) /\ fileIdx[u] \in Groups => fileIdx[u] # g
      BY <1>1, <3>1 DEF HolderSearched
    <3>3. QED BY <1>2, <1>4, <1>7, <3>1, <3>2 DEF HolderSearched, Holding, At, Groups
  <2>3. QED BY <2>1, <2>2 DEF Searched, Groups
<1>9. Printed'
  <2>1. \A h \in Groups : fileStatus'[h] = "PrintComplete" <=> h < g + 1
    BY <1>1, <1>4, GroupLengths DEF Printed, Groups
  <2>2. /\ Len(output') = g
        /\ \A i \in 1 .. g - 1 : output'[i] = output[i]
        /\ output'[g] = [group |-> g, shown |-> resultStrs[g]]
    BY <1>1, <1>2, <1>3
  <2>3. PrintedInOrder'
    <3> SUFFICES ASSUME NEW i \in 1 .. g
                 PROVE  /\ output'[i].group = i /\ i <= Len(FileGroups)
                        /\ output'[i].shown = resultStrs[i]
                        /\ FullySearched(i)
      BY <1>2, <1>7, <2>2 DEF PrintedInOrder
    <3>1. CASE i = g
      BY <1>1, <2>2, <3>1, GroupLengths DEF Groups
    <3>2. CASE i # g
      BY <1>1, <1>3, <2>2, <3>2, GroupLengths DEF Printed, PrintedInOrder, Groups
    <3>3. QED BY <3>1, <3>2
  <2>4. pc'[EngineThread] \in {"flush", "drain"}
    BY <1>1, <1>2
  <2>5. QED BY <1>1, <1>2, <2>1, <2>2, <2>3, <2>4 DEF Printed, At, Groups
<1>10. QED BY <1>5, <1>6, <1>8, <1>9

\* The standard input is printed after the last group.
LEMMA StdInKeeps ==
  ASSUME SearchInvariant, NEW t \in Threads, SearchStdIn(t)
  PROVE  SearchInvariant'
<1> USE DEF SearchInvariant
<1>1. /\ t = EngineThread /\ pc[t] = "stdin"
      /\ nextFileToPrint = Len(FileGroups) + 1
      /\ Len(output) = Len(FileGroups) /\ output \in Seq(Entry)
  BY GroupLengths DEF SearchStdIn, At, Roles, Printed, TypeOK
<1>2. PICK n \in {0, 1} : output' = Append(output, [group |-> 0, shown |-> n])
  BY DEF SearchStdIn
<1>3. /\ pc' = [pc EXCEPT ![t] = "join"] /\ pc'[t] = "join"
      /\ grepMatchFound' \in BOOLEAN
      /\ UNCHANGED <<engineKind, matching, nextFileToGrep, nextFileToPrint, fileStatus,
                     resultStrs, fileIdx, grepResult>>
  BY DEF SearchStdIn, Goto, TypeOK, inputs
<1>4. TypeOK'
  <2>1. [group |-> 0, shown |-> n] \in Entry
    BY DEF Entry
  <2>2. output' \in Seq(Entry)
    BY <1>1, <1>2, <2>1
  <2>3. QED BY <1>3, <2>2 DEF TypeOK
<1>5. Roles'
  BY <1>1, <1>3 DEF Roles, At, TypeOK
<1>6. Claims'
  BY <1>3 DEF Claims, Holding, TypeOK
<1>7. \A h : FullySearched(h)' <=> FullySearched(h)
  BY <1>3 DEF FullySearched, GivesUp
<1>8. Searched'
  <2>1. ASSUME NEW h \in Groups PROVE GroupSearched(h)'
    BY <1>3, <1>7 DEF Searched, GroupSearched
  <2>2. ASSUME NEW u \in Threads PROVE HolderSearched(u)'
    <3>1. HolderSearched(u)
      BY DEF Searched
    <3>2. QED BY <1>3, <1>7, <3>1 DEF HolderSearched, Holding, At, TypeOK
  <2>3. QED BY <2>1, <2>2 DEF Searched, Groups
<1>9. GrepStdIn
  BY <1>1 DEF Printed, At
<1>10. Printed'
  <2>1. /\ Len(output') = Len(FileGroups) + 1
        /\ \A i \in 1 .. Len(FileGroups) : output'[i] = output[i]
        /\ output'[Len(FileGroups) + 1].group = 0
    BY <1>1, <1>2, GroupLengths
  <2>2. PrintedInOrder'
    BY <1>1, <1>3, <1>7, <2>1, GroupLengths DEF Printed, PrintedInOrder
  <2>3. pc'[EngineThread] = "join"
    BY <1>1, <1>3
  <2>4. QED BY <1>1, <1>3, <1>9, <2>1, <2>2, <2>3, GroupLengths DEF Printed, At, Groups
<1>11. QED BY <1>4, <1>5, <1>6, <1>8, <1>10

\* A step that changes nothing.
LEMMA StutterKeeps ==
  ASSUME SearchInvariant, UNCHANGED vars
  PROVE  SearchInvariant'
BY DEF SearchInvariant, vars, inputs, printing, TypeOK, Roles, Claims, Holding, Searched,
       GroupSearched, HolderSearched, FullySearched, GivesUp, Printed, PrintedInOrder,
       Stops, At, Groups

\* Every step of every thread of DoGrepThreadMethod keeps the invariant.
LEMMA SearchStep == SearchInvariant /\ [Next]_vars => SearchInvariant'
<1> SUFFICES ASSUME SearchInvariant, [Next]_vars PROVE SearchInvariant'
  OBVIOUS
<1>1. ASSUME NEW t \in Threads, ThreadStep(t) PROVE SearchInvariant'
  <2>1. CASE TakeGroup(t)      BY <2>1, TakeKeeps
  <2>2. CASE GrepFile(t)       BY <2>2, GrepKeeps
  <2>3. CASE CompleteGroup(t)  BY <2>3, CompleteKeeps
  <2>4. CASE RecordMatch(t)    BY <2>4, RecordKeeps
  <2>5. CASE PrintGroup(t)     BY <2>5, PrintKeeps
  <2>6. CASE EndFlush(t)       BY <2>6, EndFlushKeeps
  <2>7. CASE EndDrain(t)       BY <2>7, EndDrainKeeps
  <2>8. CASE SearchStdIn(t)    BY <2>8, StdInKeeps
  <2>9. CASE JoinWorkers(t)    BY <2>9, JoinKeeps
  <2>10. QED BY <1>1, <2>1, <2>2, <2>3, <2>4, <2>5, <2>6, <2>7, <2>8, <2>9 DEF ThreadStep
<1>2. CASE UNCHANGED vars
  BY <1>2, StutterKeeps
<1>3. QED BY <1>1, <1>2 DEF Next

-----------------------------------------------------------------------------
\* The invariant of GrepEngine::searchAllFiles and DoGrepThreadMethod holds for
\* any number of threads, groups and files.
THEOREM SearchInvariantHolds == Spec => []SearchInvariant
BY SearchInit, SearchStep, PTL DEF Spec

\* mNextFileToGrep++ gives each group to one thread, so that no result string
\* has two writers.
THEOREM GroupsNeverShared == Spec => []GroupsNotShared
<1>1. SearchInvariant => GroupsNotShared
  BY DEF SearchInvariant, Claims, Holding, GroupsNotShared
<1>2. QED BY <1>1, SearchInvariantHolds, PTL

\* The engine's thread prints the groups in their order and each only when its
\* whole result string has been written.
THEOREM OutputInOrder == Spec => []PrintedInOrder
<1>1. SearchInvariant => PrintedInOrder
  BY DEF SearchInvariant, Printed
<1>2. QED BY <1>1, SearchInvariantHolds, PTL

\* When searchAllFiles returns without having stopped at a match, every group
\* and the standard input are in the output.
THEOREM OutputIsComplete == Spec => []EverythingPrinted
<1>1. SearchInvariant => EverythingPrinted
  BY DEF SearchInvariant, Printed, EverythingPrinted, Returned, At
<1>2. QED BY <1>1, SearchInvariantHolds, PTL

-----------------------------------------------------------------------------
(* The answer.                                                             *)

\* The inputs for which doGrep keeps what it has found: a file that does not
\* open is a group by itself, and the standard input has a size.
InputsKept ==
  /\ \A g \in Groups : \A i \in 1 .. Len(FileGroups[g]) :
       FileGroups[g][i] \in Unreadable => Len(FileGroups[g]) = 1
  /\ GrepStdIn => ~StdInIsPipe

\* A group's search covers files of the group.
LEMMA GroupFiles ==
  ASSUME NEW g \in Groups, NEW i \in 1 .. Len(FileGroups[g])
  PROVE  FileGroups[g][i] \in Files
<1>1. FileGroups[g] \in Seq(Files)
  BY FileAssumption DEF Groups
<1>2. QED BY <1>1

\* No file has been searched and no thread has returned.
LEMMA AnswerInit == Init => AnswerInvariant
<1> SUFFICES ASSUME Init PROVE AnswerInvariant
  OBVIOUS
<1>1. MatchesReal
  BY DEF Init, MatchesReal
<1>2. MatchesKnown
  <2>1. \A g \in Groups : resultStrs[g] = 0
    BY DEF Init
  <2>2. QED BY <2>1 DEF MatchesKnown
<1>3. LastToReturn
  BY ThreadAssumption DEF Init, LastToReturn, Returned, At
<1>4. QED BY <1>1, <1>2, <1>3 DEF AnswerInvariant

\* The search of a file in group g: what is found counts unless the group is
\* given up, and a group that is given up has no other file.
LEMMA GrepAnswer ==
  ASSUME InputsKept, SearchInvariant, AnswerInvariant, NEW t \in Threads, GrepFile(t)
  PROVE  AnswerInvariant'
<1> DEFINE g == fileIdx[t]
           f == FileGroups[g][resultStrs[g] + 1]
<1>1. /\ pc[t] = "grep" /\ g \in Groups /\ resultStrs[g] < Len(FileGroups[g])
      /\ resultStrs \in [Groups -> Nat] /\ grepResult \in [Threads -> BOOLEAN]
      /\ pc[t] \in {"grep", "complete", "record"}
      /\ grepMatchFound \in BOOLEAN
      /\ pc \in [Threads -> {"start", "grep", "complete", "record", "next", "flush",
                             "drain", "stdin", "join", "exited", "returned"}]
      /\ \A h \in Groups : Len(FileGroups[h]) \in Nat
  BY GroupLengths DEF GrepFile, At, SearchInvariant, TypeOK, Claims, Searched, HolderSearched
<1>2. resultStrs[g] + 1 \in 1 .. Len(FileGroups[g])
  BY <1>1
<1>3. f \in Files
  BY <1>1, <1>2, GroupFiles
<1>4. /\ resultStrs' = [resultStrs EXCEPT ![g] = @ + 1]
      /\ grepResult' = [grepResult EXCEPT ![t] = Counts(t, f)]
      /\ pc' = [pc EXCEPT ![t] = pc'[t]] /\ pc'[t] \in {"grep", "complete"}
      /\ UNCHANGED <<matching, fileIdx, engineKind>>
      /\ grepMatchFound => grepMatchFound'
      /\ grepMatchFound' => grepMatchFound \/ Counts(t, f)
  BY <1>1 DEF GrepFile, Goto, inputs
<1>5. Readable' = Readable
  BY DEF Readable
<1>6. Counts(t, f) => matching \cap Readable # {}
  <2>1. f \notin Unreadable => f \in Readable
    BY <1>1, <1>2, <1>3 DEF Readable
  <2>2. QED BY <2>1 DEF Counts, AnswerInvariant, MatchesReal
<1>7. Counts(t, f) \in BOOLEAN
  BY DEF Counts
<1> HIDE DEF f
<1>8. MatchesReal'
  BY <1>1, <1>4, <1>5, <1>6, <1>7 DEF AnswerInvariant, MatchesReal
<1>9. MatchesKnown'
  <2> SUFFICES ASSUME NEW h \in Groups, NEW i \in 1 .. resultStrs'[h],
                      FileGroups[h][i] \in matching \ Unreadable, ~grepMatchFound'
               PROVE  \E u \in Threads : CarriesMatch(u, h)'
    BY <1>4 DEF MatchesKnown
  <2>1. CASE h # g
    <3>1. \E u \in Threads : CarriesMatch(u, h)
      BY <1>1, <1>4, <2>1 DEF AnswerInvariant, MatchesKnown
    <3>2. QED BY <1>1, <1>4, <2>1, <3>1 DEF CarriesMatch
  <2>2. CASE h = g
    <3>1. resultStrs'[g] = resultStrs[g] + 1 /\ resultStrs[g] \in Nat
      BY <1>1, <1>4
    <3>2. i \in 1 .. Len(FileGroups[g])
      BY <1>1, <2>2, <3>1
    <3>3. ~GivesUp(f)
      <4> SUFFICES ASSUME f \in Unreadable PROVE FALSE
        BY DEF GivesUp
      <4>1. Len(FileGroups[g]) = 1
        BY <1>1, <1>2 DEF InputsKept, f
      <4>2. i = 1 /\ resultStrs[g] = 0
        BY <1>1, <3>1, <3>2, <4>1
      <4>3. QED BY <2>2, <4>2 DEF f
    <3>4. CASE i = resultStrs[g] + 1
      <4>1. Counts(t, f)
        BY <2>2, <3>3, <3>4 DEF Counts, f
      <4>2. CarriesMatch(t, h)'
        BY <1>1, <1>4, <2>2, <4>1 DEF CarriesMatch
      <4>3. QED BY <4>2
    <3>5. CASE i # resultStrs[g] + 1
      <4>1. i \in 1 .. resultStrs[g]
        BY <2>2, <3>1, <3>5
      <4>2. PICK u \in Threads : CarriesMatch(u, g)
        BY <1>1, <1>4, <2>2, <4>1 DEF AnswerInvariant, MatchesKnown
      <4>3. CASE u # t
        BY <1>1, <1>4, <2>2, <4>2, <4>3 DEF CarriesMatch
      <4>4. CASE u = t
        <5>1. Counts(t, f)
          BY <3>3, <4>2, <4>4 DEF Counts, CarriesMatch
        <5>2. CarriesMatch(t, h)'
          BY <1>1, <1>4, <2>2, <5>1 DEF CarriesMatch
        <5>3. QED BY <5>2
      <4>5. QED BY <4>3, <4>4
    <3>6. QED BY <3>4, <3>5
  <2>3. QED BY <2>1, <2>2
<1>10. LastToReturn'
  <2>1. t = EngineThread => pc'[EngineThread] \notin {"join", "returned"}
    BY <1>4
  <2>2. t # EngineThread => pc'[EngineThread] = pc[EngineThread]
    BY <1>1, <1>4, ThreadAssumption
  <2>3. t # EngineThread => ~Returned
    BY <1>1 DEF AnswerInvariant, LastToReturn, At
  <2>4. QED
    BY <1>1, <1>4, <2>1, <2>2, <2>3 DEF AnswerInvariant, LastToReturn, Returned, At
<1>11. QED BY <1>8, <1>9, <1>10 DEF AnswerInvariant

\* Every other step searches no file of a group.
LEMMA OtherAnswer ==
  ASSUME InputsKept, SearchInvariant, AnswerInvariant, NEW t \in Threads,
         ThreadStep(t), ~GrepFile(t)
  PROVE  AnswerInvariant'
<1>1. /\ grepResult \in [Threads -> BOOLEAN] /\ grepMatchFound \in BOOLEAN
      /\ pc \in [Threads -> {"start", "grep", "complete", "record", "next", "flush",
                             "drain", "stdin", "join", "exited", "returned"}]
      /\ EngineThread \in Threads
      /\ pc[t] \in {"flush", "drain", "stdin", "join", "returned"} => t = EngineThread
      /\ At(EngineThread, "stdin") => GrepStdIn
  BY ThreadAssumption DEF SearchInvariant, TypeOK, Roles, Printed
<1>2. /\ UNCHANGED <<engineKind, matching, resultStrs>> /\ Readable' = Readable
      /\ \A u \in Threads \ {t} : pc'[u] = pc[u] /\ grepResult'[u] = grepResult[u]
                                  /\ fileIdx'[u] = fileIdx[u]
  BY <1>1 DEF ThreadStep, TakeGroup, CompleteGroup, RecordMatch, PrintGroup, EndFlush,
     EndDrain, SearchStdIn, JoinWorkers, Goto, inputs, printing, Readable, SearchInvariant,
     TypeOK
<1>3. CASE TakeGroup(t)
  <2>1. /\ pc[t] \in {"start", "next"} /\ ~grepResult'[t] /\ UNCHANGED grepMatchFound
        /\ pc'[t] \in {"flush", "grep", "drain", "exited"}
    BY <1>1, <1>3 DEF TakeGroup, At, Goto, Loop
  <2>2. MatchesReal'
    BY <1>2, <2>1 DEF AnswerInvariant, MatchesReal
  <2>3. MatchesKnown'
    BY <1>2, <2>1 DEF AnswerInvariant, MatchesKnown, CarriesMatch
  <2>4. LastToReturn'
    BY <1>1, <1>2, <2>1 DEF AnswerInvariant, LastToReturn, Returned, At
  <2>5. QED BY <2>2, <2>3, <2>4 DEF AnswerInvariant
<1>4. CASE CompleteGroup(t)
  <2>1. /\ pc[t] = "complete" /\ pc'[t] = "record"
        /\ UNCHANGED <<grepMatchFound, grepResult, fileIdx>>
    BY <1>1, <1>4 DEF CompleteGroup, At, Goto
  <2>2. MatchesReal'
    BY <1>2, <2>1 DEF AnswerInvariant, MatchesReal
  <2>3. MatchesKnown'
    BY <1>2, <2>1 DEF AnswerInvariant, MatchesKnown, CarriesMatch
  <2>4. LastToReturn'
    BY <1>1, <1>2, <2>1 DEF AnswerInvariant, LastToReturn, Returned, At
  <2>5. QED BY <2>2, <2>3, <2>4 DEF AnswerInvariant
<1>5. CASE RecordMatch(t)
  <2>1. /\ pc[t] = "record" /\ grepMatchFound' = (grepMatchFound \/ grepResult[t])
        /\ UNCHANGED <<grepResult, fileIdx>>
        /\ pc'[t] \in {"next", "join", "exited"}
        /\ pc'[t] = "join" => grepMatchFound'
        /\ pc'[t] = "exited" => t # EngineThread
    BY <1>1, <1>5 DEF RecordMatch, At, Goto, Stops
  <2>2. MatchesReal'
    BY <1>2, <2>1 DEF AnswerInvariant, MatchesReal
  <2>3. MatchesKnown'
    BY <1>2, <2>1 DEF AnswerInvariant, MatchesKnown, CarriesMatch
  <2>4. LastToReturn'
    BY <1>1, <1>2, <2>1 DEF AnswerInvariant, LastToReturn, Returned, At
  <2>5. QED BY <2>2, <2>3, <2>4 DEF AnswerInvariant
<1>6. CASE PrintGroup(t) \/ EndFlush(t) \/ EndDrain(t) \/ SearchStdIn(t) \/ JoinWorkers(t)
  <2>1. /\ t = EngineThread /\ UNCHANGED <<grepResult, fileIdx>>
        /\ pc[t] \in {"flush", "drain", "stdin", "join"}
    BY <1>1, <1>6 DEF PrintGroup, EndFlush, EndDrain, SearchStdIn, JoinWorkers, At
  <2>2. /\ grepMatchFound => grepMatchFound'
        /\ grepMatchFound' => grepMatchFound \/ matching \cap Readable # {}
    BY <1>1, <1>6, <2>1 DEF PrintGroup, EndFlush, EndDrain, SearchStdIn, JoinWorkers, At,
       Readable
  <2>3. MatchesReal'
    BY <1>2, <2>1, <2>2 DEF AnswerInvariant, MatchesReal
  <2>4. MatchesKnown'
    <3>1. \A u \in Threads, h \in Groups : CarriesMatch(u, h) => CarriesMatch(u, h)'
      BY <1>2, <2>1 DEF CarriesMatch
    <3>2. QED BY <1>2, <2>2, <3>1 DEF AnswerInvariant, MatchesKnown
  <2>5. /\ pc'[t] = "returned" => pc[t] = "join" /\ JoinWorkers(t)
        /\ pc'[t] = "join" /\ GrepStdIn => SearchStdIn(t)
    BY <1>1, <1>6, <2>1 DEF PrintGroup, EndFlush, EndDrain, SearchStdIn, JoinWorkers,
       At, Goto, Loop
  <2>6. SearchStdIn(t) /\ GrepStdIn /\ StdIn \in matching => grepMatchFound'
    BY DEF SearchStdIn, InputsKept
  <2>7. Returned' => \A u \in Threads \ {EngineThread} : At(u, "exited")'
    BY <1>2, <2>1, <2>5 DEF JoinWorkers, Returned, At
  <2>8. pc'[EngineThread] \in {"join", "returned"} /\ GrepStdIn /\ StdIn \in matching =>
          grepMatchFound'
    BY <2>1, <2>2, <2>5, <2>6 DEF AnswerInvariant, LastToReturn
  <2>9. LastToReturn'
    BY <1>2, <2>7, <2>8 DEF LastToReturn
  <2>10. QED BY <2>3, <2>4, <2>9 DEF AnswerInvariant
<1>7. QED BY <1>3, <1>4, <1>5, <1>6 DEF ThreadStep

\* grepMatchFound and the threads' own results never lose a match: one in a
\* file that was searched is known to the flag or to the thread that has yet to
\* record it, and the engine's thread returns last (DoGrepThreadMethod).
THEOREM AnswerInvariantHolds ==
  ASSUME InputsKept
  PROVE  Spec => []AnswerInvariant
<1>1. SearchInvariant /\ AnswerInvariant /\ [Next]_vars => AnswerInvariant'
  <2>1. ASSUME SearchInvariant, AnswerInvariant, UNCHANGED vars PROVE AnswerInvariant'
    BY <2>1 DEF vars, inputs, AnswerInvariant, MatchesReal, MatchesKnown, CarriesMatch,
       LastToReturn, Returned, At, Readable
  <2>2. QED BY <2>1, GrepAnswer, OtherAnswer DEF Next
<1>2. QED BY <1>1, AnswerInit, SearchInvariantHolds, PTL DEF Spec

\* searchAllFiles returns true exactly if an input that could be read contains
\* a match, in every mode and however the threads interleave, provided that no
\* group is given up with a readable file in it.
THEOREM AnswerIsCorrect ==
  ASSUME InputsKept
  PROVE  Spec => []AnswerCorrect
<1>1. SearchInvariant /\ AnswerInvariant => AnswerCorrect
  <2> SUFFICES ASSUME SearchInvariant, AnswerInvariant, Returned, ~grepMatchFound,
                      NEW f \in matching \cap Readable
               PROVE  FALSE
    BY DEF AnswerCorrect, AnswerInvariant, MatchesReal
  <2>1. /\ pc[EngineThread] = "returned" /\ ~Stops(grepMatchFound)
        /\ \A t \in Threads : pc[t] \in {"exited", "returned"}
    BY DEF Returned, At, Stops, AnswerInvariant, LastToReturn
  <2>2. ~(GrepStdIn /\ f = StdIn)
    BY <2>1 DEF AnswerInvariant, LastToReturn
  <2>3. PICK g \in Groups : \E i \in 1 .. Len(FileGroups[g]) :
          f \in Files \ Unreadable /\ FileGroups[g][i] = f
    BY <2>2 DEF Readable
  <2>4. FullySearched(g)
    <3>1. Len(FileGroups) \in Nat /\ Len(output) \in Nat
      BY GroupLengths DEF SearchInvariant, TypeOK
    <3>2. g \in 1 .. Len(output) /\ g <= Len(FileGroups)
      BY <2>1, <3>1 DEF SearchInvariant, Printed, Groups
    <3>3. QED BY <3>2 DEF SearchInvariant, Printed, PrintedInOrder
  <2>5. resultStrs[g] = Len(FileGroups[g])
    <3>1. /\ resultStrs[g] \in Nat /\ Len(FileGroups[g]) \in Nat
          /\ resultStrs[g] <= Len(FileGroups[g]) /\ resultStrs[g] > 0
      BY <2>4, GroupLengths DEF SearchInvariant, TypeOK, Searched, GroupSearched, FullySearched
    <3>2. CASE GivesUp(FileGroups[g][resultStrs[g]])
      <4>1. resultStrs[g] \in 1 .. Len(FileGroups[g])
        BY <3>1
      <4>2. Len(FileGroups[g]) = 1
        BY <3>2, <4>1 DEF GivesUp, InputsKept
      <4>3. QED BY <3>1, <4>2
    <3>3. QED BY <2>4, <3>2 DEF FullySearched
  <2>6. \E t \in Threads : CarriesMatch(t, g)
    BY <2>3, <2>5 DEF AnswerInvariant, MatchesKnown
  <2>7. QED BY <2>1, <2>6 DEF CarriesMatch
<1>2. QED BY <1>1, SearchInvariantHolds, AnswerInvariantHolds, PTL

-----------------------------------------------------------------------------
(* No deadlock.                                                            *)

\* The engine's thread waits for the next group, or to join the workers.
Waits(t) ==
  \/ At(t, "drain") /\ nextFileToPrint <= Len(FileGroups) /\ ~ReadyToPrint
  \/ At(t, "join") /\ \E u \in Threads \ {EngineThread} : ~At(u, "exited")

\* A group that was taken and is not searched is in the hands of a thread, and
\* all groups are taken before the engine's thread waits for them.
GroupsCarried ==
  /\ \A g \in Groups : g < nextFileToGrep /\ fileStatus[g] = "Pending" =>
       \E t \in Threads : Holding(t) /\ fileIdx[t] = g
  /\ At(EngineThread, "drain") => Len(FileGroups) < nextFileToGrep

\* Until searchAllFiles returns, some thread has a step to take.
SomeThreadGoesOn ==
  Returned \/ \E t \in Threads : pc[t] \notin {"exited", "returned"} /\ ~Waits(t)

\* initFileResult leaves no group taken.
LEMMA CarriedInit == Init => GroupsCarried
<1>1. Init => nextFileToGrep = 1 /\ pc[EngineThread] = "start"
  BY ThreadAssumption DEF Init
<1>2. \A g \in Groups : ~(g < 1)
  BY DEF Groups
<1>3. QED BY <1>1, <1>2 DEF GroupsCarried, At

\* A thread takes a group, or finds that none is left.
LEMMA TakeCarries ==
  ASSUME SearchInvariant, GroupsCarried, NEW t \in Threads, TakeGroup(t)
  PROVE  GroupsCarried'
<1> DEFINE label == IF At(t, "next") /\ t = EngineThread THEN "flush"
                    ELSE Loop(t, nextFileToGrep)
<1>1. /\ nextFileToGrep \in Nat /\ nextFileToGrep' = nextFileToGrep + 1
      /\ fileIdx' = [fileIdx EXCEPT ![t] = nextFileToGrep] /\ fileStatus' = fileStatus
      /\ pc' = [pc EXCEPT ![t] = label] /\ pc[t] \in {"start", "next"}
      /\ fileIdx'[t] = nextFileToGrep /\ pc'[t] = label
  BY DEF TakeGroup, Take, Goto, At, SearchInvariant, TypeOK
<1>2. \A u \in Threads \ {t} : fileIdx'[u] = fileIdx[u] /\ pc'[u] = pc[u]
  BY <1>1 DEF SearchInvariant, TypeOK
<1>3. /\ nextFileToGrep \in Groups => label \in {"grep", "flush"}
      /\ label = "drain" => Len(FileGroups) < nextFileToGrep
  BY <1>1, GroupLengths DEF Loop, Groups
<1>4. ASSUME NEW g \in Groups, g < nextFileToGrep', fileStatus[g] = "Pending"
      PROVE  \E u \in Threads : Holding(u)' /\ fileIdx'[u] = g
  <2>1. CASE g = nextFileToGrep
    <3>1. label \in {"grep", "flush"}
      BY <1>3, <1>4, <2>1
    <3>2. Holding(t)' /\ fileIdx'[t] = g
      BY <1>1, <2>1, <3>1 DEF Holding
    <3>3. QED BY <3>2
  <2>2. CASE g # nextFileToGrep
    <3>1. g \in Nat
      BY GroupLengths DEF Groups
    <3>2. g < nextFileToGrep
      BY <1>1, <1>4, <2>2, <3>1
    <3>3. PICK u \in Threads : Holding(u) /\ fileIdx[u] = g
      BY <1>4, <3>2 DEF GroupsCarried
    <3>4. u # t
      BY <1>1, <3>3 DEF Holding
    <3>5. QED BY <1>2, <3>3, <3>4 DEF Holding
  <2>3. QED BY <2>1, <2>2
<1>5. At(EngineThread, "drain")' => Len(FileGroups) < nextFileToGrep'
  <2>1. Len(FileGroups) < nextFileToGrep => Len(FileGroups) < nextFileToGrep'
    BY <1>1, GroupLengths
  <2>2. CASE t = EngineThread
    BY <1>1, <1>3, <2>1, <2>2 DEF At
  <2>3. CASE t # EngineThread
    BY <1>2, <2>1, <2>3, ThreadAssumption DEF At, GroupsCarried
  <2>4. QED BY <2>2, <2>3
<1>6. QED BY <1>1, <1>4, <1>5 DEF GroupsCarried

\* A step that leaves the counter and keeps what t holds, unless it makes the
\* group of t complete.
LEMMA MoveCarries ==
  ASSUME SearchInvariant, GroupsCarried, NEW t \in Threads,
         nextFileToGrep' = nextFileToGrep, fileIdx' = fileIdx,
         \A u \in Threads \ {t} : pc'[u] = pc[u],
         \A g \in Groups : fileStatus'[g] = "Pending" =>
           fileStatus[g] = "Pending" /\ (Holding(t) /\ fileIdx[t] = g => Holding(t)'),
         pc'[t] = "drain" => pc[t] = "drain" \/ Len(FileGroups) < nextFileToGrep
  PROVE  GroupsCarried'
<1>1. ASSUME NEW g \in Groups, g < nextFileToGrep, fileStatus'[g] = "Pending"
      PROVE  \E u \in Threads : Holding(u)' /\ fileIdx'[u] = g
  <2>1. PICK u \in Threads : Holding(u) /\ fileIdx[u] = g
    BY <1>1 DEF GroupsCarried
  <2>2. Holding(u)'
    <3>1. CASE u = t
      BY <1>1, <2>1, <3>1
    <3>2. CASE u # t
      BY <2>1, <3>2 DEF Holding
    <3>3. QED BY <3>1, <3>2
  <2>3. QED BY <2>1, <2>2
<1>2. At(EngineThread, "drain")' => Len(FileGroups) < nextFileToGrep
  <2>1. CASE t = EngineThread
    BY <2>1 DEF At, GroupsCarried
  <2>2. CASE t # EngineThread
    BY <2>2, ThreadAssumption DEF At, GroupsCarried
  <2>3. QED BY <2>1, <2>2
<1>3. QED BY <1>1, <1>2 DEF GroupsCarried

\* No step of DoGrepThreadMethod loses a group.
LEMMA CarriedKeeps == SearchInvariant /\ GroupsCarried /\ [Next]_vars => GroupsCarried'
<1> SUFFICES ASSUME SearchInvariant, GroupsCarried, [Next]_vars PROVE GroupsCarried'
  OBVIOUS
<1>1. ASSUME NEW t \in Threads, ThreadStep(t) PROVE GroupsCarried'
  <2>1. \A label : Goto(t, label) =>
          pc'[t] = label /\ \A u \in Threads \ {t} : pc'[u] = pc[u]
    BY DEF Goto, SearchInvariant, TypeOK
  <2>2. CASE TakeGroup(t)
    BY <2>2, TakeCarries
  <2>3. CASE GrepFile(t)
    <3>1. /\ UNCHANGED <<nextFileToGrep, fileStatus, fileIdx>>
          /\ Goto(t, "complete") \/ Goto(t, "grep")
      BY <2>3 DEF GrepFile
    <3>2. pc'[t] \in {"complete", "grep"} /\ \A u \in Threads \ {t} : pc'[u] = pc[u]
      BY <2>1, <3>1
    <3>3. QED BY <3>1, <3>2, MoveCarries DEF Holding
  <2>4. CASE CompleteGroup(t)
    <3>1. /\ UNCHANGED <<nextFileToGrep, fileIdx>> /\ Goto(t, "record")
          /\ fileStatus' = [fileStatus EXCEPT ![fileIdx[t]] = "GrepComplete"]
      BY <2>4 DEF CompleteGroup
    <3>2. pc'[t] = "record" /\ \A u \in Threads \ {t} : pc'[u] = pc[u]
      BY <2>1, <3>1
    <3>3. ASSUME NEW g \in Groups, fileStatus'[g] = "Pending"
          PROVE  fileStatus[g] = "Pending" /\ fileIdx[t] # g
      BY <3>1, <3>3 DEF SearchInvariant, TypeOK
    <3>4. QED BY <3>1, <3>2, <3>3, MoveCarries
  <2>5. CASE RecordMatch(t) \/ EndDrain(t) \/ SearchStdIn(t) \/ JoinWorkers(t)
    <3>1. /\ UNCHANGED <<nextFileToGrep, fileStatus, fileIdx>>
          /\ pc[t] \in {"record", "drain", "stdin", "join"}
          /\ \E label \in {"next", "join", "exited", "stdin", "returned"} : Goto(t, label)
      BY <2>5 DEF RecordMatch, EndDrain, SearchStdIn, JoinWorkers, At
    <3>2. /\ pc'[t] \in {"next", "join", "exited", "stdin", "returned"}
          /\ \A u \in Threads \ {t} : pc'[u] = pc[u]
      BY <2>1, <3>1
    <3>3. ~Holding(t)
      BY <3>1 DEF Holding
    <3>4. QED BY <3>1, <3>2, <3>3, MoveCarries
  <2>6. CASE PrintGroup(t)
    <3>1. /\ UNCHANGED <<nextFileToGrep, fileIdx, pc>>
          /\ fileStatus' = [fileStatus EXCEPT ![nextFileToPrint] = "PrintComplete"]
      BY <2>6 DEF PrintGroup
    <3>2. ASSUME NEW g \in Groups, fileStatus'[g] = "Pending"
          PROVE  fileStatus[g] = "Pending"
      BY <3>1, <3>2 DEF SearchInvariant, TypeOK
    <3>3. Holding(t)' <=> Holding(t)
      BY <3>1 DEF Holding
    <3>4. QED BY <3>1, <3>2, <3>3, MoveCarries
  <2>7. CASE EndFlush(t)
    <3>1. /\ UNCHANGED <<nextFileToGrep, fileStatus, fileIdx>>
          /\ Goto(t, Loop(t, fileIdx[t])) /\ pc[t] = "flush"
      BY <2>7 DEF EndFlush, At
    <3>2. /\ pc'[t] = Loop(t, fileIdx[t]) /\ \A u \in Threads \ {t} : pc'[u] = pc[u]
      BY <2>1, <3>1
    <3>3. fileIdx[t] \in 1 .. nextFileToGrep - 1 /\ nextFileToGrep \in Nat
      BY <3>1 DEF SearchInvariant, TypeOK, Claims, Holding
    <3>4. fileIdx[t] \in Groups => Loop(t, fileIdx[t]) = "grep"
      BY DEF Loop, Groups
    <3>5. fileIdx[t] \notin Groups => Len(FileGroups) < nextFileToGrep
      BY <3>3, GroupLengths DEF Groups
    <3>6. Loop(t, fileIdx[t]) = "drain" => Len(FileGroups) < nextFileToGrep
      BY <3>4, <3>5
    <3>7. ASSUME NEW g \in Groups, fileIdx[t] = g PROVE Holding(t)'
      BY <3>2, <3>4, <3>7 DEF Holding
    <3>8. QED BY <3>1, <3>2, <3>6, <3>7, MoveCarries
  <2>8. QED BY <1>1, <2>2, <2>3, <2>4, <2>5, <2>6, <2>7 DEF ThreadStep
<1>2. CASE UNCHANGED vars
  BY <1>2 DEF vars, GroupsCarried, Holding, At
<1>3. QED BY <1>1, <1>2 DEF Next

\* No group is lost between mNextFileToGrep++ and its completion, also when
\* threads stop early in quiet mode.
THEOREM NoGroupIsLost == Spec => []GroupsCarried
BY CarriedInit, CarriedKeeps, SearchInvariantHolds, PTL DEF Spec

\* The engine's thread waits in its second printing loop only while another
\* thread has the next group in hand, and for a join only while a worker still
\* runs; the other threads never wait.
THEOREM SearchGoesOn == Spec => []SomeThreadGoesOn
<1>1. SearchInvariant /\ GroupsCarried => SomeThreadGoesOn
  <2> SUFFICES ASSUME SearchInvariant, GroupsCarried, ~Returned
               PROVE  \E t \in Threads : pc[t] \notin {"exited", "returned"} /\ ~Waits(t)
    BY DEF SomeThreadGoesOn
  <2>1. pc[EngineThread] \notin {"exited", "returned"}
    BY ThreadAssumption DEF SearchInvariant, Roles, At, Returned
  <2>2. CASE ~Waits(EngineThread)
    BY <2>1, <2>2, ThreadAssumption
  <2>3. CASE At(EngineThread, "drain") /\ nextFileToPrint <= Len(FileGroups) /\ ~ReadyToPrint
    <3>1. nextFileToPrint \in Groups /\ Len(FileGroups) < nextFileToGrep
          /\ nextFileToPrint < nextFileToGrep
      BY <2>3, GroupLengths DEF SearchInvariant, TypeOK, Groups, GroupsCarried
    <3>2. fileStatus[nextFileToPrint] = "Pending"
      <4>1. fileStatus[nextFileToPrint] \in {"Pending", "GrepComplete", "PrintComplete"}
        BY <3>1 DEF SearchInvariant, TypeOK
      <4>2. fileStatus[nextFileToPrint] # "PrintComplete"
        <5>1. ~(nextFileToPrint < nextFileToPrint)
          BY <3>1, GroupLengths DEF Groups
        <5>2. QED BY <3>1, <5>1 DEF SearchInvariant, Printed
      <4>3. fileStatus[nextFileToPrint] # "GrepComplete"
        BY <2>3 DEF ReadyToPrint
      <4>4. QED BY <4>1, <4>2, <4>3
    <3>3. PICK t \in Threads : Holding(t)
      BY <3>1, <3>2 DEF GroupsCarried
    <3>4. QED BY <3>3 DEF Holding, Waits, At
  <2>4. CASE At(EngineThread, "join") /\ \E u \in Threads \ {EngineThread} : ~At(u, "exited")
    <3>1. PICK u \in Threads \ {EngineThread} : ~At(u, "exited")
      BY <2>4
    <3>2. pc[u] \notin {"drain", "join", "returned", "exited"}
      BY <3>1 DEF SearchInvariant, Roles, At
    <3>3. QED BY <3>2 DEF Waits, At
  <2>5. QED BY <2>2, <2>3, <2>4 DEF Waits
<1>2. QED BY <1>1, SearchInvariantHolds, NoGroupIsLost, PTL
=============================================================================
