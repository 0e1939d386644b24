------------------------- MODULE StreamBufferProofs -------------------------
(***************************************************************************)
(* Proofs about StreamBuffer: whatever the pipeline, the threads and the   *)
(* capacities, every buffer that was replaced is still unmapped by the     *)
(* time the pipeline returns.                                              *)
(***************************************************************************)
EXTENDS StreamBuffer, WellFoundedInduction, TLAPS

\* The list of buffers is a sequence of records; contents and capacities may
\* be anything.
BufferList ==
  \E S : buffers \in Seq([capacity : S, freed : Nat, content : S])

Inv == ReclaimInvariant /\ BufferList

-----------------------------------------------------------------------------
(* Operators.                                                              *)

LEMMA MinProperties ==
  ASSUME NEW S, S \subseteq Nat, S # {}
  PROVE  Min(S) \in S /\ \A y \in S : Min(S) <= y
<1>1. PICK m \in S : \A k \in S : <<k, m>> \notin OpToRel(<, Nat)
  BY WFMin, NatLessThanWellFounded, Zenon
<1>2. \A k \in S : ~ (k < m)
  BY <1>1, Zenon DEF OpToRel
<1>3. \A k \in S : m <= k
  BY <1>2
<1>4. QED BY <1>3, Zenon DEF Min

\* Links are removed from the front of the list.
LEMMA RemovableLinksType ==
  ASSUME pending.links \in Seq(Entries), NEW c
  PROVE  RemovableLinks(c) \in 0 .. Len(pending.links)
<1> DEFINE Stops == { n \in 0 .. Len(pending.links) :
                        n < Len(pending.links) => pending.links[n + 1].mark >= c }
<1>1. Len(pending.links) \in Stops
  OBVIOUS
<1>2. Stops \subseteq Nat
  OBVIOUS
<1>3. Min(Stops) \in Stops
  <2> HIDE DEF Stops
  <2>1. QED BY <1>1, <1>2, MinProperties, Zenon
<1>4. RemovableLinks(c) = Min(Stops)
  BY DEF RemovableLinks
<1>5. QED BY <1>3, <1>4

-----------------------------------------------------------------------------
(* The structure of pending deletions.                                     *)

\* Every link is an entry in use.
LEMMA LinksInUse ==
  ASSUME PendingShape
  PROVE  /\ pending.links \in Seq(Entries) /\ Len(pending.links) \in Nat
         /\ DOMAIN pending.links = 1 .. Len(pending.links)
         /\ \A i \in 1 .. Len(pending.links) :
              /\ pending.links[i] \in Entries
              /\ pending.links[i].buffer # 0
              /\ pending.links[i].mark < AllOnes
<1>1. /\ pending.links \in Seq(Entries) /\ Len(pending.links) \in Nat
      /\ DOMAIN pending.links = 1 .. Len(pending.links)
  BY DEF PendingShape
<1>2. \A i \in 1 .. Len(pending.links) : pending.links[i] \in Entries
  BY <1>1
<1>3. \A i \in DOMAIN pending.links :
         pending.links[i].buffer # 0 /\ pending.links[i].mark < AllOnes
  BY DEF PendingShape
<1>4. QED BY <1>1, <1>2, <1>3

\* The end of a list, from the k-th element on.
LEMMA EndOfList ==
  ASSUME NEW S, NEW x \in Seq(S), NEW k \in Nat \ {0}
  PROVE  /\ SubSeq(x, k, Len(x)) \in Seq(S)
         /\ DOMAIN SubSeq(x, k, Len(x)) = 1 .. IF Len(x) < k THEN 0 ELSE Len(x) - k + 1
         /\ \A i \in DOMAIN SubSeq(x, k, Len(x)) : SubSeq(x, k, Len(x))[i] = x[k + i - 1]
OBVIOUS

\* What removeFromPendingDeletions does not unmap stays pending, and the
\* structure keeps its shape.
LEMMA RemovalKeepsPending ==
  ASSUME PendingShape, NEW c, pending' = Remaining(c)
  PROVE  /\ PendingShape'
         /\ PendingBuffers \subseteq PendingBuffers' \union Removed(c)
<1> DEFINE n == RemovableLinks(c)
           links == pending.links
           kept == SubSeq(links, n + 1, Len(links))
<1>1. /\ pending.first \in Entries /\ pending.second \in Entries
      /\ links \in Seq(Entries) /\ Len(links) \in Nat /\ DOMAIN links = 1 .. Len(links)
      /\ n \in 0 .. Len(links)
  BY RemovableLinksType DEF PendingShape
<1>2. Empty \in Entries /\ Empty.buffer = 0 /\ Empty.mark = AllOnes
  BY BoundAssumption DEF Empty, Entries
<1>3. CASE c <= pending.first.mark
  <2>1. pending' = pending
    BY <1>3 DEF Remaining
  <2>2. QED BY <2>1 DEF PendingShape, PendingBuffers
<1>4. CASE ~ (c <= pending.first.mark) /\ pending.second.mark >= c
  <2>1. CASE links = <<>>
    <3>1. pending' = [first |-> pending.second, second |-> Empty, links |-> <<>>]
      BY <1>4, <2>1 DEF Remaining
    <3>2. PendingShape'
      BY <1>1, <1>2, <2>1, <3>1 DEF PendingShape
    <3>3. PendingBuffers \subseteq {pending.first.buffer, pending.second.buffer}
      BY <2>1 DEF PendingBuffers
    <3>4. pending.first.buffer \in Removed(c)
      BY <1>4 DEF Removed
    <3>5. pending.second.buffer \in PendingBuffers'
      BY <3>1 DEF PendingBuffers
    <3>6. QED BY <3>2, <3>3, <3>4, <3>5
  <2>2. CASE links # <<>>
    <3> DEFINE tail == Tail(links)
    <3>1. pending' = [first |-> pending.second, second |-> Head(links), links |-> tail]
      BY <1>4, <2>2 DEF Remaining
    <3>2. /\ Head(links) = links[1] /\ 1 \in DOMAIN links
          /\ tail \in Seq(Entries) /\ DOMAIN tail = 1 .. Len(links) - 1
          /\ \A i \in 1 .. Len(links) - 1 : tail[i] = links[i + 1] /\ i + 1 \in DOMAIN links
      BY <1>1, <2>2
    <3> HIDE DEF tail
    <3>3. PendingShape'
      <4>1. /\ Head(links) \in Entries /\ Head(links).buffer # 0
            /\ Head(links).mark < AllOnes
        BY <1>1, <3>2, LinksInUse
      <4>2. \A i \in DOMAIN tail : tail[i].buffer # 0 /\ tail[i].mark < AllOnes
        BY <1>1, <3>2, LinksInUse
      <4>3. pending.second.mark < AllOnes \/ pending.second.buffer = 0
        BY DEF PendingShape
      <4>4. pending.second.buffer # 0
        BY <2>2 DEF PendingShape
      <4>5. QED BY <1>1, <3>1, <3>2, <4>1, <4>2, <4>3, <4>4 DEF PendingShape
    <3>4. ASSUME NEW i \in DOMAIN links
          PROVE  links[i].buffer \in PendingBuffers'
      <4>1. CASE i = 1
        BY <3>1, <3>2, <4>1 DEF PendingBuffers
      <4>2. CASE i # 1
        <5>1. i - 1 \in DOMAIN tail /\ tail[i - 1] = links[i]
          BY <1>1, <3>2, <4>2
        <5>2. pending'.links = tail
          BY <3>1
        <5>3. QED BY <5>1, <5>2, Zenon DEF PendingBuffers
      <4>3. QED BY <4>1, <4>2
    <3>5. pending.first.buffer \in Removed(c) /\ pending.second.buffer \in PendingBuffers'
      BY <1>4, <3>1 DEF Removed, PendingBuffers
    <3>6. QED BY <3>3, <3>4, <3>5 DEF PendingBuffers
  <2>3. QED BY <2>1, <2>2
<1>5. CASE ~ (c <= pending.first.mark) /\ ~ (pending.second.mark >= c)
  <2>1. Removed(c) = {pending.first.buffer, pending.second.buffer}
                       \union { links[i].buffer : i \in 1 .. n }
    BY <1>5 DEF Removed
  <2>2. /\ kept \in Seq(Entries) /\ Len(kept) = Len(links) - n
        /\ \A i \in 1 .. Len(links) - n : kept[i] = links[n + i]
    BY <1>1
  <2>3. kept = <<>> => pending' = [pending EXCEPT !.second = Empty, !.links = <<>>]
    BY <1>5 DEF Remaining
  <2>4. kept # <<>> =>
          pending' = [first |-> kept[1],
                      second |-> IF Len(kept) = 1 THEN Empty ELSE kept[2],
                      links |-> SubSeq(kept, 3, Len(kept))]
    BY <1>5 DEF Remaining
  <2> HIDE DEF kept, n
  <2>5. CASE kept = <<>>
    <3>1. n = Len(links)
      BY <1>1, <2>2, <2>5
    <3>2. PendingBuffers \subseteq Removed(c)
      BY <1>1, <2>1, <3>1 DEF PendingBuffers
    <3>3. PendingShape'
      <4>1. pending' = [first |-> pending.first, second |-> Empty, links |-> <<>>]
        BY <2>3, <2>5 DEF PendingShape
      <4>2. /\ pending'.first = pending.first /\ pending'.second = Empty
            /\ pending'.links = <<>>
        BY <4>1
      <4>3. pending' \in [first : Entries, second : Entries, links : Seq(Entries)]
        BY <1>1, <1>2, <4>1
      <4>4. QED BY <1>2, <4>2, <4>3 DEF PendingShape
    <3>4. QED BY <3>2, <3>3
  <2>6. CASE kept # <<>>
    <3> DEFINE rest == SubSeq(kept, 3, Len(kept))
               second == IF Len(kept) = 1 THEN Empty ELSE kept[2]
    <3>1. pending' = [first |-> kept[1], second |-> second, links |-> rest]
      BY <2>4, <2>6
    <3>2. /\ Len(kept) \in Nat \ {0} /\ 1 \in 1 .. Len(kept)
          /\ Len(kept) # 1 => 2 \in 1 .. Len(kept)
          /\ \A i \in 1 .. Len(kept) : n + i \in DOMAIN links /\ kept[i] = links[n + i]
      <4>1. Len(kept) \in Nat \ {0}
        BY <2>2, <2>6
      <4>2. n \in Nat /\ n + Len(kept) = Len(links)
        BY <1>1, <2>2
      <4>l. PICK l \in Nat : l = Len(links) /\ DOMAIN links = 1 .. l
        BY <1>1
      <4>3. \A i \in 1 .. Len(kept) : n + i \in 1 .. l
        BY <4>1, <4>2, <4>l
      <4>4. \A i \in 1 .. Len(kept) : kept[i] = links[n + i]
        BY <2>2, <4>2
      <4>m. PICK m \in Nat \ {0} : m = Len(kept)
        BY <4>1
      <4>n. 1 \in 1 .. m /\ (m # 1 => 2 \in 1 .. m)
        OBVIOUS
      <4>5. 1 \in 1 .. Len(kept) /\ (Len(kept) # 1 => 2 \in 1 .. Len(kept))
        BY <4>m, <4>n, Zenon
      <4>6. QED BY <4>1, <4>3, <4>4, <4>5, <4>l
    <3>3. /\ rest \in Seq(Entries)
          /\ DOMAIN rest = 1 .. IF Len(kept) > 2 THEN Len(kept) - 2 ELSE 0
          /\ \A i \in DOMAIN rest : rest[i] = kept[i + 2] /\ i + 2 \in 1 .. Len(kept)
      <4>k. PICK m \in Nat \ {0} : m = Len(kept)
        BY <3>2
      <4>1. /\ rest \in Seq(Entries)
            /\ DOMAIN rest = 1 .. IF m < 3 THEN 0 ELSE m - 3 + 1
            /\ \A i \in DOMAIN rest : rest[i] = kept[3 + i - 1]
        BY <2>2, <4>k, EndOfList
      <4> HIDE DEF rest
      <4>2. (IF m < 3 THEN 0 ELSE m - 3 + 1) = (IF m > 2 THEN m - 2 ELSE 0)
        OBVIOUS
      <4>3. \A i \in DOMAIN rest : 3 + i - 1 = i + 2 /\ i + 2 \in 1 .. m
        BY <4>1
      <4>4. QED BY <4>k, <4>1, <4>2, <4>3
    <3>4. Len(kept) = 1 => second = Empty
      OBVIOUS
    <3>5. Len(kept) # 1 => second = kept[2]
      OBVIOUS
    <3> HIDE DEF rest, second
    <3>6. PendingShape'
      <4>1. \A i \in 1 .. Len(kept) : kept[i].buffer # 0 /\ kept[i].mark < AllOnes /\ kept[i] \in Entries
        BY <1>1, <3>2, LinksInUse
      <4>2. Len(kept) = 1 => rest = <<>>
        BY <3>2, <3>3
      <4>4. /\ kept[1] \in Entries /\ kept[1].buffer # 0 /\ kept[1].mark < AllOnes
            /\ second \in Entries
            /\ second.mark < AllOnes \/ second.buffer = 0
            /\ second.buffer = 0 => rest = <<>>
        BY <1>2, <3>2, <3>4, <3>5, <4>1, <4>2
      <4>3. \A i \in DOMAIN rest : rest[i].buffer # 0 /\ rest[i].mark < AllOnes
        BY <3>3, <4>1
      <4>5. QED BY <3>1, <3>3, <4>3, <4>4 DEF PendingShape
    <3>7. ASSUME NEW i \in DOMAIN links, i > n
          PROVE  links[i].buffer \in PendingBuffers'
      <4>1. i - n \in 1 .. Len(kept) /\ kept[i - n] = links[i]
        BY <1>1, <2>2, <3>7
      <4>2. CASE i - n = 1
        BY <3>1, <4>1, <4>2 DEF PendingBuffers
      <4>3. CASE i - n = 2
        BY <3>1, <3>5, <4>1, <4>3 DEF PendingBuffers
      <4>4. CASE i - n > 2
        <5>k. PICK m \in Nat \ {0} : m = Len(kept)
          BY <3>2
        <5>j. PICK j \in Nat : j = i - n - 2 /\ j > 0 /\ j + 2 = i - n
          BY <1>1, <4>1, <4>4
        <5>2. m > 2 /\ j \in 1 .. m - 2
          BY <4>1, <5>k, <5>j
        <5>3. j \in DOMAIN rest
          BY <3>3, <5>k, <5>2
        <5>1. i - n - 2 \in DOMAIN rest /\ rest[i - n - 2] = links[i]
          BY <3>3, <4>1, <5>j, <5>3
        <5>4. QED BY <3>1, <5>1 DEF PendingBuffers
      <4>5. QED BY <1>1, <4>1, <4>2, <4>3, <4>4
    <3>8. ASSUME NEW i \in DOMAIN links
          PROVE  links[i].buffer \in PendingBuffers' \union Removed(c)
      BY <1>1, <2>1, <3>7
    <3>9. QED BY <2>1, <3>6, <3>8 DEF PendingBuffers
  <2>7. QED BY <2>5, <2>6
<1>6. QED BY <1>3, <1>4, <1>5

\* addToPendingDeletions loses no entry.
LEMMA AdditionKeepsPending ==
  ASSUME PendingShape, NEW entry \in Entries,
         entry.buffer # 0, entry.mark < AllOnes,
         pending' = Added(entry)
  PROVE  /\ PendingShape'
         /\ PendingBuffers \subseteq PendingBuffers' \union {0}
         /\ entry.buffer \in PendingBuffers'
<1>1. CASE pending.first.buffer = 0
  BY <1>1 DEF PendingShape, PendingBuffers, Added
<1>2. CASE pending.first.buffer # 0 /\ pending.second.buffer = 0
  BY <1>2 DEF PendingShape, PendingBuffers, Added
<1>3. CASE pending.first.buffer # 0 /\ pending.second.buffer # 0
  <2> DEFINE links == pending.links
             more == Append(links, entry)
  <2>1. /\ more \in Seq(Entries) /\ DOMAIN links = 1 .. Len(links) /\ Len(links) \in Nat
        /\ DOMAIN more = 1 .. Len(links) + 1
        /\ more[Len(links) + 1] = entry
        /\ \A i \in DOMAIN links : more[i] = links[i] /\ i \in DOMAIN more
    BY DEF PendingShape
  <2>2. pending' = [pending EXCEPT !.links = more]
    BY <1>3 DEF Added
  <2>3. pending' = [first |-> pending.first, second |-> pending.second, links |-> more]
    BY <2>2 DEF PendingShape
  <2> HIDE DEF more
  <2>4. \A i \in DOMAIN more : more[i].buffer # 0 /\ more[i].mark < AllOnes
    BY <2>1 DEF PendingShape
  <2>5. PendingShape'
    BY <1>3, <2>1, <2>3, <2>4 DEF PendingShape
  <2>6. QED BY <2>1, <2>3, <2>5 DEF PendingBuffers
<1>4. QED BY <1>1, <1>2, <1>3

\* releaseBuffer finds everything that is pending.
LEMMA ReleaseFindsPending ==
  ASSUME PendingShape
  PROVE  PendingBuffers \subseteq Removed(AllOnes) \union {0}
<1> DEFINE n == RemovableLinks(AllOnes)
           links == pending.links
           Stops == { i \in 0 .. Len(links) :
                        i < Len(links) => links[i + 1].mark >= AllOnes }
<1>1. links \in Seq(Entries) /\ Len(links) \in Nat /\ DOMAIN links = 1 .. Len(links)
      /\ AllOnes \in Nat /\ pending.first.mark \in Nat
      /\ pending.second.mark \in Nat
  BY BoundAssumption DEF PendingShape, Entries
<1>2. n = Len(links)
  <2>1. \A i \in Stops : i = Len(links)
    <3>1. \A i \in 1 .. Len(links) : ~ (links[i].mark >= AllOnes)
      BY <1>1, LinksInUse DEF Entries
    <3>2. QED BY <1>1, <3>1
  <2>2. n \in Stops
    <3>1. Stops \subseteq Nat /\ Len(links) \in Stops
      BY <1>1
    <3>2. n = Min(Stops)
      BY DEF RemovableLinks
    <3>3. QED
      <4> HIDE DEF Stops
      <4>1. QED BY <3>1, <3>2, MinProperties, Zenon
  <2>3. QED BY <2>1, <2>2
<1>3. CASE AllOnes <= pending.first.mark
  BY <1>1, <1>3 DEF PendingShape, PendingBuffers
<1>4. CASE ~ (AllOnes <= pending.first.mark) /\ pending.second.mark >= AllOnes
  BY <1>1, <1>4 DEF PendingShape, PendingBuffers, Removed
<1>5. CASE ~ (AllOnes <= pending.first.mark) /\ ~ (pending.second.mark >= AllOnes)
  BY <1>1, <1>2, <1>5 DEF PendingBuffers, Removed
<1>6. QED BY <1>3, <1>4, <1>5

-----------------------------------------------------------------------------
(* The list of buffers.                                                    *)

\* A sequence is a function on its indices.
LEMMA SequenceType ==
  ASSUME NEW T, NEW s, NEW n \in Nat, s \in [1 .. n -> T]
  PROVE  s \in Seq(T)
OBVIOUS

LEMMA SequenceElements ==
  ASSUME NEW T, NEW s \in Seq(T)
  PROVE  Len(s) \in Nat /\ DOMAIN s = 1 .. Len(s) /\ \A i \in DOMAIN s : s[i] \in T
OBVIOUS

LEMMA WiderSequence ==
  ASSUME NEW T, NEW U, T \subseteq U, NEW s \in Seq(T)
  PROVE  s \in Seq(U)
OBVIOUS

\* Unmapping changes no buffer but in how often it was unmapped.
LEMMA UnmappingCounts ==
  ASSUME BufferList, NEW bs, buffers' = Unmapped(bs)
  PROVE  /\ BufferList'
         /\ DOMAIN buffers' = DOMAIN buffers
         /\ \A b \in DOMAIN buffers :
              buffers[b].freed > 0 \/ b \in bs => buffers'[b].freed > 0
<1>1. PICK S : buffers \in Seq([capacity : S, freed : Nat, content : S])
  BY DEF BufferList
<1> DEFINE B == [capacity : S, freed : Nat, content : S]
<1>2. /\ Len(buffers) \in Nat /\ DOMAIN buffers = 1 .. Len(buffers)
      /\ \A b \in DOMAIN buffers : buffers[b] \in B
  BY <1>1, SequenceElements, Zenon
<1>3. \A b \in DOMAIN buffers :
        LET u == [buffers[b] EXCEPT !.freed = @ + 1]
        IN  u \in B /\ u.freed = buffers[b].freed + 1 /\ buffers[b].freed \in Nat
  BY <1>2
<1>4. /\ DOMAIN buffers' = DOMAIN buffers
      /\ \A b \in DOMAIN buffers :
           buffers'[b] = IF b \in bs THEN [buffers[b] EXCEPT !.freed = @ + 1] ELSE buffers[b]
  BY DEF Unmapped
<1>5. \A b \in DOMAIN buffers : buffers'[b] \in B
  BY <1>2, <1>3, <1>4
<1>6. buffers' \in Seq(B)
  <2> HIDE DEF B
  <2>1. buffers' \in [1 .. Len(buffers) -> B]
    BY <1>2, <1>4, <1>5 DEF Unmapped
  <2>2. QED BY <1>2, <2>1, SequenceType, Zenon
<1>7. ASSUME NEW b \in DOMAIN buffers, buffers[b].freed > 0 \/ b \in bs
      PROVE  buffers'[b].freed > 0
  <2>1. CASE b \in bs
    <3>1. buffers'[b].freed = buffers[b].freed + 1 /\ buffers[b].freed \in Nat
      BY <1>3, <1>4, <2>1
    <3>2. QED BY <3>1
  <2>2. CASE b \notin bs
    BY <1>4, <1>7, <2>2
  <2>3. QED BY <2>1, <2>2
<1>8. BufferList'
  BY <1>6, Zenon DEF BufferList
<1>9. QED BY <1>4, <1>7, <1>8

\* Storing items changes only what a buffer holds.
LEMMA StoringKeepsBuffers ==
  ASSUME BufferList, NEW v, NEW lo, NEW hi, buffers' = Stored(v, lo, hi)
  PROVE  /\ BufferList'
         /\ DOMAIN buffers' = DOMAIN buffers
         /\ \A b \in DOMAIN buffers : buffers'[b].freed = buffers[b].freed
<1>1. PICK S : buffers \in Seq([capacity : S, freed : Nat, content : S])
  BY DEF BufferList
<1>2. PICK C : buffers' = [buffers EXCEPT ![v.buffer].content = C]
  BY Zenon DEF Stored
<1> DEFINE T == S \union {C}
           B == [capacity : T, freed : Nat, content : T]
<1>3. /\ Len(buffers) \in Nat /\ DOMAIN buffers = 1 .. Len(buffers)
      /\ \A b \in DOMAIN buffers : buffers[b] \in B
  <2>1. [capacity : S, freed : Nat, content : S] \subseteq B
    OBVIOUS
  <2>2. QED BY <1>1, <2>1, SequenceElements, Zenon
<1>4. /\ DOMAIN buffers' = DOMAIN buffers
      /\ \A b \in DOMAIN buffers :
           buffers'[b] = IF b = v.buffer THEN [buffers[b] EXCEPT !.content = C] ELSE buffers[b]
  BY <1>2
<1>5. \A b \in DOMAIN buffers :
        LET u == [buffers[b] EXCEPT !.content = C]
        IN  u \in B /\ u.freed = buffers[b].freed
  BY <1>3
<1>6. buffers' \in [1 .. Len(buffers) -> B]
  <2> HIDE DEF B
  <2>1. \A b \in DOMAIN buffers : buffers'[b] \in B
    BY <1>3, <1>4, <1>5
  <2>2. QED BY <1>2, <1>3, <1>4, <2>1
<1>7. buffers' \in Seq(B)
  BY <1>3, <1>6, SequenceType, Zenon
<1>8. QED BY <1>4, <1>5, <1>7 DEF BufferList

\* Appending a buffer leaves the others as they are.
LEMMA AppendingKeepsBuffers ==
  ASSUME BufferList, NEW c, NEW d,
         buffers' = Append(buffers, [capacity |-> c, freed |-> 0, content |-> d])
  PROVE  /\ BufferList'
         /\ Len(buffers) \in Nat
         /\ DOMAIN buffers' = DOMAIN buffers \union {Len(buffers) + 1}
         /\ \A b \in DOMAIN buffers : buffers'[b] = buffers[b]
<1>1. PICK S : buffers \in Seq([capacity : S, freed : Nat, content : S])
  BY DEF BufferList
<1> DEFINE T == S \union {c, d}
           B == [capacity : T, freed : Nat, content : T]
           new == [capacity |-> c, freed |-> 0, content |-> d]
<1>2. new \in B
  OBVIOUS
<1>3. buffers \in Seq(B)
  <2>1. [capacity : S, freed : Nat, content : S] \subseteq B
    OBVIOUS
  <2>2. QED BY <1>1, <2>1, WiderSequence, Zenon
<1> HIDE DEF B, new
<1>4. buffers' = Append(buffers, new)
  BY DEF new
<1>5. /\ buffers' \in Seq(B) /\ Len(buffers) \in Nat
      /\ DOMAIN buffers' = 1 .. Len(buffers) + 1 /\ DOMAIN buffers = 1 .. Len(buffers)
      /\ \A b \in DOMAIN buffers : buffers'[b] = buffers[b]
  BY <1>2, <1>3, <1>4
<1>6. BufferList'
  BY <1>5 DEF BufferList, B
<1>7. QED BY <1>5, <1>6

-----------------------------------------------------------------------------
(* The steps.                                                              *)

\* The part of the invariant that is about memory, while the handle has a
\* buffer.
MemoryInvariant ==
  /\ PendingShape
  /\ base \in Nat \ {0}
  /\ \A b \in DOMAIN buffers : buffers[b].freed > 0 \/ b \in {base} \union PendingBuffers
  /\ BufferList

\* A thread that has not left finds a buffer behind the handle, and a step
\* keeps the invariant when it keeps the counts and the memory in order.
LEMMA RunningThread ==
  ASSUME Inv, NEW t \in Threads, pc[t] # "done"
  PROVE  CountsBounded /\ MemoryInvariant
BY DEF Inv, ReclaimInvariant, MemoryInvariant, At

LEMMA InvFromParts ==
  ASSUME CountsBounded', MemoryInvariant'
  PROVE  Inv'
BY DEF Inv, ReclaimInvariant, MemoryInvariant, NothingLeaked

LEMMA SameMemory ==
  ASSUME MemoryInvariant, UNCHANGED memory
  PROVE  MemoryInvariant'
<1>1. buffers' = buffers /\ base' = base /\ pending' = pending
  BY DEF memory
<1>2. PendingShape' /\ PendingBuffers' = PendingBuffers
  BY <1>1 DEF MemoryInvariant, PendingShape, PendingBuffers
<1>3. BufferList'
  BY <1>1 DEF MemoryInvariant, BufferList
<1>4. QED BY <1>1, <1>2, <1>3 DEF MemoryInvariant

LEMMA ItemCountBounded ==
  ASSUME CountsBounded, NEW k \in Kernels
  PROVE  ItemCount(k) \in 0 .. MaxItems
BY DEF CountsBounded, ItemCount

LEMMA MinOfTwo ==
  ASSUME NEW a \in Nat, NEW b \in Nat
  PROVE  Min({a, b}) \in {a, b} /\ Min({a, b}) <= a /\ Min({a, b}) <= b
<1>1. {a, b} \subseteq Nat /\ {a, b} # {} /\ a \in {a, b} /\ b \in {a, b}
  OBVIOUS
<1>2. QED
  <2> DEFINE S == {a, b}
  <2> HIDE DEF S
  <2>1. S \subseteq Nat /\ S # {} /\ a \in S /\ b \in S
    BY <1>1 DEF S
  <2>2. Min(S) \in S /\ \A y \in S : Min(S) <= y
    BY <2>1, MinProperties, Zenon
  <2>3. Min(S) \in S /\ Min(S) <= a /\ Min(S) <= b
    BY <2>1, <2>2, Zenon
  <2>4. QED BY <2>3 DEF S

LEMMA KernelBounds ==
  /\ NumKernels \in Nat \ {0, 1} /\ MaxItems \in Nat
  /\ 1 \in Kernels /\ 2 \in Kernels /\ NumKernels \in Kernels
BY BoundAssumption DEF Kernels

\* Locks, segment numbers and control alone.
LEMMA ControlSteps ==
  ASSUME Inv, NEW t \in Threads,
         ObtainSegmentNumber(t) \/ Leave(t) \/ EnterShort(t) \/ EnterStopped(t)
           \/ ExitProducer(t) \/ ExitConsumer(t) \/ JumpWithin(t)
  PROVE  Inv'
<1>1. pc[t] # "done"
  BY DEF ObtainSegmentNumber, Leave, EnterShort, EnterStopped, ExitProducer, ExitConsumer,
         JumpWithin, At
<1>2. CountsBounded /\ MemoryInvariant
  BY <1>1, RunningThread
<1>3. UNCHANGED <<pipeline, counts, memory, from, to>>
  BY DEF ObtainSegmentNumber, Leave, EnterShort, EnterStopped, ExitProducer, ExitConsumer,
         JumpWithin, locals
<1>4. UNCHANGED <<pipeline, internal, count, from, to, avail>>
  BY <1>3 DEF counts, ObtainSegmentNumber, Leave, EnterShort, EnterStopped, ExitProducer,
              ExitConsumer, JumpWithin, locals
<1>5. pc' \in [Threads -> ControlPoints]
  BY <1>2 DEF CountsBounded, ControlPoints, ObtainSegmentNumber, Leave, EnterShort,
              EnterStopped, ExitProducer, ExitConsumer, JumpWithin, Goto
<1>6. kernelId' \in [Threads -> Kernels]
  <2>1. CASE kernelId' = kernelId
    BY <1>2, <2>1 DEF CountsBounded
  <2>2. CASE ExitProducer(t)
    BY <1>2, <2>2, KernelBounds DEF CountsBounded, ExitProducer
  <2>3. CASE ExitConsumer(t)
    <3>1. kernelId' = [kernelId EXCEPT ![t] = kernelId[t] + 1]
      BY <2>3 DEF ExitConsumer
    <3>2. kernelId[t] \in 2 .. NumKernels - 1
      BY <2>3 DEF ExitConsumer
    <3>3. kernelId[t] + 1 \in Kernels
      BY <3>2, KernelBounds DEF Kernels
    <3>4. QED BY <1>2, <3>1, <3>3 DEF CountsBounded
  <2>4. CASE JumpWithin(t)
    BY <1>2, <2>4, KernelBounds DEF CountsBounded, JumpWithin, Kernels
  <2>5. QED
    BY <2>1, <2>2, <2>3, <2>4 DEF ObtainSegmentNumber, Leave, EnterShort, EnterStopped
<1>7. target' \in [Threads -> 1 .. NumKernels + 1]
  <2>1. CASE target' = target
    BY <1>2, <2>1 DEF CountsBounded
  <2>2. CASE EnterShort(t)
    <3>1. kernelId[t] \in Consumers
      BY <1>2, <2>2, KernelBounds DEF CountsBounded, EnterShort, Kernels, Consumers
    <3>2. pipeline.jumpTarget[kernelId[t]] \in 3 .. NumKernels + 1
      BY <1>2, <3>1, PipelineAssumption DEF CountsBounded
    <3>3. pipeline.jumpTarget[kernelId[t]] \in 1 .. NumKernels + 1
      BY <3>2, KernelBounds
    <3>4. QED BY <1>2, <2>2, <3>3 DEF CountsBounded, EnterShort
  <2>3. CASE EnterStopped(t)
    <3>k. PICK k \in Nat : k = kernelId[t] /\ k \in 1 .. NumKernels
      BY <1>2, KernelBounds DEF CountsBounded, Kernels
    <3>1. kernelId[t] + 1 \in 1 .. NumKernels + 1
      BY <3>k, KernelBounds
    <3>2. QED BY <1>2, <2>3, <3>1 DEF CountsBounded, EnterStopped
  <2>4. QED
    BY <2>1, <2>2, <2>3 DEF ObtainSegmentNumber, Leave, ExitProducer, ExitConsumer, JumpWithin
<1>8. CountsBounded'
  BY <1>2, <1>4, <1>5, <1>6, <1>7 DEF CountsBounded
<1>9. MemoryInvariant'
  BY <1>2, <1>3, SameMemory
<1>10. QED BY <1>8, <1>9, InvFromParts

\* A step that only unmaps buffers removed from the pending deletions at some
\* consumed count keeps the memory in order.
LEMMA UnmappingKeepsMemory ==
  ASSUME MemoryInvariant, NEW c,
         buffers' = Unmapped(Removed(c)), pending' = Remaining(c), base' = base
  PROVE  MemoryInvariant'
<1>1. PendingShape /\ BufferList
  BY DEF MemoryInvariant
<1>2. PendingShape' /\ PendingBuffers \subseteq PendingBuffers' \union Removed(c)
  BY <1>1, RemovalKeepsPending
<1>3. /\ BufferList' /\ DOMAIN buffers' = DOMAIN buffers
      /\ \A b \in DOMAIN buffers :
           buffers[b].freed > 0 \/ b \in Removed(c) => buffers'[b].freed > 0
  BY <1>1, UnmappingCounts
<1>4. \A b \in DOMAIN buffers' : buffers'[b].freed > 0 \/ b \in {base} \union PendingBuffers'
  BY <1>2, <1>3 DEF MemoryInvariant
<1>5. QED BY <1>2, <1>3, <1>4 DEF MemoryInvariant

\* The producer enters and frees what its consumers have passed.
LEMMA EnterProducerStep ==
  ASSUME Inv, NEW t \in Threads, EnterProducer(t)
  PROVE  Inv'
<1>1. CountsBounded /\ MemoryInvariant
  BY RunningThread DEF EnterProducer, At
<1>2. UNCHANGED <<pipeline, internal, count, kernelId, target, avail, base>>
  BY DEF EnterProducer, counts
<1>3. ItemCount(1) \in 0 .. MaxItems
  BY <1>1, KernelBounds, ItemCountBounded
<1>4. from' \in [Threads -> 0 .. MaxItems]
  BY <1>1, <1>3 DEF CountsBounded, EnterProducer
<1>5. PICK n \in pipeline.segmentLengths :
        /\ to' = [to EXCEPT ![t] = Min({ItemCount(1) + n, MaxItems})]
        /\ \E label \in {"ready", "expand"} : Goto(t, label)
  BY Zenon DEF EnterProducer
<1>6. to' \in [Threads -> 0 .. MaxItems]
  <2>1. n \in Nat
    BY <1>1, <1>5, PipelineAssumption DEF CountsBounded
  <2>2. ItemCount(1) + n \in Nat /\ MaxItems \in Nat
    BY <1>3, <2>1, KernelBounds
  <2>3. Min({ItemCount(1) + n, MaxItems}) \in 0 .. MaxItems
    BY <2>2, MinOfTwo
  <2>4. QED BY <1>1, <1>5, <2>3 DEF CountsBounded
<1>7. pc' \in [Threads -> ControlPoints]
  BY <1>1, <1>5 DEF CountsBounded, Goto, ControlPoints
<1>8. CountsBounded'
  BY <1>1, <1>2, <1>4, <1>6, <1>7 DEF CountsBounded
<1>9. MemoryInvariant'
  BY <1>1, <1>2, UnmappingKeepsMemory DEF EnterProducer
<1>10. QED BY <1>8, <1>9, InvFromParts

\* An expansion puts the replaced buffer among the pending deletions, with a
\* mark below the count at which everything is released.
LEMMA ExpandStep ==
  ASSUME Inv, NEW t \in Threads, Expand(t)
  PROVE  Inv'
<1> DEFINE entry == [buffer |-> base, mark |-> SafeToDeleteAt(t)]
<1>0. pc[t] = "expand"
  BY Zenon DEF Expand, At
<1>1. CountsBounded /\ MemoryInvariant
  BY <1>0, RunningThread
<1>2. /\ UNCHANGED <<pipeline, internal, count, kernelId, target, from, to, avail>>
      /\ Goto(t, "ready") /\ pending' = Added(entry) /\ base' = Len(buffers) + 1
  BY DEF Expand, counts, locals
<1>3. CountsBounded'
  <2>1. pc' \in [Threads -> ControlPoints]
    BY <1>1, <1>2 DEF CountsBounded, Goto, ControlPoints
  <2>2. QED BY <1>1, <1>2, <2>1 DEF CountsBounded
<1>4. entry \in Entries /\ entry.buffer = base /\ base # 0 /\ entry.mark < AllOnes
  <2>1. BlockWidth \in Nat /\ AllOnes > MaxItems + BlockWidth
    BY <1>1, PipelineAssumption DEF CountsBounded, BlockWidth
  <2>2. from[t] \in 0 .. MaxItems /\ base \in Nat \ {0}
    BY <1>1 DEF CountsBounded, MemoryInvariant
  <2>3. SafeToDeleteAt(t) \in Nat /\ SafeToDeleteAt(t) < AllOnes
    BY <2>1, <2>2, BoundAssumption DEF SafeToDeleteAt
  <2>4. QED BY <2>2, <2>3 DEF Entries
<1>5. /\ PendingShape' /\ PendingBuffers \subseteq PendingBuffers' \union {0}
      /\ base \in PendingBuffers'
  <2>1. PendingShape
    BY <1>1 DEF MemoryInvariant
  <2> HIDE DEF entry
  <2>2. QED BY <1>2, <1>4, <2>1, AdditionKeepsPending
<1>6. PICK c, d : buffers' = Append(buffers, [capacity |-> c, freed |-> 0, content |-> d])
  BY Zenon DEF Expand
<1>7. /\ BufferList' /\ Len(buffers) \in Nat
      /\ DOMAIN buffers' = DOMAIN buffers \union {Len(buffers) + 1}
      /\ \A b \in DOMAIN buffers : buffers'[b] = buffers[b]
  BY <1>1, <1>6, AppendingKeepsBuffers DEF MemoryInvariant
<1>8. 0 \notin DOMAIN buffers
  <2>1. PICK S : buffers \in Seq([capacity : S, freed : Nat, content : S])
    BY <1>1 DEF MemoryInvariant, BufferList
  <2>2. QED BY <2>1
<1>9. \A b \in DOMAIN buffers' : buffers'[b].freed > 0 \/ b \in {base'} \union PendingBuffers'
  BY <1>1, <1>2, <1>5, <1>7, <1>8 DEF MemoryInvariant
<1>10. MemoryInvariant'
  <2>1. base' \in Nat \ {0}
    BY <1>2, <1>7
  <2>2. QED BY <1>5, <1>7, <1>9, <2>1 DEF MemoryInvariant
<1>11. QED BY <1>3, <1>10, InvFromParts

\* A consumer enters with at most the items that are available to it.
LEMMA EnterConsumerStep ==
  ASSUME Inv, NEW t \in Threads, EnterConsumer(t)
  PROVE  Inv'
<1>1. CountsBounded /\ MemoryInvariant
  BY RunningThread DEF EnterConsumer, At
<1>2. UNCHANGED <<pipeline, internal, count, kernelId, target, avail, memory>>
  BY DEF EnterConsumer, counts
<1>3. ItemCount(kernelId[t]) \in 0 .. MaxItems /\ avail[t] \in 0 .. MaxItems
  BY <1>1, ItemCountBounded DEF CountsBounded
<1>4. PICK n \in ItemCount(kernelId[t]) .. avail[t] :
        to' = [to EXCEPT ![t] = n] /\ Goto(t, "ready")
  BY DEF EnterConsumer
<1>5. from' = [from EXCEPT ![t] = ItemCount(kernelId[t])]
  BY DEF EnterConsumer
<1>6. n \in 0 .. MaxItems
  BY <1>3, <1>4, KernelBounds
<1>7. /\ from' \in [Threads -> 0 .. MaxItems] /\ to' \in [Threads -> 0 .. MaxItems]
      /\ pc' \in [Threads -> ControlPoints]
  BY <1>1, <1>3, <1>4, <1>5, <1>6 DEF CountsBounded, Goto, ControlPoints
<1>8. CountsBounded'
  BY <1>1, <1>2, <1>7 DEF CountsBounded
<1>9. MemoryInvariant'
  BY <1>1, <1>2, SameMemory
<1>10. QED BY <1>8, <1>9, InvFromParts

\* The invocation: internal counts move, and the kernel stores its items.
LEMMA KernelStepKeepsInv ==
  ASSUME Inv, NEW t \in Threads, KernelStep(t)
  PROVE  Inv'
<1>1. CountsBounded /\ MemoryInvariant
  BY RunningThread DEF KernelStep, Invoke, Return, LoopExit, LoopExitStopping, At
<1>2. to[t] \in 0 .. MaxItems /\ kernelId[t] \in Kernels
  BY <1>1 DEF CountsBounded
<1>3. CASE Invoke(t)
  <2>1. /\ UNCHANGED <<pipeline, count, kernelId, target, from, to, avail, memory>>
        /\ Goto(t, "run")
    BY <1>3 DEF Invoke
  <2>2. internal' \in [Kernels -> 0 .. MaxItems]
    BY <1>1, <1>2, <1>3 DEF Invoke, CountsBounded
  <2>3. pc' \in [Threads -> ControlPoints]
    BY <1>1, <2>1 DEF CountsBounded, Goto, ControlPoints
  <2>4. CountsBounded'
    BY <1>1, <2>1, <2>2, <2>3 DEF CountsBounded
  <2>5. QED BY <1>1, <2>1, <2>4, SameMemory, InvFromParts
<1>4. CASE Return(t)
  <2>1. /\ UNCHANGED <<pipeline, internal, count, kernelId, target, from, to, avail,
                       base, pending>>
        /\ Goto(t, "loopExit")
    BY <1>4 DEF Return, counts, locals
  <2>2. CountsBounded'
    <3>1. pc' \in [Threads -> ControlPoints]
      BY <1>1, <2>1 DEF CountsBounded, Goto, ControlPoints
    <3>2. QED BY <1>1, <2>1, <3>1 DEF CountsBounded
  <2>3. CASE kernelId[t] # 1
    <3>1. UNCHANGED memory
      BY <1>4, <2>1, <2>3 DEF Return, memory
    <3>2. QED BY <1>1, <2>2, <3>1, SameMemory, InvFromParts
  <2>4. CASE kernelId[t] = 1
    <3>1. buffers' = Stored(view[t], from[t], to[t])
      BY <1>4, <2>4 DEF Return
    <3>2. /\ BufferList' /\ DOMAIN buffers' = DOMAIN buffers
          /\ \A b \in DOMAIN buffers : buffers'[b].freed = buffers[b].freed
      BY <1>1, <3>1, StoringKeepsBuffers DEF MemoryInvariant
    <3>3. PendingShape' /\ PendingBuffers' = PendingBuffers
      BY <1>1, <2>1 DEF MemoryInvariant, PendingShape, PendingBuffers
    <3>4. MemoryInvariant'
      BY <1>1, <2>1, <3>2, <3>3 DEF MemoryInvariant
    <3>5. QED BY <2>2, <3>4, InvFromParts
  <2>5. QED BY <2>3, <2>4
<1>5. CASE LoopExit(t) \/ LoopExitStopping(t)
  <2>1. /\ UNCHANGED <<pipeline, internal, kernelId, target, from, to, memory>>
        /\ Goto(t, "exit") /\ count' = [count EXCEPT ![kernelId[t]] = to[t]]
        /\ avail' = avail \/ avail' = [avail EXCEPT ![t] = to[t]]
    BY <1>5 DEF LoopExit, LoopExitStopping, locals
  <2>2. count' \in [Kernels -> 0 .. MaxItems] /\ avail' \in [Threads -> 0 .. MaxItems]
    BY <1>1, <1>2, <2>1 DEF CountsBounded
  <2>3. pc' \in [Threads -> ControlPoints]
    BY <1>1, <2>1 DEF CountsBounded, Goto, ControlPoints
  <2>4. CountsBounded'
    BY <1>1, <2>1, <2>2, <2>3 DEF CountsBounded
  <2>5. QED BY <1>1, <2>1, <2>4, SameMemory, InvFromParts
<1>6. QED BY <1>3, <1>4, <1>5 DEF KernelStep

\* The two ways in which a segment ends.
LEMMA SegmentEnd ==
  ASSUME Inv, NEW t \in Threads, ExitLastKernel(t) \/ JumpToEnd(t)
  PROVE  Inv'
<1>1. CountsBounded /\ MemoryInvariant
  BY RunningThread DEF ExitLastKernel, JumpToEnd, At
<1>2. UNCHANGED <<pipeline, internal, count, memory>> /\ Goto(t, "fetch") /\ ForgetLocals(t)
  BY DEF ExitLastKernel, JumpToEnd, counts
<1>3. /\ kernelId' \in [Threads -> Kernels] /\ target' \in [Threads -> 1 .. NumKernels + 1]
      /\ from' \in [Threads -> 0 .. MaxItems] /\ to' \in [Threads -> 0 .. MaxItems]
      /\ avail' \in [Threads -> 0 .. MaxItems]
  <2>1. 1 \in Kernels /\ 1 \in 1 .. NumKernels + 1 /\ 0 \in 0 .. MaxItems
    BY KernelBounds
  <2>2. QED BY <1>1, <1>2, <2>1 DEF CountsBounded, ForgetLocals
<1>4. pc' \in [Threads -> ControlPoints]
  BY <1>1, <1>2 DEF CountsBounded, Goto, ControlPoints
<1>5. CountsBounded'
  BY <1>1, <1>2, <1>3, <1>4 DEF CountsBounded
<1>6. QED BY <1>1, <1>2, <1>5, SameMemory, InvFromParts

\* The handle is released: its own buffer and everything that is pending.
LEMMA ReleaseStep ==
  ASSUME Inv, ReleaseBuffer
  PROVE  Inv'
<1>1. CountsBounded /\ MemoryInvariant
  BY DEF Inv, ReclaimInvariant, MemoryInvariant, ReleaseBuffer
<1>2. /\ UNCHANGED <<pipeline, internal, count, pc, kernelId, target, from, to, avail>>
      /\ buffers' = Unmapped(ReleasedBuffers) /\ pending' = Remaining(AllOnes) /\ base' = 0
  BY DEF ReleaseBuffer, counts, control, locals
<1>3. CountsBounded'
  BY <1>1, <1>2 DEF CountsBounded
<1>4. PendingShape /\ BufferList
  BY <1>1 DEF MemoryInvariant
<1>5. PendingShape'
  BY <1>2, <1>4, RemovalKeepsPending
<1>6. /\ BufferList' /\ DOMAIN buffers' = DOMAIN buffers
      /\ \A b \in DOMAIN buffers :
           buffers[b].freed > 0 \/ b \in ReleasedBuffers => buffers'[b].freed > 0
  BY <1>2, <1>4, UnmappingCounts
<1>7. 0 \notin DOMAIN buffers
  <2>1. PICK S : buffers \in Seq([capacity : S, freed : Nat, content : S])
    BY <1>4 DEF BufferList
  <2>2. QED BY <2>1
<1>8. {base} \union PendingBuffers \subseteq ReleasedBuffers \union {0}
  BY <1>4, ReleaseFindsPending DEF ReleasedBuffers
<1>9. \A b \in DOMAIN buffers' : buffers'[b].freed > 0
  BY <1>1, <1>6, <1>7, <1>8 DEF MemoryInvariant
<1>10. \A t \in Threads : At(t, "done")'
  BY <1>2 DEF ReleaseBuffer, At
<1>11. QED
  BY <1>2, <1>3, <1>5, <1>6, <1>9, <1>10 DEF Inv, ReclaimInvariant, NothingLeaked

-----------------------------------------------------------------------------
(* The invariant.                                                          *)

LEMMA InitInv == Init => Inv
<1> SUFFICES ASSUME Init PROVE Inv
  OBVIOUS
<1>1. PICK d : buffers = << [capacity |-> InitialCapacity, freed |-> 0, content |-> d] >>
  BY Zenon DEF Init
<1>2. DOMAIN buffers = {1} /\ BufferList
  <2> DEFINE S == {InitialCapacity, d}
  <2>1. buffers \in Seq([capacity : S, freed : Nat, content : S])
    BY <1>1
  <2>2. DOMAIN buffers = {1}
    BY <1>1
  <2> HIDE DEF S
  <2>3. QED BY <2>1, <2>2, Zenon DEF BufferList
<1>3. CountsBounded
  <2>1. 0 \in 0 .. MaxItems /\ 1 \in Kernels /\ 1 \in 1 .. NumKernels + 1
        /\ "fetch" \in ControlPoints
    BY KernelBounds DEF ControlPoints
  <2>2. QED BY <2>1 DEF Init, CountsBounded
<1>4. PendingShape
  BY BoundAssumption DEF Init, PendingShape, Empty, Entries
<1>5. base = 1
  BY DEF Init
<1>6. QED BY <1>2, <1>3, <1>4, <1>5 DEF Inv, ReclaimInvariant, NothingLeaked

LEMMA StutterInv ==
  ASSUME Inv, UNCHANGED vars
  PROVE  Inv'
<1>1. UNCHANGED <<pipeline, internal, count, pc, kernelId, target, from, to, avail,
                  buffers, base, pending>>
  BY DEF vars, counts, memory, control, locals
<1>2. CountsBounded' /\ BufferList' /\ PendingShape' /\ PendingBuffers' = PendingBuffers
  BY <1>1 DEF Inv, ReclaimInvariant, CountsBounded, BufferList, PendingShape, PendingBuffers
<1>3. QED
  BY <1>1, <1>2 DEF Inv, ReclaimInvariant, NothingLeaked, At

LEMMA StepInv ==
  ASSUME Inv, [Next]_vars
  PROVE  Inv'
<1>1. ASSUME NEW t \in Threads, ThreadStep(t)
      PROVE  Inv'
  <2>1. CASE ProducerStep(t)
    BY <2>1, EnterProducerStep, ExpandStep DEF ProducerStep
  <2>2. CASE ConsumerStep(t)
    BY <2>2, EnterConsumerStep, ControlSteps DEF ConsumerStep
  <2>3. CASE KernelStep(t)
    BY <2>3, KernelStepKeepsInv
  <2>4. CASE ExitStep(t)
    BY <2>4, ControlSteps, SegmentEnd DEF ExitStep
  <2>5. CASE JumpStep(t)
    BY <2>5, ControlSteps, SegmentEnd DEF JumpStep
  <2>6. CASE ObtainSegmentNumber(t) \/ Leave(t)
    BY <2>6, ControlSteps
  <2>7. QED BY <1>1, <2>1, <2>2, <2>3, <2>4, <2>5, <2>6 DEF ThreadStep
<1>2. CASE ReleaseBuffer
  BY <1>2, ReleaseStep
<1>3. CASE Returned \/ UNCHANGED vars
  BY <1>3, StutterInv DEF Returned
<1>4. QED BY <1>1, <1>2, <1>3 DEF Next

LEMMA InvHolds == Spec => []Inv
BY InitInv, StepInv, PTL DEF Spec

\* A buffer that is still mapped is always the current one or can be found
\* among the pending deletions, for every pipeline, number of threads and
\* capacity (removeFromPendingDeletions, addToPendingDeletions).
THEOREM ReclaimInvariantHolds == Spec => []ReclaimInvariant
<1>1. Inv => ReclaimInvariant
  BY DEF Inv
<1>2. QED BY <1>1, InvHolds, PTL

\* When the pipeline returns, every buffer the stream set used is unmapped
\* (releaseBuffer, freePendingDeletions).
THEOREM NoBufferLeaks == Spec => []NothingLeaked
<1>1. Inv => NothingLeaked
  BY DEF Inv, ReclaimInvariant
<1>2. QED BY <1>1, InvHolds, PTL
=============================================================================
