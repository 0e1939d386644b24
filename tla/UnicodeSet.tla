----------------------------- MODULE UnicodeSet -----------------------------
(***************************************************************************)
(* Sets of code points as src/lib/ucd/core/unicode_set.cpp stores them:    *)
(* the code points are divided into quads, a sequence of runs says which   *)
(* quads are Empty, Mixed or Full, and the Mixed ones are listed.  One set *)
(* object goes through any sequence of calls; "members" is what it should  *)
(* hold.  A quad is the set of the bits that are 1 in it.                  *)
(***************************************************************************)
EXTENDS Integers, Sequences, FiniteSets, FiniteSetsExt

CONSTANTS QuadBits,       \* code points in a quad
          QuadCount,      \* UNICODE_QUAD_COUNT
          Operands,       \* contents of the other sets that calls are given
          MergingRanges   \* calls of insert_range whose end merges with a
                          \* Mixed quad are made, too

ASSUME SizeAssumption ==
  /\ QuadBits \in Nat /\ QuadBits > 1
  /\ QuadCount \in Nat \ {0}
  /\ Operands \subseteq SUBSET (0 .. QuadBits * QuadCount - 1)
  /\ MergingRanges \in BOOLEAN

VARIABLES set,       \* the runs and the Mixed quads of the object
          members,   \* the code points it should contain
          joined     \* no insert, insert_range or range constructor wrote its runs

vars == <<set, members, joined>>

Limit == QuadBits * QuadCount
CodePoints == 0 .. Limit - 1
Bits == 0 .. QuadBits - 1
RunTypes == {"Empty", "Mixed", "Full"}

Run(type, length) == [type |-> type, length |-> length]
Object(runs, quads) == [runs |-> runs, quads |-> quads]

\* Bits from the position of lo on, and up to the position of hi.
LoQuad(lo) == lo % QuadBits .. QuadBits - 1
HiQuad(hi) == 0 .. hi % QuadBits

-----------------------------------------------------------------------------
(* Building a representation.                                              *)

\* The objects of one quad and of a run without quads, and two in a row.
Partial(quad) == Object(<<Run("Mixed", 1)>>, <<quad>>)
Piece(type, n) == IF n = 0 THEN <<>> ELSE <<Run(type, n)>>
Uniform(type, n) == Object(Piece(type, n), <<>>)
Concat(s, t) == Object(s.runs \o t.runs, s.quads \o t.quads)

\* Seeded fault: the run is not joined to an equal one before it.
AppendRunApart(s, type, n) ==
  IF n = 0 THEN s ELSE Object(Append(s.runs, Run(type, n)), s.quads)

AppendRun(s, type, n) ==
  IF n = 0 THEN s
  ELSE IF s.runs # <<>> /\ s.runs[Len(s.runs)].type = type
  THEN [s EXCEPT !.runs[Len(s.runs)].length = @ + n]
  ELSE [s EXCEPT !.runs = Append(@, Run(type, n))]

TypeOf(quad) == IF quad = {} THEN "Empty" ELSE IF quad = Bits THEN "Full" ELSE "Mixed"

AppendQuad(s, quad) ==
  AppendRun(IF TypeOf(quad) = "Mixed" THEN [s EXCEPT !.quads = Append(@, quad)] ELSE s,
            TypeOf(quad), 1)

AppendQuads(s, quads) ==
  LET appended[n \in 0 .. Len(quads)] ==
        IF n = 0 THEN s ELSE AppendQuad(appended[n - 1], quads[n])
  IN appended[Len(quads)]

EmptySet == Uniform("Empty", QuadCount)

SingletonSet(cp) ==
  LET offset == cp \div QuadBits IN
  Concat(Concat(Uniform("Empty", offset), Partial({cp % QuadBits})),
         Uniform("Empty", QuadCount - (offset + 1)))

\* Between the Mixed quads at the ends, if the range does not fill these, lie
\* d Full ones.
RangeSet(lo, hi) ==
  LET loIndex == lo \div QuadBits
      hiIndex == hi \div QuadBits
      lm == IF LoQuad(lo) # Bits THEN 1 ELSE 0
      rm == IF HiQuad(hi) # Bits THEN 1 ELSE 0
      d == (hiIndex - loIndex) - (lm + rm) + 1
      End(quad) == IF quad = Bits THEN Uniform("Full", 0) ELSE Partial(quad)
      inner == IF loIndex # hiIndex
               THEN Concat(Concat(End(LoQuad(lo)), Uniform("Full", d)), End(HiQuad(hi)))
               ELSE IF lm + rm = 0 THEN Uniform("Full", 1)
               ELSE Partial(LoQuad(lo) \cap HiQuad(hi))
  IN Concat(Concat(Uniform("Empty", loIndex), inner),
            Uniform("Empty", QuadCount - (hiIndex + 1)))

\* One interval of a list; the quad in "mask" is kept open while the next
\* interval begins in it.
ConvertInterval(list, acc, i) ==
  LET lo == list[i][1]
      hi == list[i][2]
      loIndex == lo \div QuadBits
      hiIndex == hi \div QuadBits
      s == AppendRun(acc.s, "Empty", loIndex - acc.prior)
      mask == IF loIndex = hiIndex THEN acc.mask \cup (LoQuad(lo) \cap HiQuad(hi))
              ELSE HiQuad(hi)
      t == IF loIndex = hiIndex THEN s
           ELSE AppendRun(AppendQuad(s, acc.mask \cup LoQuad(lo)),
                          "Full", hiIndex - (loIndex + 1))
  IN IF i < Len(list) /\ list[i + 1][1] \div QuadBits = hiIndex
     THEN [s |-> t, prior |-> hiIndex, mask |-> mask]
     ELSE [s |-> AppendQuad(t, mask), prior |-> hiIndex + 1, mask |-> {}]

ConvertIntervals(list) ==
  LET converted[i \in 0 .. Len(list)] ==
        IF i = 0 THEN [s |-> Object(<<>>, <<>>), prior |-> 0, mask |-> {}]
        ELSE ConvertInterval(list, converted[i - 1], i)
      last == converted[Len(list)]
  IN AppendRun(last.s, "Empty", QuadCount - last.prior)

-----------------------------------------------------------------------------
(* Finding a quad: the loops over the runs that subtract their lengths.    *)

\* sum[n] is the sum of the first n numbers of a sequence.
SumsOf(numbers) ==
  LET sum[n \in 0 .. Len(numbers)] == IF n = 0 THEN 0 ELSE sum[n - 1] + numbers[n]
  IN sum

MixedLength(run) == IF run.type = "Mixed" THEN run.length ELSE 0

LengthBefore(s, r) == SumsOf([k \in 1 .. Len(s.runs) |-> s.runs[k].length])[r - 1]
MixedBefore(s, r) == SumsOf([k \in 1 .. Len(s.runs) |-> MixedLength(s.runs[k])])[r - 1]

\* The run that holds quad i, and the place of the quad in it.
RunOf(s, i) == CHOOSE r \in DOMAIN s.runs :
                 LengthBefore(s, r) <= i /\ i < LengthBefore(s, r + 1)
OffsetIn(s, i) == i - LengthBefore(s, RunOf(s, i))

QuadAt(s, i) ==
  LET r == RunOf(s, i) IN
  CASE s.runs[r].type = "Mixed" -> s.quads[MixedBefore(s, r) + OffsetIn(s, i) + 1]
    [] s.runs[r].type = "Full" -> Bits
    [] s.runs[r].type = "Empty" -> {}

contains(s, cp) == cp % QuadBits \in QuadAt(s, cp \div QuadBits)

-----------------------------------------------------------------------------
(* insert: one code point, one quad, at most one run split into three.     *)

\* The Mixed quads up to quad i, without it and with it.
QuadsTo(s, i) ==
  MixedBefore(s, RunOf(s, i))
    + (IF s.runs[RunOf(s, i)].type = "Mixed" THEN OffsetIn(s, i) ELSE 0)
QuadsThrough(s, i) ==
  MixedBefore(s, RunOf(s, i))
    + (IF s.runs[RunOf(s, i)].type = "Mixed" THEN OffsetIn(s, i) + 1 ELSE 0)

\* The quads before quad i, and those behind it.
Before(s, i) ==
  LET r == RunOf(s, i) IN
  Object(SubSeq(s.runs, 1, r - 1) \o Piece(s.runs[r].type, OffsetIn(s, i)),
         SubSeq(s.quads, 1, QuadsTo(s, i)))
Behind(s, i) ==
  LET r == RunOf(s, i) IN
  Object(Piece(s.runs[r].type, s.runs[r].length - (OffsetIn(s, i) + 1))
           \o SubSeq(s.runs, r + 1, Len(s.runs)),
         SubSeq(s.quads, QuadsThrough(s, i) + 1, Len(s.quads)))

\* Seeded fault: what follows the quad in its run is lost.
ReplaceQuadShort(s, i, new) ==
  LET r == RunOf(s, i) IN
  Concat(Concat(Before(s, i), new),
         Object(SubSeq(s.runs, r + 1, Len(s.runs)), Behind(s, i).quads))

\* Quad i gets a run of its own.
ReplaceQuad(s, i, new) == Concat(Concat(Before(s, i), new), Behind(s, i))

\* The object has buffers of its own (their capacities are not 0).
InsertCodePoint(s, cp) ==
  LET i == cp \div QuadBits
      type == s.runs[RunOf(s, i)].type
      quad == QuadAt(s, i) \cup {cp % QuadBits}
  IN CASE type = "Full" -> s
       [] type = "Empty" -> ReplaceQuad(s, i, Partial(quad))
       [] type = "Mixed" /\ quad # Bits -> [s EXCEPT !.quads[QuadsThrough(s, i)] = quad]
       [] type = "Mixed" /\ quad = Bits -> ReplaceQuad(s, i, Uniform("Full", 1))

-----------------------------------------------------------------------------
(* insert_range: the part before lo, the quad of lo, Full quads, the quad  *)
(* of hi, and what remains.                                                *)

\* Everything before the quad of lo, and that quad.
UpToLoQuad(s, lo, hi) ==
  LET i == lo \div QuadBits
      new == IF hi \div QuadBits = i THEN LoQuad(lo) \cap HiQuad(hi) ELSE LoQuad(lo)
  IN IF s.runs[RunOf(s, i)].type = "Full" THEN AppendRun(Before(s, i), "Full", 1)
     ELSE AppendQuad(Before(s, i), new \cup QuadAt(s, i))

\* The run of quad i from behind it on, later runs and quads from position q.
AppendRest(t, s, i, q) ==
  LET r == RunOf(s, i)
      u == AppendRun(t, s.runs[r].type, s.runs[r].length - (OffsetIn(s, i) + 1))
  IN Object(u.runs \o SubSeq(s.runs, r + 1, Len(s.runs)),
            u.quads \o SubSeq(s.quads, q, Len(s.quads)))

\* The quad of hi, if the original one is Mixed: hiIndex quads of its run are
\* passed over, although the quad of hi is the last of these, and the new quad
\* is merged with the one after them, if the run has one.
MergeHiQuad(t, s, lo, hi) ==
  LET i == hi \div QuadBits
      r == RunOf(s, i)
      first == IF LengthBefore(s, r) > lo \div QuadBits THEN LengthBefore(s, r)
               ELSE lo \div QuadBits + 1
      qi == QuadsThrough(s, i)
      passed == SubSeq(s.quads, qi - (i - first), qi)
  IN IF i = LengthBefore(s, r + 1) - 1
     THEN AppendRest(AppendQuad(t, HiQuad(hi)), s, i, qi + 1)
     ELSE AppendRest(AppendQuad([t EXCEPT !.quads = @ \o passed],
                                HiQuad(hi) \cup s.quads[qi + 1]),
                     s, i, qi + 2)

FullBetween(lo, hi) == hi \div QuadBits - lo \div QuadBits - 1

InsertRangeInto(s, lo, hi) ==
  LET i == hi \div QuadBits
      type == s.runs[RunOf(s, i)].type
      t == AppendRun(UpToLoQuad(s, lo, hi), "Full", FullBetween(lo, hi))
  IN CASE i = lo \div QuadBits ->
            AppendRest(UpToLoQuad(s, lo, hi), s, i, QuadsThrough(s, i) + 1)
       [] i # lo \div QuadBits /\ type = "Full" ->
            AppendRest(AppendRun(t, "Full", 1), s, i, QuadsThrough(s, i) + 1)
       [] i # lo \div QuadBits /\ type = "Empty" ->
            AppendRest(AppendQuad(t, HiQuad(hi)), s, i, QuadsThrough(s, i) + 1)
       [] i # lo \div QuadBits /\ type = "Mixed" -> MergeHiQuad(t, s, lo, hi)

-----------------------------------------------------------------------------
(* quad_iterator, and the operations that walk over two sets with it.      *)

QuadBegin(s) == [run |-> 1, quad |-> 1, type |-> s.runs[1].type,
                 left |-> s.runs[1].length]

\* Seeded fault: the quads of a run that ends here are not passed over.
AdvanceRunsOnly(s, it, n) ==
  IF n < it.left
  THEN [it EXCEPT !.left = @ - n, !.quad = IF it.type = "Mixed" THEN @ + n ELSE @]
  ELSE [it EXCEPT !.run = @ + 1,
                  !.type = IF it.run < Len(s.runs) THEN s.runs[it.run + 1].type ELSE "Empty",
                  !.left = IF it.run < Len(s.runs) THEN s.runs[it.run + 1].length ELSE 0]

\* By n quads, at most to the end of the run.
Advance(s, it, n) ==
  LET moved == [it EXCEPT !.quad = IF it.type = "Mixed" THEN @ + n ELSE @] IN
  IF n < it.left THEN [moved EXCEPT !.left = @ - n]
  ELSE IF it.run = Len(s.runs)
  THEN [moved EXCEPT !.run = @ + 1, !.type = "Empty", !.left = 0]
  ELSE [moved EXCEPT !.run = @ + 1, !.type = s.runs[it.run + 1].type,
                     !.left = s.runs[it.run + 1].length]

\* The quad that lies j behind the iterator in its run.
QuadBehind(s, it, j) == CASE it.type = "Mixed" -> s.quads[it.quad + j]
                          [] it.type = "Full" -> Bits
                          [] it.type = "Empty" -> {}

Operators == {"and", "or", "minus", "xor"}

\* Seeded fault: a Full quad of the first set hides the second.
ResultFullFirst(op, t1, q1, t2, q2) ==
  IF t1 = "Full" THEN Bits
  ELSE CASE op = "and" -> q1 \cap q2 [] op = "or" -> q1 \cup q2
         [] op = "minus" -> q1 \ q2 [] op = "xor" -> (q1 \cup q2) \ (q1 \cap q2)

\* The quad appended for two quads of the given types, in the order in which
\* the four operators distinguish the types.
Result(op, t1, q1, t2, q2) ==
  CASE op = "and" ->
         IF t1 = "Empty" \/ t2 = "Empty" THEN {}
         ELSE IF t1 = "Full" THEN q2 ELSE IF t2 = "Full" THEN q1 ELSE q1 \cap q2
    [] op = "or" ->
         IF t1 = "Full" \/ t2 = "Full" THEN Bits
         ELSE IF t1 = "Empty" THEN q2 ELSE IF t2 = "Empty" THEN q1 ELSE q1 \cup q2
    [] op = "minus" ->
         IF t1 = "Empty" \/ t2 = "Full" THEN {}
         ELSE IF t1 = "Full" THEN Bits \ q2 ELSE IF t2 = "Empty" THEN q1 ELSE q1 \ q2
    [] op = "xor" ->
         IF t1 # "Mixed" /\ t2 # "Mixed" THEN IF t1 = t2 THEN {} ELSE Bits
         ELSE IF t1 = "Empty" THEN q2 ELSE IF t2 = "Empty" THEN q1
         ELSE IF t1 = "Full" THEN Bits \ q2 ELSE IF t2 = "Full" THEN Bits \ q1
         ELSE (q1 \cup q2) \ (q1 \cap q2)

\* The walk goes in stretches, each as far as both runs reach: the iterators of
\* the two sets after k stretches.
Stretch(its) == IF its[1].left < its[2].left THEN its[1].left ELSE its[2].left

NextStretch(s1, s2, its) ==
  IF Stretch(its) = 0 THEN its
  ELSE <<Advance(s1, its[1], Stretch(its)), Advance(s2, its[2], Stretch(its))>>

Walk(s1, s2) ==
  LET walk[k \in 0 .. Len(s1.runs) + Len(s2.runs)] ==
        IF k = 0 THEN <<QuadBegin(s1), QuadBegin(s2)>>
        ELSE NextStretch(s1, s2, walk[k - 1])
  IN walk

\* What the operators append for a stretch.
ResultQuads(op, s1, s2, its) ==
  [j \in 1 .. Stretch(its) |->
     Result(op, its[1].type, QuadBehind(s1, its[1], j - 1),
                its[2].type, QuadBehind(s2, its[2], j - 1))]

Combine(op, s1, s2) ==
  LET walk == Walk(s1, s2)
      result[k \in 0 .. Len(s1.runs) + Len(s2.runs)] ==
        IF k = 0 THEN Object(<<>>, <<>>)
        ELSE AppendQuads(result[k - 1], ResultQuads(op, s1, s2, walk[k - 1]))
  IN result[Len(s1.runs) + Len(s2.runs)]

\* The quads that decide a walk of intersects, and one of subset.
Decides(question, t1, q1, t2, q2) ==
  CASE question = "intersects" -> /\ t1 # "Empty" /\ t2 # "Empty"
                                  /\ t1 = "Full" \/ t2 = "Full" \/ q1 \cap q2 # {}
    [] question = "exceeds" -> /\ t1 # "Empty" /\ t2 # "Full"
                               /\ t1 = "Full" \/ t2 = "Empty" \/ q1 \ q2 # {}

SomeQuad(question, s1, s2) ==
  LET walk == Walk(s1, s2) IN
  \E k \in DOMAIN walk : \E j \in 0 .. Stretch(walk[k]) - 1 :
    Decides(question, walk[k][1].type, QuadBehind(s1, walk[k][1], j),
                      walk[k][2].type, QuadBehind(s2, walk[k][2], j))

intersects(s1, s2) == SomeQuad("intersects", s1, s2)
subset(s1, s2) == ~SomeQuad("exceeds", s1, s2)

\* insert of a set keeps the object if nothing is new.
InsertSetInto(s, other) == IF subset(other, s) THEN s ELSE Combine("or", s, other)

Inverted(type) == CASE type = "Empty" -> "Full"
                    [] type = "Full" -> "Empty"
                    [] type = "Mixed" -> "Mixed"

Complement(s) ==
  Object([r \in DOMAIN s.runs |-> Run(Inverted(s.runs[r].type), s.runs[r].length)],
         [i \in DOMAIN s.quads |-> Bits \ s.quads[i]])

-----------------------------------------------------------------------------
(* iterator: the intervals of a set.                                       *)

IteratorBegin == [run |-> 1, quad |-> 1, mixedIndex |-> 0, offset |-> 0, base |-> 0]

\* Seeded fault: the bits already passed are not masked in the next quad.
NextQuadSameOffset(it) == [it EXCEPT !.quad = @ + 1, !.mixedIndex = @ + 1,
                                     !.base = @ + QuadBits]

\* The next quad of a Mixed run, from its first bit.
NextQuad(it) == [it EXCEPT !.quad = @ + 1, !.mixedIndex = @ + 1, !.offset = 0,
                           !.base = @ + QuadBits]

\* One step of the search for the next member (wanted = "Full") or nonmember
\* ("Empty"); x.at is where it was found, and Limit as long as it was not.
ScanStep(s, x, wanted) ==
  LET it == x.it
      run == s.runs[it.run]
      quad == IF wanted = "Full" THEN s.quads[it.quad] ELSE Bits \ s.quads[it.quad]
      found == {b \in quad : b >= it.offset}
  IN IF x.at # Limit \/ it.base >= Limit THEN x
     ELSE IF run.type # "Mixed"
     THEN [it |-> [it EXCEPT !.run = @ + 1, !.base = @ + run.length * QuadBits],
           at |-> IF run.type = wanted THEN it.base ELSE Limit]
     ELSE IF it.mixedIndex = run.length
     THEN [x EXCEPT !.it = [it EXCEPT !.run = @ + 1, !.offset = 0, !.mixedIndex = 0]]
     ELSE IF found # {}
     THEN [it |-> [it EXCEPT !.offset = Min(found)], at |-> it.base + Min(found)]
     ELSE [x EXCEPT !.it = NextQuad(it)]

\* Every two steps pass at least one quad.
Scan(s, it, wanted) ==
  LET scan[k \in 0 .. 2 * QuadCount] ==
        IF k = 0 THEN [it |-> it, at |-> Limit] ELSE ScanStep(s, scan[k - 1], wanted)
  IN scan[2 * QuadCount]

NextInterval(s, x) ==
  LET lo == Scan(s, x.it, "Full")
      hi == Scan(s, lo.it, "Empty")
  IN IF x.it.base >= Limit \/ lo.at = Limit THEN x
     ELSE [it |-> hi.it, list |-> Append(x.list, <<lo.at, hi.at - 1>>)]

Intervals(s) ==
  LET listed[k \in 0 .. Limit] ==
        IF k = 0 THEN [it |-> IteratorBegin, list |-> <<>>]
        ELSE NextInterval(s, listed[k - 1])
  IN listed[Limit].list

\* The first interval that does not end before lo decides.
intersectsRange(intervals, lo, hi) ==
  \E i \in DOMAIN intervals :
    /\ lo <= intervals[i][2] /\ intervals[i][1] <= hi
    /\ \A j \in 1 .. i - 1 : intervals[j][2] < lo

InsertIsolate(s, interval) ==
  IF interval[1] = interval[2] THEN InsertCodePoint(s, interval[1]) ELSE s

Isolates(s) ==
  LET intervals == Intervals(s)
      isolates[k \in 0 .. Len(intervals)] ==
        IF k = 0 THEN EmptySet ELSE InsertIsolate(isolates[k - 1], intervals[k])
  IN isolates[Len(intervals)]

FullLength(run) == IF run.type = "Full" THEN run.length ELSE 0

count(s) ==
  SumsOf([r \in 1 .. Len(s.runs) |-> FullLength(s.runs[r])])[Len(s.runs)] * QuadBits
  + SumsOf([i \in 1 .. Len(s.quads) |-> Cardinality(s.quads[i])])[Len(s.quads)]

-----------------------------------------------------------------------------
(* Comparison of representations.                                          *)

Equal(s1, s2) == s1.quads = s2.quads /\ s1.runs = s2.runs
empty(s) == Len(s.runs) = 1 /\ s.runs[1].type = "Empty"
full(s) == Len(s.runs) = 1 /\ s.runs[1].type = "Full"

\* Runs are compared as pairs, quads as numbers, sequences at their first
\* difference.
TypeNumber(type) == CASE type = "Empty" -> 0 [] type = "Mixed" -> 1 [] type = "Full" -> 2
\* Seeded fault: the types are not compared.
RunLessByLength(r1, r2) == r1.length < r2.length

RunLess(r1, r2) == \/ TypeNumber(r1.type) < TypeNumber(r2.type)
                   \/ r1.type = r2.type /\ r1.length < r2.length
QuadLess(q1, q2) == q1 # q2 /\ Max((q1 \cup q2) \ (q1 \cap q2)) \in q2

\* The first place at which two arrays of one length differ.
FirstDifference(x, y) ==
  CHOOSE i \in DOMAIN x : x[i] # y[i] /\ \A j \in 1 .. i - 1 : x[j] = y[j]

LessThan(s1, s2) ==
  IF Len(s1.runs) # Len(s2.runs) THEN Len(s1.runs) < Len(s2.runs)
  ELSE IF Len(s1.quads) # Len(s2.quads) THEN Len(s1.quads) < Len(s2.quads)
  ELSE IF s1.runs # s2.runs
    THEN LET i == FirstDifference(s1.runs, s2.runs) IN RunLess(s1.runs[i], s2.runs[i])
  ELSE /\ s1.quads # s2.quads
       /\ LET i == FirstDifference(s1.quads, s2.quads) IN QuadLess(s1.quads[i], s2.quads[i])

-----------------------------------------------------------------------------
(* The object's life.                                                      *)

\* The maximal intervals of a set of code points, and its members one by one:
\* two interval lists that the constructor accepts.
ExtendIntervals(list, codePoints, cp) ==
  IF cp \notin codePoints THEN list
  ELSE IF cp - 1 \in codePoints THEN [list EXCEPT ![Len(list)] = <<@[1], cp>>]
  ELSE Append(list, <<cp, cp>>)

MaximalIntervals(codePoints) ==
  LET below[n \in 0 .. Limit] ==
        IF n = 0 THEN <<>> ELSE ExtendIntervals(below[n - 1], codePoints, n - 1)
  IN below[Limit]

AppendSingle(list, codePoints, cp) ==
  IF cp \in codePoints THEN Append(list, <<cp, cp>>) ELSE list

SingleIntervals(codePoints) ==
  LET below[n \in 0 .. Limit] ==
        IF n = 0 THEN <<>> ELSE AppendSingle(below[n - 1], codePoints, n - 1)
  IN below[Limit]

OtherSet(codePoints) == ConvertIntervals(MaximalIntervals(codePoints))

Init ==
  /\ \/ set = EmptySet /\ members = {} /\ joined = TRUE
     \/ \E cp \in CodePoints : set = SingletonSet(cp) /\ members = {cp} /\ joined = TRUE
     \/ \E lo \in CodePoints : \E hi \in lo .. Limit - 1 :
          set = RangeSet(lo, hi) /\ members = lo .. hi /\ joined = FALSE
     \/ \E m \in Operands :
          /\ set \in {OtherSet(m), ConvertIntervals(SingleIntervals(m))}
          /\ members = m /\ joined = TRUE

Insert(cp) ==
  /\ set' = InsertCodePoint(set, cp)
  /\ members' = members \cup {cp}
  /\ joined' = (joined /\ set'.runs = set.runs)

InsertRange(lo, hi) ==
  /\ MergingRanges \/ hi \div QuadBits = lo \div QuadBits
       \/ TypeOf(QuadAt(set, hi \div QuadBits)) # "Mixed"
  /\ set' = InsertRangeInto(set, lo, hi)
  /\ members' = members \cup (lo .. hi)
  /\ joined' = FALSE

InsertSet(m) ==
  /\ set' = InsertSetInto(set, OtherSet(m))
  /\ members' = members \cup m
  /\ joined' = (joined \/ set' # set)

\* What an operator yields on two sets of code points.
Reference(op, m1, m2) == CASE op = "and" -> m1 \cap m2 [] op = "or" -> m1 \cup m2
                           [] op = "minus" -> m1 \ m2
                           [] op = "xor" -> (m1 \cup m2) \ (m1 \cap m2)

\* The object becomes the result of an operator on it and another set.
ApplyOperator(op, m) ==
  /\ \/ /\ set' = Combine(op, set, OtherSet(m))
        /\ members' = Reference(op, members, m)
     \/ /\ set' = Combine(op, OtherSet(m), set)
        /\ members' = Reference(op, m, members)
  /\ joined' = TRUE

\* invert and the operator ~ write the same runs and quads.
Invert ==
  /\ set' = Complement(set)
  /\ members' = CodePoints \ members
  /\ UNCHANGED joined

TakeIsolates ==
  /\ set' = Isolates(set)
  /\ members' = {cp \in members : cp - 1 \notin members /\ cp + 1 \notin members}
  /\ joined' = FALSE

Next ==
  \/ \E cp \in CodePoints : Insert(cp)
  \/ \E lo \in CodePoints : \E hi \in lo .. Limit - 1 : InsertRange(lo, hi)
  \/ \E m \in Operands : InsertSet(m) \/ \E op \in Operators : ApplyOperator(op, m)
  \/ Invert
  \/ TakeIsolates

Spec == Init /\ [][Next]_vars

-----------------------------------------------------------------------------
(* Properties.                                                             *)

\* verify, "Sanity check for each function that constructs or modifies a
\* UnicodeSet": no run is empty, the runs cover the code points, there is one
\* quad for each Mixed one and it is neither empty nor full.
TypeOK ==
  /\ \A r \in DOMAIN set.runs : /\ set.runs[r].type \in RunTypes
                                /\ set.runs[r].length \in Nat \ {0}
  /\ LengthBefore(set, Len(set.runs) + 1) = QuadCount
  /\ MixedBefore(set, Len(set.runs) + 1) = Len(set.quads)
  /\ \A i \in DOMAIN set.quads : set.quads[i] \in (SUBSET Bits) \ {{}, Bits}
  /\ members \subseteq CodePoints
  /\ joined \in BOOLEAN

\* After any sequence of calls the object contains what the calls say.
MembersExact == TypeOK /\ {cp \in CodePoints : contains(set, cp)} = members

\* The iterator yields the maximal intervals in order, across every boundary
\* of quads and runs; count and the test of a range agree with it.
IterationExact ==
  LET intervals == Intervals(set) IN
  /\ intervals = MaximalIntervals(members)
  /\ count(set) = Cardinality(members)
  /\ \A lo \in CodePoints : \A hi \in lo .. Limit - 1 :
       intersectsRange(intervals, lo, hi) <=> (lo .. hi) \cap members # {}

\* The early decisions of intersects and subset are right.
PredicatesExact ==
  \A m \in Operands :
    LET other == OtherSet(m) IN
    /\ intersects(set, other) <=> members \cap m # {}
    /\ subset(set, other) <=> members \subseteq m
    /\ subset(other, set) <=> m \subseteq members

\* operator< orders all representations: of two that are not equal exactly one
\* is the smaller, so that a set can be the key of a map.
OrderTotal ==
  \A m \in Operands :
    LET other == OtherSet(m) IN
    /\ Equal(set, other) => ~LessThan(set, other) /\ ~LessThan(other, set)
    /\ ~Equal(set, other) => (LessThan(set, other) <=> ~LessThan(other, set))

\* Neighbouring runs differ in type.
NeighboursDiffer(s) ==
  \A r \in 1 .. Len(s.runs) - 1 : s.runs[r].type # s.runs[r + 1].type

\* operator==, empty and full compare representations.  They are right about
\* the members exactly if no two neighbouring runs of the object have one type,
\* whatever calls it went through; append_run leaves none of that kind, while
\* insert, insert_range and the constructor for a range do.
ComparisonsExact ==
  /\ \A m \in Operands :
       Equal(set, OtherSet(m)) <=> m = members /\ NeighboursDiffer(set)
  /\ empty(set) <=> members = {} /\ NeighboursDiffer(set)
  /\ full(set) <=> members = CodePoints /\ NeighboursDiffer(set)
  /\ joined => NeighboursDiffer(set)

\* The comments on empty() and full(): "The set has no members" and "The set has
\* the full set of possible Unicode codepoints."
EmptyAndFullExact ==
  /\ empty(set) <=> members = {}
  /\ full(set) <=> members = CodePoints
=============================================================================
