-------------------------- MODULE UnicodeSetProofs --------------------------
(***************************************************************************)
(* What the representation of a set of code points holds, and that every   *)
(* call on it keeps that equal to what the calls say, for every size of a  *)
(* quad, number of quads and contents of the other sets.                   *)
(***************************************************************************)
EXTENDS UnicodeSet, FiniteSetTheorems, SequenceTheorems, WellFoundedInduction, TLAPS

-----------------------------------------------------------------------------
(* Induction over the places of an array.                                  *)

\* A nonempty set of numbers has a least one.
LEMMA LeastNumber ==
  ASSUME NEW S, S \subseteq Nat, S # {}
  PROVE  \E m \in S : \A k \in S : m <= k
<1>1. PICK m \in S : \A k \in S : <<k, m>> \notin OpToRel(<, Nat)
  BY WFMin, NatLessThanWellFounded, Zenon
<1>2. \A k \in S : ~ (k < m)
  BY <1>1, Zenon DEF OpToRel
<1>3. QED BY <1>2

\* What is true of 0 and goes from each number to the next is true up to n.
LEMMA UpToNumber ==
  ASSUME NEW n \in Nat, NEW good, 0 \in good,
         \A k \in 0 .. n - 1 : k \in good => k + 1 \in good
  PROVE  \A k \in 0 .. n : k \in good
<1> DEFINE bad == {k \in 0 .. n : k \notin good}
<1>1. SUFFICES ASSUME NEW k \in 0 .. n, k \notin good PROVE FALSE
  OBVIOUS
<1>a. bad \subseteq Nat /\ bad # {}
  BY <1>1
<1>2. PICK m \in bad : \A j \in bad : m <= j
  <2> HIDE DEF bad
  <2>1. QED BY <1>a, LeastNumber
<1>3. m # 0 /\ m \in Nat /\ m - 1 \in 0 .. n - 1
  BY <1>2
<1>4. m - 1 \notin bad
  BY <1>2, <1>3
<1>5. m - 1 \in good
  BY <1>3, <1>4
<1>6. m - 1 + 1 \in good
  BY <1>3, <1>5, Zenon
<1>7. QED BY <1>2, <1>3, <1>6

\* A sequence is a function on its places.
LEMMA PlacesOf ==
  ASSUME NEW S, NEW x \in Seq(S)
  PROVE  /\ Len(x) \in Nat
         /\ x \in [1 .. Len(x) -> S]
OBVIOUS

\* The runs after the last of them has grown.
Lengthened(x, n) == [x EXCEPT ![Len(x)].length = @ + n]
LastIs(x, run) == [x EXCEPT ![Len(x)] = run]

\* Appending to the last run leaves the quads as they are.
LEMMA AppendRunLonger ==
  ASSUME NEW x, NEW z, NEW type, NEW n, n # 0, x # <<>>, x[Len(x)].type = type
  PROVE  AppendRun(Object(x, z), type, n) = Object(Lengthened(x, n), z)
BY DEF Object, AppendRun, Lengthened

\* Only the length of the last run changes.
LEMMA LengthenedLast ==
  ASSUME NEW x, NEW n, NEW type, NEW k, x[Len(x)] = Run(type, k)
  PROVE  Lengthened(x, n) = LastIs(x, Run(type, k + n))
<1>1. [x[Len(x)] EXCEPT !.length = @ + n] = Run(type, k + n)
  BY DEF Run
<1>2. QED BY <1>1 DEF Lengthened, LastIs

-----------------------------------------------------------------------------
(* Where the runs lie.                                                     *)

\* A sum grows by one number at each place.
LEMMA SumsDefined ==
  ASSUME NEW m \in Nat, NEW f \in [1 .. m -> Nat]
  PROVE  /\ SumsOf(f) \in [0 .. m -> Nat]
         /\ SumsOf(f)[0] = 0
         /\ \A n \in 1 .. m : SumsOf(f)[n] = SumsOf(f)[n - 1] + f[n]
<1> DEFINE Body(g, n) == IF n = 0 THEN 0 ELSE g[n - 1] + f[n]
           Sum(g, k) == g \in [0 .. k -> Nat] /\ \A n \in 0 .. k : g[n] = Body(g, n)
           good == {k \in 0 .. m : \E g : Sum(g, k)}
<1>0. Len(f) = m
  OBVIOUS
<1>1. 0 \in good
  <2> DEFINE g == [n \in 0 .. 0 |-> 0]
  <2>1. g \in [0 .. 0 -> Nat] /\ \A n \in 0 .. 0 : g[n] = 0
    OBVIOUS
  <2>2. Sum(g, 0)
    BY <2>1
  <2> HIDE DEF g, Sum
  <2>3. QED BY <2>2
<1>2. ASSUME NEW k \in 0 .. m - 1, k \in good PROVE k + 1 \in good
  <2>1. PICK g : Sum(g, k)
    BY <1>2
  <2> DEFINE h == [n \in 0 .. k + 1 |-> IF n = k + 1 THEN g[k] + f[k + 1] ELSE g[n]]
  <2>2. h \in [0 .. k + 1 -> Nat]
    <3>1. g[k] + f[k + 1] \in Nat /\ \A n \in 0 .. k + 1 : n # k + 1 => g[n] \in Nat
      BY <2>1
    <3>2. QED BY <3>1
  <2>3. \A n \in 0 .. k + 1 : h[n] = Body(h, n)
    <3>1. \A n \in 0 .. k : h[n] = g[n] /\ n \in 0 .. k + 1
      OBVIOUS
    <3>2. h[k + 1] = g[k] + f[k + 1] /\ k + 1 # 0 /\ k + 1 - 1 = k /\ h[k] = g[k]
      OBVIOUS
    <3>3. \A n \in 0 .. k : n # 0 => n - 1 \in 0 .. k
      OBVIOUS
    <3> HIDE DEF h
    <3>4. \A n \in 0 .. k : h[n] = Body(h, n)
      BY <2>1, <3>1, <3>3
    <3>5. h[k + 1] = Body(h, k + 1)
      BY <3>2
    <3>6. \A n \in 0 .. k + 1 : n \in 0 .. k \/ n = k + 1
      OBVIOUS
    <3> HIDE DEF Body
    <3>7. QED BY <3>4, <3>5, <3>6
  <2>4. Sum(h, k + 1)
    <3>1. h \in [0 .. k + 1 -> Nat]
      BY <2>2
    <3>2. \A n \in 0 .. k + 1 : h[n] = Body(h, n)
      BY <2>3
    <3> HIDE DEF h, Body
    <3>3. QED BY <3>1, <3>2
  <2> HIDE DEF h, Sum
  <2>5. QED BY <2>4
<1>3. m \in good
  <2>1. \A k \in 0 .. m - 1 : k \in good => k + 1 \in good
    BY <1>2
  <2> HIDE DEF good
  <2>2. \A k \in 0 .. m : k \in good
    BY <1>1, <2>1, UpToNumber
  <2>3. QED BY <2>2
<1>4. PICK g : Sum(g, m)
  BY <1>3
<1>5. g = [n \in 0 .. m |-> Body(g, n)]
  BY <1>4
<1>6. SumsOf(f) = [n \in 0 .. m |-> Body(SumsOf(f), n)]
  BY <1>0, <1>5 DEF SumsOf
<1> HIDE DEF Body
<1>7. \A n \in 0 .. m : SumsOf(f)[n] = Body(SumsOf(f), n)
  BY <1>6
<1> USE DEF Body
<1> DEFINE typed == {k \in 0 .. m : SumsOf(f)[k] \in Nat}
<1>8. \A k \in 0 .. m : k \in typed
  <2>1. 0 \in typed
    BY <1>7
  <2>2. ASSUME NEW k \in 0 .. m - 1, k \in typed PROVE k + 1 \in typed
    <3>1. k + 1 \in 0 .. m /\ k + 1 # 0 /\ k + 1 - 1 = k /\ k + 1 \in 1 .. m
      OBVIOUS
    <3>2. SumsOf(f)[k + 1] = SumsOf(f)[k] + f[k + 1]
      BY <1>7, <3>1
    <3>3. SumsOf(f)[k] \in Nat /\ f[k + 1] \in Nat
      BY <2>2, <3>1
    <3>4. QED BY <3>1, <3>2, <3>3
  <2> HIDE DEF typed
  <2>3. QED BY <2>1, <2>2, UpToNumber
<1>9. SumsOf(f) \in [0 .. m -> Nat]
  <2>1. \A k \in 0 .. m : SumsOf(f)[k] \in Nat
    BY <1>8
  <2>2. DOMAIN SumsOf(f) = 0 .. m /\ SumsOf(f) = [k \in 0 .. m |-> SumsOf(f)[k]]
    BY <1>6
  <2> HIDE DEF typed, Body
  <2>3. QED BY <2>1, <2>2
<1>10. QED BY <1>7, <1>9

\* The sums are the only function that grows so.
LEMMA SumsUnique ==
  ASSUME NEW m \in Nat, NEW f \in [1 .. m -> Nat], NEW g, g[0] = 0,
         \A n \in 1 .. m : g[n] = g[n - 1] + f[n]
  PROVE  \A n \in 0 .. m : g[n] = SumsOf(f)[n]
<1> DEFINE good == {n \in 0 .. m : g[n] = SumsOf(f)[n]}
<1>1. 0 \in good
  BY SumsDefined
<1>2. \A k \in 0 .. m - 1 : k \in good => k + 1 \in good
  <2>1. SUFFICES ASSUME NEW k \in 0 .. m - 1, k \in good PROVE k + 1 \in good
    OBVIOUS
  <2>2. SumsOf(f)[k + 1] = SumsOf(f)[k + 1 - 1] + f[k + 1]
    <3>1. k + 1 \in 1 .. m
      OBVIOUS
    <3>2. \A n \in 1 .. m : SumsOf(f)[n] = SumsOf(f)[n - 1] + f[n]
      BY SumsDefined
    <3>3. QED BY <3>1, <3>2
  <2>3. g[k + 1] = g[k + 1 - 1] + f[k + 1]
    OBVIOUS
  <2>4. QED BY <2>1, <2>2, <2>3
<1> HIDE DEF good
<1>3. \A k \in 0 .. m : k \in good
  BY <1>1, <1>2, UpToNumber
<1>4. QED BY <1>3 DEF good

MixedQuads == (SUBSET Bits) \ {{}, Bits}
Runs == [type : RunTypes, length : Nat \ {0}]
Objects == [runs : Seq(Runs), quads : Seq(MixedQuads)]

\* Each run lies behind the one before it, and so do its Mixed quads.
LEMMA RunPlaces ==
  ASSUME NEW s \in Objects
  PROVE  /\ LengthBefore(s, 1) = 0 /\ MixedBefore(s, 1) = 0
         /\ \A r \in 1 .. Len(s.runs) + 1 :
              LengthBefore(s, r) \in Nat /\ MixedBefore(s, r) \in Nat
         /\ \A r \in 1 .. Len(s.runs) :
              /\ LengthBefore(s, r + 1) = LengthBefore(s, r) + s.runs[r].length
              /\ MixedBefore(s, r + 1) = MixedBefore(s, r) + MixedLength(s.runs[r])
<1> DEFINE L == Len(s.runs)
           f == [k \in 1 .. L |-> s.runs[k].length]
           g == [k \in 1 .. L |-> MixedLength(s.runs[k])]
<1>1. L \in Nat /\ \A k \in 1 .. L : s.runs[k] \in Runs
  BY DEF Objects
<1>2. f \in [1 .. L -> Nat] /\ g \in [1 .. L -> Nat]
  BY <1>1 DEF Runs, MixedLength
<1>3. \A r \in 1 .. L + 1 : LengthBefore(s, r) = SumsOf(f)[r - 1]
                            /\ MixedBefore(s, r) = SumsOf(g)[r - 1]
  BY DEF LengthBefore, MixedBefore
<1> HIDE DEF f, g
<1>4. /\ SumsOf(f) \in [0 .. L -> Nat] /\ SumsOf(g) \in [0 .. L -> Nat]
      /\ SumsOf(f)[0] = 0 /\ SumsOf(g)[0] = 0
      /\ \A n \in 1 .. L : SumsOf(f)[n] = SumsOf(f)[n - 1] + f[n]
      /\ \A n \in 1 .. L : SumsOf(g)[n] = SumsOf(g)[n - 1] + g[n]
  BY <1>1, <1>2, SumsDefined, Zenon
<1>5. \A n \in 1 .. L : f[n] = s.runs[n].length /\ g[n] = MixedLength(s.runs[n])
  BY DEF f, g
<1>6. LengthBefore(s, 1) = 0 /\ MixedBefore(s, 1) = 0
  BY <1>1, <1>3, <1>4
<1>7. \A r \in 1 .. L + 1 : LengthBefore(s, r) \in Nat /\ MixedBefore(s, r) \in Nat
  <2>1. \A r \in 1 .. L + 1 : r - 1 \in 0 .. L
    BY <1>1
  <2>2. \A r \in 1 .. L + 1 : SumsOf(f)[r - 1] \in Nat /\ SumsOf(g)[r - 1] \in Nat
    BY <1>4, <2>1
  <2>3. QED BY <1>3, <2>2
<1>8. ASSUME NEW r \in 1 .. L
      PROVE  /\ LengthBefore(s, r + 1) = LengthBefore(s, r) + s.runs[r].length
             /\ MixedBefore(s, r + 1) = MixedBefore(s, r) + MixedLength(s.runs[r])
  <2>1. r \in 1 .. L + 1 /\ r + 1 \in 1 .. L + 1 /\ r + 1 - 1 = r
    BY <1>1
  <2>2. LengthBefore(s, r) = SumsOf(f)[r - 1] /\ LengthBefore(s, r + 1) = SumsOf(f)[r]
    BY <1>3, <2>1
  <2>3. MixedBefore(s, r) = SumsOf(g)[r - 1] /\ MixedBefore(s, r + 1) = SumsOf(g)[r]
    BY <1>3, <2>1
  <2>4. QED BY <1>4, <1>5, <2>2, <2>3
<1>9. QED BY <1>6, <1>7, <1>8

\* Places that grow so are the places of the runs.
LEMMA RunPlacesUnique ==
  ASSUME NEW s \in Objects, NEW len, NEW mix, len[1] = 0, mix[1] = 0,
         \A r \in 1 .. Len(s.runs) :
           /\ len[r + 1] = len[r] + s.runs[r].length
           /\ mix[r + 1] = mix[r] + MixedLength(s.runs[r])
  PROVE  \A r \in 1 .. Len(s.runs) + 1 :
           len[r] = LengthBefore(s, r) /\ mix[r] = MixedBefore(s, r)
<1> DEFINE L == Len(s.runs)
           good == {k \in 0 .. L : /\ len[k + 1] = LengthBefore(s, k + 1)
                                   /\ mix[k + 1] = MixedBefore(s, k + 1)}
<1>1. L \in Nat
  BY DEF Objects
<1>2. 0 \in good
  BY RunPlaces, <1>1
<1>3. \A k \in 0 .. L - 1 : k \in good => k + 1 \in good
  BY RunPlaces, <1>1
<1> HIDE DEF good
<1>4. \A k \in 0 .. L : k \in good
  BY <1>1, <1>2, <1>3, UpToNumber
<1>5. \A r \in 1 .. L + 1 : r - 1 \in 0 .. L /\ r - 1 + 1 = r
  BY <1>1
<1>6. \A r \in 1 .. L + 1 : r - 1 \in good
  BY <1>4, <1>5
<1>7. QED BY <1>5, <1>6 DEF good

\* A run that comes later begins later.
LEMMA RunPlacesOrdered ==
  ASSUME NEW s \in Objects,
         NEW a \in 1 .. Len(s.runs) + 1, NEW b \in 1 .. Len(s.runs) + 1, a <= b
  PROVE  LengthBefore(s, a) <= LengthBefore(s, b) /\ MixedBefore(s, a) <= MixedBefore(s, b)
<1> DEFINE L == Len(s.runs)
           Above(c) == /\ LengthBefore(s, a) <= LengthBefore(s, c)
                       /\ MixedBefore(s, a) <= MixedBefore(s, c)
           good == {k \in 0 .. L - (a - 1) : Above(a + k)}
<1>0. L \in Nat /\ \A r \in 1 .. L : s.runs[r] \in Runs
  BY DEF Objects
<1>1. L \in Nat /\ \A r \in 1 .. L : s.runs[r].length \in Nat /\ MixedLength(s.runs[r]) \in Nat
  BY <1>0 DEF Runs, MixedLength
<1>2. /\ \A r \in 1 .. L + 1 : LengthBefore(s, r) \in Nat /\ MixedBefore(s, r) \in Nat
      /\ \A r \in 1 .. L :
           /\ LengthBefore(s, r + 1) = LengthBefore(s, r) + s.runs[r].length
           /\ MixedBefore(s, r + 1) = MixedBefore(s, r) + MixedLength(s.runs[r])
  BY RunPlaces
<1>3. ASSUME NEW r \in 1 .. L
      PROVE  /\ LengthBefore(s, r) <= LengthBefore(s, r + 1)
             /\ MixedBefore(s, r) <= MixedBefore(s, r + 1)
  <2>x. PICK x \in Nat, y \in Nat : x = LengthBefore(s, r) /\ y = MixedBefore(s, r)
    <3>1. r \in 1 .. L + 1
      BY <1>1
    <3>2. QED BY <1>2, <3>1
  <2>1. PICK d \in Nat : d = s.runs[r].length
    BY <1>1
  <2>2. PICK e \in Nat : e = MixedLength(s.runs[r])
    BY <1>1
  <2>3. LengthBefore(s, r + 1) = x + d /\ MixedBefore(s, r + 1) = y + e
    BY <1>2, <2>x, <2>1, <2>2
  <2>4. x <= x + d /\ y <= y + e
    OBVIOUS
  <2>5. QED BY <2>x, <2>3, <2>4
<1>4. L - (a - 1) \in Nat /\ 0 \in good
  BY <1>1, <1>2
<1>5. \A k \in 0 .. L - (a - 1) - 1 : k \in good => k + 1 \in good
  <2>1. SUFFICES ASSUME NEW k \in 0 .. L - (a - 1) - 1, k \in good PROVE k + 1 \in good
    OBVIOUS
  <2>2. a + k \in 1 .. L /\ a + k + 1 \in 1 .. L + 1 /\ a + (k + 1) = a + k + 1
    BY <1>1
  <2>3. Above(a + k + 1)
    <3>n. a + k \in 1 .. L + 1
      BY <1>1, <2>2
    <3>1. Above(a + k)
      BY <2>1
    <3>2. /\ LengthBefore(s, a + k) <= LengthBefore(s, a + k + 1)
          /\ MixedBefore(s, a + k) <= MixedBefore(s, a + k + 1)
      BY <1>3, <2>2
    <3>x. PICK x0 \in Nat, x1 \in Nat, x2 \in Nat :
            /\ x0 = LengthBefore(s, a) /\ x1 = LengthBefore(s, a + k)
            /\ x2 = LengthBefore(s, a + k + 1)
      BY <1>2, <2>2, <3>n
    <3>y. PICK y0 \in Nat, y1 \in Nat, y2 \in Nat :
            /\ y0 = MixedBefore(s, a) /\ y1 = MixedBefore(s, a + k)
            /\ y2 = MixedBefore(s, a + k + 1)
      BY <1>2, <2>2, <3>n
    <3>3. x0 <= x2 /\ y0 <= y2
      <4>1. x0 <= x1 /\ x1 <= x2
        BY <3>1, <3>2, <3>x
      <4>2. y0 <= y1 /\ y1 <= y2
        BY <3>1, <3>2, <3>y
      <4>3. QED BY <4>1, <4>2
    <3>4. QED BY <3>x, <3>y, <3>3
  <2>4. QED BY <1>1, <2>2, <2>3
<1>6. \A k \in 0 .. L - (a - 1) : k \in good
  <2> HIDE DEF good
  <2>1. QED BY <1>4, <1>5, UpToNumber
<1>7. b - a \in 0 .. L - (a - 1) /\ a + (b - a) = b
  BY <1>1
<1>8. QED BY <1>6, <1>7

-----------------------------------------------------------------------------
(* What an object holds.                                                   *)

\* What a quad of a run of the given type is, if it is Mixed the k-th one.
Content(type, quads, k) == IF type = "Mixed" THEN quads[k]
                           ELSE IF type = "Full" THEN Bits ELSE {}
QuadIn(s, r, j) == Content(s.runs[r].type, s.quads, MixedBefore(s, r) + j + 1)

\* The object is well formed and holds n quads, those of the function q.
Holds(s, q, n) ==
  /\ s \in Objects
  /\ n \in Nat /\ q \in [0 .. n - 1 -> SUBSET Bits]
  /\ LengthBefore(s, Len(s.runs) + 1) = n
  /\ MixedBefore(s, Len(s.runs) + 1) = Len(s.quads)
  /\ \A r \in 1 .. Len(s.runs) : \A j \in 0 .. s.runs[r].length - 1 :
       q[LengthBefore(s, r) + j] = QuadIn(s, r, j)

\* The places of a run are those of quads, and of Mixed quads if it is Mixed.
LEMMA RunFits ==
  ASSUME NEW s, NEW q, NEW n, Holds(s, q, n), NEW r \in 1 .. Len(s.runs)
  PROVE  /\ s.runs[r].length \in Nat \ {0} /\ s.runs[r].type \in RunTypes
         /\ LengthBefore(s, r) \in Nat /\ MixedBefore(s, r) \in Nat
         /\ LengthBefore(s, r) + s.runs[r].length <= n
         /\ MixedBefore(s, r) + MixedLength(s.runs[r]) <= Len(s.quads)
<1> DEFINE L == Len(s.runs)
<1>1. s \in Objects /\ L \in Nat /\ s.runs[r] \in Runs
  BY DEF Holds, Objects
<1>2. r \in 1 .. L + 1 /\ r + 1 \in 1 .. L + 1 /\ L + 1 \in 1 .. L + 1 /\ r + 1 <= L + 1
  BY <1>1
<1>3. /\ LengthBefore(s, r + 1) = LengthBefore(s, r) + s.runs[r].length
      /\ MixedBefore(s, r + 1) = MixedBefore(s, r) + MixedLength(s.runs[r])
      /\ LengthBefore(s, r) \in Nat /\ MixedBefore(s, r) \in Nat
  BY <1>1, <1>2, RunPlaces
<1>4. /\ LengthBefore(s, r + 1) <= LengthBefore(s, L + 1)
      /\ MixedBefore(s, r + 1) <= MixedBefore(s, L + 1)
  BY <1>1, <1>2, RunPlacesOrdered
<1>5. QED BY <1>1, <1>3, <1>4 DEF Holds, Runs

\* The runs lie at the places len, their Mixed quads at mix, and are those of q.
RunLaid(s, len, mix, q, r) ==
  /\ len[r + 1] = len[r] + s.runs[r].length
  /\ mix[r + 1] = mix[r] + MixedLength(s.runs[r])
  /\ \A j \in 0 .. s.runs[r].length - 1 :
       q[len[r] + j] = Content(s.runs[r].type, s.quads, mix[r] + j + 1)

Laid(s, len, mix, q, n) ==
  /\ s \in Objects /\ n \in Nat /\ q \in [0 .. n - 1 -> SUBSET Bits]
  /\ len[1] = 0 /\ mix[1] = 0
  /\ \A r \in 1 .. Len(s.runs) : RunLaid(s, len, mix, q, r)
  /\ len[Len(s.runs) + 1] = n /\ mix[Len(s.runs) + 1] = Len(s.quads)

\* To show what an object holds, name the places of its runs.
LEMMA HoldsIf ==
  ASSUME NEW s, NEW n, NEW q, NEW len, NEW mix, Laid(s, len, mix, q, n)
  PROVE  Holds(s, q, n)
<1>0. s \in Objects
  BY DEF Laid
<1>1. /\ len[1] = 0 /\ mix[1] = 0
      /\ \A r \in 1 .. Len(s.runs) :
           /\ len[r + 1] = len[r] + s.runs[r].length
           /\ mix[r + 1] = mix[r] + MixedLength(s.runs[r])
  BY DEF Laid, RunLaid
<1>2. \A r \in 1 .. Len(s.runs) + 1 :
        len[r] = LengthBefore(s, r) /\ mix[r] = MixedBefore(s, r)
  BY <1>0, <1>1, RunPlacesUnique
<1>3. Len(s.runs) \in Nat
  BY <1>0 DEF Objects
<1>4. /\ LengthBefore(s, Len(s.runs) + 1) = n
      /\ MixedBefore(s, Len(s.runs) + 1) = Len(s.quads)
  BY <1>2, <1>3 DEF Laid
<1>5. ASSUME NEW r \in 1 .. Len(s.runs), NEW j \in 0 .. s.runs[r].length - 1
      PROVE  q[LengthBefore(s, r) + j] = QuadIn(s, r, j)
  <2>1. len[r] = LengthBefore(s, r) /\ mix[r] = MixedBefore(s, r)
    BY <1>2, <1>3
  <2>2. q[len[r] + j] = Content(s.runs[r].type, s.quads, mix[r] + j + 1)
    BY DEF Laid, RunLaid
  <2>3. QED BY <2>1, <2>2 DEF QuadIn
<1>6. QED BY <1>4, <1>5 DEF Holds, Laid

\* One run of which it is known what it holds.
LEMMA PieceHolds ==
  ASSUME NEW type \in RunTypes, NEW n \in Nat, NEW quads \in Seq(MixedQuads),
         Len(quads) = IF type = "Mixed" THEN n ELSE 0,
         NEW q \in [0 .. n - 1 -> SUBSET Bits],
         \A j \in 0 .. n - 1 : q[j] = Content(type, quads, j + 1)
  PROVE  Holds(Object(Piece(type, n), quads), q, n)
<1> DEFINE s == Object(Piece(type, n), quads)
           len == [r \in 1 .. 2 |-> IF r = 1 THEN 0 ELSE n]
           mix == [r \in 1 .. 2 |-> IF r = 1 THEN 0 ELSE Len(quads)]
<1>1. s.runs = Piece(type, n) /\ s.quads = quads
  BY DEF Object
<1>2. s \in Objects
  <2>1. n # 0 => Run(type, n) \in Runs
    BY DEF Run, Runs
  <2>2. n # 0 => <<Run(type, n)>> \in Seq(Runs)
    BY <2>1
  <2>3. Piece(type, n) \in Seq(Runs)
    BY <2>2 DEF Piece
  <2>4. QED BY <2>3 DEF Object, Objects
<1>3. len[1] = 0 /\ mix[1] = 0 /\ len[2] = n /\ mix[2] = Len(quads)
  OBVIOUS
<1> HIDE DEF s, len, mix
<1>4. CASE n = 0
  <2>1. Len(s.runs) = 0 /\ Len(s.quads) = 0
    BY <1>1, <1>4 DEF Piece
  <2>2. Laid(s, len, mix, q, n)
    BY <1>2, <1>3, <1>4, <2>1 DEF Laid
  <2>3. QED BY <2>2, HoldsIf DEF s
<1>5. CASE n # 0
  <2>1. Len(s.runs) = 1 /\ s.runs[1] = Run(type, n)
    BY <1>1, <1>5 DEF Piece
  <2>2. s.runs[1].type = type /\ s.runs[1].length = n /\ MixedLength(s.runs[1]) = Len(quads)
    BY <2>1 DEF Run, MixedLength
  <2>3. \A j \in 0 .. n - 1 : len[1] + j = j /\ mix[1] + j + 1 = j + 1
    BY <1>3
  <2>4. RunLaid(s, len, mix, q, 1)
    BY <1>1, <1>3, <2>2, <2>3 DEF RunLaid
  <2>5. Laid(s, len, mix, q, n)
    BY <1>1, <1>2, <1>3, <2>1, <2>4 DEF Laid
  <2>6. QED BY <2>5, HoldsIf DEF s
<1>6. QED BY <1>4, <1>5

\* q goes on after the n1 quads of q1 with the n2 of q2.
Joins(q, q1, n1, q2, n2) ==
  /\ q \in [0 .. n1 + n2 - 1 -> SUBSET Bits]
  /\ \A i \in 0 .. n1 - 1 : q[i] = q1[i]
  /\ \A i \in 0 .. n2 - 1 : q[n1 + i] = q2[i]

\* Two objects in a row hold the quads of the first, then those of the second.
LEMMA ConcatHolds ==
  ASSUME NEW s, NEW q1, NEW n1, Holds(s, q1, n1),
         NEW t, NEW q2, NEW n2, Holds(t, q2, n2),
         NEW q, Joins(q, q1, n1, q2, n2)
  PROVE  Holds(Concat(s, t), q, n1 + n2)
<1>0. /\ s \in Objects /\ t \in Objects /\ n1 \in Nat /\ n2 \in Nat
      /\ Len(s.runs) \in Nat /\ Len(t.runs) \in Nat /\ Len(s.quads) \in Nat
      /\ Len(t.quads) \in Nat
  BY DEF Holds, Objects
<1>k. PICK K \in Nat : K = Len(s.runs)
  BY <1>0
<1>l. PICK L \in Nat : L = Len(t.runs)
  BY <1>0
<1>m. PICK M \in Nat : M = Len(s.quads)
  BY <1>0
<1>n. PICK N \in Nat : N = Len(t.quads)
  BY <1>0
<1> DEFINE c == Concat(s, t)
           len == [r \in 1 .. K + L + 1 |->
                     IF r <= K THEN LengthBefore(s, r) ELSE n1 + LengthBefore(t, r - K)]
           mix == [r \in 1 .. K + L + 1 |->
                     IF r <= K THEN MixedBefore(s, r) ELSE M + MixedBefore(t, r - K)]
<1>1. /\ s \in Objects /\ t \in Objects /\ n1 \in Nat /\ n2 \in Nat /\ n1 + n2 \in Nat
  BY <1>0
<1>2. c.runs = s.runs \o t.runs /\ c.quads = s.quads \o t.quads
  BY DEF Concat, Object
<1>3. c \in Objects
  BY <1>1 DEF Concat, Object, Objects
<1>4. /\ Len(c.runs) = K + L /\ Len(c.quads) = M + N
      /\ \A r \in 1 .. K : c.runs[r] = s.runs[r]
      /\ \A r \in 1 .. L : c.runs[K + r] = t.runs[r]
      /\ \A i \in 1 .. M : c.quads[i] = s.quads[i]
      /\ \A i \in 1 .. N : c.quads[M + i] = t.quads[i]
  BY <1>1, <1>2, <1>k, <1>l, <1>m, <1>n DEF Objects
<1>5. LengthBefore(s, 1) = 0 /\ MixedBefore(s, 1) = 0
      /\ LengthBefore(t, 1) = 0 /\ MixedBefore(t, 1) = 0
  BY <1>1, RunPlaces
<1>6. LengthBefore(s, K + 1) = n1 /\ MixedBefore(s, K + 1) = M
      /\ LengthBefore(t, L + 1) = n2 /\ MixedBefore(t, L + 1) = N
  BY <1>k, <1>l, <1>m, <1>n DEF Holds
<1>7. \A r \in 1 .. K + 1 : len[r] = LengthBefore(s, r) /\ mix[r] = MixedBefore(s, r)
  <2>1. SUFFICES ASSUME NEW r \in 1 .. K + 1
                 PROVE  len[r] = LengthBefore(s, r) /\ mix[r] = MixedBefore(s, r)
    OBVIOUS
  <2>2. CASE r <= K
    BY <1>1, <2>2
  <2>3. CASE r = K + 1
    <3>1. ~ (r <= K) /\ r - K = 1 /\ r \in 1 .. K + L + 1
      BY <1>1, <2>3
    <3>2. len[r] = n1 + 0 /\ mix[r] = M + 0
      BY <1>5, <3>1
    <3>3. QED BY <1>1, <1>6, <2>3, <3>2
  <2>4. QED BY <1>1, <2>2, <2>3
<1>8. \A r \in 1 .. L + 1 : /\ len[K + r] = n1 + LengthBefore(t, r)
                            /\ mix[K + r] = M + MixedBefore(t, r)
  <2>1. SUFFICES ASSUME NEW r \in 1 .. L + 1
                 PROVE  /\ len[K + r] = n1 + LengthBefore(t, r)
                        /\ mix[K + r] = M + MixedBefore(t, r)
    OBVIOUS
  <2>2. ~ (K + r <= K) /\ K + r - K = r /\ K + r \in 1 .. K + L + 1
    BY <1>1
  <2>3. QED BY <2>2
<1> HIDE DEF len, mix, c
<1>9. ASSUME NEW r \in 1 .. K PROVE RunLaid(c, len, mix, q, r)
  <2>1. len[r] = LengthBefore(s, r) /\ mix[r] = MixedBefore(s, r)
        /\ len[r + 1] = LengthBefore(s, r + 1) /\ mix[r + 1] = MixedBefore(s, r + 1)
    BY <1>1, <1>7
  <2>2. /\ LengthBefore(s, r + 1) = LengthBefore(s, r) + s.runs[r].length
        /\ MixedBefore(s, r + 1) = MixedBefore(s, r) + MixedLength(s.runs[r])
    BY <1>1, <1>k, <1>l, RunPlaces
  <2>3. /\ s.runs[r].length \in Nat \ {0}
        /\ LengthBefore(s, r) \in Nat /\ MixedBefore(s, r) \in Nat
        /\ LengthBefore(s, r) + s.runs[r].length <= n1
        /\ MixedBefore(s, r) + MixedLength(s.runs[r]) <= M
    BY <1>k, <1>l, <1>m, <1>n, RunFits
  <2>4. ASSUME NEW j \in 0 .. s.runs[r].length - 1
        PROVE  q[len[r] + j] = Content(s.runs[r].type, c.quads, mix[r] + j + 1)
    <3>1. LengthBefore(s, r) + j \in 0 .. n1 - 1
      BY <1>1, <2>3
    <3>2. q[len[r] + j] = QuadIn(s, r, j)
      BY <1>k, <2>1, <3>1 DEF Holds, Joins
    <3>3. s.runs[r].type = "Mixed" => mix[r] + j + 1 \in 1 .. M
      BY <1>1, <2>1, <2>3 DEF MixedLength
    <3>4. QED BY <1>4, <2>1, <3>2, <3>3 DEF QuadIn, Content
  <2>5. QED BY <1>4, <2>1, <2>2, <2>4 DEF RunLaid
<1>10. ASSUME NEW r \in 1 .. L PROVE RunLaid(c, len, mix, q, K + r)
  <2>1. /\ len[K + r] = n1 + LengthBefore(t, r) /\ mix[K + r] = M + MixedBefore(t, r)
        /\ len[K + r + 1] = n1 + LengthBefore(t, r + 1)
        /\ mix[K + r + 1] = M + MixedBefore(t, r + 1)
    <3>1. r \in 1 .. L + 1 /\ r + 1 \in 1 .. L + 1 /\ K + (r + 1) = K + r + 1
      BY <1>1
    <3>2. QED BY <1>8, <3>1
  <2>2. /\ LengthBefore(t, r + 1) = LengthBefore(t, r) + t.runs[r].length
        /\ MixedBefore(t, r + 1) = MixedBefore(t, r) + MixedLength(t.runs[r])
    BY <1>1, <1>k, <1>l, RunPlaces
  <2>3. /\ t.runs[r].length \in Nat \ {0}
        /\ LengthBefore(t, r) \in Nat /\ MixedBefore(t, r) \in Nat
        /\ LengthBefore(t, r) + t.runs[r].length <= n2
        /\ MixedBefore(t, r) + MixedLength(t.runs[r]) <= N
    BY <1>k, <1>l, <1>m, <1>n, RunFits
  <2>4. c.runs[K + r] = t.runs[r]
    BY <1>4
  <2>5. ASSUME NEW j \in 0 .. t.runs[r].length - 1
        PROVE  q[len[K + r] + j] = Content(t.runs[r].type, c.quads, mix[K + r] + j + 1)
    <3>a. LengthBefore(t, r) + j \in 0 .. n2 - 1
      BY <1>1, <2>3
    <3>b. LengthBefore(t, r) \in Nat /\ MixedBefore(t, r) \in Nat /\ j \in Nat
      BY <2>3
    <3>1. /\ LengthBefore(t, r) + j \in 0 .. n2 - 1
          /\ len[K + r] + j = n1 + (LengthBefore(t, r) + j)
      BY <1>1, <2>1, <3>a, <3>b
    <3>2. q[len[K + r] + j] = QuadIn(t, r, j)
      BY <1>l, <3>1 DEF Holds, Joins
    <3>3. t.runs[r].type = "Mixed" =>
            /\ MixedBefore(t, r) + j + 1 \in 1 .. N
            /\ mix[K + r] + j + 1 = M + (MixedBefore(t, r) + j + 1)
      <4>1. mix[K + r] + j + 1 = M + (MixedBefore(t, r) + j + 1)
        BY <2>1, <3>b
      <4>2. QED BY <2>3, <3>b, <4>1 DEF MixedLength
    <3>4. CASE t.runs[r].type = "Mixed"
      BY <1>4, <3>2, <3>3, <3>4 DEF QuadIn, Content
    <3>5. CASE t.runs[r].type # "Mixed"
      BY <3>2, <3>5 DEF QuadIn, Content
    <3>6. QED BY <3>4, <3>5
  <2>6. MixedLength(t.runs[r]) \in Nat
    BY <2>3 DEF MixedLength
  <2>7. len[K + r + 1] = len[K + r] + t.runs[r].length
    BY <1>1, <2>1, <2>2, <2>3
  <2>8. mix[K + r + 1] = mix[K + r] + MixedLength(t.runs[r])
    BY <1>1, <2>1, <2>2, <2>3, <2>6
  <2>9. QED BY <2>4, <2>5, <2>7, <2>8 DEF RunLaid
<1>11. \A r \in 1 .. Len(c.runs) : RunLaid(c, len, mix, q, r)
  <2>1. SUFFICES ASSUME NEW r \in 1 .. K + L PROVE RunLaid(c, len, mix, q, r)
    BY <1>4
  <2>2. CASE r <= K
    BY <1>1, <1>9, <2>2
  <2>3. CASE ~ (r <= K)
    <3>1. r - K \in 1 .. L /\ K + (r - K) = r
      BY <1>1, <2>3
    <3>2. QED BY <1>10, <3>1
  <2>4. QED BY <2>2, <2>3
<1>12. len[1] = 0 /\ mix[1] = 0
  BY <1>1, <1>5, <1>7
<1>13. len[Len(c.runs) + 1] = n1 + n2 /\ mix[Len(c.runs) + 1] = Len(c.quads)
  <2>1. L + 1 \in 1 .. L + 1 /\ K + (L + 1) = Len(c.runs) + 1
    BY <1>1, <1>4
  <2>2. QED BY <1>4, <1>6, <1>8, <2>1
<1>14. Laid(c, len, mix, q, n1 + n2)
  BY <1>1, <1>3, <1>11, <1>12, <1>13 DEF Laid, Joins
<1>15. QED BY <1>14, HoldsIf DEF c

-----------------------------------------------------------------------------
(* Cutting an object at a run, and at a quad.                              *)

\* A part of an array.
LEMMA PartOf ==
  ASSUME NEW S, NEW x \in Seq(S), NEW a \in Nat, NEW b \in Nat,
         1 <= a, a <= b + 1, b <= Len(x)
  PROVE  /\ SubSeq(x, a, b) \in Seq(S)
         /\ Len(SubSeq(x, a, b)) = b - a + 1
         /\ \A i \in 1 .. b - a + 1 : SubSeq(x, a, b)[i] = x[a + i - 1]
OBVIOUS

\* The part of a sequence that follows its first a members.
LEMMA PartAfter ==
  ASSUME NEW S, NEW x \in Seq(S), NEW a \in Nat, NEW b \in Nat, a <= b, b <= Len(x)
  PROVE  /\ SubSeq(x, a + 1, b) \in Seq(S)
         /\ Len(SubSeq(x, a + 1, b)) = b - a
         /\ \A i \in 1 .. b - a : SubSeq(x, a + 1, b)[i] = x[a + i]
<1> DEFINE part == SubSeq(x, a + 1, b)
<1>1. a + 1 \in Nat /\ 1 <= a + 1 /\ a + 1 <= b + 1 /\ b - (a + 1) + 1 = b - a
  OBVIOUS
<1>c. PICK c \in Nat : c = a + 1
  OBVIOUS
<1>p. part = SubSeq(x, c, b)
  BY <1>c
<1> HIDE DEF part
<1>2. /\ part \in Seq(S) /\ Len(part) = b - (a + 1) + 1
      /\ \A i \in 1 .. b - (a + 1) + 1 : part[i] = x[a + 1 + i - 1]
  <2>1. 1 <= c /\ c <= b + 1
    BY <1>c
  <2>2. /\ part \in Seq(S) /\ Len(part) = b - c + 1
        /\ \A i \in 1 .. b - c + 1 : part[i] = x[c + i - 1]
    BY <1>p, <2>1, PartOf
  <2>3. QED BY <1>c, <2>2
<1>3. \A i \in 1 .. b - a : part[i] = x[a + 1 + i - 1] /\ a + 1 + i - 1 = a + i
  BY <1>1, <1>2
<1>4. part \in Seq(S) /\ Len(part) = b - a /\ \A i \in 1 .. b - a : part[i] = x[a + i]
  BY <1>1, <1>2, <1>3
<1>5. QED BY <1>4 DEF part

\* The runs before run r hold the quads before its first one.
LEMMA PrefixHolds ==
  ASSUME NEW s, NEW q, NEW n, Holds(s, q, n), NEW r \in 1 .. Len(s.runs) + 1,
         NEW p \in [0 .. LengthBefore(s, r) - 1 -> SUBSET Bits],
         \A i \in 0 .. LengthBefore(s, r) - 1 : p[i] = q[i]
  PROVE  Holds(Object(SubSeq(s.runs, 1, r - 1), SubSeq(s.quads, 1, MixedBefore(s, r))),
               p, LengthBefore(s, r))
<1>0. /\ s \in Objects /\ s.runs \in Seq(Runs) /\ s.quads \in Seq(MixedQuads)
      /\ Len(s.runs) \in Nat /\ Len(s.quads) \in Nat /\ n \in Nat
  BY DEF Holds, Objects
<1>l. PICK L \in Nat : L = Len(s.runs)
  BY <1>0
<1>m. PICK M \in Nat : M = Len(s.quads)
  BY <1>0
<1>1. LengthBefore(s, r) \in Nat /\ MixedBefore(s, r) \in Nat
      /\ LengthBefore(s, 1) = 0 /\ MixedBefore(s, 1) = 0
  BY <1>0, RunPlaces
<1>u. PICK u \in Nat : u = LengthBefore(s, r)
  BY <1>1
<1>v. PICK v \in Nat : v = MixedBefore(s, r)
  BY <1>1
<1>2. v <= M
  <2>1. L + 1 \in 1 .. L + 1 /\ r \in 1 .. L + 1 /\ r <= L + 1
    BY <1>l
  <2>2. MixedBefore(s, r) <= MixedBefore(s, L + 1)
    BY <1>0, <1>l, <2>1, RunPlacesOrdered
  <2>3. QED BY <1>l, <1>m, <1>v, <2>2 DEF Holds
<1> DEFINE runs == SubSeq(s.runs, 1, r - 1)
           quads == SubSeq(s.quads, 1, v)
           c == Object(runs, quads)
           len == [k \in 1 .. r |-> LengthBefore(s, k)]
           mix == [k \in 1 .. r |-> MixedBefore(s, k)]
<1>3. /\ runs \in Seq(Runs) /\ Len(runs) = r - 1
      /\ \A k \in 1 .. r - 1 : runs[k] = s.runs[k]
  <2>1. r - 1 \in Nat /\ 1 <= r - 1 + 1 /\ r - 1 <= Len(s.runs)
    BY <1>0
  <2>2. /\ runs \in Seq(Runs) /\ Len(runs) = (r - 1) - 1 + 1
        /\ \A i \in 1 .. (r - 1) - 1 + 1 : runs[i] = s.runs[1 + i - 1]
    BY <1>0, <2>1, PartOf
  <2>3. QED BY <2>1, <2>2
<1>4. /\ quads \in Seq(MixedQuads) /\ Len(quads) = v
      /\ \A k \in 1 .. v : quads[k] = s.quads[k]
  <2>1. 1 <= v + 1 /\ v <= Len(s.quads)
    BY <1>m, <1>2
  <2>2. /\ quads \in Seq(MixedQuads) /\ Len(quads) = v - 1 + 1
        /\ \A i \in 1 .. v - 1 + 1 : quads[i] = s.quads[1 + i - 1]
    BY <1>0, <2>1, PartOf
  <2>3. QED BY <2>2
<1>5. c \in Objects /\ c.runs = runs /\ c.quads = quads
  BY <1>3, <1>4 DEF Object, Objects
<1>6. \A k \in 1 .. r : len[k] = LengthBefore(s, k) /\ mix[k] = MixedBefore(s, k)
  OBVIOUS
<1> HIDE DEF c, len, mix, runs, quads
<1>7. ASSUME NEW k \in 1 .. Len(c.runs) PROVE RunLaid(c, len, mix, p, k)
  <2>1. k \in 1 .. r - 1 /\ k \in 1 .. r /\ k + 1 \in 1 .. r /\ k \in 1 .. L
        /\ k \in 1 .. L + 1 /\ k + 1 \in 1 .. L + 1 /\ k + 1 <= r
    BY <1>3, <1>5, <1>l
  <2>2. c.runs[k] = s.runs[k]
    BY <1>3, <1>5, <2>1
  <2>3. /\ LengthBefore(s, k + 1) = LengthBefore(s, k) + s.runs[k].length
        /\ MixedBefore(s, k + 1) = MixedBefore(s, k) + MixedLength(s.runs[k])
    BY <1>0, <1>l, <2>1, RunPlaces
  <2>4. s.runs[k].length \in Nat /\ LengthBefore(s, k) \in Nat /\ MixedBefore(s, k) \in Nat
    BY <1>l, <2>1, RunFits
  <2>5. LengthBefore(s, k + 1) <= u /\ MixedBefore(s, k + 1) <= v
    BY <1>0, <1>l, <1>u, <1>v, <2>1, RunPlacesOrdered
  <2>x. PICK x \in Nat : x = s.runs[k].length
    BY <2>4
  <2>a. PICK a \in Nat : a = LengthBefore(s, k)
    BY <2>4
  <2>b. PICK b \in Nat : b = MixedBefore(s, k)
    BY <2>4
  <2>c. a + x <= u /\ (s.runs[k].type = "Mixed" => b + x <= v)
    BY <2>3, <2>5, <2>x, <2>a, <2>b DEF MixedLength
  <2>6. ASSUME NEW j \in 0 .. s.runs[k].length - 1
        PROVE  p[len[k] + j] = Content(s.runs[k].type, c.quads, mix[k] + j + 1)
    <3>j. j \in 0 .. x - 1
      BY <2>x
    <3>u. a + j \in 0 .. u - 1
      BY <2>c, <3>j
    <3>1. LengthBefore(s, k) + j \in 0 .. u - 1
      BY <2>a, <3>u
    <3>2. q[LengthBefore(s, k) + j] = QuadIn(s, k, j)
      BY <1>l, <2>1 DEF Holds
    <3>b. b + x <= v => b + j + 1 \in 1 .. v
      BY <3>j
    <3>3. s.runs[k].type = "Mixed" => MixedBefore(s, k) + j + 1 \in 1 .. v
      BY <2>b, <2>c, <3>b
    <3>4. p[len[k] + j] = QuadIn(s, k, j)
      BY <1>6, <1>u, <2>1, <3>1, <3>2
    <3>5. QED BY <1>4, <1>5, <1>6, <2>1, <3>3, <3>4 DEF QuadIn, Content
  <2>7. QED BY <1>6, <2>1, <2>2, <2>3, <2>6 DEF RunLaid
<1>8. len[Len(c.runs) + 1] = u /\ mix[Len(c.runs) + 1] = Len(c.quads)
  <2>1. Len(c.runs) + 1 = r /\ r \in 1 .. r
    BY <1>l, <1>3, <1>5
  <2>2. len[r] = u /\ mix[r] = v /\ Len(c.quads) = v
    BY <1>4, <1>5, <1>6, <1>u, <1>v, <2>1
  <2>3. QED BY <2>1, <2>2
<1>9. len[1] = 0 /\ mix[1] = 0
  BY <1>1, <1>6
<1>10. p \in [0 .. u - 1 -> SUBSET Bits]
  BY <1>u
<1>11. Laid(c, len, mix, p, u)
  BY <1>5, <1>7, <1>8, <1>9, <1>10 DEF Laid
<1>12. QED BY <1>11, <1>u, <1>v, HoldsIf DEF c, runs, quads

\* The runs from run r on hold the quads from its first one on.
LEMMA SuffixHolds ==
  ASSUME NEW s, NEW q, NEW n, Holds(s, q, n), NEW r \in 1 .. Len(s.runs) + 1,
         NEW p \in [0 .. n - LengthBefore(s, r) - 1 -> SUBSET Bits],
         \A i \in 0 .. n - LengthBefore(s, r) - 1 : p[i] = q[LengthBefore(s, r) + i]
  PROVE  Holds(Object(SubSeq(s.runs, r, Len(s.runs)),
                      SubSeq(s.quads, MixedBefore(s, r) + 1, Len(s.quads))),
               p, n - LengthBefore(s, r))
<1>0. /\ s \in Objects /\ s.runs \in Seq(Runs) /\ s.quads \in Seq(MixedQuads)
      /\ Len(s.runs) \in Nat /\ Len(s.quads) \in Nat /\ n \in Nat
  BY DEF Holds, Objects
<1>l. PICK L \in Nat : L = Len(s.runs)
  BY <1>0
<1>m. PICK M \in Nat : M = Len(s.quads)
  BY <1>0
<1>1. LengthBefore(s, r) \in Nat /\ MixedBefore(s, r) \in Nat
  BY <1>0, RunPlaces
<1>u. PICK u \in Nat : u = LengthBefore(s, r)
  BY <1>1
<1>v. PICK v \in Nat : v = MixedBefore(s, r)
  BY <1>1
<1>2. v <= M /\ u <= n /\ LengthBefore(s, L + 1) = n /\ MixedBefore(s, L + 1) = M
  <2>1. L + 1 \in 1 .. L + 1 /\ r \in 1 .. L + 1 /\ r <= L + 1
    BY <1>l
  <2>2. /\ LengthBefore(s, r) <= LengthBefore(s, L + 1)
        /\ MixedBefore(s, r) <= MixedBefore(s, L + 1)
    BY <1>0, <1>l, <2>1, RunPlacesOrdered
  <2>3. QED BY <1>l, <1>m, <1>u, <1>v, <2>2 DEF Holds
<1> DEFINE runs == SubSeq(s.runs, r, L)
           quads == SubSeq(s.quads, v + 1, M)
           c == Object(runs, quads)
           len == [k \in 1 .. L + 2 - r |-> LengthBefore(s, r + k - 1) - u]
           mix == [k \in 1 .. L + 2 - r |-> MixedBefore(s, r + k - 1) - v]
<1>3. /\ runs \in Seq(Runs) /\ Len(runs) = L + 1 - r
      /\ \A k \in 1 .. L + 1 - r : runs[k] = s.runs[r + k - 1]
  <2>1. r \in Nat /\ 1 <= r /\ r <= L + 1 /\ L <= Len(s.runs)
    BY <1>l
  <2>2. /\ runs \in Seq(Runs) /\ Len(runs) = L - r + 1
        /\ \A i \in 1 .. L - r + 1 : runs[i] = s.runs[r + i - 1]
    BY <1>0, <2>1, PartOf
  <2>3. L - r + 1 = L + 1 - r
    BY <2>1
  <2>4. QED BY <2>2, <2>3
<1>4. /\ quads \in Seq(MixedQuads) /\ Len(quads) = M - v
      /\ \A k \in 1 .. M - v : quads[k] = s.quads[v + k]
  <2>1. M <= Len(s.quads) /\ v <= M
    BY <1>m, <1>2
  <2>2. QED BY <1>0, <2>1, PartAfter
<1>5. c \in Objects /\ c.runs = runs /\ c.quads = quads
  BY <1>3, <1>4 DEF Object, Objects
<1>6. \A k \in 1 .. L + 2 - r : /\ len[k] = LengthBefore(s, r + k - 1) - u
                                /\ mix[k] = MixedBefore(s, r + k - 1) - v
  OBVIOUS
<1> HIDE DEF c, len, mix, runs, quads
<1>7. ASSUME NEW k \in 1 .. Len(c.runs) PROVE RunLaid(c, len, mix, p, k)
  <2> DEFINE h == r + k - 1
  <2>0. k \in 1 .. L + 1 - r /\ r \in 1 .. L + 1
    BY <1>3, <1>5, <1>l
  <2>1. /\ k \in 1 .. L + 1 - r /\ k \in 1 .. L + 2 - r /\ k + 1 \in 1 .. L + 2 - r
        /\ h \in 1 .. L /\ h \in 1 .. L + 1 /\ r <= h /\ r + (k + 1) - 1 = h + 1
        /\ r \in 1 .. L + 1
    <3>1. k \in 1 .. L + 1 - r /\ k \in 1 .. L + 2 - r /\ k + 1 \in 1 .. L + 2 - r
      BY <2>0
    <3>2. h \in 1 .. L /\ h \in 1 .. L + 1 /\ r <= h
      BY <2>0
    <3>3. r + (k + 1) - 1 = h + 1
      BY <2>0
    <3>4. QED BY <2>0, <3>1, <3>2, <3>3
  <2>2. /\ c.runs[k] = s.runs[h]
        /\ len[k] = LengthBefore(s, h) - u /\ mix[k] = MixedBefore(s, h) - v
        /\ len[k + 1] = LengthBefore(s, h + 1) - u /\ mix[k + 1] = MixedBefore(s, h + 1) - v
    BY <1>3, <1>5, <1>6, <2>1
  <2> HIDE DEF h
  <2>3. /\ LengthBefore(s, h + 1) = LengthBefore(s, h) + s.runs[h].length
        /\ MixedBefore(s, h + 1) = MixedBefore(s, h) + MixedLength(s.runs[h])
    BY <1>0, <1>l, <2>1, RunPlaces
  <2>4. /\ s.runs[h].length \in Nat /\ LengthBefore(s, h) \in Nat /\ MixedBefore(s, h) \in Nat
        /\ LengthBefore(s, h) + s.runs[h].length <= n
        /\ MixedBefore(s, h) + MixedLength(s.runs[h]) <= M
    BY <1>l, <1>m, <2>1, RunFits
  <2>5. u <= LengthBefore(s, h) /\ v <= MixedBefore(s, h)
    BY <1>0, <1>l, <1>u, <1>v, <2>1, RunPlacesOrdered
  <2>x. PICK x \in Nat : x = s.runs[h].length
    BY <2>4
  <2>a. PICK a \in Nat : a = LengthBefore(s, h)
    BY <2>4
  <2>b. PICK b \in Nat : b = MixedBefore(s, h)
    BY <2>4
  <2>y. MixedLength(s.runs[h]) = IF s.runs[h].type = "Mixed" THEN x ELSE 0
    BY <2>x DEF MixedLength
  <2>c. u <= a /\ v <= b /\ a + x <= n /\ (s.runs[h].type = "Mixed" => b + x <= M)
    BY <2>4, <2>5, <2>x, <2>a, <2>b, <2>y
  <2>6. ASSUME NEW j \in 0 .. s.runs[h].length - 1
        PROVE  p[len[k] + j] = Content(s.runs[h].type, c.quads, mix[k] + j + 1)
    <3>j. j \in 0 .. x - 1
      BY <2>x
    <3>a. a - u + j \in 0 .. n - u - 1 /\ u + (a - u + j) = a + j
      BY <1>0, <2>c, <3>j
    <3>1. LengthBefore(s, h) - u + j \in 0 .. n - u - 1
          /\ u + (LengthBefore(s, h) - u + j) = LengthBefore(s, h) + j
      BY <2>a, <3>a
    <3>b. b + x <= M => /\ b - v + j + 1 \in 1 .. M - v
                        /\ v + (b - v + j + 1) = b + j + 1
      BY <2>c, <3>j
    <3>2. q[LengthBefore(s, h) + j] = QuadIn(s, h, j)
      BY <1>l, <2>1 DEF Holds
    <3>3. s.runs[h].type = "Mixed" =>
            /\ MixedBefore(s, h) - v + j + 1 \in 1 .. M - v
            /\ v + (MixedBefore(s, h) - v + j + 1) = MixedBefore(s, h) + j + 1
      BY <2>b, <2>c, <3>b
    <3>4. p[len[k] + j] = QuadIn(s, h, j)
      BY <1>u, <2>2, <3>1, <3>2
    <3>5. QED BY <1>4, <1>5, <2>2, <3>3, <3>4 DEF QuadIn, Content
  <2>8. len[k + 1] = len[k] + s.runs[h].length /\ mix[k + 1] = mix[k] + MixedLength(s.runs[h])
    <3>z. PICK z \in Nat : z = MixedLength(s.runs[h])
      BY <2>y
    <3>l. LengthBefore(s, h + 1) = a + x
      BY <2>3, <2>x, <2>a
    <3>1. len[k] = a - u /\ len[k + 1] = a + x - u
      BY <2>2, <2>a, <3>l
    <3>2. mix[k] = b - v /\ mix[k + 1] = b + z - v
      BY <2>2, <2>3, <2>b, <3>z
    <3>3. a + x - u = a - u + x /\ b + z - v = b - v + z
      OBVIOUS
    <3>4. QED BY <2>x, <3>z, <3>1, <3>2, <3>3
  <2>9. QED BY <2>2, <2>6, <2>8 DEF RunLaid
<1>8. len[Len(c.runs) + 1] = n - u /\ mix[Len(c.runs) + 1] = Len(c.quads)
  <2>1. Len(c.runs) + 1 \in 1 .. L + 2 - r /\ r + (Len(c.runs) + 1) - 1 = L + 1
    <3>1. Len(c.runs) = L + 1 - r
      BY <1>3, <1>5
    <3>2. r \in 1 .. L + 1
      BY <1>l
    <3>3. L + 1 - r + 1 \in 1 .. L + 2 - r /\ r + (L + 1 - r + 1) - 1 = L + 1
      BY <3>2
    <3>4. QED BY <3>1, <3>3
  <2>2. QED BY <1>2, <1>4, <1>5, <1>6, <2>1
<1>9. len[1] = 0 /\ mix[1] = 0
  <2>1. 1 \in 1 .. L + 2 - r /\ r + 1 - 1 = r
    BY <1>l
  <2>2. QED BY <1>6, <1>u, <1>v, <2>1
<1>10. p \in [0 .. n - u - 1 -> SUBSET Bits] /\ n - u \in Nat
  BY <1>2, <1>u, <1>0
<1>11. Laid(c, len, mix, p, n - u)
  BY <1>5, <1>7, <1>8, <1>9, <1>10 DEF Laid
<1>12. QED BY <1>11, <1>l, <1>m, <1>u, <1>v, HoldsIf DEF c, runs, quads

\* Every quad lies in one run.
LEMMA RunOfQuad ==
  ASSUME NEW s, NEW q, NEW n, Holds(s, q, n), NEW i \in 0 .. n - 1
  PROVE  /\ RunOf(s, i) \in 1 .. Len(s.runs)
         /\ LengthBefore(s, RunOf(s, i)) \in Nat /\ MixedBefore(s, RunOf(s, i)) \in Nat
         /\ OffsetIn(s, i) \in Nat /\ OffsetIn(s, i) < s.runs[RunOf(s, i)].length
         /\ LengthBefore(s, RunOf(s, i)) + OffsetIn(s, i) = i
         /\ QuadIn(s, RunOf(s, i), OffsetIn(s, i)) = q[i]
<1>0. s \in Objects /\ s.runs \in Seq(Runs) /\ Len(s.runs) \in Nat /\ n \in Nat
  BY DEF Holds, Objects
<1>l. PICK L \in Nat : L = Len(s.runs)
  BY <1>0
<1> DEFINE S == {r \in 1 .. L + 1 : i < LengthBefore(s, r)}
<1>1. L + 1 \in S
  BY <1>l DEF Holds
<1>2. PICK m \in S : \A k \in S : m <= k
  <2>1. S \subseteq Nat /\ S # {}
    BY <1>1
  <2> HIDE DEF S
  <2>2. QED BY <2>1, LeastNumber
<1>3. m # 1 /\ m \in 1 .. L + 1
  <2>1. LengthBefore(s, 1) = 0
    BY <1>0, RunPlaces
  <2>2. QED BY <1>2, <2>1
<1>4. m - 1 \in 1 .. L /\ m - 1 \in 1 .. L + 1 /\ m - 1 + 1 = m
  BY <1>3
<1>5. LengthBefore(s, m - 1) \in Nat
  BY <1>0, <1>l, <1>4, RunPlaces
<1>6. LengthBefore(s, m - 1) <= i /\ i < LengthBefore(s, m - 1 + 1)
  <2>1. m - 1 \notin S
    BY <1>2, <1>4
  <2>2. QED BY <1>2, <1>4, <1>5, <2>1
<1>7. DOMAIN s.runs = 1 .. L
  BY <1>0, <1>l
<1>8. /\ RunOf(s, i) \in 1 .. L
      /\ LengthBefore(s, RunOf(s, i)) <= i /\ i < LengthBefore(s, RunOf(s, i) + 1)
  BY <1>4, <1>6, <1>7 DEF RunOf
<1>r. PICK r \in 1 .. L : r = RunOf(s, i)
  BY <1>8
<1>9. /\ LengthBefore(s, r + 1) = LengthBefore(s, r) + s.runs[r].length
      /\ LengthBefore(s, r) \in Nat /\ MixedBefore(s, r) \in Nat
      /\ s.runs[r].length \in Nat
  BY <1>0, <1>l, RunPlaces, RunFits
<1>a. PICK a \in Nat : a = LengthBefore(s, r)
  BY <1>9
<1>x. PICK x \in Nat : x = s.runs[r].length
  BY <1>9
<1>10. a <= i /\ i < a + x
  BY <1>8, <1>9, <1>a, <1>x, <1>r
<1>11. OffsetIn(s, i) = i - a
  BY <1>a, <1>r DEF OffsetIn
<1>12. i - a \in 0 .. x - 1 /\ a + (i - a) = i
  BY <1>10
<1>13. QuadIn(s, r, i - a) = q[i]
  BY <1>l, <1>a, <1>x, <1>12 DEF Holds
<1>14. OffsetIn(s, i) \in Nat /\ OffsetIn(s, i) < s.runs[r].length
  BY <1>x, <1>11, <1>12
<1>15. LengthBefore(s, r) + OffsetIn(s, i) = i
  BY <1>a, <1>11, <1>12
<1>16. QED BY <1>l, <1>r, <1>9, <1>11, <1>13, <1>14, <1>15

\* What the object answers for a quad is what it holds there.
LEMMA QuadAtIs ==
  ASSUME NEW s, NEW q, NEW n, Holds(s, q, n), NEW i \in 0 .. n - 1
  PROVE  QuadAt(s, i) = q[i]
<1>1. PICK r \in 1 .. Len(s.runs) : r = RunOf(s, i)
  BY RunOfQuad
<1>2. s.runs[r].type \in RunTypes
  BY RunFits
<1>3. q[i] = Content(s.runs[r].type, s.quads, MixedBefore(s, r) + OffsetIn(s, i) + 1)
  BY <1>1, RunOfQuad DEF QuadIn
<1>4. QED BY <1>1, <1>2, <1>3 DEF QuadAt, Content, RunTypes

\* Two parts of an array that meet are one part.
LEMMA PartsJoin ==
  ASSUME NEW S, NEW x \in Seq(S), NEW a \in Nat, NEW b \in Nat, NEW c \in Nat,
         1 <= a, a <= b + 1, b <= c, c <= Len(x)
  PROVE  SubSeq(x, a, b) \o SubSeq(x, b + 1, c) = SubSeq(x, a, c)
<1>1. /\ SubSeq(x, a, b) \in Seq(S)
      /\ Len(SubSeq(x, a, b)) = b - a + 1
      /\ \A i \in 1 .. b - a + 1 : SubSeq(x, a, b)[i] = x[a + i - 1]
  BY PartOf
<1>2. /\ SubSeq(x, b + 1, c) \in Seq(S)
      /\ Len(SubSeq(x, b + 1, c)) = c - (b + 1) + 1
      /\ \A i \in 1 .. c - (b + 1) + 1 : SubSeq(x, b + 1, c)[i] = x[b + 1 + i - 1]
  BY PartOf
<1>3. /\ SubSeq(x, a, c) \in Seq(S)
      /\ Len(SubSeq(x, a, c)) = c - a + 1
      /\ \A i \in 1 .. c - a + 1 : SubSeq(x, a, c)[i] = x[a + i - 1]
  BY PartOf
<1> DEFINE y == SubSeq(x, a, b)
           z == SubSeq(x, b + 1, c)
           w == SubSeq(x, a, c)
<1> HIDE DEF y, z, w
<1>4. /\ y \o z \in Seq(S) /\ Len(y \o z) = Len(y) + Len(z)
      /\ \A i \in 1 .. Len(y) + Len(z) :
           (y \o z)[i] = IF i <= Len(y) THEN y[i] ELSE z[i - Len(y)]
  BY <1>1, <1>2, ConcatProperties DEF y, z
<1>5. Len(y \o z) = c - a + 1
  BY <1>1, <1>2, <1>4 DEF y, z
<1>6. ASSUME NEW i \in 1 .. c - a + 1 PROVE (y \o z)[i] = w[i]
  <2>1. CASE i <= b - a + 1
    BY <1>1, <1>2, <1>3, <1>4, <2>1 DEF y, z, w
  <2>2. CASE ~ (i <= b - a + 1)
    <3>1. i - (b - a + 1) \in 1 .. c - (b + 1) + 1
          /\ b + 1 + (i - (b - a + 1)) - 1 = a + i - 1
      BY <2>2
    <3>2. z[i - (b - a + 1)] = x[a + i - 1]
      BY <1>2, <3>1 DEF z
    <3>3. (y \o z)[i] = z[i - (b - a + 1)]
      BY <1>1, <1>2, <1>4, <1>5, <2>2 DEF y, z
    <3>4. QED BY <1>3, <3>2, <3>3 DEF w
  <2>3. QED BY <2>1, <2>2
<1>7. y \o z = w
  <2>1. w \in Seq(S) /\ Len(w) = c - a + 1 /\ c - a + 1 \in Nat
    BY <1>3 DEF w
  <2>2. Len(y \o z) = Len(w) /\ \A i \in 1 .. Len(y \o z) : (y \o z)[i] = w[i]
    BY <1>5, <1>6, <2>1
  <2>3. QED BY <1>4, <2>1, <2>2, SeqEqual
<1>8. QED BY <1>7 DEF y, z, w

\* k quads of run r, from its place a on.
Slice(s, r, a, k) ==
  Object(Piece(s.runs[r].type, k),
         IF s.runs[r].type = "Mixed"
         THEN SubSeq(s.quads, MixedBefore(s, r) + a + 1, MixedBefore(s, r) + a + k)
         ELSE <<>>)

\* A part of one run.
LEMMA SliceHolds ==
  ASSUME NEW s, NEW q, NEW n, Holds(s, q, n), NEW r \in 1 .. Len(s.runs),
         NEW a \in Nat, NEW k \in Nat, a + k <= s.runs[r].length,
         NEW p \in [0 .. k - 1 -> SUBSET Bits],
         \A j \in 0 .. k - 1 : p[j] = q[LengthBefore(s, r) + a + j]
  PROVE  Holds(Slice(s, r, a, k), p, k)
<1>0. /\ s \in Objects /\ s.quads \in Seq(MixedQuads) /\ Len(s.quads) \in Nat
  BY DEF Holds, Objects
<1>1. /\ s.runs[r].length \in Nat /\ s.runs[r].type \in RunTypes
      /\ LengthBefore(s, r) \in Nat /\ MixedBefore(s, r) \in Nat
      /\ MixedBefore(s, r) + MixedLength(s.runs[r]) <= Len(s.quads)
  BY RunFits
<1>x. PICK x \in Nat : x = s.runs[r].length
  BY <1>1
<1>u. PICK u \in Nat : u = LengthBefore(s, r)
  BY <1>1
<1>v. PICK v \in Nat : v = MixedBefore(s, r)
  BY <1>1
<1>m. PICK M \in Nat : M = Len(s.quads)
  BY <1>0
<1>t. PICK type \in RunTypes : type = s.runs[r].type
  BY <1>1
<1>2. type = "Mixed" => v + x <= M
  BY <1>1, <1>x, <1>v, <1>m, <1>t DEF MixedLength
<1>3. \A j \in 0 .. k - 1 : p[j] = Content(type, s.quads, v + a + j + 1)
  <2>1. SUFFICES ASSUME NEW j \in 0 .. k - 1
                 PROVE  p[j] = Content(type, s.quads, v + a + j + 1)
    OBVIOUS
  <2>2. a + j \in 0 .. x - 1
    BY <1>x
  <2>3. q[u + (a + j)] = QuadIn(s, r, a + j)
    BY <1>x, <1>u, <2>2 DEF Holds
  <2>4. u + (a + j) = u + a + j /\ v + (a + j) + 1 = v + a + j + 1
    OBVIOUS
  <2>5. QED BY <1>u, <1>v, <1>t, <2>3, <2>4 DEF QuadIn
<1> DEFINE mid == IF type = "Mixed" THEN SubSeq(s.quads, v + a + 1, v + a + k) ELSE <<>>
<1>4. CASE type = "Mixed"
  <2>w. PICK w \in Nat, z \in Nat : w = v + a /\ z = v + a + k
    OBVIOUS
  <2>0. v + x <= M /\ a + k <= x /\ M = Len(s.quads)
    BY <1>x, <1>m, <1>2, <1>4
  <2>1. w <= z /\ z <= Len(s.quads) /\ z - w = k
    BY <2>w, <2>0
  <2>2. /\ mid \in Seq(MixedQuads) /\ Len(mid) = k
        /\ \A i \in 1 .. k : mid[i] = s.quads[w + i]
    <3>p. mid = SubSeq(s.quads, w + 1, z)
      BY <1>4, <2>w
    <3> HIDE DEF mid
    <3>1. /\ mid \in Seq(MixedQuads) /\ Len(mid) = z - w
          /\ \A i \in 1 .. z - w : mid[i] = s.quads[w + i]
      BY <1>0, <2>1, <3>p, PartAfter
    <3>2. QED BY <2>1, <3>1, Zenon
  <2>3. Len(mid) = k /\ \A j \in 0 .. k - 1 : mid[j + 1] = s.quads[v + a + j + 1]
    <3> HIDE DEF mid
    <3>1. \A j \in 0 .. k - 1 : j + 1 \in 1 .. k /\ w + (j + 1) = v + a + j + 1
      <4>1. \A j \in 0 .. k - 1 : j + 1 \in 1 .. k /\ v + a + (j + 1) = v + a + j + 1
        OBVIOUS
      <4>2. QED BY <2>w, <4>1
    <3>2. QED BY <2>2, <3>1
  <2>4. \A j \in 0 .. k - 1 : p[j] = Content(type, mid, j + 1)
    BY <1>3, <1>4, <2>3 DEF Content
  <2> HIDE DEF mid
  <2>5. Holds(Object(Piece(type, k), mid), p, k)
    BY <1>4, <2>2, <2>3, <2>4, PieceHolds
  <2>6. QED BY <1>t, <1>v, <2>5 DEF Slice, mid
<1>5. CASE type # "Mixed"
  <2>1. mid \in Seq(MixedQuads) /\ Len(mid) = 0
    BY <1>5
  <2>2. \A j \in 0 .. k - 1 : p[j] = Content(type, mid, j + 1)
    BY <1>3, <1>5 DEF Content
  <2> HIDE DEF mid
  <2>3. Holds(Object(Piece(type, k), mid), p, k)
    BY <1>5, <2>1, <2>2, PieceHolds
  <2>4. QED BY <1>t, <1>v, <2>3 DEF Slice, mid
<1>6. QED BY <1>4, <1>5

\* What insert and insert_range keep before the quad that they change.
LEMMA BeforeHolds ==
  ASSUME NEW s, NEW q, NEW n, Holds(s, q, n), NEW i \in 0 .. n - 1,
         NEW p \in [0 .. i - 1 -> SUBSET Bits], \A k \in 0 .. i - 1 : p[k] = q[k]
  PROVE  Holds(Before(s, i), p, i)
<1>0. /\ s \in Objects /\ s.runs \in Seq(Runs) /\ s.quads \in Seq(MixedQuads)
      /\ Len(s.runs) \in Nat /\ Len(s.quads) \in Nat /\ n \in Nat
      /\ q \in [0 .. n - 1 -> SUBSET Bits]
  BY DEF Holds, Objects
<1>l. PICK L \in Nat : L = Len(s.runs)
  BY <1>0
<1>m. PICK M \in Nat : M = Len(s.quads)
  BY <1>0
<1>r. PICK r \in 1 .. L : r = RunOf(s, i)
  BY <1>l, RunOfQuad
<1>1. r \in 1 .. L + 1 /\ r \in 1 .. Len(s.runs) + 1
  BY <1>l
<1>2. /\ LengthBefore(s, r) \in Nat /\ MixedBefore(s, r) \in Nat /\ OffsetIn(s, i) \in Nat
      /\ OffsetIn(s, i) < s.runs[r].length /\ LengthBefore(s, r) + OffsetIn(s, i) = i
  BY <1>r, RunOfQuad
<1>3. /\ s.runs[r].length \in Nat
      /\ MixedBefore(s, r) + MixedLength(s.runs[r]) <= M
  BY <1>l, <1>m, RunFits
<1>a. PICK a \in Nat : a = LengthBefore(s, r)
  BY <1>2
<1>b. PICK b \in Nat : b = MixedBefore(s, r)
  BY <1>2
<1>o. PICK o \in Nat : o = OffsetIn(s, i)
  BY <1>2
<1>x. PICK x \in Nat : x = s.runs[r].length
  BY <1>3
<1>4. a + o = i /\ o < x /\ i \in Nat /\ i < n
  BY <1>0, <1>2, <1>a, <1>o, <1>x
<1>5. s.runs[r].type = "Mixed" => b + x <= M
  BY <1>3, <1>b, <1>x DEF MixedLength
<1> DEFINE p1 == [k \in 0 .. a - 1 |-> q[k]]
           p2 == [k \in 0 .. o - 1 |-> q[a + 0 + k]]
           u == Object(SubSeq(s.runs, 1, r - 1), SubSeq(s.quads, 1, b))
           v == Slice(s, r, 0, o)
<1>6. Holds(u, p1, a)
  <2>1. p1 \in [0 .. a - 1 -> SUBSET Bits] /\ \A k \in 0 .. a - 1 : p1[k] = q[k]
    BY <1>0, <1>4
  <2> HIDE DEF p1
  <2>2. QED BY <1>1, <1>a, <1>b, <2>1, PrefixHolds
<1>7. Holds(v, p2, o)
  <2>1. p2 \in [0 .. o - 1 -> SUBSET Bits] /\ \A k \in 0 .. o - 1 : p2[k] = q[a + 0 + k]
    BY <1>0, <1>4
  <2>2. 0 + o <= x
    BY <1>4
  <2> HIDE DEF p2
  <2>3. QED BY <1>l, <1>a, <1>x, <2>1, <2>2, SliceHolds
<1>8. Joins(p, p1, a, p2, o)
  <2>1. \A k \in 0 .. a - 1 : k \in 0 .. i - 1
    BY <1>4
  <2>2. \A k \in 0 .. o - 1 : a + k \in 0 .. i - 1 /\ a + 0 + k = a + k
    BY <1>4
  <2>3. QED BY <1>4, <2>1, <2>2 DEF Joins
<1> HIDE DEF p1, p2
<1>9. Before(s, i) = Concat(u, v)
  <2>1. SubSeq(s.quads, 1, b)
          \o (IF s.runs[r].type = "Mixed" THEN SubSeq(s.quads, b + 0 + 1, b + 0 + o) ELSE <<>>)
        = SubSeq(s.quads, 1, b + (IF s.runs[r].type = "Mixed" THEN o ELSE 0))
    <3>1. CASE s.runs[r].type = "Mixed"
      <4>1. /\ 1 \in Nat /\ b + o \in Nat /\ 1 <= 1 /\ 1 <= b + 1 /\ b <= b + o
            /\ b + o <= Len(s.quads) /\ b + 0 + 1 = b + 1 /\ b + 0 + o = b + o
        <5>1. b + o <= M /\ M = Len(s.quads)
          BY <1>4, <1>5, <1>m, <3>1
        <5>2. QED BY <5>1
      <4>2. SubSeq(s.quads, 1, b) \o SubSeq(s.quads, b + 1, b + o) = SubSeq(s.quads, 1, b + o)
        BY <1>0, <4>1, PartsJoin
      <4>3. QED BY <3>1, <4>1, <4>2
    <3>2. CASE s.runs[r].type # "Mixed"
      <4>1. b <= Len(s.quads)
        BY <1>3, <1>b, <1>m, <3>2 DEF MixedLength
      <4>2. SubSeq(s.quads, 1, b) \in Seq(MixedQuads)
        BY <1>0, <4>1, PartOf
      <4>3. SubSeq(s.quads, 1, b) \o <<>> = SubSeq(s.quads, 1, b)
        BY <4>2, ConcatEmptySeq
      <4>4. b + 0 = b
        OBVIOUS
      <4>5. QED BY <3>2, <4>3, <4>4
    <3>3. QED BY <3>1, <3>2
  <2>2. QED BY <1>r, <1>b, <1>o, <2>1 DEF Before, QuadsTo, Concat, Slice, Object
<1>10. Holds(Concat(u, v), p, a + o)
  <2> HIDE DEF u, v
  <2>1. QED BY <1>6, <1>7, <1>8, ConcatHolds
<1>11. QED BY <1>4, <1>9, <1>10

\* What they keep behind it.
LEMMA BehindHolds ==
  ASSUME NEW s, NEW q, NEW n, Holds(s, q, n), NEW i \in 0 .. n - 1,
         NEW p \in [0 .. n - i - 2 -> SUBSET Bits],
         \A k \in 0 .. n - i - 2 : p[k] = q[i + 1 + k]
  PROVE  Holds(Behind(s, i), p, n - i - 1)
<1>0. /\ s \in Objects /\ s.runs \in Seq(Runs) /\ s.quads \in Seq(MixedQuads)
      /\ Len(s.runs) \in Nat /\ Len(s.quads) \in Nat /\ n \in Nat
      /\ q \in [0 .. n - 1 -> SUBSET Bits]
  BY DEF Holds, Objects
<1>l. PICK L \in Nat : L = Len(s.runs)
  BY <1>0
<1>m. PICK M \in Nat : M = Len(s.quads)
  BY <1>0
<1>r. PICK r \in 1 .. L : r = RunOf(s, i)
  BY <1>l, RunOfQuad
<1>1. r + 1 \in 1 .. L + 1 /\ r + 1 \in 1 .. Len(s.runs) + 1
  BY <1>l
<1>2. /\ LengthBefore(s, r) \in Nat /\ MixedBefore(s, r) \in Nat /\ OffsetIn(s, i) \in Nat
      /\ OffsetIn(s, i) < s.runs[r].length /\ LengthBefore(s, r) + OffsetIn(s, i) = i
  BY <1>r, RunOfQuad
<1>3. /\ s.runs[r].length \in Nat
      /\ LengthBefore(s, r) + s.runs[r].length <= n
      /\ MixedBefore(s, r) + MixedLength(s.runs[r]) <= M
      /\ LengthBefore(s, r + 1) = LengthBefore(s, r) + s.runs[r].length
      /\ MixedBefore(s, r + 1) = MixedBefore(s, r) + MixedLength(s.runs[r])
  BY <1>0, <1>l, <1>m, RunFits, RunPlaces
<1>a. PICK a \in Nat : a = LengthBefore(s, r)
  BY <1>2
<1>b. PICK b \in Nat : b = MixedBefore(s, r)
  BY <1>2
<1>o. PICK o \in Nat : o = OffsetIn(s, i)
  BY <1>2
<1>x. PICK x \in Nat : x = s.runs[r].length
  BY <1>3
<1>4. a + o = i /\ o < x /\ i \in Nat /\ i < n /\ a + x <= n
  <2>1. a + o = i /\ o < x
    BY <1>2, <1>a, <1>o, <1>x
  <2>2. a + x <= n
    BY <1>3, <1>a, <1>x
  <2>3. i \in Nat /\ i < n
    BY <1>0
  <2>4. QED BY <2>1, <2>2, <2>3
<1>5. s.runs[r].type = "Mixed" => b + x <= M /\ MixedBefore(s, r + 1) = b + x
  BY <1>3, <1>b, <1>x DEF MixedLength
<1>6. s.runs[r].type # "Mixed" => b <= M /\ MixedBefore(s, r + 1) = b
  BY <1>3, <1>b DEF MixedLength
<1>e. PICK e \in Nat : e = MixedBefore(s, r + 1)
  BY <1>5, <1>6
<1>z. PICK z \in Nat : z = LengthBefore(s, r + 1) /\ z = a + x
  BY <1>3, <1>a, <1>x
<1> DEFINE y == x - (o + 1)
           p1 == [k \in 0 .. y - 1 |-> q[a + (o + 1) + k]]
           p2 == [k \in 0 .. n - z - 1 |-> q[z + k]]
           u == Slice(s, r, o + 1, y)
           v == Object(SubSeq(s.runs, r + 1, L), SubSeq(s.quads, e + 1, M))
<1>7. y \in Nat /\ o + 1 \in Nat /\ o + 1 + y = x /\ a + (o + 1) = i + 1
      /\ y + (n - z) = n - i - 1 /\ i + 1 + y = z /\ z <= n
  <2>1. z = a + x
    BY <1>z
  <2>2. QED BY <1>0, <1>4, <2>1
<1>8. Holds(u, p1, y)
  <2>1. \A k \in 0 .. y - 1 : a + (o + 1) + k \in 0 .. n - 1
    BY <1>0, <1>4, <1>7
  <2>2. p1 \in [0 .. y - 1 -> SUBSET Bits] /\ \A k \in 0 .. y - 1 : p1[k] = q[a + (o + 1) + k]
    BY <1>0, <2>1
  <2>3. o + 1 + y <= x
    BY <1>7, <1>4
  <2> HIDE DEF p1, y
  <2>4. y \in Nat /\ o + 1 \in Nat /\ o + 1 + y <= s.runs[r].length
    BY <1>7, <1>x, <2>3
  <2>5. \A k \in 0 .. y - 1 : p1[k] = q[LengthBefore(s, r) + (o + 1) + k]
    BY <1>a, <2>2
  <2>6. r \in 1 .. Len(s.runs)
    BY <1>l
  <2>7. Holds(Slice(s, r, o + 1, y), p1, y)
    BY <2>2, <2>4, <2>5, <2>6, SliceHolds
  <2>8. QED BY <2>7
<1>9. Holds(v, p2, n - z)
  <2>1. \A k \in 0 .. n - z - 1 : z + k \in 0 .. n - 1
    BY <1>0, <1>7
  <2>2. p2 \in [0 .. n - z - 1 -> SUBSET Bits] /\ \A k \in 0 .. n - z - 1 : p2[k] = q[z + k]
    BY <1>0, <2>1
  <2> HIDE DEF p2
  <2>3. /\ p2 \in [0 .. n - LengthBefore(s, r + 1) - 1 -> SUBSET Bits]
        /\ \A k \in 0 .. n - LengthBefore(s, r + 1) - 1 :
             p2[k] = q[LengthBefore(s, r + 1) + k]
    BY <1>z, <2>2
  <2>4. Holds(Object(SubSeq(s.runs, r + 1, Len(s.runs)),
                     SubSeq(s.quads, MixedBefore(s, r + 1) + 1, Len(s.quads))),
              p2, n - LengthBefore(s, r + 1))
    BY <1>1, <2>3, SuffixHolds
  <2>5. QED BY <1>l, <1>m, <1>e, <1>z, <2>4
<1>10. Joins(p, p1, y, p2, n - z)
  <2> HIDE DEF y
  <2>1. \A k \in 0 .. y - 1 : k \in 0 .. n - i - 2 /\ a + (o + 1) + k = i + 1 + k
    BY <1>0, <1>4, <1>7
  <2>2. \A k \in 0 .. n - z - 1 : y + k \in 0 .. n - i - 2 /\ i + 1 + (y + k) = z + k
    BY <1>0, <1>4, <1>7
  <2>3. \A k \in 0 .. y - 1 : p[k] = p1[k]
    BY <2>1
  <2>4. \A k \in 0 .. n - z - 1 : p[y + k] = p2[k]
    <3>1. \A k \in 0 .. n - z - 1 : p2[k] = q[z + k]
      OBVIOUS
    <3> HIDE DEF p1, p2
    <3>2. ASSUME NEW k \in 0 .. n - z - 1 PROVE p[y + k] = p2[k]
      <4>m. PICK m : m = y + k
        OBVIOUS
      <4>1. m \in 0 .. n - i - 2 /\ i + 1 + m = z + k
        BY <2>2, <4>m, Zenon
      <4>2. p[m] = q[i + 1 + m]
        BY <4>1, Zenon
      <4>3. QED BY <3>1, <4>m, <4>1, <4>2, Zenon
    <3>3. QED BY <3>2
  <2>5. y + (n - z) - 1 = n - i - 2
    BY <1>0, <1>4, <1>7
  <2>6. QED BY <2>3, <2>4, <2>5 DEF Joins
<1> HIDE DEF p1, p2, y
<1>11. Behind(s, i) = Concat(u, v)
  <2>1. (IF s.runs[r].type = "Mixed" THEN SubSeq(s.quads, b + (o + 1) + 1, b + (o + 1) + y)
         ELSE <<>>) \o SubSeq(s.quads, e + 1, M)
        = SubSeq(s.quads, b + (IF s.runs[r].type = "Mixed" THEN o + 1 ELSE 0) + 1, M)
    <3>1. CASE s.runs[r].type = "Mixed"
      <4>1. /\ b + (o + 1) + 1 \in Nat /\ 1 <= b + (o + 1) + 1 /\ b + (o + 1) + 1 <= e + 1
            /\ e <= M /\ M <= Len(s.quads) /\ b + (o + 1) + y = e
        <5>1. e = b + x /\ b + x <= M /\ M = Len(s.quads)
          BY <1>5, <1>e, <1>m, <3>1
        <5>y. y \in Nat /\ o + 1 + y = x
          BY <1>7
        <5>2. b + (o + 1) + y = e /\ b + (o + 1) + 1 <= e + 1
          BY <5>1, <5>y
        <5>3. QED BY <5>1, <5>2
      <4>w. PICK w \in Nat : w = b + (o + 1) + 1
        OBVIOUS
      <4>p. SubSeq(s.quads, w, e) \o SubSeq(s.quads, e + 1, M) = SubSeq(s.quads, w, M)
        <5>1. 1 <= w /\ w <= e + 1 /\ e <= M /\ M <= Len(s.quads)
          BY <4>1, <4>w
        <5>2. QED BY <1>0, <5>1, PartsJoin
      <4>2. SubSeq(s.quads, b + (o + 1) + 1, e) \o SubSeq(s.quads, e + 1, M)
              = SubSeq(s.quads, b + (o + 1) + 1, M)
        BY <4>w, <4>p
      <4>3. QED BY <3>1, <4>1, <4>2
    <3>2. CASE s.runs[r].type # "Mixed"
      <4>1. e = b /\ b + 1 \in Nat /\ 1 <= b + 1 /\ b + 1 <= M + 1 /\ M <= Len(s.quads)
        BY <1>6, <1>e, <1>m, <3>2
      <4>2. SubSeq(s.quads, b + 1, M) \in Seq(MixedQuads)
        BY <1>0, <4>1, PartOf
      <4>3. <<>> \o SubSeq(s.quads, b + 1, M) = SubSeq(s.quads, b + 1, M)
        BY <4>2, ConcatEmptySeq
      <4>4. b + 0 + 1 = b + 1
        OBVIOUS
      <4>5. QED BY <3>2, <4>1, <4>3, <4>4
    <3>3. QED BY <3>1, <3>2
  <2>q. QuadsThrough(s, i) = b + (IF s.runs[r].type = "Mixed" THEN o + 1 ELSE 0)
    BY <1>r, <1>b, <1>o DEF QuadsThrough
  <2>2. Behind(s, i)
          = Object(Piece(s.runs[r].type, y) \o SubSeq(s.runs, r + 1, L),
                   SubSeq(s.quads, QuadsThrough(s, i) + 1, M))
    BY <1>r, <1>o, <1>x, <1>l, <1>m DEF Behind, y
  <2>3. Concat(u, v) = Object(u.runs \o v.runs, u.quads \o v.quads)
    BY DEF Concat
  <2>4. u.runs = Piece(s.runs[r].type, y)
        /\ u.quads = IF s.runs[r].type = "Mixed"
                     THEN SubSeq(s.quads, b + (o + 1) + 1, b + (o + 1) + y) ELSE <<>>
    BY <1>b DEF Slice, Object
  <2>5. v.runs = SubSeq(s.runs, r + 1, L) /\ v.quads = SubSeq(s.quads, e + 1, M)
    BY DEF Object
  <2> HIDE DEF u, v
  <2>6. QED BY <2>1, <2>q, <2>2, <2>3, <2>4, <2>5
<1>12. Holds(Concat(u, v), p, y + (n - z))
  <2> HIDE DEF u, v
  <2>1. QED BY <1>8, <1>9, <1>10, ConcatHolds
<1>13. QED BY <1>7, <1>11, <1>12

-----------------------------------------------------------------------------
(* Appending.                                                              *)

\* p goes on after the n1 quads of q1 with n quads of one type.
Extends(p, q1, n1, type, n, more) ==
  /\ type \in RunTypes /\ n \in Nat /\ more \in Seq(MixedQuads)
  /\ Len(more) = IF type = "Mixed" THEN n ELSE 0
  /\ p \in [0 .. n1 + n - 1 -> SUBSET Bits]
  /\ \A i \in 0 .. n1 - 1 : p[i] = q1[i]
  /\ \A j \in 0 .. n - 1 : p[n1 + j] = Content(type, more, j + 1)

\* Changing the runs of an object.
LEMMA OtherRuns ==
  ASSUME NEW runs, NEW quads, NEW new
  PROVE  [Object(runs, quads) EXCEPT !.runs = new] = Object(new, quads)
BY DEF Object

\* An object without its last run, and that run.
LEMMA LastRunApart ==
  ASSUME NEW s, NEW q1, NEW n1, Holds(s, q1, n1), s.runs # <<>>,
         NEW type, s.runs[Len(s.runs)].type = type,
         NEW p, NEW n, NEW more, Extends(p, q1, n1, type, n, more), n # 0
  PROVE  Holds(Object(Lengthened(s.runs, n), s.quads \o more), p, n1 + n)
<1>0. /\ s \in Objects /\ s.runs \in Seq(Runs) /\ s.quads \in Seq(MixedQuads)
      /\ Len(s.runs) \in Nat /\ Len(s.quads) \in Nat /\ n1 \in Nat
      /\ q1 \in [0 .. n1 - 1 -> SUBSET Bits]
  BY DEF Holds, Objects
<1>l. PICK L \in Nat : L = Len(s.runs) /\ L # 0
  BY <1>0, EmptySeq
<1>m. PICK M \in Nat : M = Len(s.quads)
  BY <1>0
<1>1. L \in 1 .. L /\ L \in 1 .. L + 1 /\ L \in 1 .. Len(s.runs) /\ s.runs[L] \in Runs
      /\ L \in 1 .. Len(s.runs) + 1
  BY <1>0, <1>l
<1>2. /\ LengthBefore(s, L) \in Nat /\ MixedBefore(s, L) \in Nat /\ s.runs[L].length \in Nat
      /\ LengthBefore(s, L + 1) = LengthBefore(s, L) + s.runs[L].length
      /\ MixedBefore(s, L + 1) = MixedBefore(s, L) + MixedLength(s.runs[L])
      /\ LengthBefore(s, L + 1) = n1 /\ MixedBefore(s, L + 1) = M
  <2>1. LengthBefore(s, L) \in Nat /\ MixedBefore(s, L) \in Nat /\ s.runs[L].length \in Nat
    BY <1>1, RunFits
  <2>2. /\ LengthBefore(s, L + 1) = LengthBefore(s, L) + s.runs[L].length
        /\ MixedBefore(s, L + 1) = MixedBefore(s, L) + MixedLength(s.runs[L])
    BY <1>0, <1>1, RunPlaces
  <2>3. LengthBefore(s, L + 1) = n1 /\ MixedBefore(s, L + 1) = M
    BY <1>l, <1>m DEF Holds
  <2>4. QED BY <2>1, <2>2, <2>3
<1>a. PICK a \in Nat : a = LengthBefore(s, L)
  BY <1>2
<1>b. PICK b \in Nat : b = MixedBefore(s, L)
  BY <1>2
<1>x. PICK x \in Nat : x = s.runs[L].length
  BY <1>2
<1>3. a + x = n1 /\ s.runs[L] = Run(type, x) /\ type \in RunTypes
  BY <1>1, <1>2, <1>a, <1>x, <1>l DEF Runs, Run
<1>4. (type = "Mixed" => b + x = M) /\ (type # "Mixed" => b = M)
  BY <1>2, <1>b, <1>x, <1>l DEF MixedLength
<1>5. /\ n \in Nat /\ more \in Seq(MixedQuads)
      /\ Len(more) = IF type = "Mixed" THEN n ELSE 0
      /\ p \in [0 .. n1 + n - 1 -> SUBSET Bits]
      /\ \A i \in 0 .. n1 - 1 : p[i] = q1[i]
      /\ \A j \in 0 .. n - 1 : p[n1 + j] = Content(type, more, j + 1)
  BY DEF Extends
<1> DEFINE mid == SubSeq(s.quads, b + 1, M)
           tail == mid \o more
           p1 == [k \in 0 .. a - 1 |-> q1[k]]
           p2 == [j \in 0 .. x + n - 1 |-> p[a + j]]
           u == Object(SubSeq(s.runs, 1, L - 1), SubSeq(s.quads, 1, b))
           v == Object(Piece(type, x + n), tail)
<1>6. Holds(u, p1, a)
  <2>1. p1 \in [0 .. a - 1 -> SUBSET Bits] /\ \A k \in 0 .. a - 1 : p1[k] = q1[k]
    BY <1>0, <1>3
  <2> HIDE DEF p1
  <2>2. QED BY <1>1, <1>a, <1>b, <2>1, PrefixHolds
<1>7. /\ mid \in Seq(MixedQuads) /\ Len(mid) = M - b
      /\ \A i \in 1 .. M - b : mid[i] = s.quads[b + i]
      /\ b <= M
  <2>0. b <= M
    BY <1>4
  <2>1. b <= M /\ M <= Len(s.quads)
    BY <1>m, <2>0
  <2>2. QED BY <1>0, <2>0, <2>1, PartAfter
<1>8. /\ tail \in Seq(MixedQuads) /\ Len(tail) = IF type = "Mixed" THEN x + n ELSE 0
      /\ \A i \in 1 .. M - b : tail[i] = mid[i]
      /\ \A i \in 1 .. Len(more) : tail[M - b + i] = more[i]
  <2> HIDE DEF mid
  <2>1. /\ tail \in Seq(MixedQuads) /\ Len(tail) = M - b + Len(more)
        /\ \A i \in 1 .. M - b + Len(more) :
             tail[i] = IF i <= M - b THEN mid[i] ELSE more[i - (M - b)]
    <3>1. mid \in Seq(MixedQuads) /\ more \in Seq(MixedQuads) /\ Len(mid) = M - b
      BY <1>5, <1>7
    <3>2. /\ tail \in Seq(MixedQuads) /\ Len(tail) = Len(mid) + Len(more)
          /\ \A i \in 1 .. Len(mid) + Len(more) :
               tail[i] = IF i <= Len(mid) THEN mid[i] ELSE more[i - Len(mid)]
      BY <3>1, ConcatProperties
    <3> HIDE DEF tail
    <3>3. QED BY <3>1, <3>2
  <2> HIDE DEF tail
  <2>2. M - b + Len(more) = IF type = "Mixed" THEN x + n ELSE 0
    BY <1>4, <1>5
  <2>3. Len(more) \in Nat /\ M - b \in Nat
    BY <1>5, <1>7
  <2>d. PICK d \in Nat, e \in Nat : d = M - b /\ e = Len(more)
    BY <2>3
  <2>4. \A i \in 1 .. M - b : tail[i] = mid[i]
    <3>1. \A i \in 1 .. d : i \in 1 .. d + e /\ i <= d
      OBVIOUS
    <3>2. \A i \in 1 .. d + e : tail[i] = IF i <= d THEN mid[i] ELSE more[i - d]
      BY <2>1, <2>d, Zenon
    <3>3. \A i \in 1 .. d : tail[i] = mid[i]
      BY <3>1, <3>2
    <3>4. QED BY <2>d, <3>3, Zenon
  <2>5. ASSUME NEW i \in 1 .. Len(more) PROVE tail[M - b + i] = more[i]
    <3>1. M - b + i \in 1 .. M - b + Len(more) /\ ~ (M - b + i <= M - b)
          /\ M - b + i - (M - b) = i
      <4>i. i \in 1 .. e
        BY <2>d
      <4>1. d + i \in 1 .. d + e /\ ~ (d + i <= d) /\ d + i - d = i
        BY <4>i
      <4>2. QED BY <2>d, <4>1, Zenon
    <3>2. QED BY <2>1, <3>1
  <2>6. QED BY <2>1, <2>2, <2>4, <2>5
<1>9. ASSUME NEW j \in 0 .. x + n - 1 PROVE p2[j] = Content(type, tail, j + 1)
  <2> HIDE DEF tail, mid
  <2>0. p2[j] = p[a + j]
    OBVIOUS
  <2>1. CASE j < x
    <3>1. a + j \in 0 .. n1 - 1 /\ j \in 0 .. x - 1
      BY <1>3, <2>1
    <3>2. p[a + j] = QuadIn(s, L, j)
      BY <1>1, <1>5, <1>a, <1>x, <3>1 DEF Holds
    <3>3. type = "Mixed" => /\ j + 1 \in 1 .. M - b /\ b + (j + 1) = b + j + 1
      BY <1>4, <2>1
    <3>4. type = "Mixed" => tail[j + 1] = s.quads[b + j + 1]
      BY <1>7, <1>8, <3>3
    <3>5. p[a + j] = Content(type, s.quads, b + j + 1)
      BY <1>l, <1>b, <3>2 DEF QuadIn
    <3>6. QED BY <2>0, <3>4, <3>5 DEF Content
  <2>2. CASE ~ (j < x)
    <3>1. j - x \in 0 .. n - 1 /\ a + j = n1 + (j - x)
      BY <1>3, <2>2, <1>5
    <3>2. p[a + j] = Content(type, more, j - x + 1)
      BY <1>5, <3>1
    <3>3. type = "Mixed" => j - x + 1 \in 1 .. Len(more) /\ M - b + (j - x + 1) = j + 1
      BY <1>4, <1>5, <3>1
    <3>4. type = "Mixed" => tail[j + 1] = more[j - x + 1]
      BY <1>8, <3>3
    <3>5. QED BY <2>0, <3>2, <3>4 DEF Content
  <2>3. QED BY <2>1, <2>2
<1>10. Holds(v, p2, x + n)
  <2>1. x + n \in Nat /\ \A j \in 0 .. x + n - 1 : a + j \in 0 .. n1 + n - 1
    BY <1>3, <1>5
  <2>2. p2 \in [0 .. x + n - 1 -> SUBSET Bits]
    BY <1>5, <2>1
  <2>3. \A j \in 0 .. x + n - 1 : p2[j] = Content(type, tail, j + 1)
    BY <1>9
  <2>4. tail \in Seq(MixedQuads) /\ Len(tail) = IF type = "Mixed" THEN x + n ELSE 0
    BY <1>8
  <2> HIDE DEF p2, tail
  <2>y. PICK y \in Nat : y = x + n
    BY <2>1
  <2>5. /\ p2 \in [0 .. y - 1 -> SUBSET Bits]
        /\ \A j \in 0 .. y - 1 : p2[j] = Content(type, tail, j + 1)
        /\ Len(tail) = IF type = "Mixed" THEN y ELSE 0
    <3>1. y - 1 = x + n - 1
      <4>1. n \in Nat
        BY <1>5
      <4>2. QED BY <2>y, <4>1
    <3>2. QED BY <2>y, <2>2, <2>3, <2>4, <3>1, Zenon
  <2>6. Holds(Object(Piece(type, y), tail), p2, y)
    BY <1>3, <2>4, <2>5, PieceHolds
  <2>7. QED BY <2>y, <2>6
<1>11. Joins(p, p1, a, p2, x + n)
  <2>0. n \in Nat
    BY <1>5
  <2>1. a + (x + n) - 1 = n1 + n - 1 /\ a <= n1 /\ n1 \in Nat
    BY <1>0, <1>3, <2>0
  <2>2. \A k \in 0 .. a - 1 : p[k] = p1[k]
    BY <1>5, <2>1
  <2>3. \A j \in 0 .. x + n - 1 : p[a + j] = p2[j]
    OBVIOUS
  <2> HIDE DEF p1, p2
  <2>4. QED BY <1>5, <2>1, <2>2, <2>3 DEF Joins
<1>12. Holds(Concat(u, v), p, a + (x + n))
  <2> HIDE DEF p1, p2, u, v
  <2>1. QED BY <1>6, <1>10, <1>11, ConcatHolds
<1>13. SubSeq(s.quads, 1, b) \o tail = s.quads \o more
  <2> DEFINE front == SubSeq(s.quads, 1, b)
  <2>1. SubSeq(s.quads, 1, b) \o mid = SubSeq(s.quads, 1, M)
    <3>1. /\ 1 \in Nat /\ 1 <= 1 /\ 1 <= b + 1 /\ b <= M /\ M <= Len(s.quads)
      BY <1>7, <1>m
    <3>2. QED BY <1>0, <3>1, PartsJoin
  <2>2. SubSeq(s.quads, 1, M) = s.quads
    BY <1>0, <1>m, SubSeqFull
  <2>3. front \in Seq(MixedQuads)
    BY <1>0, <1>7, <1>m, PartOf
  <2>4. (front \o mid) \o more = front \o (mid \o more)
    <3>1. mid \in Seq(MixedQuads) /\ more \in Seq(MixedQuads)
      BY <1>5, <1>7
    <3> HIDE DEF mid, front
    <3>2. QED BY <2>3, <3>1, ConcatAssociative
  <2>5. QED BY <2>1, <2>2, <2>4
<1>14. SubSeq(s.runs, 1, L - 1) \o Piece(type, x + n)
         = [s.runs EXCEPT ![L] = Run(type, x + n)]
  <2> DEFINE front == SubSeq(s.runs, 1, L - 1)
             w == [s.runs EXCEPT ![L] = Run(type, x + n)]
             last == <<Run(type, x + n)>>
  <2>1. /\ front \in Seq(Runs) /\ Len(front) = L - 1
        /\ \A i \in 1 .. L - 1 : front[i] = s.runs[i]
    <3>1. L - 1 \in Nat /\ 1 <= L - 1 + 1 /\ L - 1 <= Len(s.runs)
      BY <1>l
    <3>2. /\ front \in Seq(Runs) /\ Len(front) = L - 1 - 1 + 1
          /\ \A i \in 1 .. L - 1 - 1 + 1 : front[i] = s.runs[1 + i - 1]
      BY <1>0, <3>1, PartOf
    <3>3. L - 1 - 1 + 1 = L - 1 /\ \A i \in 1 .. L - 1 : 1 + i - 1 = i
      BY <1>l
    <3>4. QED BY <3>2, <3>3
  <2>2. Run(type, x + n) \in Runs /\ Piece(type, x + n) = last
    BY <1>3, <1>5 DEF Run, Runs, Piece
  <2>3. last \in Seq(Runs) /\ Len(last) = 1 /\ last[1] = Run(type, x + n)
    BY <2>2
  <2>4. w \in Seq(Runs) /\ Len(w) = L
        /\ (\A i \in 1 .. L - 1 : w[i] = s.runs[i]) /\ w[L] = Run(type, x + n)
    <3>2. w = [s.runs EXCEPT ![L] = Run(type, x + n)]
      OBVIOUS
    <3>3. /\ w \in Seq(Runs) /\ Len(w) = Len(s.runs)
          /\ \A i \in 1 .. Len(s.runs) : w[i] = IF i = L THEN Run(type, x + n) ELSE s.runs[i]
      <4>e. PICK e \in Runs : e = Run(type, x + n)
        BY <2>2
      <4>s. PICK rs \in Seq(Runs) : rs = s.runs /\ L \in 1 .. Len(rs)
        BY <1>0, <1>1
      <4>w. PICK y : y = [rs EXCEPT ![L] = e]
        OBVIOUS
      <4>1. /\ y \in Seq(Runs) /\ Len(y) = Len(rs)
            /\ \A i \in 1 .. Len(rs) : y[i] = IF i = L THEN e ELSE rs[i]
        BY <4>s, <4>w, ExceptSeq
      <4>2. y = w
        BY <3>2, <4>e, <4>s, <4>w
      <4> HIDE DEF w
      <4>3. QED BY <4>1, <4>2, <4>e, <4>s
    <3>4. L \in 1 .. L /\ \A i \in 1 .. L - 1 : i \in 1 .. L /\ i # L
      BY <1>l
    <3>5. QED BY <1>l, <3>3, <3>4
  <2> HIDE DEF front, w, last
  <2>5. /\ front \o last \in Seq(Runs) /\ Len(front \o last) = L
        /\ \A i \in 1 .. L : (front \o last)[i] = IF i <= L - 1 THEN front[i]
                                                   ELSE last[i - (L - 1)]
    <3>1. Len(front) + Len(last) = L
      BY <2>1, <2>3
    <3>2. /\ front \o last \in Seq(Runs) /\ Len(front \o last) = Len(front) + Len(last)
          /\ \A i \in 1 .. Len(front) + Len(last) :
               (front \o last)[i] = IF i <= Len(front) THEN front[i]
                                    ELSE last[i - Len(front)]
      BY <2>1, <2>3, ConcatProperties
    <3>3. QED BY <2>1, <3>1, <3>2
  <2>6. \A i \in 1 .. L : (front \o last)[i] = w[i]
    <3>1. ASSUME NEW i \in 1 .. L - 1 PROVE (front \o last)[i] = w[i]
      <4>1. i \in 1 .. L /\ i <= L - 1
        OBVIOUS
      <4>2. (front \o last)[i] = front[i]
        BY <2>5, <4>1
      <4>3. QED BY <2>1, <2>4, <4>2
    <3>2. (front \o last)[L] = w[L]
      <4>1. L \in 1 .. L /\ ~ (L <= L - 1) /\ L - (L - 1) = 1
        BY <1>l
      <4>2. (front \o last)[L] = last[1]
        BY <2>5, <4>1
      <4>3. QED BY <2>3, <2>4, <4>2
    <3>3. \A i \in 1 .. L : i \in 1 .. L - 1 \/ i = L
      OBVIOUS
    <3>4. QED BY <3>1, <3>2, <3>3
  <2>7. front \o last = w
    BY <2>4, <2>5, <2>6, SeqEqual
  <2>8. QED BY <2>2, <2>7 DEF front, w
<1>15. Object(Lengthened(s.runs, n), s.quads \o more) = Concat(u, v)
  <2>1. Lengthened(s.runs, n) = [s.runs EXCEPT ![L] = Run(type, x + n)]
    <3>1. s.runs[Len(s.runs)] = Run(type, x)
      BY <1>3, <1>l
    <3>2. Lengthened(s.runs, n) = LastIs(s.runs, Run(type, x + n))
      BY <3>1, LengthenedLast
    <3>3. QED BY <1>l, <3>2 DEF LastIs
  <2>2. Concat(u, v) = Object(SubSeq(s.runs, 1, L - 1) \o Piece(type, x + n),
                              SubSeq(s.quads, 1, b) \o tail)
    BY DEF Object, Concat
  <2>3. QED BY <1>13, <1>14, <2>1, <2>2, Zenon
<1>16. a + (x + n) = n1 + n
  BY <1>3, <1>5
<1>17. QED BY <1>12, <1>15, <1>16

\* append_run, whether or not it joins the run to the last one.
LEMMA AppendRunHolds ==
  ASSUME NEW s, NEW q1, NEW n1, Holds(s, q1, n1), NEW type, NEW p, NEW n, NEW more,
         Extends(p, q1, n1, type, n, more)
  PROVE  Holds(AppendRun(Object(s.runs, s.quads \o more), type, n), p, n1 + n)
<1> DEFINE t == Object(s.runs, s.quads \o more)
<1>0. /\ s \in Objects /\ s.runs \in Seq(Runs) /\ s.quads \in Seq(MixedQuads) /\ n1 \in Nat
      /\ s = Object(s.runs, s.quads)
  BY DEF Holds, Objects, Object
<1>1. t.runs = s.runs /\ t.quads = s.quads \o more
  BY DEF Object
<1>2. CASE n = 0
  <2>1. more = <<>>
    BY <1>2, EmptySeq DEF Extends
  <2>2. t = s
    BY <1>0, <2>1, ConcatEmptySeq
  <2>3. p = q1
    BY <1>0, <1>2 DEF Extends, Holds
  <2>4. n1 + n = n1
    BY <1>0, <1>2
  <2>5. QED BY <1>2, <2>2, <2>3, <2>4 DEF AppendRun
<1>3. CASE n # 0 /\ s.runs # <<>> /\ s.runs[Len(s.runs)].type = type
  <2>1. AppendRun(t, type, n) = Object(Lengthened(s.runs, n), s.quads \o more)
    BY <1>3, AppendRunLonger
  <2>2. Holds(Object(Lengthened(s.runs, n), s.quads \o more), p, n1 + n)
    BY <1>3, LastRunApart
  <2>3. QED BY <2>1, <2>2, Zenon
<1>4. CASE n # 0 /\ ~ (s.runs # <<>> /\ s.runs[Len(s.runs)].type = type)
  <2> DEFINE v == Object(Piece(type, n), more)
             p2 == [j \in 0 .. n - 1 |-> p[n1 + j]]
  <2>1. /\ n \in Nat /\ more \in Seq(MixedQuads) /\ type \in RunTypes
        /\ Len(more) = IF type = "Mixed" THEN n ELSE 0
        /\ p \in [0 .. n1 + n - 1 -> SUBSET Bits]
        /\ \A i \in 0 .. n1 - 1 : p[i] = q1[i]
        /\ \A j \in 0 .. n - 1 : p[n1 + j] = Content(type, more, j + 1)
    BY DEF Extends
  <2>2. p2 \in [0 .. n - 1 -> SUBSET Bits]
        /\ (\A j \in 0 .. n - 1 : p2[j] = p[n1 + j])
        /\ \A j \in 0 .. n - 1 : p2[j] = Content(type, more, j + 1)
    BY <1>0, <2>1
  <2> HIDE DEF p2
  <2>3. Holds(v, p2, n)
    BY <2>1, <2>2, PieceHolds
  <2>4. Joins(p, q1, n1, p2, n)
    BY <2>1, <2>2 DEF Joins
  <2>5. Holds(Concat(s, v), p, n1 + n)
    <3> HIDE DEF v
    <3>1. QED BY <2>3, <2>4, ConcatHolds
  <2>6. Append(s.runs, Run(type, n)) = s.runs \o <<Run(type, n)>>
    <3>1. Run(type, n) \in Runs
      BY <1>4, <2>1 DEF Run, Runs
    <3>2. QED BY <1>0, <3>1, AppendIsConcat
  <2>7. AppendRun(t, type, n) = Concat(s, v)
    <3>1. AppendRun(t, type, n) = [t EXCEPT !.runs = Append(s.runs, Run(type, n))]
      BY <1>1, <1>4 DEF AppendRun
    <3>2. [t EXCEPT !.runs = Append(s.runs, Run(type, n))]
            = Object(Append(s.runs, Run(type, n)), s.quads \o more)
      BY OtherRuns, Zenon
    <3>3. QED BY <1>4, <2>6, <3>1, <3>2 DEF Concat, Object, Piece
  <2>8. QED BY <2>5, <2>7
<1>5. QED BY <1>2, <1>3, <1>4

-----------------------------------------------------------------------------
(* Code points, quads and bits.                                            *)

\* Multiples of the size of a quad are as far apart as their quads.
LEMMA Multiples ==
  ASSUME NEW i \in Int, NEW j \in Int, i < j
  PROVE  QuadBits * i + QuadBits <= QuadBits * j
<1>1. QuadBits \in Nat /\ QuadBits > 1
  BY SizeAssumption
<1>2. QuadBits * j - QuadBits * i = QuadBits * (j - i)
  BY <1>1
<1>3. PICK d \in Nat : d = j - i - 1
  OBVIOUS
<1>4. QuadBits * (d + 1) = QuadBits * d + QuadBits
  BY <1>1
<1>5. QuadBits * d >= 0
  BY <1>1
<1>6. QED BY <1>1, <1>2, <1>3, <1>4, <1>5

\* A code point is given by its quad and its bit.
LEMMA QuadAndBit ==
  ASSUME NEW cp \in Nat
  PROVE  /\ cp \div QuadBits \in Nat /\ cp % QuadBits \in Bits
         /\ cp = QuadBits * (cp \div QuadBits) + (cp % QuadBits)
<1>1. QuadBits \in Nat /\ QuadBits > 1
  BY SizeAssumption
<1>2. QED BY <1>1 DEF Bits

\* A quad and a bit in it give one code point.
LEMMA QuadAndBitUnique ==
  ASSUME NEW i \in Nat, NEW b \in Bits
  PROVE  /\ (QuadBits * i + b) \div QuadBits = i
         /\ (QuadBits * i + b) % QuadBits = b
<1>1. QuadBits \in Nat /\ QuadBits > 1 /\ b \in Nat /\ b < QuadBits
  BY SizeAssumption DEF Bits
<1>c. PICK cp \in Nat : cp = QuadBits * i + b
  BY <1>1
<1>2. PICK j \in Nat, c \in Nat : /\ j = cp \div QuadBits /\ c = cp % QuadBits
                                  /\ c < QuadBits /\ cp = QuadBits * j + c
  BY <1>1, QuadAndBit DEF Bits
<1>3. ~ (i < j)
  BY <1>1, <1>2, <1>c, Multiples
<1>4. ~ (j < i)
  BY <1>1, <1>2, <1>c, Multiples
<1>5. i = j
  BY <1>3, <1>4
<1>6. QED BY <1>1, <1>2, <1>5, <1>c

\* The order of code points is that of their quads, then of their bits.
LEMMA OrderOfCodePoints ==
  ASSUME NEW x \in Nat, NEW y \in Nat
  PROVE  x <= y <=> \/ x \div QuadBits < y \div QuadBits
                    \/ x \div QuadBits = y \div QuadBits /\ x % QuadBits <= y % QuadBits
<1>1. QuadBits \in Nat /\ QuadBits > 1
  BY SizeAssumption
<1>2. PICK i \in Nat, b \in Nat : /\ i = x \div QuadBits /\ b = x % QuadBits
                                  /\ b < QuadBits /\ x = QuadBits * i + b
  BY <1>1, QuadAndBit DEF Bits
<1>3. PICK j \in Nat, c \in Nat : /\ j = y \div QuadBits /\ c = y % QuadBits
                                  /\ c < QuadBits /\ y = QuadBits * j + c
  BY <1>1, QuadAndBit DEF Bits
<1>4. CASE i < j
  BY <1>1, <1>2, <1>3, <1>4, Multiples
<1>5. CASE j < i
  BY <1>1, <1>2, <1>3, <1>5, Multiples
<1>6. CASE i = j
  BY <1>1, <1>2, <1>3, <1>6
<1>7. QED BY <1>2, <1>3, <1>4, <1>5, <1>6

\* The code points are the bits of the quads.
LEMMA CodePointsOfQuads ==
  ASSUME NEW i \in Nat, NEW b \in Bits
  PROVE  /\ QuadBits * i + b \in Nat
         /\ QuadBits * i + b \in CodePoints <=> i < QuadCount
<1>1. QuadBits \in Nat /\ QuadBits > 1 /\ QuadCount \in Nat /\ b \in Nat /\ b < QuadBits
  BY SizeAssumption DEF Bits
<1>2. i < QuadCount => QuadBits * i + QuadBits <= QuadBits * QuadCount
  BY <1>1, Multiples
<1>3. QuadCount < i => QuadBits * QuadCount + QuadBits <= QuadBits * i
  BY <1>1, Multiples
<1>4. QuadBits * i \in Nat /\ QuadBits * QuadCount \in Nat
  BY <1>1
<1>m. PICK m \in Nat : m = QuadBits * i
  BY <1>4
<1>n. PICK n \in Nat : n = QuadBits * QuadCount
  BY <1>4
<1>5. m + b \in 0 .. n - 1 <=> i < QuadCount
  BY <1>1, <1>2, <1>3, <1>m, <1>n
<1>6. QED BY <1>1, <1>m, <1>n, <1>5 DEF CodePoints, Limit

\* The quad and the bit of a code point.
LEMMA QuadOfCodePoint ==
  ASSUME NEW cp \in CodePoints
  PROVE  cp \in Nat /\ cp \div QuadBits \in 0 .. QuadCount - 1 /\ cp % QuadBits \in Bits
<1>1. cp \in Nat
  BY DEF CodePoints
<1>2. /\ cp \div QuadBits \in Nat /\ cp % QuadBits \in Bits
      /\ cp = QuadBits * (cp \div QuadBits) + (cp % QuadBits)
  BY <1>1, QuadAndBit
<1>3. cp \div QuadBits < QuadCount
  BY <1>2, CodePointsOfQuads
<1>4. QED BY <1>1, <1>2, <1>3, SizeAssumption

-----------------------------------------------------------------------------
(* Objects that hold a part of a set.                                      *)

\* The quads from a up to b, without b.
Cut(Q, a, b) == [i \in 0 .. b - a - 1 |-> Q[a + i]]
Shown(s, Q, a, b) ==
  /\ a \in Nat /\ b \in Nat /\ a <= b
  /\ Holds(s, Cut(Q, a, b), b - a)

\* Quads by their number: either as a part or as a whole.
LEMMA ShownQuads ==
  ASSUME NEW s, NEW Q, NEW a, NEW b, Shown(s, Q, a, b)
  PROVE  /\ a \in Nat /\ b \in Nat /\ a <= b
         /\ \A i \in a .. b - 1 : Q[i] \in SUBSET Bits
         /\ s \in Objects /\ s.runs \in Seq(Runs) /\ s.quads \in Seq(MixedQuads)
<1>1. /\ a \in Nat /\ b \in Nat /\ a <= b /\ Cut(Q, a, b) \in [0 .. b - a - 1 -> SUBSET Bits]
      /\ s \in Objects
  BY DEF Shown, Holds
<1>2. ASSUME NEW i \in a .. b - 1 PROVE Q[i] \in SUBSET Bits
  <2>1. i - a \in 0 .. b - a - 1 /\ a + (i - a) = i
    BY <1>1
  <2>2. Cut(Q, a, b)[i - a] = Q[i]
    BY <2>1 DEF Cut
  <2>3. QED BY <1>1, <2>1, <2>2
<1>3. QED BY <1>1, <1>2 DEF Objects

\* From the first quad on, the two forms say the same.
LEMMA ShownAll ==
  ASSUME NEW s, NEW Q, NEW n \in Nat, Q \in [0 .. n - 1 -> SUBSET Bits]
  PROVE  Shown(s, Q, 0, n) <=> Holds(s, Q, n)
<1>1. Cut(Q, 0, n) = Q
  BY DEF Cut
<1>2. n - 0 = n
  OBVIOUS
<1>3. QED BY <1>1, <1>2 DEF Shown

\* What an object shows of one set it shows of every set with the same quads.
LEMMA ShownSame ==
  ASSUME NEW s, NEW Q, NEW R, NEW a, NEW b, Shown(s, Q, a, b),
         \A i \in a .. b - 1 : Q[i] = R[i]
  PROVE  Shown(s, R, a, b)
<1>1. a \in Nat /\ b \in Nat
  BY DEF Shown
<1>2. \A i \in 0 .. b - a - 1 : a + i \in a .. b - 1
  BY <1>1
<1>3. Cut(Q, a, b) = Cut(R, a, b)
  BY <1>2 DEF Cut
<1>4. QED BY <1>3 DEF Shown

\* Two objects that show neighbouring parts.
LEMMA ShownConcat ==
  ASSUME NEW s, NEW t, NEW Q, NEW a, NEW b, NEW c, Shown(s, Q, a, b), Shown(t, Q, b, c)
  PROVE  Shown(Concat(s, t), Q, a, c)
<1>0. a \in Nat /\ b \in Nat /\ c \in Nat /\ a <= b /\ b <= c
  BY DEF Shown
<1> DEFINE q1 == Cut(Q, a, b)
           q2 == Cut(Q, b, c)
           q == Cut(Q, a, c)
<1>1. Holds(s, q1, b - a) /\ Holds(t, q2, c - b)
  BY DEF Shown
<1>2. (b - a) + (c - b) = c - a
  BY <1>0
<1>3. \A i \in a .. c - 1 : Q[i] \in SUBSET Bits
  <2>1. (\A i \in a .. b - 1 : Q[i] \in SUBSET Bits)
        /\ \A i \in b .. c - 1 : Q[i] \in SUBSET Bits
    BY ShownQuads
  <2>2. \A i \in a .. c - 1 : i \in a .. b - 1 \/ i \in b .. c - 1
    BY <1>0
  <2>3. QED BY <2>1, <2>2
<1>4. q \in [0 .. (b - a) + (c - b) - 1 -> SUBSET Bits]
  <2>1. \A i \in 0 .. c - a - 1 : a + i \in a .. c - 1
    BY <1>0
  <2>2. \A i \in 0 .. c - a - 1 : Q[a + i] \in SUBSET Bits
    BY <1>3, <2>1
  <2>3. q \in [0 .. c - a - 1 -> SUBSET Bits]
    BY <2>2 DEF Cut
  <2>4. (b - a) + (c - b) - 1 = c - a - 1
    BY <1>0
  <2> HIDE DEF q
  <2>5. QED BY <2>3, <2>4
<1>5. \A i \in 0 .. (b - a) - 1 : q[i] = q1[i]
  BY <1>0 DEF Cut
<1>6. \A i \in 0 .. (c - b) - 1 : q[(b - a) + i] = q2[i]
  <2>1. \A i \in 0 .. (c - b) - 1 : (b - a) + i \in 0 .. c - a - 1 /\ a + ((b - a) + i) = b + i
    BY <1>0
  <2>2. QED BY <2>1 DEF Cut
<1>7. Joins(q, q1, b - a, q2, c - b)
  BY <1>4, <1>5, <1>6 DEF Joins
<1> HIDE DEF q, q1, q2
<1>8. Holds(Concat(s, t), q, (b - a) + (c - b))
  BY <1>1, <1>7, ConcatHolds
<1>9. QED BY <1>0, <1>2, <1>8 DEF Shown, q

\* A run without quads of its own shows quads of its type.
LEMMA ShownUniform ==
  ASSUME NEW Q, NEW a \in Nat, NEW n \in Nat, NEW type \in {"Empty", "Full"},
         \A i \in a .. a + n - 1 : Q[i] = IF type = "Full" THEN Bits ELSE {}
  PROVE  Shown(Uniform(type, n), Q, a, a + n)
<1>1. \A i \in 0 .. n - 1 : a + i \in a .. a + n - 1
  OBVIOUS
<1>2. a + n - a = n
  OBVIOUS
<1> DEFINE q == Cut(Q, a, a + n)
<1>3. \A i \in 0 .. n - 1 : q[i] = Content(type, <<>>, i + 1)
  BY <1>1, <1>2 DEF Cut, Content
<1>4. q \in [0 .. n - 1 -> SUBSET Bits]
  BY <1>1, <1>2 DEF Cut
<1> DEFINE none == <<>>
<1>5. /\ type \in RunTypes /\ none \in Seq(MixedQuads)
      /\ Len(none) = IF type = "Mixed" THEN n ELSE 0
  BY DEF RunTypes
<1>b. \A i \in 0 .. n - 1 : q[i] = Content(type, none, i + 1)
  BY <1>3
<1> HIDE DEF q, none
<1>c. Holds(Object(Piece(type, n), none), q, n)
  BY <1>4, <1>5, <1>b, PieceHolds
<1>6. Holds(Object(Piece(type, n), <<>>), q, n)
  BY <1>c DEF none
<1>7. a <= a + n
  OBVIOUS
<1>8. QED BY <1>2, <1>6, <1>7 DEF Shown, Uniform, q

\* A single Mixed quad.
LEMMA ShownPartial ==
  ASSUME NEW Q, NEW a \in Nat, NEW quad \in MixedQuads, Q[a] = quad
  PROVE  Shown(Partial(quad), Q, a, a + 1)
<1> DEFINE q == Cut(Q, a, a + 1)
           quads == <<quad>>
<1>1. q \in [0 .. 1 - 1 -> SUBSET Bits] /\ q[0] = quad
  BY DEF Cut, MixedQuads
<1>2. quads \in Seq(MixedQuads) /\ Len(quads) = 1 /\ quads[1] = quad
  OBVIOUS
<1> HIDE DEF q, quads
<1>3. \A i \in 0 .. 1 - 1 : q[i] = Content("Mixed", quads, i + 1)
  BY <1>1, <1>2 DEF Content
<1>4. Holds(Object(Piece("Mixed", 1), quads), q, 1)
  BY <1>1, <1>2, <1>3, PieceHolds DEF RunTypes
<1>5. a + 1 - a = 1 /\ a <= a + 1
  OBVIOUS
<1>6. Partial(quad) = Object(Piece("Mixed", 1), quads)
  BY DEF Partial, Piece, quads
<1>7. QED BY <1>4, <1>5, <1>6 DEF Shown, q

\* The parts around a quad.
LEMMA ShownBefore ==
  ASSUME NEW s, NEW Q, NEW n \in Nat, Shown(s, Q, 0, n), NEW i \in 0 .. n - 1
  PROVE  Shown(Before(s, i), Q, 0, i)
<1> DEFINE q == Cut(Q, 0, n)
           p == Cut(Q, 0, i)
<1>1. Holds(s, q, n)
  <2>1. n - 0 = n
    OBVIOUS
  <2>2. QED BY <2>1 DEF Shown
<1>2. \A k \in 0 .. n - 1 : Q[k] \in SUBSET Bits
  BY ShownQuads
<1>3. p \in [0 .. i - 1 -> SUBSET Bits] /\ \A k \in 0 .. i - 1 : p[k] = q[k]
  BY <1>2 DEF Cut
<1> HIDE DEF p, q
<1>4. Holds(Before(s, i), p, i)
  BY <1>1, <1>3, BeforeHolds
<1>5. i - 0 = i /\ i \in Nat /\ 0 <= i
  OBVIOUS
<1>6. QED BY <1>4, <1>5 DEF Shown, p

\* The parts around a quad, by the numbers of the whole.
LEMMA ShownBehind ==
  ASSUME NEW s, NEW Q, NEW n \in Nat, Shown(s, Q, 0, n), NEW i \in 0 .. n - 1
  PROVE  Shown(Behind(s, i), Q, i + 1, n)
<1> DEFINE q == Cut(Q, 0, n)
           p == Cut(Q, i + 1, n)
<1>1. Holds(s, q, n)
  <2>1. n - 0 = n
    OBVIOUS
  <2>2. QED BY <2>1 DEF Shown
<1>2. \A k \in 0 .. n - 1 : Q[k] \in SUBSET Bits
  BY ShownQuads
<1>a. n - i - 2 = n - (i + 1) - 1 /\ n - i - 1 = n - (i + 1)
  OBVIOUS
<1>b. \A k \in 0 .. n - i - 2 : i + 1 + k \in 0 .. n - 1
  OBVIOUS
<1>3. p \in [0 .. n - i - 2 -> SUBSET Bits] /\ \A k \in 0 .. n - i - 2 : p[k] = q[i + 1 + k]
  BY <1>2, <1>a, <1>b DEF Cut
<1> HIDE DEF p, q
<1>4. Holds(Behind(s, i), p, n - i - 1)
  BY <1>1, <1>3, BehindHolds
<1>5. i + 1 \in Nat /\ i + 1 <= n
  OBVIOUS
<1>6. QED BY <1>4, <1>5, <1>a DEF Shown, p

\* The quad found is the one of that number.
LEMMA ShownQuadAt ==
  ASSUME NEW s, NEW Q, NEW n \in Nat, Shown(s, Q, 0, n), NEW i \in 0 .. n - 1
  PROVE  QuadAt(s, i) = Q[i]
<1> DEFINE q == Cut(Q, 0, n)
<1>1. Holds(s, q, n)
  <2>1. n - 0 = n
    OBVIOUS
  <2>2. QED BY <2>1 DEF Shown
<1>2. q[i] = Q[i]
  BY DEF Cut
<1> HIDE DEF q
<1>3. QED BY <1>1, <1>2, QuadAtIs

-----------------------------------------------------------------------------
(* Appending to what is shown.                                             *)

\* append_run with the quads of a Mixed run.
LEMMA ShownMore ==
  ASSUME NEW s, NEW Q, NEW a, NEW b, Shown(s, Q, a, b),
         NEW type \in RunTypes, NEW n \in Nat, NEW more \in Seq(MixedQuads),
         Len(more) = IF type = "Mixed" THEN n ELSE 0,
         \A j \in 0 .. n - 1 : Q[b + j] = Content(type, more, j + 1)
  PROVE  Shown(AppendRun(Object(s.runs, s.quads \o more), type, n), Q, a, b + n)
<1> DEFINE q1 == Cut(Q, a, b)
           p == Cut(Q, a, b + n)
<1>1. a \in Nat /\ b \in Nat /\ a <= b /\ Holds(s, q1, b - a)
  BY DEF Shown
<1>2. \A j \in 0 .. n - 1 : Q[b + j] \in SUBSET Bits
  <2>1. ASSUME NEW j \in 0 .. n - 1 PROVE Q[b + j] \in SUBSET Bits
    <3>1. type = "Mixed" => more[j + 1] \in MixedQuads
      BY PlacesOf
    <3>2. Content(type, more, j + 1) \in SUBSET Bits
      BY <3>1 DEF Content, MixedQuads
    <3>3. QED BY <3>2
  <2>2. QED BY <2>1
<1>3. \A i \in a .. b - 1 : Q[i] \in SUBSET Bits
  BY ShownQuads
<1>4. \A i \in a .. b + n - 1 : Q[i] \in SUBSET Bits
  <2>1. ASSUME NEW i \in a .. b + n - 1 PROVE Q[i] \in SUBSET Bits
    <3>1. CASE i < b
      BY <1>1, <1>3, <3>1
    <3>2. CASE ~ (i < b)
      <4>1. i - b \in 0 .. n - 1 /\ b + (i - b) = i
        BY <1>1, <3>2
      <4>2. QED BY <1>2, <4>1
    <3>3. QED BY <3>1, <3>2
  <2>2. QED BY <2>1
<1>5. b + n - a = (b - a) + n /\ b - a \in Nat
  BY <1>1
<1>6. p \in [0 .. (b - a) + n - 1 -> SUBSET Bits]
  <2>1. \A i \in 0 .. (b + n) - a - 1 : a + i \in a .. b + n - 1
    BY <1>1
  <2>2. \A i \in 0 .. (b + n) - a - 1 : Q[a + i] \in SUBSET Bits
    BY <1>4, <2>1
  <2>3. p \in [0 .. (b + n) - a - 1 -> SUBSET Bits]
    <3>1. p = [i \in 0 .. (b + n) - a - 1 |-> Q[a + i]]
      BY DEF Cut
    <3> DEFINE d == 0 .. (b + n) - a - 1
    <3>2. \A i \in d : Q[a + i] \in SUBSET Bits
      BY <2>2
    <3> HIDE DEF p, d
    <3>3. p = [i \in d |-> Q[a + i]]
      BY <3>1 DEF d
    <3>4. p \in [d -> SUBSET Bits]
      BY <3>2, <3>3
    <3>5. QED BY <3>4 DEF d
  <2>4. (b + n) - a - 1 = (b - a) + n - 1
    BY <1>1
  <2> HIDE DEF p
  <2>5. QED BY <2>3, <2>4
<1>7. \A i \in 0 .. (b - a) - 1 : p[i] = q1[i]
  BY <1>1 DEF Cut
<1>8. \A j \in 0 .. n - 1 : p[(b - a) + j] = Content(type, more, j + 1)
  <2>1. \A j \in 0 .. n - 1 : (b - a) + j \in 0 .. (b + n) - a - 1 /\ a + ((b - a) + j) = b + j
    BY <1>1
  <2>2. \A i \in 0 .. (b + n) - a - 1 : p[i] = Q[a + i]
    BY <1>1 DEF Cut
  <2> HIDE DEF p
  <2>3. \A j \in 0 .. n - 1 : p[(b - a) + j] = Q[b + j]
    BY <2>1, <2>2
  <2>4. QED BY <2>3
<1>9. Extends(p, q1, b - a, type, n, more)
  <2> HIDE DEF p, q1
  <2>1. QED BY <1>6, <1>7, <1>8 DEF Extends
<1>10. Holds(AppendRun(Object(s.runs, s.quads \o more), type, n), p, (b - a) + n)
  <2> HIDE DEF p, q1
  <2>1. QED BY <1>1, <1>9, AppendRunHolds
<1>11. b + n \in Nat /\ a <= b + n
  BY <1>1
<1> HIDE DEF p
<1>12. QED BY <1>1, <1>5, <1>10, <1>11 DEF Shown, p

\* append_run of Empty or Full quads.
LEMMA ShownRun ==
  ASSUME NEW s, NEW Q, NEW a, NEW b, Shown(s, Q, a, b),
         NEW type \in {"Empty", "Full"}, NEW n \in Nat,
         \A i \in b .. b + n - 1 : Q[i] = IF type = "Full" THEN Bits ELSE {}
  PROVE  Shown(AppendRun(s, type, n), Q, a, b + n)
<1> DEFINE none == <<>>
<1>1. s \in Objects /\ s.quads \in Seq(MixedQuads) /\ b \in Nat
  BY ShownQuads
<1>2. /\ type \in RunTypes /\ none \in Seq(MixedQuads)
      /\ Len(none) = IF type = "Mixed" THEN n ELSE 0
  BY DEF RunTypes
<1>3. \A j \in 0 .. n - 1 : b + j \in b .. b + n - 1
  BY <1>1
<1>4. \A j \in 0 .. n - 1 : Q[b + j] = Content(type, none, j + 1)
  BY <1>3 DEF Content
<1>5. s = Object(s.runs, s.quads) /\ s.quads \o none = s.quads
  BY <1>1, ConcatEmptySeq DEF Objects, Object
<1> HIDE DEF none
<1>6. Shown(AppendRun(Object(s.runs, s.quads \o none), type, n), Q, a, b + n)
  BY <1>2, <1>4, ShownMore
<1>7. QED BY <1>5, <1>6

\* append_quad, which chooses the type by the quad.
LEMMA ShownQuad ==
  ASSUME NEW s, NEW Q, NEW a, NEW b, Shown(s, Q, a, b), NEW quad \in SUBSET Bits, Q[b] = quad
  PROVE  Shown(AppendQuad(s, quad), Q, a, b + 1)
<1>0. s \in Objects /\ s.quads \in Seq(MixedQuads) /\ b \in Nat
  BY ShownQuads
<1>b. \A i \in b .. b + 1 - 1 : i = b
  BY <1>0
<1>1. CASE quad = {}
  <2>1. TypeOf(quad) = "Empty"
    BY <1>1 DEF TypeOf
  <2>2. \A i \in b .. b + 1 - 1 : Q[i] = IF "Empty" = "Full" THEN Bits ELSE {}
    BY <1>b, <1>1
  <2>3. Shown(AppendRun(s, "Empty", 1), Q, a, b + 1)
    BY <2>2, ShownRun
  <2>4. QED BY <2>1, <2>3 DEF AppendQuad
<1>2. CASE quad = Bits
  <2>1. TypeOf(quad) = "Full"
    <3>1. 0 \in Bits
      BY SizeAssumption DEF Bits
    <3>2. QED BY <1>2, <3>1 DEF TypeOf
  <2>2. \A i \in b .. b + 1 - 1 : Q[i] = IF "Full" = "Full" THEN Bits ELSE {}
    BY <1>b, <1>2
  <2>3. Shown(AppendRun(s, "Full", 1), Q, a, b + 1)
    BY <2>2, ShownRun
  <2>4. QED BY <2>1, <2>3 DEF AppendQuad
<1>3. CASE quad # {} /\ quad # Bits
  <2> DEFINE more == <<quad>>
  <2>1. TypeOf(quad) = "Mixed" /\ quad \in MixedQuads
    <3>1. quad \in MixedQuads
      BY <1>3 DEF MixedQuads
    <3>2. TypeOf(quad) = "Mixed"
      BY <1>3 DEF TypeOf
    <3>3. QED BY <3>1, <3>2
  <2>2. more \in Seq(MixedQuads) /\ Len(more) = 1 /\ more[1] = quad
    BY <2>1
  <2>3. [s EXCEPT !.quads = Append(@, quad)] = Object(s.runs, s.quads \o more)
    <3>1. Append(s.quads, quad) = s.quads \o more
      BY <1>0, <2>1, AppendIsConcat
    <3>2. PICK x, y : x = s.runs /\ y = s.quads /\ s = Object(x, y)
      BY <1>0 DEF Objects, Object
    <3>3. [Object(x, y) EXCEPT !.quads = Append(@, quad)] = Object(x, Append(y, quad))
      BY DEF Object
    <3>4. QED BY <3>1, <3>2, <3>3, Zenon
  <2> HIDE DEF more
  <2>4. \A j \in 0 .. 1 - 1 : Q[b + j] = Content("Mixed", more, j + 1)
    BY <1>0, <2>2 DEF Content
  <2>5. Shown(AppendRun(Object(s.runs, s.quads \o more), "Mixed", 1), Q, a, b + 1)
    BY <2>2, <2>4, ShownMore DEF RunTypes
  <2>6. QED BY <2>1, <2>3, <2>5 DEF AppendQuad
<1>4. QED BY <1>1, <1>2, <1>3

LengthIs(list, m) == m = Len(list)

\* Appending a list of quads one by one.
LEMMA QuadsAppended ==
  ASSUME NEW s, NEW quads, NEW m \in Nat
  PROVE  LengthIs(quads, m) =>
           \E f : /\ f[0] = s /\ f[m] = AppendQuads(s, quads)
                 /\ \A n \in 1 .. m : f[n] = AppendQuad(f[n - 1], quads[n])
<1> DEFINE Body(g, n) == IF n = 0 THEN s ELSE AppendQuad(g[n - 1], quads[n])
           good == {k \in 0 .. m : \E g : g = [n \in 0 .. k |-> Body(g, n)]}
<1>1. 0 \in good
  <2> DEFINE g == [n \in 0 .. 0 |-> s]
  <2>1. g = [n \in 0 .. 0 |-> Body(g, n)]
    OBVIOUS
  <2> HIDE DEF g, Body
  <2>2. QED BY <2>1
<1>2. ASSUME NEW k \in 0 .. m - 1, k \in good PROVE k + 1 \in good
  <2>1. PICK g : g = [n \in 0 .. k |-> Body(g, n)]
    BY <1>2
  <2> DEFINE h == [n \in 0 .. k + 1 |-> IF n = k + 1 THEN Body(g, n) ELSE g[n]]
  <2>2. ASSUME NEW n \in 0 .. k + 1 PROVE h[n] = Body(h, n)
    <3>1. CASE n = k + 1
      <4>1. n # 0 /\ n - 1 = k /\ k \in 0 .. k + 1 /\ k # k + 1
        BY <3>1
      <4>2. h[k] = g[k] /\ h[n] = AppendQuad(g[k], quads[n])
        BY <3>1, <4>1
      <4>3. QED BY <4>1, <4>2
    <3>2. CASE n # k + 1
      <4>1. n \in 0 .. k /\ h[n] = g[n]
        BY <3>2
      <4>2. n # 0 => n - 1 \in 0 .. k /\ n - 1 \in 0 .. k + 1 /\ n - 1 # k + 1
        BY <3>2
      <4>3. n # 0 => h[n - 1] = g[n - 1]
        BY <4>2
      <4>4. g[n] = Body(g, n)
        BY <2>1, <4>1
      <4>5. QED BY <4>1, <4>3, <4>4
    <3>3. QED BY <3>1, <3>2
  <2>3. h = [n \in 0 .. k + 1 |-> h[n]]
    OBVIOUS
  <2> HIDE DEF h
  <2>4. h = [n \in 0 .. k + 1 |-> Body(h, n)]
    <3> HIDE DEF Body
    <3>1. QED BY <2>2, <2>3
  <2>5. k + 1 \in 0 .. m
    OBVIOUS
  <2>6. QED BY <2>4, <2>5
<1>3. m \in good
  <2>1. \A k \in 0 .. m - 1 : k \in good => k + 1 \in good
    BY <1>2
  <2> HIDE DEF good
  <2>2. \A k \in 0 .. m : k \in good
    BY <1>1, <2>1, UpToNumber
  <2>3. QED BY <2>2
<1> DEFINE f == CHOOSE g : g = [n \in 0 .. m |-> Body(g, n)]
<1>4. f = [n \in 0 .. m |-> Body(f, n)]
  BY <1>3
<1>5. LengthIs(quads, m) => AppendQuads(s, quads) = f[m]
  BY DEF AppendQuads, LengthIs
<1> HIDE DEF f
<1>6. \A n \in 0 .. m : f[n] = Body(f, n)
  <2> HIDE DEF Body
  <2>1. QED BY <1>4
<1>7. f[0] = s
  BY <1>6
<1>8. \A n \in 1 .. m : f[n] = AppendQuad(f[n - 1], quads[n])
  BY <1>6
<1>9. QED BY <1>5, <1>7, <1>8

\* A list of quads appended one by one.
LEMMA ShownAppended ==
  ASSUME NEW s, NEW Q, NEW a, NEW b, Shown(s, Q, a, b), NEW quads, NEW m \in Nat,
         Len(quads) = m,
         \A j \in 1 .. m : quads[j] \in SUBSET Bits /\ quads[j] = Q[b + j - 1]
  PROVE  Shown(AppendQuads(s, quads), Q, a, b + m)
<1>0. LengthIs(quads, m)
  BY DEF LengthIs
<1>1. PICK f : /\ f[0] = s /\ f[m] = AppendQuads(s, quads)
               /\ \A n \in 1 .. m : f[n] = AppendQuad(f[n - 1], quads[n])
  BY <1>0, QuadsAppended
<1>2. b \in Nat
  BY DEF Shown
<1> DEFINE good == {k \in 0 .. m : Shown(f[k], Q, a, b + k)}
<1>3. 0 \in good
  BY <1>1, <1>2
<1>4. ASSUME NEW k \in 0 .. m - 1, k \in good PROVE k + 1 \in good
  <2>1. k + 1 \in 1 .. m /\ k + 1 - 1 = k /\ b + (k + 1) - 1 = b + k /\ k + 1 \in 0 .. m
        /\ b + k + 1 = b + (k + 1)
    BY <1>2
  <2>2. f[k + 1] = AppendQuad(f[k], quads[k + 1])
    BY <1>1, <2>1
  <2>3. quads[k + 1] \in SUBSET Bits /\ Q[b + k] = quads[k + 1]
    BY <2>1
  <2>4. Shown(f[k], Q, a, b + k)
    BY <1>4
  <2>5. Shown(f[k + 1], Q, a, b + k + 1)
    BY <2>2, <2>3, <2>4, ShownQuad
  <2>6. QED BY <2>1, <2>5
<1>5. \A k \in 0 .. m : k \in good
  <2>1. \A k \in 0 .. m - 1 : k \in good => k + 1 \in good
    BY <1>4
  <2> HIDE DEF good
  <2>2. QED BY <1>3, <2>1, UpToNumber
<1>6. QED BY <1>1, <1>5

-----------------------------------------------------------------------------
(* The quads of a set of code points.                                      *)

QuadsOf(m) == [i \in 0 .. QuadCount - 1 |-> {b \in Bits : QuadBits * i + b \in m}]

\* The object is well formed and holds the code points of m.
Represents(s, m) ==
  /\ m \subseteq CodePoints
  /\ Shown(s, QuadsOf(m), 0, QuadCount)

\* The quads of a set of code points are sets of bits.
LEMMA QuadsOfTyped ==
  ASSUME NEW m
  PROVE  /\ QuadsOf(m) \in [0 .. QuadCount - 1 -> SUBSET Bits]
         /\ \A i \in 0 .. QuadCount - 1 :
              QuadsOf(m)[i] = {b \in Bits : QuadBits * i + b \in m}
BY DEF QuadsOf

\* A code point is in the set if its bit is in its quad.
LEMMA InQuad ==
  ASSUME NEW m, NEW cp \in CodePoints
  PROVE  cp \in m <=> cp % QuadBits \in QuadsOf(m)[cp \div QuadBits]
<1>1. cp \in Nat /\ cp \div QuadBits \in 0 .. QuadCount - 1 /\ cp % QuadBits \in Bits
  BY QuadOfCodePoint
<1>2. cp = QuadBits * (cp \div QuadBits) + (cp % QuadBits)
  BY <1>1, QuadAndBit
<1>i. PICK i : i = cp \div QuadBits
  OBVIOUS
<1>b. PICK b : b = cp % QuadBits
  OBVIOUS
<1>3. b \in QuadsOf(m)[i] <=> QuadBits * i + b \in m
  BY <1>1, <1>i, <1>b, QuadsOfTyped
<1>4. QED BY <1>2, <1>3, <1>i, <1>b

\* The quads of no code point.
LEMMA EmptyQuads ==
  ASSUME NEW i \in 0 .. QuadCount - 1
  PROVE  QuadsOf({})[i] = {}
BY QuadsOfTyped

\* The quads of one code point.
LEMMA SingleQuads ==
  ASSUME NEW cp \in CodePoints, NEW i \in 0 .. QuadCount - 1
  PROVE  QuadsOf({cp})[i] = IF i = cp \div QuadBits THEN {cp % QuadBits} ELSE {}
<1>1. cp \in Nat /\ cp % QuadBits \in Bits
      /\ cp = QuadBits * (cp \div QuadBits) + (cp % QuadBits)
  BY QuadOfCodePoint, QuadAndBit
<1>2. ASSUME NEW b \in Bits
      PROVE  QuadBits * i + b = cp <=> i = cp \div QuadBits /\ b = cp % QuadBits
  <2>1. i \in Nat
    OBVIOUS
  <2>2. (QuadBits * i + b) \div QuadBits = i /\ (QuadBits * i + b) % QuadBits = b
    BY <2>1, QuadAndBitUnique
  <2>3. QED BY <1>1, <2>2
<1>3. QuadsOf({cp})[i] = {b \in Bits : QuadBits * i + b \in {cp}}
  BY QuadsOfTyped
<1>4. QED BY <1>1, <1>2, <1>3

\* A bit of a quad is in a range as its order with the ends says.
LEMMA BitInRange ==
  ASSUME NEW lo \in CodePoints, NEW hi \in CodePoints, NEW i \in 0 .. QuadCount - 1,
         NEW b \in Bits
  PROVE  b \in QuadsOf(lo .. hi)[i] <=>
           /\ lo \div QuadBits < i \/ (lo \div QuadBits = i /\ b \in LoQuad(lo))
           /\ i < hi \div QuadBits \/ (i = hi \div QuadBits /\ b \in HiQuad(hi))
<1>1. lo \in Nat /\ hi \in Nat /\ i \in Nat
  BY DEF CodePoints
<1>2. /\ QuadBits * i + b \in Nat
      /\ (QuadBits * i + b) \div QuadBits = i /\ (QuadBits * i + b) % QuadBits = b
  BY <1>1, CodePointsOfQuads, QuadAndBitUnique
<1>c. PICK cp \in Nat : cp = QuadBits * i + b
  BY <1>2
<1>3. lo <= cp <=> \/ lo \div QuadBits < i
                   \/ lo \div QuadBits = i /\ lo % QuadBits <= b
  BY <1>1, <1>2, <1>c, OrderOfCodePoints
<1>4. cp <= hi <=> \/ i < hi \div QuadBits
                   \/ i = hi \div QuadBits /\ b <= hi % QuadBits
  BY <1>1, <1>2, <1>c, OrderOfCodePoints
<1>5. lo % QuadBits \in Bits /\ hi % QuadBits \in Bits
  BY QuadOfCodePoint
<1>6. b \in LoQuad(lo) <=> lo % QuadBits <= b
  BY <1>5, SizeAssumption DEF Bits, LoQuad
<1>7. b \in HiQuad(hi) <=> b <= hi % QuadBits
  BY <1>5, SizeAssumption DEF Bits, HiQuad
<1>8. b \in QuadsOf(lo .. hi)[i] <=> cp \in lo .. hi
  <2>1. QuadsOf(lo .. hi)[i] = {d \in Bits : QuadBits * i + d \in lo .. hi}
    BY QuadsOfTyped
  <2>2. b \in QuadsOf(lo .. hi)[i] <=> QuadBits * i + b \in lo .. hi
    BY <2>1
  <2>3. QED BY <1>c, <2>2
<1>9. cp \in lo .. hi <=> lo <= cp /\ cp <= hi
  BY <1>1
<1>10. QED BY <1>3, <1>4, <1>6, <1>7, <1>8, <1>9

\* The ends of a range lie in quads, and their masks are not empty.
LEMMA EndsInQuads ==
  ASSUME NEW lo \in CodePoints, NEW hi \in CodePoints, lo <= hi
  PROVE  /\ lo \div QuadBits \in 0 .. QuadCount - 1 /\ hi \div QuadBits \in 0 .. QuadCount - 1
         /\ lo \div QuadBits <= hi \div QuadBits
         /\ LoQuad(lo) \subseteq Bits /\ LoQuad(lo) # {}
         /\ HiQuad(hi) \subseteq Bits /\ HiQuad(hi) # {}
         /\ lo \div QuadBits = hi \div QuadBits => LoQuad(lo) \cap HiQuad(hi) # {}
<1>1. lo \in Nat /\ hi \in Nat /\ QuadBits \in Nat
  BY SizeAssumption DEF CodePoints
<1>2. /\ lo \div QuadBits \in 0 .. QuadCount - 1 /\ hi \div QuadBits \in 0 .. QuadCount - 1
      /\ lo % QuadBits \in Bits /\ hi % QuadBits \in Bits
  BY QuadOfCodePoint
<1>3. /\ lo \div QuadBits <= hi \div QuadBits
      /\ lo \div QuadBits = hi \div QuadBits => lo % QuadBits <= hi % QuadBits
  <2>1. \/ lo \div QuadBits < hi \div QuadBits
        \/ lo \div QuadBits = hi \div QuadBits /\ lo % QuadBits <= hi % QuadBits
    BY <1>1, OrderOfCodePoints
  <2>2. QED BY <1>2, <2>1
<1>4. /\ LoQuad(lo) \subseteq Bits /\ lo % QuadBits \in LoQuad(lo)
      /\ HiQuad(hi) \subseteq Bits /\ hi % QuadBits \in HiQuad(hi)
  BY <1>1, <1>2 DEF LoQuad, HiQuad, Bits
<1>5. lo % QuadBits <= hi % QuadBits => lo % QuadBits \in HiQuad(hi)
  BY <1>1, <1>2 DEF HiQuad, Bits
<1>6. QED BY <1>2, <1>3, <1>4, <1>5

\* The quads of a range: nothing, the quad of lo, Full ones, the quad of hi.
LEMMA RangeQuads ==
  ASSUME NEW lo \in CodePoints, NEW hi \in CodePoints, lo <= hi,
         NEW i \in 0 .. QuadCount - 1
  PROVE  /\ i < lo \div QuadBits => QuadsOf(lo .. hi)[i] = {}
         /\ hi \div QuadBits < i => QuadsOf(lo .. hi)[i] = {}
         /\ lo \div QuadBits < i /\ i < hi \div QuadBits => QuadsOf(lo .. hi)[i] = Bits
         /\ i = lo \div QuadBits /\ i < hi \div QuadBits =>
              QuadsOf(lo .. hi)[i] = LoQuad(lo)
         /\ lo \div QuadBits < i /\ i = hi \div QuadBits =>
              QuadsOf(lo .. hi)[i] = HiQuad(hi)
         /\ i = lo \div QuadBits /\ i = hi \div QuadBits =>
              QuadsOf(lo .. hi)[i] = LoQuad(lo) \cap HiQuad(hi)
<1> DEFINE quad == QuadsOf(lo .. hi)[i]
<1>1. quad \subseteq Bits
  BY QuadsOfTyped
<1>x. PICK x \in Nat : x = lo \div QuadBits
  BY QuadOfCodePoint
<1>y. PICK y \in Nat : y = hi \div QuadBits
  BY QuadOfCodePoint
<1>2. \A b \in Bits :
        b \in quad <=> /\ x < i \/ (x = i /\ b \in LoQuad(lo))
                       /\ i < y \/ (i = y /\ b \in HiQuad(hi))
  BY <1>x, <1>y, BitInRange
<1>3. LoQuad(lo) \subseteq Bits /\ HiQuad(hi) \subseteq Bits /\ i \in Nat
  BY EndsInQuads
<1> HIDE DEF quad
<1>4. i < x => quad = {}
  BY <1>1, <1>2, <1>3
<1>5. y < i => quad = {}
  BY <1>1, <1>2, <1>3
<1>6. x < i /\ i < y => quad = Bits
  BY <1>1, <1>2
<1>7. i = x /\ i < y => quad = LoQuad(lo)
  BY <1>1, <1>2, <1>3
<1>8. x < i /\ i = y => quad = HiQuad(hi)
  BY <1>1, <1>2, <1>3
<1>9. i = x /\ i = y => quad = LoQuad(lo) \cap HiQuad(hi)
  BY <1>1, <1>2, <1>3
<1>10. QED BY <1>x, <1>y, <1>4, <1>5, <1>6, <1>7, <1>8, <1>9 DEF quad

\* The quads of all other code points.
LEMMA QuadsOfComplement ==
  ASSUME NEW m, NEW i \in 0 .. QuadCount - 1
  PROVE  QuadsOf(CodePoints \ m)[i] = Bits \ QuadsOf(m)[i]
<1>1. ASSUME NEW b \in Bits PROVE QuadBits * i + b \in CodePoints
  <2>1. i \in Nat /\ i < QuadCount
    BY SizeAssumption
  <2>2. QED BY <2>1, CodePointsOfQuads
<1>2. /\ QuadsOf(m)[i] = {b \in Bits : QuadBits * i + b \in m}
      /\ QuadsOf(CodePoints \ m)[i] = {b \in Bits : QuadBits * i + b \in CodePoints \ m}
  BY QuadsOfTyped
<1>3. QED BY <1>1, <1>2

\* The quads determine the code points.
LEMMA SameQuads ==
  ASSUME NEW m1, m1 \subseteq CodePoints, NEW m2, m2 \subseteq CodePoints,
         \A i \in 0 .. QuadCount - 1 : QuadsOf(m1)[i] = QuadsOf(m2)[i]
  PROVE  m1 = m2
<1>1. \A cp \in CodePoints : cp \in m1 <=> cp \in m2
  BY InQuad, QuadOfCodePoint
<1>2. QED BY <1>1

\* What an object that represents a set says of its members.
LEMMA RepresentsExact ==
  ASSUME NEW s, NEW m, Represents(s, m)
  PROVE  {cp \in CodePoints : contains(s, cp)} = m
<1>0. m \subseteq CodePoints /\ Shown(s, QuadsOf(m), 0, QuadCount) /\ QuadCount \in Nat
  BY SizeAssumption DEF Represents
<1>1. ASSUME NEW cp \in CodePoints PROVE contains(s, cp) <=> cp \in m
  <2>1. cp \div QuadBits \in 0 .. QuadCount - 1
    BY QuadOfCodePoint
  <2>2. QuadAt(s, cp \div QuadBits) = QuadsOf(m)[cp \div QuadBits]
    BY <1>0, <2>1, ShownQuadAt
  <2>3. QED BY <2>2, InQuad DEF contains
<1>2. QED BY <1>0, <1>1

\* To represent a set is to hold its quads.
LEMMA RepresentsHolds ==
  ASSUME NEW s, NEW m, m \subseteq CodePoints
  PROVE  Represents(s, m) <=> Holds(s, QuadsOf(m), QuadCount)
BY ShownAll, QuadsOfTyped, SizeAssumption DEF Represents

-----------------------------------------------------------------------------
(* The constructors.                                                       *)

\* A quad with one of its bits is Mixed: a quad has more than one bit.
LEMMA OneBit ==
  ASSUME NEW b \in Bits
  PROVE  {b} \in MixedQuads
<1>1. 0 \in Bits /\ 1 \in Bits
  BY SizeAssumption DEF Bits
<1>2. QED BY <1>1 DEF MixedQuads

\* The constructors write what they are given.
LEMMA EmptyRepresents == Represents(EmptySet, {})
<1>1. QuadCount \in Nat /\ 0 + QuadCount = QuadCount
  BY SizeAssumption
<1>2. \A i \in 0 .. 0 + QuadCount - 1 : QuadsOf({})[i] = IF "Empty" = "Full" THEN Bits ELSE {}
  BY <1>1, EmptyQuads
<1>3. Shown(Uniform("Empty", QuadCount), QuadsOf({}), 0, 0 + QuadCount)
  BY <1>1, <1>2, ShownUniform
<1>4. QED BY <1>1, <1>3 DEF Represents, EmptySet

\* A set of one code point.
LEMMA SingletonRepresents ==
  ASSUME NEW cp \in CodePoints
  PROVE  Represents(SingletonSet(cp), {cp})
<1> DEFINE Q == QuadsOf({cp})
<1>o. PICK o \in 0 .. QuadCount - 1 : o = cp \div QuadBits
  BY QuadOfCodePoint
<1>1. /\ QuadCount \in Nat /\ o \in Nat /\ 0 + o = o /\ QuadCount - (o + 1) \in Nat
      /\ (o + 1) + (QuadCount - (o + 1)) = QuadCount
      /\ o + 1 \in Nat
  BY SizeAssumption
<1>2. \A i \in 0 .. QuadCount - 1 : Q[i] = IF i = o THEN {cp % QuadBits} ELSE {}
  BY <1>o, SingleQuads
<1>3. {cp % QuadBits} \in MixedQuads
  BY QuadOfCodePoint, OneBit
<1> HIDE DEF Q
<1>4. Shown(Uniform("Empty", o), Q, 0, o)
  <2>1. \A i \in 0 .. 0 + o - 1 : Q[i] = IF "Empty" = "Full" THEN Bits ELSE {}
    BY <1>1, <1>2
  <2>2. Shown(Uniform("Empty", o), Q, 0, 0 + o)
    BY <1>1, <2>1, ShownUniform
  <2>3. QED BY <1>1, <2>2
<1>5. Shown(Partial({cp % QuadBits}), Q, o, o + 1)
  BY <1>1, <1>2, <1>3, ShownPartial
<1>6. Shown(Uniform("Empty", QuadCount - (o + 1)), Q, o + 1, QuadCount)
  <2>1. \A i \in o + 1 .. (o + 1) + (QuadCount - (o + 1)) - 1 :
          Q[i] = IF "Empty" = "Full" THEN Bits ELSE {}
    BY <1>1, <1>2
  <2>n. PICK n \in Nat : n = QuadCount - (o + 1)
    BY <1>1
  <2>2. Shown(Uniform("Empty", n), Q, o + 1, (o + 1) + n)
    BY <1>1, <2>1, <2>n, ShownUniform
  <2>3. QED BY <1>1, <2>2, <2>n
<1>7. Shown(Concat(Concat(Uniform("Empty", o), Partial({cp % QuadBits})),
                   Uniform("Empty", QuadCount - (o + 1))), Q, 0, QuadCount)
  BY <1>4, <1>5, <1>6, ShownConcat
<1>8. QED BY <1>o, <1>7 DEF Represents, SingletonSet, Q

\* A quad at an end of a range that is not kept for the Full run between.
LEMMA RangeRepresents ==
  ASSUME NEW lo \in CodePoints, NEW hi \in CodePoints, lo <= hi
  PROVE  Represents(RangeSet(lo, hi), lo .. hi)
<1> DEFINE Q == QuadsOf(lo .. hi)
<1>x. PICK x \in Nat : x = lo \div QuadBits
  BY QuadOfCodePoint
<1>y. PICK y \in Nat : y = hi \div QuadBits
  BY QuadOfCodePoint
<1>c. PICK c \in Nat : c = QuadCount
  BY SizeAssumption
<1>1. x <= y /\ y < c /\ x < c
  BY <1>x, <1>y, <1>c, QuadOfCodePoint, EndsInQuads
<1>2. \A i \in 0 .. c - 1 :
        /\ i < x \/ y < i => Q[i] = {}
        /\ x < i /\ i < y => Q[i] = Bits
        /\ i = x /\ i < y => Q[i] = LoQuad(lo)
        /\ x < i /\ i = y => Q[i] = HiQuad(hi)
        /\ i = x /\ i = y => Q[i] = LoQuad(lo) \cap HiQuad(hi)
  BY <1>x, <1>y, <1>c, RangeQuads
<1>3. /\ LoQuad(lo) \subseteq Bits /\ LoQuad(lo) # {}
      /\ HiQuad(hi) \subseteq Bits /\ HiQuad(hi) # {}
      /\ x = y => LoQuad(lo) \cap HiQuad(hi) # {}
  BY <1>x, <1>y, EndsInQuads
<1> HIDE DEF Q
<1>4. Shown(Uniform("Empty", x), Q, 0, x)
  <2>1. \A i \in 0 .. 0 + x - 1 : Q[i] = IF "Empty" = "Full" THEN Bits ELSE {}
    BY <1>1, <1>2
  <2>2. Shown(Uniform("Empty", x), Q, 0, 0 + x)
    BY <2>1, ShownUniform
  <2>3. QED BY <2>2
<1>5. Shown(Uniform("Empty", c - (y + 1)), Q, y + 1, c)
  <2>n. PICK n \in Nat : n = c - (y + 1)
    BY <1>1
  <2>1. \A i \in y + 1 .. (y + 1) + n - 1 : Q[i] = IF "Empty" = "Full" THEN Bits ELSE {}
    BY <1>1, <1>2, <2>n
  <2>2. y + 1 \in Nat /\ (y + 1) + n = c
    BY <2>n
  <2>3. Shown(Uniform("Empty", n), Q, y + 1, (y + 1) + n)
    BY <2>1, <2>2, ShownUniform
  <2>4. QED BY <2>2, <2>3, <2>n
<1> DEFINE lm == IF LoQuad(lo) # Bits THEN 1 ELSE 0
           rm == IF HiQuad(hi) # Bits THEN 1 ELSE 0
           d == (y - x) - (lm + rm) + 1
           End(quad) == IF quad = Bits THEN Uniform("Full", 0) ELSE Partial(quad)
           inner == IF x # y
                    THEN Concat(Concat(End(LoQuad(lo)), Uniform("Full", d)), End(HiQuad(hi)))
                    ELSE IF lm + rm = 0 THEN Uniform("Full", 1)
                    ELSE Partial(LoQuad(lo) \cap HiQuad(hi))
<1>6. Shown(inner, Q, x, y + 1)
  <2>1. CASE x # y
    <3>l. PICK l \in {0, 1} : l = lm
      OBVIOUS
    <3>r. PICK r \in {0, 1} : r = rm
      OBVIOUS
    <3>1. x < y /\ d = (y - x) - (l + r) + 1 /\ d \in Nat
      BY <1>1, <2>1, <3>l, <3>r
    <3>2. Shown(End(LoQuad(lo)), Q, x, x + l)
      <4>1. CASE LoQuad(lo) = Bits
        <5>1. l = 0 /\ \A i \in x .. x + 0 - 1 : Q[i] = IF "Full" = "Full" THEN Bits ELSE {}
          BY <3>l, <4>1
        <5>2. Shown(Uniform("Full", 0), Q, x, x + 0)
          BY <5>1, ShownUniform
        <5>3. QED BY <4>1, <5>1, <5>2
      <4>2. CASE LoQuad(lo) # Bits
        <5>1. l = 1 /\ Q[x] = LoQuad(lo) /\ LoQuad(lo) \in MixedQuads
          BY <1>1, <1>2, <1>3, <3>1, <3>l, <4>2 DEF MixedQuads
        <5>2. Shown(Partial(LoQuad(lo)), Q, x, x + 1)
          BY <5>1, ShownPartial
        <5>3. QED BY <4>2, <5>1, <5>2
      <4>3. QED BY <4>1, <4>2
    <3>3. Shown(Uniform("Full", d), Q, x + l, y + 1 - r)
      <4>e. PICK e \in Nat : e = d
        BY <3>1
      <4>1. x + l \in Nat /\ (x + l) + e = y + 1 - r
        BY <3>1, <4>e
      <4>2. ASSUME NEW i \in x + l .. (x + l) + e - 1
            PROVE  Q[i] = IF "Full" = "Full" THEN Bits ELSE {}
        <5>1. i \in 0 .. c - 1 /\ x <= i /\ i <= y /\ i \in Nat
          BY <1>1, <4>1
        <5>2. CASE i = x
          <6>1. l = 0
            BY <5>2
          <6>2. LoQuad(lo) = Bits
            BY <3>l, <6>1
          <6>3. QED BY <1>2, <3>1, <5>1, <5>2, <6>2
        <5>3. CASE i = y
          <6>1. r = 0
            BY <4>1, <5>3
          <6>2. HiQuad(hi) = Bits
            BY <3>r, <6>1
          <6>3. QED BY <1>2, <3>1, <5>1, <5>3, <6>2
        <5>4. CASE x < i /\ i < y
          BY <1>2, <5>1, <5>4
        <5>5. QED BY <5>1, <5>2, <5>3, <5>4
      <4>3. Shown(Uniform("Full", e), Q, x + l, (x + l) + e)
        BY <4>1, <4>2, ShownUniform
      <4>4. QED BY <4>1, <4>3, <4>e
    <3>4. Shown(End(HiQuad(hi)), Q, y + 1 - r, y + 1)
      <4>1. CASE HiQuad(hi) = Bits
        <5>1. r = 0 /\ y + 1 - r = y + 1
          BY <3>r, <4>1
        <5>n. PICK n \in Nat : n = y + 1
          OBVIOUS
        <5>2. \A i \in n .. n + 0 - 1 : Q[i] = IF "Full" = "Full" THEN Bits ELSE {}
          OBVIOUS
        <5>3. Shown(Uniform("Full", 0), Q, n, n + 0)
          BY <5>2, ShownUniform
        <5>4. QED BY <4>1, <5>1, <5>3, <5>n
      <4>2. CASE HiQuad(hi) # Bits
        <5>1. r = 1 /\ Q[y] = HiQuad(hi) /\ HiQuad(hi) \in MixedQuads /\ y + 1 - r = y
          BY <1>1, <1>2, <1>3, <3>1, <3>r, <4>2 DEF MixedQuads
        <5>2. Shown(Partial(HiQuad(hi)), Q, y, y + 1)
          BY <5>1, ShownPartial
        <5>3. QED BY <4>2, <5>1, <5>2
      <4>3. QED BY <4>1, <4>2
    <3> HIDE DEF End, d
    <3>5. Shown(Concat(Concat(End(LoQuad(lo)), Uniform("Full", d)), End(HiQuad(hi))),
                Q, x, y + 1)
      BY <3>2, <3>3, <3>4, ShownConcat
    <3>6. QED BY <2>1, <3>5
  <2>2. CASE x = y /\ lm + rm = 0
    <3>1. LoQuad(lo) = Bits /\ HiQuad(hi) = Bits
      BY <2>2
    <3>2. Q[x] = Bits
      BY <1>1, <1>2, <2>2, <3>1
    <3>3. \A i \in x .. x + 1 - 1 : Q[i] = IF "Full" = "Full" THEN Bits ELSE {}
      BY <3>2
    <3>4. Shown(Uniform("Full", 1), Q, x, x + 1)
      BY <3>3, ShownUniform
    <3>5. QED BY <2>2, <3>4
  <2>3. CASE x = y /\ lm + rm # 0
    <3> DEFINE quad == LoQuad(lo) \cap HiQuad(hi)
    <3>1. LoQuad(lo) # Bits \/ HiQuad(hi) # Bits
      BY <2>3
    <3>2. quad \in MixedQuads
      BY <1>3, <2>3, <3>1 DEF MixedQuads
    <3>3. Q[x] = quad
      BY <1>1, <1>2, <2>3
    <3>4. Shown(Partial(quad), Q, x, x + 1)
      BY <3>2, <3>3, ShownPartial
    <3>5. QED BY <2>3, <3>4
  <2>4. QED BY <2>1, <2>2, <2>3
<1>7. RangeSet(lo, hi) = Concat(Concat(Uniform("Empty", x), inner), Uniform("Empty", c - (y + 1)))
  BY <1>x, <1>y, <1>c DEF RangeSet
<1> HIDE DEF inner
<1>8. Shown(Concat(Concat(Uniform("Empty", x), inner), Uniform("Empty", c - (y + 1))), Q, 0, c)
  BY <1>4, <1>5, <1>6, ShownConcat
<1>9. lo .. hi \subseteq CodePoints
  BY SizeAssumption DEF CodePoints, Limit
<1>10. QED BY <1>c, <1>7, <1>8, <1>9 DEF Represents, Q

-----------------------------------------------------------------------------
(* Changing one quad, and all of them.                                     *)

\* No two quads have the same place among the Mixed ones.
LEMMA MixedPlaces ==
  ASSUME NEW s, NEW q, NEW n, Holds(s, q, n),
         NEW r \in 1 .. Len(s.runs), NEW j \in 0 .. s.runs[r].length - 1,
         s.runs[r].type = "Mixed",
         NEW t \in 1 .. Len(s.runs), NEW k \in 0 .. s.runs[t].length - 1,
         s.runs[t].type = "Mixed", MixedBefore(s, r) + j = MixedBefore(s, t) + k
  PROVE  r = t /\ j = k
<1>l. PICK L \in Nat : L = Len(s.runs)
  BY DEF Holds, Objects
<1>0. s \in Objects
  BY DEF Holds
<1>1. /\ MixedBefore(s, r) \in Nat /\ MixedBefore(s, t) \in Nat
      /\ s.runs[r].length \in Nat /\ s.runs[t].length \in Nat
  BY RunFits
<1>2. /\ MixedBefore(s, r + 1) = MixedBefore(s, r) + s.runs[r].length
      /\ MixedBefore(s, t + 1) = MixedBefore(s, t) + s.runs[t].length
  BY <1>0, RunPlaces DEF MixedLength
<1>a. PICK a \in Nat : a = MixedBefore(s, r)
  BY <1>1
<1>b. PICK b \in Nat : b = MixedBefore(s, t)
  BY <1>1
<1>3. ~ (r < t)
  <2>1. SUFFICES ASSUME r < t PROVE FALSE
    OBVIOUS
  <2>2. r + 1 \in 1 .. L + 1 /\ t \in 1 .. L + 1 /\ r + 1 <= t
    BY <1>l, <2>1
  <2>3. MixedBefore(s, r + 1) <= MixedBefore(s, t)
    BY <1>0, <1>l, <2>2, RunPlacesOrdered
  <2>x. PICK x \in Nat : x = s.runs[r].length
    BY <1>1
  <2>4. a + x <= b
    BY <1>2, <1>a, <1>b, <2>3, <2>x
  <2>5. j \in 0 .. x - 1 /\ a + j = b + k /\ k \in Nat
    BY <1>1, <1>a, <1>b, <2>x
  <2>6. QED BY <2>4, <2>5
<1>4. ~ (t < r)
  <2>1. SUFFICES ASSUME t < r PROVE FALSE
    OBVIOUS
  <2>2. t + 1 \in 1 .. L + 1 /\ r \in 1 .. L + 1 /\ t + 1 <= r
    BY <1>l, <2>1
  <2>3. MixedBefore(s, t + 1) <= MixedBefore(s, r)
    BY <1>0, <1>l, <2>2, RunPlacesOrdered
  <2>x. PICK x \in Nat : x = s.runs[t].length
    BY <1>1
  <2>4. b + x <= a
    BY <1>2, <1>a, <1>b, <2>3, <2>x
  <2>5. k \in 0 .. x - 1 /\ a + j = b + k /\ j \in Nat
    BY <1>1, <1>a, <1>b, <2>x
  <2>6. QED BY <2>4, <2>5
<1>5. r = t
  BY <1>3, <1>4, <1>l
<1>6. a + j = a + k /\ j \in Nat /\ k \in Nat
  BY <1>1, <1>5, <1>a
<1>7. QED BY <1>5, <1>6

\* The run of a quad, by its place.
LEMMA RunOfQuadIs ==
  ASSUME NEW s, NEW q, NEW n, Holds(s, q, n),
         NEW r \in 1 .. Len(s.runs), NEW j \in 0 .. s.runs[r].length - 1
  PROVE  /\ LengthBefore(s, r) + j \in 0 .. n - 1
         /\ RunOf(s, LengthBefore(s, r) + j) = r
<1>l. PICK L \in Nat : L = Len(s.runs)
  BY DEF Holds, Objects
<1>0. s \in Objects /\ n \in Nat
  BY DEF Holds
<1>1. LengthBefore(s, r) \in Nat /\ s.runs[r].length \in Nat
      /\ LengthBefore(s, r) + s.runs[r].length <= n
  BY RunFits
<1>2. LengthBefore(s, r + 1) = LengthBefore(s, r) + s.runs[r].length
  BY <1>0, RunPlaces
<1>a. PICK a \in Nat : a = LengthBefore(s, r)
  BY <1>1
<1>x. PICK x \in Nat : x = s.runs[r].length
  BY <1>1
<1>3. a + j \in 0 .. n - 1 /\ a <= a + j /\ a + j < a + x
  <2>1. a + x <= n /\ n \in Nat
    BY <1>0, <1>1, <1>a, <1>x
  <2>2. j \in Nat /\ j < x
    BY <1>x
  <2>3. QED BY <2>1, <2>2
<1>t. PICK t \in 1 .. L : t = RunOf(s, a + j)
  BY <1>l, <1>3, RunOfQuad
<1>4. /\ LengthBefore(s, t) \in Nat /\ OffsetIn(s, a + j) \in Nat
      /\ OffsetIn(s, a + j) < s.runs[t].length
      /\ LengthBefore(s, t) + OffsetIn(s, a + j) = a + j
  BY <1>l, <1>3, <1>t, RunOfQuad
<1>5. LengthBefore(s, t + 1) = LengthBefore(s, t) + s.runs[t].length
  BY <1>0, <1>l, RunPlaces
<1>b. PICK b \in Nat : b = LengthBefore(s, t)
  BY <1>4
<1>y. PICK y \in Nat : y = s.runs[t].length
  BY <1>l, RunFits
<1>6. b <= a + j /\ a + j < b + y
  <2>f. PICK f \in Nat : f = OffsetIn(s, a + j)
    BY <1>4
  <2>1. f < y /\ b + f = a + j
    BY <1>4, <1>b, <1>y, <2>f
  <2>2. QED BY <2>1
<1>7. ~ (r < t)
  <2>1. SUFFICES ASSUME r < t PROVE FALSE
    OBVIOUS
  <2>2. r + 1 \in 1 .. L + 1 /\ t \in 1 .. L + 1 /\ r + 1 <= t
    BY <1>l, <2>1
  <2>3. LengthBefore(s, r + 1) <= LengthBefore(s, t)
    BY <1>0, <1>l, <2>2, RunPlacesOrdered
  <2>4. a + x <= b
    BY <1>2, <1>a, <1>x, <1>b, <2>3
  <2>5. QED BY <1>3, <1>6, <2>4
<1>8. ~ (t < r)
  <2>1. SUFFICES ASSUME t < r PROVE FALSE
    OBVIOUS
  <2>2. t + 1 \in 1 .. L + 1 /\ r \in 1 .. L + 1 /\ t + 1 <= r
    BY <1>l, <2>1
  <2>3. LengthBefore(s, t + 1) <= LengthBefore(s, r)
    BY <1>0, <1>l, <2>2, RunPlacesOrdered
  <2>4. b + y <= a
    BY <1>5, <1>a, <1>b, <1>y, <2>3
  <2>5. QED BY <1>3, <1>6, <2>4
<1>9. r = t
  BY <1>7, <1>8, <1>l
<1>10. QED BY <1>3, <1>9, <1>a, <1>t

\* The places of runs depend on the runs alone.
LEMMA PlacesOfRuns ==
  ASSUME NEW s, NEW t, s.runs = t.runs, NEW r
  PROVE  LengthBefore(s, r) = LengthBefore(t, r) /\ MixedBefore(s, r) = MixedBefore(t, r)
BY DEF LengthBefore, MixedBefore

\* A Mixed quad that stays Mixed.
LEMMA OtherQuadHolds ==
  ASSUME NEW s, NEW q, NEW n, Holds(s, q, n), NEW i \in 0 .. n - 1,
         s.runs[RunOf(s, i)].type = "Mixed", NEW quad \in MixedQuads,
         NEW p, p = [q EXCEPT ![i] = quad]
  PROVE  Holds([s EXCEPT !.quads[QuadsThrough(s, i)] = quad], p, n)
<1>0. /\ s \in Objects /\ s.runs \in Seq(Runs) /\ s.quads \in Seq(MixedQuads)
      /\ Len(s.runs) \in Nat /\ Len(s.quads) \in Nat /\ n \in Nat
      /\ q \in [0 .. n - 1 -> SUBSET Bits]
  BY DEF Holds, Objects
<1>r. PICK r \in 1 .. Len(s.runs) : r = RunOf(s, i)
  BY RunOfQuad
<1>o. PICK o \in Nat : o = OffsetIn(s, i) /\ o < s.runs[r].length
  BY <1>r, RunOfQuad
<1>a. PICK a \in Nat : a = LengthBefore(s, r)
  BY RunFits
<1>b. PICK b \in Nat : b = MixedBefore(s, r)
  BY RunFits
<1>x. PICK x \in Nat : x = s.runs[r].length
  BY RunFits
<1>1. a + o = i /\ o \in 0 .. x - 1 /\ s.runs[r].type = "Mixed"
  <2>1. LengthBefore(s, r) + OffsetIn(s, i) = i
    BY <1>r, RunOfQuad
  <2>2. o < x
    BY <1>o, <1>x
  <2>3. s.runs[r].type = "Mixed"
    BY <1>r
  <2>4. QED BY <1>o, <1>a, <2>1, <2>2, <2>3
<1>m. PICK M \in Nat : M = Len(s.quads)
  BY <1>0
<1>2. b + x <= M
  <2>1. b + MixedLength(s.runs[r]) <= M
    BY <1>b, <1>m, RunFits
  <2>2. QED BY <1>1, <1>x, <2>1 DEF MixedLength
<1> DEFINE k == b + o + 1
           new == [s.quads EXCEPT ![k] = quad]
           t == Object(s.runs, new)
<1>3. QuadsThrough(s, i) = k
  <2>1. QuadsThrough(s, i) = b + (o + 1)
    BY <1>r, <1>o, <1>b, <1>1 DEF QuadsThrough
  <2>2. QED BY <2>1
<1>4. k \in 1 .. M /\ k \in 1 .. Len(s.quads)
  BY <1>1, <1>2, <1>m
<1>5. /\ new \in Seq(MixedQuads) /\ Len(new) = M
      /\ new[k] = quad /\ \A h \in 1 .. M : h # k => new[h] = s.quads[h]
  <2> HIDE DEF k
  <2>1. QED BY <1>0, <1>4, <1>m
<1>6. [s EXCEPT !.quads[QuadsThrough(s, i)] = quad] = t
  <2> HIDE DEF k
  <2>1. PICK u, v : u = s.runs /\ v = s.quads /\ s = Object(u, v)
    BY <1>0 DEF Objects, Object
  <2>2. [Object(u, v) EXCEPT !.quads[k] = quad] = Object(u, [v EXCEPT ![k] = quad])
    BY DEF Object
  <2>3. QED BY <1>3, <2>1, <2>2, Zenon
<1>7. t.runs = s.runs /\ t.quads = new /\ t \in Objects
  BY <1>0, <1>5 DEF Object, Objects
<1> HIDE DEF t, new, k
<1>8. \A h : LengthBefore(t, h) = LengthBefore(s, h) /\ MixedBefore(t, h) = MixedBefore(s, h)
  BY <1>7, PlacesOfRuns
<1>9. p \in [0 .. n - 1 -> SUBSET Bits] /\ p[i] = quad
      /\ \A h \in 0 .. n - 1 : h # i => p[h] = q[h]
  BY <1>0 DEF MixedQuads
<1>10. ASSUME NEW h \in 1 .. Len(t.runs), NEW j \in 0 .. t.runs[h].length - 1
       PROVE  p[LengthBefore(t, h) + j] = QuadIn(t, h, j)
  <2>0. h \in 1 .. Len(s.runs) /\ j \in 0 .. s.runs[h].length - 1
    BY <1>7
  <2>1. q[LengthBefore(s, h) + j] = QuadIn(s, h, j)
    BY <2>0 DEF Holds
  <2>2. QuadIn(t, h, j) = Content(s.runs[h].type, new, MixedBefore(s, h) + j + 1)
    BY <1>7, <1>8 DEF QuadIn
  <2>3. /\ s.runs[h].length \in Nat /\ LengthBefore(s, h) \in Nat /\ MixedBefore(s, h) \in Nat
        /\ LengthBefore(s, h) + s.runs[h].length <= n
        /\ MixedBefore(s, h) + MixedLength(s.runs[h]) <= M
    BY <2>0, <1>m, RunFits
  <2>a. PICK aa \in Nat : aa = LengthBefore(s, h)
    BY <2>3
  <2>b. PICK bb \in Nat : bb = MixedBefore(s, h)
    BY <2>3
  <2>x. PICK xx \in Nat : xx = s.runs[h].length
    BY <2>3
  <2>4. j \in 0 .. xx - 1 /\ aa + xx <= n /\ (s.runs[h].type = "Mixed" => bb + xx <= M)
    BY <2>0, <2>3, <2>a, <2>b, <2>x DEF MixedLength
  <2>5. CASE h = r /\ j = o
    <3>1. aa + j = i /\ bb + j + 1 = k
      BY <1>1, <1>a, <1>b, <2>5, <2>a, <2>b DEF k
    <3>2. QuadIn(t, h, j) = quad
      BY <1>1, <1>5, <2>2, <2>5, <2>b, <3>1 DEF Content
    <3>3. QED BY <1>8, <1>9, <2>a, <3>1, <3>2
  <2>6. CASE ~ (h = r /\ j = o)
    <3>1. s.runs[h].type = "Mixed" => bb + j + 1 # k /\ bb + j + 1 \in 1 .. M
      <4>1. SUFFICES ASSUME s.runs[h].type = "Mixed", bb + j + 1 = k PROVE FALSE
        BY <2>4
      <4>2. MixedBefore(s, h) + j = MixedBefore(s, r) + o
        <5>1. j \in Nat /\ bb + j + 1 = b + o + 1
          BY <2>4, <4>1 DEF k
        <5>2. bb + j = b + o
          BY <5>1
        <5>3. QED BY <1>b, <2>b, <5>2
      <4>3. o \in 0 .. s.runs[r].length - 1
        BY <1>1, <1>x
      <4>4. h = r /\ j = o
        BY <1>1, <2>0, <4>1, <4>2, <4>3, MixedPlaces
      <4>5. QED BY <2>6, <4>4
    <3>2. QuadIn(t, h, j) = QuadIn(s, h, j)
      BY <1>5, <2>2, <2>b, <3>1 DEF QuadIn, Content
    <3>3. aa + j \in 0 .. n - 1
      BY <1>0, <2>4
    <3>4. aa + j # i
      <4>1. SUFFICES ASSUME aa + j = i PROVE FALSE
        OBVIOUS
      <4>2. RunOf(s, i) = h
        <5>1. RunOf(s, LengthBefore(s, h) + j) = h
          BY <2>0, RunOfQuadIs
        <5>2. QED BY <2>a, <4>1, <5>1
      <4>3. h = r /\ aa = a
        BY <1>r, <1>a, <2>a, <4>2
      <4>4. j = o
        BY <1>1, <2>4, <4>1, <4>3
      <4>5. QED BY <2>6, <4>3, <4>4
    <3>5. QED BY <1>8, <1>9, <2>1, <2>a, <3>2, <3>3, <3>4
  <2>7. QED BY <2>5, <2>6
<1>11. LengthBefore(t, Len(t.runs) + 1) = n /\ MixedBefore(t, Len(t.runs) + 1) = Len(t.quads)
  BY <1>5, <1>7, <1>8, <1>m DEF Holds
<1>12. Holds(t, p, n)
  BY <1>0, <1>7, <1>9, <1>10, <1>11 DEF Holds
<1>13. QED BY <1>6, <1>12

\* insert of a code point.
LEMMA InsertRepresents ==
  ASSUME NEW s, NEW m, Represents(s, m), NEW cp \in CodePoints
  PROVE  Represents(InsertCodePoint(s, cp), m \cup {cp})
<1> DEFINE Q == QuadsOf(m)
           P == QuadsOf(m \cup {cp})
<1>c. PICK c \in Nat : c = QuadCount
  BY SizeAssumption
<1>i. PICK i \in 0 .. c - 1 : i = cp \div QuadBits
  BY <1>c, QuadOfCodePoint
<1>b. PICK b \in Bits : b = cp % QuadBits
  BY QuadOfCodePoint
<1>1. m \subseteq CodePoints /\ m \cup {cp} \subseteq CodePoints /\ Shown(s, Q, 0, c)
  BY <1>c DEF Represents
<1>2. Holds(s, Q, c)
  BY <1>1, <1>c, RepresentsHolds DEF Represents
<1>3. /\ Q \in [0 .. c - 1 -> SUBSET Bits] /\ P \in [0 .. c - 1 -> SUBSET Bits]
      /\ P[i] = Q[i] \cup {b}
      /\ \A k \in 0 .. c - 1 : k # i => P[k] = Q[k]
  <2>1. ASSUME NEW k \in 0 .. c - 1
        PROVE  P[k] = Q[k] \cup (IF k = i THEN {b} ELSE {})
    <3>1. k \in 0 .. QuadCount - 1
      BY <1>c
    <3>2. P[k] = Q[k] \cup QuadsOf({cp})[k]
      <4>1. /\ P[k] = {d \in Bits : QuadBits * k + d \in m \cup {cp}}
            /\ Q[k] = {d \in Bits : QuadBits * k + d \in m}
            /\ QuadsOf({cp})[k] = {d \in Bits : QuadBits * k + d \in {cp}}
        BY <3>1, QuadsOfTyped
      <4> HIDE DEF P, Q
      <4>2. QED BY <4>1
    <3>3. QuadsOf({cp})[k] = IF k = i THEN {b} ELSE {}
      BY <3>1, <1>i, <1>b, SingleQuads
    <3>4. QED BY <3>2, <3>3
  <2>2. Q \in [0 .. c - 1 -> SUBSET Bits] /\ P \in [0 .. c - 1 -> SUBSET Bits]
    BY <1>c, QuadsOfTyped
  <2> HIDE DEF P, Q
  <2>3. QED BY <2>1, <2>2
<1> DEFINE quad == Q[i] \cup {b}
           type == s.runs[RunOf(s, i)].type
<1>4. QuadAt(s, i) = Q[i]
  BY <1>2, QuadAtIs
<1>5. /\ type \in RunTypes
      /\ type = "Full" => Q[i] = Bits
      /\ type = "Empty" => Q[i] = {}
  <2>1. RunOf(s, i) \in 1 .. Len(s.runs)
    BY <1>2, RunOfQuad
  <2>2. type \in RunTypes
    BY <1>2, <2>1, RunFits
  <2>3. QuadIn(s, RunOf(s, i), OffsetIn(s, i)) = Q[i]
    BY <1>2, RunOfQuad
  <2>4. QED BY <2>2, <2>3 DEF QuadIn, Content
<1> HIDE DEF P, Q
<1>6. InsertCodePoint(s, cp) =
        CASE type = "Full" -> s
          [] type = "Empty" -> ReplaceQuad(s, i, Partial(quad))
          [] type = "Mixed" /\ quad # Bits -> [s EXCEPT !.quads[QuadsThrough(s, i)] = quad]
          [] type = "Mixed" /\ quad = Bits -> ReplaceQuad(s, i, Uniform("Full", 1))
  BY <1>i, <1>b, <1>4 DEF InsertCodePoint
<1>7. ASSUME NEW new, Shown(new, P, i, i + 1)
      PROVE  Shown(ReplaceQuad(s, i, new), P, 0, c)
  <2>1. Shown(Before(s, i), Q, 0, i) /\ Shown(Behind(s, i), Q, i + 1, c)
    BY <1>1, <1>c, ShownBefore, ShownBehind DEF Q
  <2>2. Shown(Before(s, i), P, 0, i)
    <3>1. \A k \in 0 .. i - 1 : Q[k] = P[k]
      BY <1>3
    <3>2. QED BY <2>1, <3>1, ShownSame
  <2>3. Shown(Behind(s, i), P, i + 1, c)
    <3>1. \A k \in i + 1 .. c - 1 : Q[k] = P[k]
      BY <1>3
    <3>2. QED BY <2>1, <3>1, ShownSame
  <2>4. QED BY <1>7, <2>2, <2>3, ShownConcat DEF ReplaceQuad
<1>8. Shown(InsertCodePoint(s, cp), P, 0, c)
  <2>1. CASE type = "Full"
    <3>1. \A k \in 0 .. c - 1 : Q[k] = P[k]
      BY <1>3, <1>5, <2>1
    <3>2. Shown(s, P, 0, c)
      BY <1>1, <3>1, ShownSame DEF Q
    <3>3. QED BY <1>6, <2>1, <3>2
  <2>2. CASE type = "Empty"
    <3>1. quad = {b} /\ quad \in MixedQuads /\ P[i] = quad
      BY <1>3, <1>5, <2>2, OneBit
    <3>2. Shown(Partial(quad), P, i, i + 1)
      BY <3>1, ShownPartial
    <3>3. Shown(ReplaceQuad(s, i, Partial(quad)), P, 0, c)
      BY <1>7, <3>2
    <3>4. QED BY <1>6, <2>2, <3>3
  <2>3. CASE type = "Mixed" /\ quad # Bits
    <3>1. quad \in MixedQuads
      BY <1>3, <2>3 DEF MixedQuads
    <3>2. P = [Q EXCEPT ![i] = quad]
      BY <1>3
    <3> HIDE DEF quad
    <3>3. Holds([s EXCEPT !.quads[QuadsThrough(s, i)] = quad], P, c)
      BY <1>2, <2>3, <3>1, <3>2, OtherQuadHolds
    <3>4. Holds(InsertCodePoint(s, cp), P, c)
      BY <1>6, <2>3, <3>3
    <3>5. QED BY <1>3, <3>4, ShownAll
  <2>4. CASE type = "Mixed" /\ quad = Bits
    <3>1. \A k \in i .. i + 1 - 1 : P[k] = IF "Full" = "Full" THEN Bits ELSE {}
      <4>1. \A k \in i .. i + 1 - 1 : k = i
        OBVIOUS
      <4>2. P[i] = Bits
        BY <1>3, <2>4
      <4>3. QED BY <4>1, <4>2
    <3>2. Shown(Uniform("Full", 1), P, i, i + 1)
      <4>1. i \in Nat
        OBVIOUS
      <4>2. QED BY <3>1, <4>1, ShownUniform
    <3>3. Shown(ReplaceQuad(s, i, Uniform("Full", 1)), P, 0, c)
      BY <1>7, <3>2
    <3>4. QED BY <1>6, <2>4, <3>3
  <2>5. QED BY <1>5, <2>1, <2>2, <2>3, <2>4 DEF RunTypes
<1>9. QED BY <1>1, <1>c, <1>8 DEF Represents, P

\* The types of runs are exchanged and the Mixed quads inverted.
LEMMA ComplementHolds ==
  ASSUME NEW s, NEW q, NEW n, Holds(s, q, n),
         NEW p, p = [i \in 0 .. n - 1 |-> Bits \ q[i]]
  PROVE  Holds(Complement(s), p, n)
<1>0. /\ s \in Objects /\ s.runs \in Seq(Runs) /\ s.quads \in Seq(MixedQuads)
      /\ Len(s.runs) \in Nat /\ Len(s.quads) \in Nat /\ n \in Nat
      /\ q \in [0 .. n - 1 -> SUBSET Bits]
  BY DEF Holds, Objects
<1>l. PICK L \in Nat : L = Len(s.runs)
  BY <1>0
<1>m. PICK M \in Nat : M = Len(s.quads)
  BY <1>0
<1> DEFINE runs == [r \in 1 .. L |-> Run(Inverted(s.runs[r].type), s.runs[r].length)]
           quads == [i \in 1 .. M |-> Bits \ s.quads[i]]
           t == Object(runs, quads)
<1>1. \A r \in 1 .. L : s.runs[r] \in Runs
  BY <1>0, <1>l
<1>2. /\ DOMAIN s.runs = 1 .. L /\ DOMAIN s.quads = 1 .. M
      /\ \A i \in 1 .. M : s.quads[i] \in MixedQuads
  BY <1>0, <1>l, <1>m
<1>3. Complement(s) = t
  BY <1>2 DEF Complement
<1>4. \A r \in 1 .. L : /\ runs[r].type = Inverted(s.runs[r].type)
                        /\ runs[r].length = s.runs[r].length
                        /\ runs[r] \in Runs
                        /\ MixedLength(runs[r]) = MixedLength(s.runs[r])
  BY <1>1 DEF Runs, Run, RunTypes, MixedLength, Inverted
<1>5. runs \in Seq(Runs) /\ Len(runs) = L
  <2>1. runs \in [1 .. L -> Runs]
    BY <1>4
  <2> HIDE DEF runs
  <2>2. QED BY <2>1, SeqDef
<1>6. quads \in Seq(MixedQuads) /\ Len(quads) = M
  <2>1. \A i \in 1 .. M : Bits \ s.quads[i] \in MixedQuads
    BY <1>2 DEF MixedQuads
  <2>2. quads \in [1 .. M -> MixedQuads]
    BY <2>1
  <2> HIDE DEF quads
  <2>3. QED BY <2>2
<1>7. t \in Objects /\ t.runs = runs /\ t.quads = quads
  BY <1>5, <1>6 DEF Object, Objects
<1>8. \A h : LengthBefore(t, h) = LengthBefore(s, h) /\ MixedBefore(t, h) = MixedBefore(s, h)
  <2>1. [k \in 1 .. L |-> runs[k].length] = [k \in 1 .. L |-> s.runs[k].length]
    BY <1>4
  <2>2. [k \in 1 .. L |-> MixedLength(runs[k])] = [k \in 1 .. L |-> MixedLength(s.runs[k])]
    BY <1>4
  <2> HIDE DEF t, runs
  <2>3. QED BY <1>5, <1>7, <1>l, <2>1, <2>2 DEF LengthBefore, MixedBefore
<1>9. ASSUME NEW r \in 1 .. L, NEW j \in 0 .. runs[r].length - 1
      PROVE  p[LengthBefore(t, r) + j] = QuadIn(t, r, j)
  <2>1. j \in 0 .. s.runs[r].length - 1
    BY <1>4
  <2>2. q[LengthBefore(s, r) + j] = QuadIn(s, r, j)
        /\ LengthBefore(s, r) + j \in 0 .. n - 1
    <3>1. r \in 1 .. Len(s.runs)
      BY <1>l
    <3>2. LengthBefore(s, r) + j \in 0 .. n - 1
      BY <2>1, <3>1, RunOfQuadIs
    <3>3. q[LengthBefore(s, r) + j] = QuadIn(s, r, j)
      BY <2>1, <3>1 DEF Holds
    <3>4. QED BY <3>2, <3>3
  <2>3. p[LengthBefore(t, r) + j] = Bits \ QuadIn(s, r, j)
    <3>k. PICK k \in 0 .. n - 1 : k = LengthBefore(s, r) + j
      BY <2>2
    <3>1. p[k] = Bits \ q[k]
      OBVIOUS
    <3>2. LengthBefore(t, r) = LengthBefore(s, r)
      BY <1>8
    <3>3. QED BY <2>2, <3>k, <3>1, <3>2
  <2>4. s.runs[r].type = "Mixed" => MixedBefore(s, r) + j + 1 \in 1 .. M
    <3>1. /\ MixedBefore(s, r) \in Nat /\ s.runs[r].length \in Nat
          /\ MixedBefore(s, r) + MixedLength(s.runs[r]) <= M
      BY <1>l, <1>m, RunFits
    <3>b. PICK b \in Nat : b = MixedBefore(s, r)
      BY <3>1
    <3>x. PICK x \in Nat : x = s.runs[r].length
      BY <3>1
    <3>2. j \in 0 .. x - 1 /\ (s.runs[r].type = "Mixed" => b + x <= M)
      BY <2>1, <3>1, <3>b, <3>x DEF MixedLength
    <3>3. s.runs[r].type = "Mixed" => b + j + 1 \in 1 .. M
      BY <3>2
    <3>4. QED BY <3>3, <3>b
  <2>5. s.runs[r].type \in RunTypes
    BY <1>1 DEF Runs
  <2>6. QuadIn(t, r, j) = Content(Inverted(s.runs[r].type), quads, MixedBefore(s, r) + j + 1)
    <3> HIDE DEF t, runs, quads
    <3>1. QED BY <1>4, <1>7, <1>8 DEF QuadIn
  <2>7. Content(Inverted(s.runs[r].type), quads, MixedBefore(s, r) + j + 1)
          = Bits \ QuadIn(s, r, j)
    <3>k. PICK k : k = MixedBefore(s, r) + j + 1
      OBVIOUS
    <3>1. CASE s.runs[r].type = "Mixed"
      <4>1. k \in 1 .. M /\ quads[k] = Bits \ s.quads[k]
        BY <2>4, <3>1, <3>k
      <4>2. QED BY <3>1, <3>k, <4>1 DEF QuadIn, Content, Inverted
    <3>2. CASE s.runs[r].type = "Empty"
      BY <3>2 DEF QuadIn, Content, Inverted
    <3>3. CASE s.runs[r].type = "Full"
      BY <3>3 DEF QuadIn, Content, Inverted
    <3>4. QED BY <2>5, <3>1, <3>2, <3>3 DEF RunTypes
  <2>8. QED BY <2>3, <2>6, <2>7
<1>10. LengthBefore(t, L + 1) = n /\ MixedBefore(t, L + 1) = M
  BY <1>8, <1>l, <1>m DEF Holds
<1>11. p \in [0 .. n - 1 -> SUBSET Bits]
  OBVIOUS
<1> HIDE DEF t, runs, quads
<1>12. Holds(t, p, n)
  BY <1>0, <1>5, <1>6, <1>7, <1>9, <1>10, <1>11 DEF Holds
<1>13. QED BY <1>3, <1>12

\* invert, and the operator ~.
LEMMA ComplementRepresents ==
  ASSUME NEW s, NEW m, Represents(s, m)
  PROVE  Represents(Complement(s), CodePoints \ m)
<1>1. Holds(s, QuadsOf(m), QuadCount)
  BY RepresentsHolds DEF Represents
<1>2. QuadsOf(CodePoints \ m) = [i \in 0 .. QuadCount - 1 |-> Bits \ QuadsOf(m)[i]]
  BY QuadsOfTyped, QuadsOfComplement
<1>3. Holds(Complement(s), QuadsOf(CodePoints \ m), QuadCount)
  BY <1>1, <1>2, ComplementHolds
<1>4. QED BY <1>3, RepresentsHolds

-----------------------------------------------------------------------------
(* insert of a range.                                                      *)

\* It does not matter which two of three lists of quads are joined first.
LEMMA QuadsConcat ==
  ASSUME NEW x \in Seq(MixedQuads), NEW y \in Seq(MixedQuads), NEW z \in Seq(MixedQuads)
  PROVE  (x \o y) \o z = x \o (y \o z)
BY ConcatAssociative

\* Appending a run does not look at the quads.
LEMMA AppendRunQuads ==
  ASSUME NEW s \in Objects, NEW quads, NEW type, NEW n
  PROVE  AppendRun(Object(s.runs, quads), type, n)
           = Object(AppendRun(s, type, n).runs, quads)
         /\ AppendRun(s, type, n).quads = s.quads
<1>x. PICK x, y : x = s.runs /\ y = s.quads /\ s = Object(x, y)
  BY DEF Objects, Object
<1>1. \A z : /\ Object(x, z).runs = x /\ Object(x, z).quads = z
  BY DEF Object
<1>2. CASE n = 0
  BY <1>x, <1>1, <1>2 DEF AppendRun
<1>3. CASE n # 0 /\ x # <<>> /\ x[Len(x)].type = type
  <2>w. PICK w : w = Lengthened(x, n)
    OBVIOUS
  <2>3. \A z : AppendRun(Object(x, z), type, n) = Object(w, z)
    BY <1>3, <2>w, AppendRunLonger
  <2>4. \A z : Object(w, z).runs = w /\ Object(w, z).quads = z
    BY DEF Object
  <2>5. QED BY <1>x, <2>3, <2>4
<1>4. CASE n # 0 /\ ~ (x # <<>> /\ x[Len(x)].type = type)
  <2>1. \A z : AppendRun(Object(x, z), type, n)
                 = [Object(x, z) EXCEPT !.runs = Append(@, Run(type, n))]
    BY <1>1, <1>4 DEF AppendRun
  <2>2. \A z : [Object(x, z) EXCEPT !.runs = Append(@, Run(type, n))]
                 = Object(Append(x, Run(type, n)), z)
    BY DEF Object
  <2>w. PICK w : w = Append(x, Run(type, n))
    OBVIOUS
  <2>3. \A z : AppendRun(Object(x, z), type, n) = Object(w, z)
    BY <2>1, <2>2, <2>w
  <2>4. \A z : Object(w, z).runs = w /\ Object(w, z).quads = z
    BY DEF Object
  <2>5. QED BY <1>x, <2>3, <2>4
<1>5. QED BY <1>2, <1>3, <1>4

\* The runs from run r on.
LEMMA ShownSuffix ==
  ASSUME NEW s, NEW Q, NEW n \in Nat, Shown(s, Q, 0, n), NEW r \in 1 .. Len(s.runs) + 1
  PROVE  Shown(Object(SubSeq(s.runs, r, Len(s.runs)),
                      SubSeq(s.quads, MixedBefore(s, r) + 1, Len(s.quads))),
               Q, LengthBefore(s, r), n)
<1> DEFINE q == Cut(Q, 0, n)
           t == Object(SubSeq(s.runs, r, Len(s.runs)),
                       SubSeq(s.quads, MixedBefore(s, r) + 1, Len(s.quads)))
<1>1. Holds(s, q, n)
  <2>1. n - 0 = n
    OBVIOUS
  <2>2. QED BY <2>1 DEF Shown
<1>l. PICK L \in Nat : L = Len(s.runs) /\ s \in Objects
  BY <1>1 DEF Holds, Objects
<1>2. LengthBefore(s, r) \in Nat /\ LengthBefore(s, r) <= LengthBefore(s, L + 1)
      /\ LengthBefore(s, L + 1) = n
  <2>1. r \in 1 .. L + 1 /\ L + 1 \in 1 .. L + 1 /\ r <= L + 1
    BY <1>l
  <2>2. LengthBefore(s, r) \in Nat /\ LengthBefore(s, r) <= LengthBefore(s, L + 1)
    BY <1>l, <2>1, RunPlaces, RunPlacesOrdered
  <2>3. QED BY <1>1, <1>l, <2>2 DEF Holds
<1>a. PICK a \in Nat : a = LengthBefore(s, r) /\ a <= n
  BY <1>2
<1> DEFINE p == Cut(Q, a, n)
<1>3. \A i \in 0 .. n - 1 : Q[i] \in SUBSET Bits
  BY ShownQuads
<1>4. \A i \in 0 .. n - a - 1 : a + i \in 0 .. n - 1
  BY <1>a
<1>5. \A i \in 0 .. n - a - 1 : p[i] = Q[a + i] /\ q[a + i] = Q[a + i]
  BY <1>4 DEF Cut
<1>6. p \in [0 .. n - a - 1 -> SUBSET Bits]
  BY <1>3, <1>4 DEF Cut
<1> HIDE DEF p, q
<1>7. Holds(t, p, n - a)
  <2>1. /\ p \in [0 .. n - LengthBefore(s, r) - 1 -> SUBSET Bits]
        /\ \A i \in 0 .. n - LengthBefore(s, r) - 1 : p[i] = q[LengthBefore(s, r) + i]
    BY <1>a, <1>5, <1>6
  <2>2. Holds(t, p, n - LengthBefore(s, r))
    BY <1>1, <2>1, SuffixHolds
  <2>3. QED BY <1>a, <2>2
<1> HIDE DEF t
<1>8. Shown(t, Q, a, n)
  BY <1>a, <1>7 DEF Shown, p
<1>9. QED BY <1>a, <1>8 DEF t

\* What remains behind quad i, when everything up to it has been written.
LEMMA ShownRest ==
  ASSUME NEW s, NEW Q, NEW n \in Nat, Shown(s, Q, 0, n), NEW i \in 0 .. n - 1,
         NEW u, NEW P, Shown(u, P, 0, i + 1), \A k \in i + 1 .. n - 1 : P[k] = Q[k]
  PROVE  Shown(AppendRest(u, s, i, QuadsThrough(s, i) + 1), P, 0, n)
<1> DEFINE q == Cut(Q, 0, n)
<1>1. Holds(s, q, n)
  <2>1. n - 0 = n
    OBVIOUS
  <2>2. QED BY <2>1 DEF Shown
<1>0. /\ s \in Objects /\ s.runs \in Seq(Runs) /\ s.quads \in Seq(MixedQuads)
      /\ Len(s.runs) \in Nat /\ Len(s.quads) \in Nat
  BY <1>1 DEF Holds, Objects
<1>q. \A k \in 0 .. n - 1 : q[k] = Q[k]
  BY DEF Cut
<1> HIDE DEF q
<1>l. PICK L \in Nat : L = Len(s.runs)
  BY <1>0
<1>m. PICK M \in Nat : M = Len(s.quads)
  BY <1>0
<1>r. PICK r \in 1 .. L : r = RunOf(s, i)
  BY <1>1, <1>l, RunOfQuad
<1>o. PICK o \in Nat : o = OffsetIn(s, i)
  BY <1>1, RunOfQuad
<1>2. /\ s.runs[r].length \in Nat \ {0} /\ s.runs[r].type \in RunTypes
      /\ LengthBefore(s, r) \in Nat /\ MixedBefore(s, r) \in Nat
      /\ LengthBefore(s, r) + s.runs[r].length <= n
      /\ MixedBefore(s, r) + MixedLength(s.runs[r]) <= M
  BY <1>1, <1>l, <1>m, RunFits
<1>a. PICK a \in Nat : a = LengthBefore(s, r)
  BY <1>2
<1>b. PICK b \in Nat : b = MixedBefore(s, r)
  BY <1>2
<1>x. PICK x \in Nat : x = s.runs[r].length
  BY <1>2
<1>t. PICK type \in RunTypes : type = s.runs[r].type
  BY <1>2
<1>3. a + o = i /\ o < x /\ a + x <= n /\ (type = "Mixed" => b + x <= M)
  <2>1. /\ OffsetIn(s, i) < s.runs[RunOf(s, i)].length
        /\ LengthBefore(s, RunOf(s, i)) + OffsetIn(s, i) = i
    BY <1>1, RunOfQuad
  <2>2. type = "Mixed" => MixedLength(s.runs[r]) = x
    BY <1>t, <1>x DEF MixedLength
  <2>3. QED BY <1>2, <1>r, <1>o, <1>a, <1>b, <1>x, <2>1, <2>2
<1> DEFINE k == x - (o + 1)
           from == b + (IF type = "Mixed" THEN o + 1 ELSE 0)
           to == b + (IF type = "Mixed" THEN x ELSE 0)
           more == IF type = "Mixed" THEN SubSeq(s.quads, from + 1, to) ELSE <<>>
           rest == SubSeq(s.quads, to + 1, M)
           later == SubSeq(s.runs, r + 1, L)
           v == AppendRun(Object(u.runs, u.quads \o more), type, k)
           w == Object(later, rest)
<1>4. /\ k \in Nat /\ i + 1 + k = a + x /\ from \in Nat /\ to \in Nat
      /\ from <= to /\ to <= M /\ from + 1 \in Nat /\ 1 <= from + 1
      /\ type = "Mixed" => to - from = k
  <2>1. b <= M
    <3>1. MixedLength(s.runs[r]) \in Nat
      BY <1>2 DEF MixedLength
    <3>2. QED BY <1>2, <1>b, <3>1
  <2>2. QED BY <1>3, <2>1
<1>5. QuadsThrough(s, i) = from
  BY <1>r, <1>o, <1>b, <1>t DEF QuadsThrough
<1>6. /\ LengthBefore(s, r + 1) = a + x /\ MixedBefore(s, r + 1) = to
      /\ r + 1 \in 1 .. L + 1
  <2>1. /\ LengthBefore(s, r + 1) = LengthBefore(s, r) + s.runs[r].length
        /\ MixedBefore(s, r + 1) = MixedBefore(s, r) + MixedLength(s.runs[r])
    BY <1>0, <1>l, RunPlaces
  <2>2. MixedLength(s.runs[r]) = IF type = "Mixed" THEN x ELSE 0
    BY <1>t, <1>x DEF MixedLength
  <2>3. QED BY <1>a, <1>b, <1>x, <2>1, <2>2
<1>7. /\ more \in Seq(MixedQuads) /\ Len(more) = IF type = "Mixed" THEN k ELSE 0
      /\ \A j \in 1 .. Len(more) : more[j] = s.quads[from + j]
  <2>1. CASE type = "Mixed"
    <3> HIDE DEF from, to, k
    <3>1. /\ SubSeq(s.quads, from + 1, to) \in Seq(MixedQuads)
          /\ Len(SubSeq(s.quads, from + 1, to)) = to - (from + 1) + 1
          /\ \A j \in 1 .. to - (from + 1) + 1 :
               SubSeq(s.quads, from + 1, to)[j] = s.quads[from + 1 + j - 1]
      <4>1. from + 1 <= to + 1 /\ to <= Len(s.quads)
        BY <1>4, <1>m
      <4>2. QED BY <1>0, <1>4, <4>1, PartOf
    <3>2. to - (from + 1) + 1 = k /\ \A j \in 1 .. k : from + 1 + j - 1 = from + j
      BY <1>4, <2>1
    <3>3. QED BY <2>1, <3>1, <3>2
  <2>2. CASE type # "Mixed"
    BY <2>2
  <2>3. QED BY <2>1, <2>2
<1>8. ASSUME NEW j \in 0 .. k - 1 PROVE P[i + 1 + j] = Content(type, more, j + 1)
  <2>1. i + 1 + j \in i + 1 .. n - 1 /\ o + 1 + j \in 0 .. x - 1 /\ a + (o + 1 + j) = i + 1 + j
        /\ i + 1 + j \in 0 .. n - 1
    BY <1>3, <1>4
  <2>2. q[a + (o + 1 + j)] = QuadIn(s, r, o + 1 + j)
    BY <1>1, <1>l, <1>a, <1>x, <2>1 DEF Holds
  <2>3. P[i + 1 + j] = QuadIn(s, r, o + 1 + j)
    BY <1>q, <2>1, <2>2
  <2>4. QuadIn(s, r, o + 1 + j) = Content(type, s.quads, b + (o + 1 + j) + 1)
    BY <1>b, <1>t DEF QuadIn
  <2>5. type = "Mixed" => /\ b + (o + 1 + j) + 1 = from + (j + 1)
                          /\ j + 1 \in 1 .. Len(more)
    <3>1. type = "Mixed" => b + (o + 1 + j) + 1 = from + (j + 1)
      OBVIOUS
    <3>2. type = "Mixed" => j + 1 \in 1 .. Len(more)
      <4> HIDE DEF more
      <4>1. QED BY <1>4, <1>7
    <3>3. QED BY <3>1, <3>2
  <2>6. type = "Mixed" => more[j + 1] = s.quads[b + (o + 1 + j) + 1]
    <3> HIDE DEF more, from
    <3>1. QED BY <1>7, <2>5
  <2>7. QED BY <2>3, <2>4, <2>6 DEF Content
<1>9. Shown(v, P, 0, a + x)
  <2>1. \A j \in 0 .. k - 1 : P[i + 1 + j] = Content(type, more, j + 1)
    BY <1>8
  <2> HIDE DEF k, more
  <2>2. Shown(v, P, 0, i + 1 + k)
    BY <1>4, <1>7, <2>1, ShownMore
  <2>3. QED BY <1>4, <2>2
<1>10. Shown(w, P, a + x, n)
  <2>1. r + 1 \in 1 .. Len(s.runs) + 1
    BY <1>6, <1>l
  <2>2. Shown(Object(SubSeq(s.runs, r + 1, Len(s.runs)),
                     SubSeq(s.quads, MixedBefore(s, r + 1) + 1, Len(s.quads))),
              Q, LengthBefore(s, r + 1), n)
    BY <2>1, ShownSuffix
  <2>3. Shown(w, Q, a + x, n)
    <3> HIDE DEF to
    <3>1. QED BY <1>6, <1>l, <1>m, <2>2
  <2>4. \A h \in a + x .. n - 1 : Q[h] = P[h]
    BY <1>3
  <2> HIDE DEF w
  <2>5. QED BY <2>3, <2>4, ShownSame
<1>11. Shown(Concat(v, w), P, 0, n)
  <2> HIDE DEF v, w
  <2>1. QED BY <1>9, <1>10, ShownConcat
<1>12. u \in Objects /\ u.quads \in Seq(MixedQuads)
  BY ShownQuads
<1>13. v = Object(AppendRun(u, type, k).runs, u.quads \o more)
       /\ AppendRun(u, type, k).quads = u.quads
  <2>1. /\ AppendRun(Object(u.runs, u.quads \o more), type, k)
             = Object(AppendRun(u, type, k).runs, u.quads \o more)
        /\ AppendRun(u, type, k).quads = u.quads
    <3>q. PICK qs : qs = u.quads \o more
      OBVIOUS
    <3>r. PICK rs : rs = u.runs
      OBVIOUS
    <3>u. u \in Objects
      BY <1>12
    <3> HIDE DEF more, k
    <3>1. /\ AppendRun(Object(u.runs, qs), type, k) = Object(AppendRun(u, type, k).runs, qs)
          /\ AppendRun(u, type, k).quads = u.quads
      BY <3>u, AppendRunQuads
    <3>2. QED BY <3>q, <3>1, Zenon
  <2>2. QED BY <2>1, Zenon
<1>14. more \o rest = SubSeq(s.quads, from + 1, M)
  <2>1. CASE type = "Mixed"
    <3> HIDE DEF from, to
    <3>1. from + 1 <= to + 1 /\ to <= M /\ M <= Len(s.quads)
      BY <1>4, <1>m
    <3>2. SubSeq(s.quads, from + 1, to) \o SubSeq(s.quads, to + 1, M)
            = SubSeq(s.quads, from + 1, M)
      BY <1>0, <1>4, <3>1, PartsJoin
    <3>3. QED BY <2>1, <3>2
  <2>2. CASE type # "Mixed"
    <3>1. more = <<>> /\ from = to
      BY <2>2
    <3>2. rest \in Seq(MixedQuads)
      <4> HIDE DEF to
      <4>1. to + 1 \in Nat /\ 1 <= to + 1 /\ to + 1 <= M + 1 /\ M <= Len(s.quads)
        BY <1>4, <1>m
      <4>2. QED BY <1>0, <4>1, PartOf
    <3>3. <<>> \o rest = rest
      <4> HIDE DEF rest
      <4>1. QED BY <3>2, ConcatEmptySeq
    <3> HIDE DEF from, to, more
    <3>4. QED BY <3>1, <3>3
  <2>3. QED BY <2>1, <2>2
<1>15. (u.quads \o more) \o rest = u.quads \o SubSeq(s.quads, from + 1, M)
  <2>1. rest \in Seq(MixedQuads)
    <3> HIDE DEF to
    <3>1. to + 1 \in Nat /\ 1 <= to + 1 /\ to + 1 <= M + 1 /\ M <= Len(s.quads)
      BY <1>4, <1>m
    <3>2. QED BY <1>0, <3>1, PartOf
  <2> HIDE DEF rest, more, from
  <2>2. (u.quads \o more) \o rest = u.quads \o (more \o rest)
    <3>z. PICK z \in Seq(MixedQuads) : z = u.quads
      BY <1>12
    <3>1. more \in Seq(MixedQuads)
      BY <1>7
    <3>y. PICK y1 \in Seq(MixedQuads), y2 \in Seq(MixedQuads) : y1 = more /\ y2 = rest
      BY <2>1, <3>1, Zenon
    <3>2. (z \o y1) \o y2 = z \o (y1 \o y2)
      BY QuadsConcat
    <3>3. QED BY <3>z, <3>y, <3>2, Zenon
  <2>3. QED BY <1>14, <2>2
<1>16. AppendRest(u, s, i, QuadsThrough(s, i) + 1)
         = Object(AppendRun(u, type, k).runs \o later, u.quads \o SubSeq(s.quads, from + 1, M))
  <2>1. AppendRest(u, s, i, from + 1)
          = Object(AppendRun(u, type, k).runs \o later,
                   AppendRun(u, type, k).quads \o SubSeq(s.quads, from + 1, M))
    <3> HIDE DEF from
    <3>1. QED BY <1>r, <1>o, <1>x, <1>t, <1>l, <1>m DEF AppendRest
  <2>2. QED BY <1>5, <1>13, <2>1
<1>17. Concat(v, w) = Object(AppendRun(u, type, k).runs \o later, (u.quads \o more) \o rest)
  <2> HIDE DEF more, rest, later, k, v
  <2>1. QED BY <1>13 DEF Concat, Object
<1>18. QED BY <1>11, <1>15, <1>16, <1>17

\* insert_range, unless its end merges with a Mixed quad.
LEMMA InsertRangeRepresents ==
  ASSUME NEW s, NEW m, Represents(s, m),
         NEW lo \in CodePoints, NEW hi \in CodePoints, lo <= hi,
         hi \div QuadBits = lo \div QuadBits \/ TypeOf(QuadAt(s, hi \div QuadBits)) # "Mixed"
  PROVE  Represents(InsertRangeInto(s, lo, hi), m \cup (lo .. hi))
<1> DEFINE Q == QuadsOf(m)
           R == QuadsOf(lo .. hi)
           P == QuadsOf(m \cup (lo .. hi))
<1>c. PICK c \in Nat : c = QuadCount
  BY SizeAssumption
<1>x. PICK x \in 0 .. c - 1 : x = lo \div QuadBits
  BY <1>c, QuadOfCodePoint
<1>y. PICK y \in 0 .. c - 1 : y = hi \div QuadBits
  BY <1>c, QuadOfCodePoint
<1>1. /\ m \subseteq CodePoints /\ m \cup (lo .. hi) \subseteq CodePoints
      /\ Shown(s, Q, 0, c) /\ Holds(s, Q, c)
  <2>1. m \subseteq CodePoints /\ Shown(s, Q, 0, c) /\ Holds(s, Q, c)
    BY <1>c, RepresentsHolds DEF Represents
  <2>2. lo .. hi \subseteq CodePoints
    BY SizeAssumption DEF CodePoints, Limit
  <2>3. QED BY <2>1, <2>2
<1>2. \A k \in 0 .. c - 1 : P[k] = Q[k] \cup R[k] /\ Q[k] \subseteq Bits /\ R[k] \subseteq Bits
  <2>1. \A k \in 0 .. c - 1 :
          /\ P[k] = {d \in Bits : QuadBits * k + d \in m \cup (lo .. hi)}
          /\ Q[k] = {d \in Bits : QuadBits * k + d \in m}
          /\ R[k] = {d \in Bits : QuadBits * k + d \in lo .. hi}
    BY <1>c, QuadsOfTyped
  <2> HIDE DEF P, Q, R
  <2>2. QED BY <2>1
<1>3. \A k \in 0 .. c - 1 :
        /\ k < x \/ y < k => R[k] = {}
        /\ x < k /\ k < y => R[k] = Bits
        /\ k = x /\ k < y => R[k] = LoQuad(lo)
        /\ x < k /\ k = y => R[k] = HiQuad(hi)
        /\ k = x /\ k = y => R[k] = LoQuad(lo) \cap HiQuad(hi)
  BY <1>x, <1>y, <1>c, RangeQuads
<1>4. /\ x <= y /\ LoQuad(lo) \subseteq Bits /\ HiQuad(hi) \subseteq Bits
  BY <1>x, <1>y, EndsInQuads
<1>5. \A i \in 0 .. c - 1 :
        /\ s.runs[RunOf(s, i)].type \in RunTypes
        /\ QuadAt(s, i) = Q[i]
        /\ s.runs[RunOf(s, i)].type = "Full" => Q[i] = Bits
        /\ s.runs[RunOf(s, i)].type = "Empty" => Q[i] = {}
        /\ s.runs[RunOf(s, i)].type = "Mixed" => Q[i] \in MixedQuads
  <2> HIDE DEF Q
  <2>0. SUFFICES ASSUME NEW i \in 0 .. c - 1
                 PROVE  /\ s.runs[RunOf(s, i)].type \in RunTypes
                        /\ QuadAt(s, i) = Q[i]
                        /\ s.runs[RunOf(s, i)].type = "Full" => Q[i] = Bits
                        /\ s.runs[RunOf(s, i)].type = "Empty" => Q[i] = {}
                        /\ s.runs[RunOf(s, i)].type = "Mixed" => Q[i] \in MixedQuads
    OBVIOUS
  <2>r. PICK r \in 1 .. Len(s.runs) : r = RunOf(s, i)
    BY <1>1, RunOfQuad
  <2>o. PICK o \in Nat : o = OffsetIn(s, i) /\ o < s.runs[r].length
    BY <1>1, <2>r, RunOfQuad
  <2>1. QuadIn(s, r, o) = Q[i] /\ QuadAt(s, i) = Q[i]
    BY <1>1, <2>r, <2>o, RunOfQuad, QuadAtIs
  <2>2. s.runs[r].type = "Mixed" => QuadIn(s, r, o) \in MixedQuads
    <3>1. /\ MixedBefore(s, r) \in Nat /\ s.runs[r].length \in Nat
          /\ MixedBefore(s, r) + MixedLength(s.runs[r]) <= Len(s.quads)
          /\ s.quads \in Seq(MixedQuads)
      BY <1>1, RunFits DEF Holds, Objects
    <3>b. PICK b \in Nat : b = MixedBefore(s, r)
      BY <3>1
    <3>x. PICK z \in Nat : z = s.runs[r].length
      BY <3>1
    <3>m. PICK M \in Nat : M = Len(s.quads)
      BY <3>1
    <3>2. s.runs[r].type = "Mixed" => b + o + 1 \in 1 .. M
      <4>1. SUFFICES ASSUME s.runs[r].type = "Mixed" PROVE b + o + 1 \in 1 .. M
        OBVIOUS
      <4>2. b + z <= M
        BY <3>1, <3>b, <3>x, <3>m, <4>1 DEF MixedLength
      <4>3. o < z
        BY <2>o, <3>x
      <4>4. QED BY <4>2, <4>3
    <3>3. QED BY <3>1, <3>2, <3>b, <3>m DEF QuadIn, Content
  <2>3. s.runs[r].type \in RunTypes
    BY <1>1, RunFits
  <2>4. QED BY <2>r, <2>1, <2>2, <2>3 DEF QuadIn, Content
<1> DEFINE up == UpToLoQuad(s, lo, hi)
           t == AppendRun(up, "Full", FullBetween(lo, hi))
<1>6. Shown(up, P, 0, x + 1)
  <2>1. Shown(Before(s, x), P, 0, x)
    <3>1. Shown(Before(s, x), Q, 0, x)
      BY <1>1, ShownBefore
    <3> HIDE DEF P, Q, R
    <3>2. ASSUME NEW k \in 0 .. x - 1 PROVE Q[k] = P[k]
      <4>1. k \in 0 .. c - 1 /\ k < x
        BY <1>4, <1>x, <1>y, <1>c
      <4>2. R[k] = {} /\ P[k] = Q[k] \cup R[k]
        BY <1>2, <1>3, <4>1
      <4>3. QED BY <4>2
    <3>3. QED BY <3>1, <3>2, ShownSame
  <2> DEFINE new == IF y = x THEN LoQuad(lo) \cap HiQuad(hi) ELSE LoQuad(lo)
  <2>2. up = IF s.runs[RunOf(s, x)].type = "Full" THEN AppendRun(Before(s, x), "Full", 1)
             ELSE AppendQuad(Before(s, x), new \cup QuadAt(s, x))
    BY <1>x, <1>y DEF UpToLoQuad
  <2> HIDE DEF P, Q, R, up
  <2>3. P[x] = new \cup QuadAt(s, x) /\ P[x] \in SUBSET Bits
    BY <1>2, <1>3, <1>4, <1>5
  <2>4. CASE s.runs[RunOf(s, x)].type = "Full"
    <3>1. P[x] = Bits
      BY <1>2, <1>5, <2>4
    <3>2. \A k \in x .. x + 1 - 1 : k = x
      OBVIOUS
    <3>3. \A k \in x .. x + 1 - 1 : P[k] = IF "Full" = "Full" THEN Bits ELSE {}
      BY <3>1, <3>2
    <3>4. Shown(AppendRun(Before(s, x), "Full", 1), P, 0, x + 1)
      BY <2>1, <3>3, ShownRun
    <3>5. QED BY <2>2, <2>4, <3>4
  <2>5. CASE s.runs[RunOf(s, x)].type # "Full"
    <3> HIDE DEF new
    <3>1. Shown(AppendQuad(Before(s, x), new \cup QuadAt(s, x)), P, 0, x + 1)
      BY <2>1, <2>3, ShownQuad
    <3>2. QED BY <2>2, <2>5, <3>1
  <2>6. QED BY <2>4, <2>5
<1>7. \A i \in y + 1 .. c - 1 : P[i] = Q[i]
  <2> HIDE DEF P, Q, R
  <2>1. ASSUME NEW k \in y + 1 .. c - 1 PROVE P[k] = Q[k]
    <3>1. k \in 0 .. c - 1 /\ y < k
      OBVIOUS
    <3>2. R[k] = {} /\ P[k] = Q[k] \cup R[k]
      BY <1>2, <1>3, <3>1
    <3>3. QED BY <3>2
  <2>2. QED BY <2>1
<1>8. ASSUME NEW u, Shown(u, P, 0, y + 1)
      PROVE  Shown(AppendRest(u, s, y, QuadsThrough(s, y) + 1), P, 0, c)
  <2> HIDE DEF P, Q
  <2>1. QED BY <1>1, <1>7, <1>8, ShownRest
<1>9. CASE x = y
  <2>1. InsertRangeInto(s, lo, hi) = AppendRest(up, s, y, QuadsThrough(s, y) + 1)
    BY <1>9, <1>x, <1>y DEF InsertRangeInto
  <2>2. Shown(AppendRest(up, s, y, QuadsThrough(s, y) + 1), P, 0, c)
    <3> HIDE DEF up, P
    <3>1. QED BY <1>6, <1>8, <1>9
  <2>3. QED BY <1>1, <1>c, <2>1, <2>2 DEF Represents
<1>10. CASE x # y
  <2>1. Shown(t, P, 0, y)
    <3>n. PICK n \in Nat : n = FullBetween(lo, hi) /\ (x + 1) + n = y
      <4>1. FullBetween(lo, hi) = y - x - 1
        BY <1>x, <1>y DEF FullBetween
      <4>2. QED BY <1>4, <1>10, <4>1
    <3> HIDE DEF P, Q, R, up
    <3>1. \A k \in x + 1 .. (x + 1) + n - 1 : P[k] = IF "Full" = "Full" THEN Bits ELSE {}
      <4>1. ASSUME NEW k \in x + 1 .. (x + 1) + n - 1 PROVE P[k] = Bits
        <5>1. k \in 0 .. c - 1 /\ x < k /\ k < y
          BY <3>n
        <5>2. R[k] = Bits /\ P[k] = Q[k] \cup R[k] /\ Q[k] \subseteq Bits
          BY <1>2, <1>3, <5>1
        <5>3. QED BY <5>2
      <4>2. QED BY <4>1
    <3>2. x + 1 \in Nat
      OBVIOUS
    <3>3. Shown(AppendRun(up, "Full", n), P, 0, (x + 1) + n)
      BY <1>6, <3>1, ShownRun
    <3>4. QED BY <3>3, <3>n
  <2> DEFINE type == s.runs[RunOf(s, y)].type
  <2>2. type \in {"Full", "Empty"}
    <3>1. TypeOf(Q[y]) # "Mixed"
      <4>1. TypeOf(QuadAt(s, y)) # "Mixed"
        BY <1>10, <1>x, <1>y
      <4>2. QED BY <1>5, <4>1
    <3> HIDE DEF Q
    <3>2. Q[y] \notin MixedQuads
      BY <3>1 DEF TypeOf, MixedQuads
    <3>3. QED BY <1>5, <3>2 DEF RunTypes
  <2>3. P[y] = Q[y] \cup HiQuad(hi)
    <3> HIDE DEF P, Q, R
    <3>1. x < y
      BY <1>4, <1>10
    <3>2. QED BY <1>2, <1>3, <3>1
  <2>4. CASE type = "Full"
    <3>1. InsertRangeInto(s, lo, hi)
            = AppendRest(AppendRun(t, "Full", 1), s, y, QuadsThrough(s, y) + 1)
      BY <1>10, <1>x, <1>y, <2>4 DEF InsertRangeInto
    <3> HIDE DEF P, Q, R, t
    <3>2. \A k \in y .. y + 1 - 1 : P[k] = IF "Full" = "Full" THEN Bits ELSE {}
      <4>1. \A k \in y .. y + 1 - 1 : k = y
        OBVIOUS
      <4>2. P[y] = Bits
        BY <1>4, <1>5, <2>3, <2>4
      <4>3. QED BY <4>1, <4>2
    <3>3. Shown(AppendRun(t, "Full", 1), P, 0, y + 1)
      BY <2>1, <3>2, ShownRun
    <3>4. Shown(InsertRangeInto(s, lo, hi), P, 0, c)
      BY <1>8, <3>1, <3>3
    <3>5. QED BY <1>1, <1>c, <3>4 DEF Represents, P
  <2>5. CASE type = "Empty"
    <3>1. InsertRangeInto(s, lo, hi)
            = AppendRest(AppendQuad(t, HiQuad(hi)), s, y, QuadsThrough(s, y) + 1)
      BY <1>10, <1>x, <1>y, <2>5 DEF InsertRangeInto
    <3> HIDE DEF P, Q, R, t
    <3>2. P[y] = HiQuad(hi) /\ HiQuad(hi) \in SUBSET Bits
      BY <1>4, <1>5, <2>3, <2>5
    <3>3. Shown(AppendQuad(t, HiQuad(hi)), P, 0, y + 1)
      BY <2>1, <3>2, ShownQuad
    <3>4. Shown(InsertRangeInto(s, lo, hi), P, 0, c)
      BY <1>8, <3>1, <3>3
    <3>5. QED BY <1>1, <1>c, <3>4 DEF Represents, P
  <2>6. QED BY <2>2, <2>4, <2>5
<1>11. QED BY <1>9, <1>10

-----------------------------------------------------------------------------
(* The walk over two objects.                                              *)

\* The iterator lies j quads behind the begin of run r, or behind the runs.
OnRun(s, r, j) ==
  [run |-> r,
   quad |-> MixedBefore(s, r) + 1 + (IF s.runs[r].type = "Mixed" THEN j ELSE 0),
   type |-> s.runs[r].type,
   left |-> s.runs[r].length - j]
OffRuns(s) ==
  [run |-> Len(s.runs) + 1, quad |-> Len(s.quads) + 1, type |-> "Empty", left |-> 0]

\* The iterator lies before quad p.
AtQuad(s, it, p) ==
  \/ \E r \in 1 .. Len(s.runs) : \E j \in 0 .. s.runs[r].length - 1 :
       it = OnRun(s, r, j) /\ p = LengthBefore(s, r) + j
  \/ it = OffRuns(s) /\ p = LengthBefore(s, Len(s.runs) + 1)

\* The iterator begins at the first quad.
LEMMA AtBegin ==
  ASSUME NEW s, NEW q, NEW n, Holds(s, q, n), n # 0
  PROVE  AtQuad(s, QuadBegin(s), 0)
<1>l. PICK L \in Nat : L = Len(s.runs)
  BY DEF Holds, Objects
<1>0. s \in Objects /\ LengthBefore(s, L + 1) = n
  BY <1>l DEF Holds
<1>1. LengthBefore(s, 1) = 0 /\ MixedBefore(s, 1) = 0
  BY <1>0, RunPlaces
<1>2. L # 0
  BY <1>0, <1>1
<1>3. 1 \in 1 .. L
  BY <1>2
<1>4. s.runs[1].length \in Nat \ {0}
  BY <1>3, <1>l, RunFits
<1>x. PICK x \in Nat : x = s.runs[1].length
  BY <1>4
<1>5. 0 \in 0 .. x - 1 /\ x - 0 = x /\ 0 + 0 = 0
  BY <1>4, <1>x
<1>6. QuadBegin(s) = OnRun(s, 1, 0)
  <2>1. MixedBefore(s, 1) + 1 + (IF s.runs[1].type = "Mixed" THEN 0 ELSE 0) = 1
    BY <1>1
  <2>2. QED BY <1>5, <1>x, <2>1 DEF QuadBegin, OnRun
<1>7. QED BY <1>1, <1>3, <1>5, <1>6, <1>l, <1>x DEF AtQuad

\* What lies behind an iterator in its run.
LEMMA AtQuadIs ==
  ASSUME NEW s, NEW q, NEW n, Holds(s, q, n), NEW it, NEW p, AtQuad(s, it, p)
  PROVE  /\ it.left \in Nat /\ p \in 0 .. n /\ p + it.left <= n
         /\ it.type \in RunTypes
         /\ it.run \in 1 .. Len(s.runs) + 1
         /\ it.left = 0 <=> p = n
         /\ it.left = 0 <=> it.run = Len(s.runs) + 1
         /\ \A k \in 0 .. it.left - 1 :
              /\ p + k \in 0 .. n - 1
              /\ QuadBehind(s, it, k) = q[p + k]
              /\ it.type = "Full" => q[p + k] = Bits
              /\ it.type = "Empty" => q[p + k] = {}
<1>l. PICK L \in Nat : L = Len(s.runs)
  BY DEF Holds, Objects
<1>0. s \in Objects /\ n \in Nat /\ LengthBefore(s, L + 1) = n
  BY <1>l DEF Holds
<1>1. ASSUME NEW r \in 1 .. L, NEW j \in 0 .. s.runs[r].length - 1,
             it = OnRun(s, r, j), p = LengthBefore(s, r) + j
      PROVE  /\ it.left \in Nat \ {0} /\ p \in 0 .. n - 1 /\ p + it.left <= n
             /\ it.type \in RunTypes
             /\ it.run = r
             /\ \A k \in 0 .. it.left - 1 :
                  /\ p + k \in 0 .. n - 1
                  /\ QuadBehind(s, it, k) = q[p + k]
                  /\ it.type = "Full" => q[p + k] = Bits
                  /\ it.type = "Empty" => q[p + k] = {}
  <2>x. PICK x \in Nat : x = s.runs[r].length
    BY <1>l, RunFits
  <2>b. PICK b \in Nat : b = LengthBefore(s, r)
    BY <1>l, RunFits
  <2>m. PICK mx \in Nat : mx = MixedBefore(s, r)
    BY <1>l, RunFits
  <2>1. s.runs[r].type \in RunTypes /\ b + x <= n
    BY <1>l, <2>x, <2>b, RunFits
  <2>2. it.run = r /\ it.type = s.runs[r].type /\ it.left = x - j
        /\ it.quad = mx + 1 + (IF s.runs[r].type = "Mixed" THEN j ELSE 0)
    BY <1>1, <2>x, <2>m DEF OnRun
  <2>3. p = b + j /\ j \in 0 .. x - 1
    BY <1>1, <2>b, <2>x
  <2>4. it.left \in Nat \ {0} /\ p \in 0 .. n - 1 /\ p + it.left <= n
    BY <1>0, <2>1, <2>2, <2>3
  <2>5. ASSUME NEW k \in 0 .. it.left - 1
        PROVE  /\ p + k \in 0 .. n - 1
               /\ QuadBehind(s, it, k) = q[p + k]
               /\ it.type = "Full" => q[p + k] = Bits
               /\ it.type = "Empty" => q[p + k] = {}
    <3>1. k \in Nat /\ j + k \in 0 .. x - 1 /\ p + k = b + (j + k)
          /\ (mx + 1 + j) + k = mx + (j + k) + 1 /\ p + k \in 0 .. n - 1
      BY <1>0, <2>1, <2>2, <2>3
    <3>2. q[b + (j + k)] = QuadIn(s, r, j + k)
      BY <1>l, <2>b, <2>x, <3>1 DEF Holds
    <3>3. q[p + k] = Content(s.runs[r].type, s.quads, mx + (j + k) + 1)
      BY <2>m, <3>1, <3>2 DEF QuadIn
    <3>4. s.runs[r].type = "Mixed" => it.quad + k = mx + (j + k) + 1
      BY <2>2, <3>1
    <3>5. QED BY <2>1, <2>2, <3>1, <3>3, <3>4 DEF QuadBehind, Content, RunTypes
  <2>6. QED BY <2>1, <2>2, <2>4, <2>5
<1>2. CASE it = OffRuns(s) /\ p = n
  <2>1. it.left = 0 /\ it.type = "Empty" /\ it.run = L + 1
    BY <1>2, <1>l DEF OffRuns
  <2>2. QED BY <1>0, <1>2, <1>l, <2>1 DEF RunTypes
<1>3. CASE \E r \in 1 .. L : \E j \in 0 .. s.runs[r].length - 1 :
             it = OnRun(s, r, j) /\ p = LengthBefore(s, r) + j
  <2>1. PICK r \in 1 .. L : \E j \in 0 .. s.runs[r].length - 1 :
               it = OnRun(s, r, j) /\ p = LengthBefore(s, r) + j
    BY <1>3
  <2>2. PICK j \in 0 .. s.runs[r].length - 1 :
               it = OnRun(s, r, j) /\ p = LengthBefore(s, r) + j
    BY <2>1
  <2>3. /\ it.left \in Nat \ {0} /\ p \in 0 .. n - 1 /\ p + it.left <= n
        /\ it.type \in RunTypes
        /\ it.run = r
        /\ \A k \in 0 .. it.left - 1 :
             /\ p + k \in 0 .. n - 1
             /\ QuadBehind(s, it, k) = q[p + k]
             /\ it.type = "Full" => q[p + k] = Bits
             /\ it.type = "Empty" => q[p + k] = {}
    BY <1>1, <2>2
  <2>4. it.left \in Nat /\ it.left # 0 /\ p \in 0 .. n /\ p # n
        /\ it.run \in 1 .. L + 1 /\ it.run # L + 1
    BY <1>0, <2>3
  <2>5. QED BY <1>l, <2>3, <2>4
<1>4. QED BY <1>0, <1>2, <1>3, <1>l DEF AtQuad

\* The walk is over m stretches at most.
StretchesOf(s1, s2, m) == m = Len(s1.runs) + Len(s2.runs)

\* A walk, stretch by stretch.
LEMMA WalkUnfolds ==
  ASSUME NEW s1, NEW s2, NEW m \in Nat
  PROVE  StretchesOf(s1, s2, m) =>
           \E f : /\ f = Walk(s1, s2)
                 /\ DOMAIN f = 0 .. m
                 /\ f[0] = <<QuadBegin(s1), QuadBegin(s2)>>
                 /\ \A n \in 1 .. m : f[n] = NextStretch(s1, s2, f[n - 1])
<1> DEFINE Body(g, n) == IF n = 0 THEN <<QuadBegin(s1), QuadBegin(s2)>>
                       ELSE NextStretch(s1, s2, g[n - 1])
           good == {k \in 0 .. m : \E g : g = [n \in 0 .. k |-> Body(g, n)]}
<1>1. 0 \in good
  <2> DEFINE g == [n \in 0 .. 0 |-> <<QuadBegin(s1), QuadBegin(s2)>>]
  <2>1. g = [n \in 0 .. 0 |-> Body(g, n)]
    OBVIOUS
  <2> HIDE DEF g, Body
  <2>2. QED BY <2>1
<1>2. ASSUME NEW k \in 0 .. m - 1, k \in good PROVE k + 1 \in good
  <2>1. PICK g : g = [n \in 0 .. k |-> Body(g, n)]
    BY <1>2
  <2> DEFINE h == [n \in 0 .. k + 1 |-> IF n = k + 1 THEN Body(g, n) ELSE g[n]]
  <2>2. ASSUME NEW n \in 0 .. k + 1 PROVE h[n] = Body(h, n)
    <3>1. CASE n = k + 1
      <4>1. n # 0 /\ n - 1 = k /\ k \in 0 .. k + 1 /\ k # k + 1
        BY <3>1
      <4>2. h[k] = g[k] /\ h[n] = Body(g, n)
        BY <3>1, <4>1
      <4>3. QED BY <4>1, <4>2
    <3>2. CASE n # k + 1
      <4>1. n \in 0 .. k /\ h[n] = g[n]
        BY <3>2
      <4>2. n # 0 => n - 1 \in 0 .. k /\ n - 1 \in 0 .. k + 1 /\ n - 1 # k + 1
        BY <3>2
      <4>3. n # 0 => h[n - 1] = g[n - 1]
        BY <4>2
      <4>4. g[n] = Body(g, n)
        BY <2>1, <4>1
      <4>5. QED BY <4>1, <4>3, <4>4
    <3>3. QED BY <3>1, <3>2
  <2>3. h = [n \in 0 .. k + 1 |-> h[n]]
    OBVIOUS
  <2> HIDE DEF h
  <2>4. h = [n \in 0 .. k + 1 |-> Body(h, n)]
    <3> HIDE DEF Body
    <3>1. QED BY <2>2, <2>3
  <2>5. k + 1 \in 0 .. m
    OBVIOUS
  <2>6. QED BY <2>4, <2>5
<1>3. m \in good
  <2>1. \A k \in 0 .. m - 1 : k \in good => k + 1 \in good
    BY <1>2
  <2> HIDE DEF good
  <2>2. \A k \in 0 .. m : k \in good
    BY <1>1, <2>1, UpToNumber
  <2>3. QED BY <2>2
<1> DEFINE f == CHOOSE g : g = [n \in 0 .. m |-> Body(g, n)]
<1>4. f = [n \in 0 .. m |-> Body(f, n)]
  BY <1>3
<1>5. StretchesOf(s1, s2, m) => f = Walk(s1, s2)
  BY DEF Walk, StretchesOf
<1> HIDE DEF f
<1>6. \A n \in 0 .. m : f[n] = Body(f, n)
  <2> HIDE DEF Body
  <2>1. QED BY <1>4
<1>7. f[0] = <<QuadBegin(s1), QuadBegin(s2)>>
  BY <1>6
<1>8. \A n \in 1 .. m : f[n] = NextStretch(s1, s2, f[n - 1])
  BY <1>6
<1>9. DOMAIN f = 0 .. m
  BY <1>4
<1>10. QED BY <1>5, <1>7, <1>8, <1>9

\* The last assignments of Advance when a run ends.
ToNextRun(it, type, left) == [it EXCEPT !.run = @ + 1, !.type = type, !.left = left]

\* The iterator at the end of a run moves to the next one, or off the runs.
LEMMA NextRun ==
  ASSUME NEW r, NEW quad, NEW type, NEW left, NEW newType, NEW newLeft
  PROVE  ToNextRun([run |-> r, quad |-> quad, type |-> type, left |-> left],
                   newType, newLeft)
           = [run |-> r + 1, quad |-> quad, type |-> newType, left |-> newLeft]
<1>x. PICK x : x = [run |-> r, quad |-> quad, type |-> type, left |-> left]
  OBVIOUS
<1>y. PICK y : y = [x EXCEPT !.run = @ + 1]
  OBVIOUS
<1>z. PICK z : z = [y EXCEPT !.type = newType]
  OBVIOUS
<1>1. y = [run |-> r + 1, quad |-> quad, type |-> type, left |-> left]
  BY <1>x, <1>y
<1>2. z = [run |-> r + 1, quad |-> quad, type |-> newType, left |-> left]
  BY <1>z, <1>1
<1>3. [z EXCEPT !.left = newLeft]
        = [run |-> r + 1, quad |-> quad, type |-> newType, left |-> newLeft]
  BY <1>2
<1>4. [x EXCEPT !.run = @ + 1, !.type = newType, !.left = newLeft]
        = [z EXCEPT !.left = newLeft]
  BY <1>y, <1>z, Zenon
<1>5. ToNextRun(x, newType, newLeft) = [z EXCEPT !.left = newLeft]
  BY <1>4, Zenon DEF ToNextRun
<1>6. QED BY <1>x, <1>3, <1>5

\* The iterator goes on in its run, or to the next run or behind the last.
LEMMA AdvanceAt ==
  ASSUME NEW s, NEW q, NEW n, Holds(s, q, n), NEW it, NEW p, AtQuad(s, it, p),
         NEW d \in 1 .. it.left
  PROVE  /\ AtQuad(s, Advance(s, it, d), p + d)
         /\ d = it.left => Advance(s, it, d).run = it.run + 1
         /\ d # it.left => Advance(s, it, d).run = it.run
<1>l. PICK L \in Nat : L = Len(s.runs)
  BY DEF Holds, Objects
<1>0. s \in Objects /\ n \in Nat /\ LengthBefore(s, L + 1) = n
      /\ MixedBefore(s, L + 1) = Len(s.quads)
  BY <1>l DEF Holds
<1>z. it.left \in Nat /\ it.left # 0
  BY AtQuadIs
<1>1. PICK r \in 1 .. L : \E j \in 0 .. s.runs[r].length - 1 :
             it = OnRun(s, r, j) /\ p = LengthBefore(s, r) + j
  <2>1. it # OffRuns(s)
    BY <1>z DEF OffRuns
  <2>2. QED BY <2>1, <1>l DEF AtQuad
<1>2. PICK j \in 0 .. s.runs[r].length - 1 :
             it = OnRun(s, r, j) /\ p = LengthBefore(s, r) + j
  BY <1>1
<1>x. PICK x \in Nat : x = s.runs[r].length
  BY <1>l, RunFits
<1>b. PICK b \in Nat : b = LengthBefore(s, r)
  BY <1>l, RunFits
<1>m. PICK mx \in Nat : mx = MixedBefore(s, r)
  BY <1>l, RunFits
<1>t. PICK type : type = s.runs[r].type
  OBVIOUS
<1>3. it = [run |-> r, quad |-> mx + 1 + (IF type = "Mixed" THEN j ELSE 0),
            type |-> type, left |-> x - j]
  BY <1>2, <1>x, <1>m, <1>t DEF OnRun
<1>4. j \in 0 .. x - 1 /\ p = b + j /\ d \in 1 .. x - j
  <2>1. it.left = x - j
    BY <1>3
  <2>2. QED BY <1>2, <1>x, <1>b, <2>1
<1>5. b + x = LengthBefore(s, r + 1)
      /\ mx + (IF type = "Mixed" THEN x ELSE 0) = MixedBefore(s, r + 1)
  BY <1>0, <1>l, <1>x, <1>b, <1>m, <1>t, RunPlaces DEF MixedLength
<1>6. CASE d < x - j
  <2> DEFINE new == [run |-> r, quad |-> mx + 1 + (IF type = "Mixed" THEN j + d ELSE 0),
                     type |-> type, left |-> x - (j + d)]
  <2>1. Advance(s, it, d) = new
    <3>1. PICK qd : qd = mx + 1 + (IF type = "Mixed" THEN j ELSE 0)
      OBVIOUS
    <3>2. PICK lf : lf = x - j
      OBVIOUS
    <3>3. it = [run |-> r, quad |-> qd, type |-> type, left |-> lf]
      BY <1>3, <3>1, <3>2
    <3>4. Advance(s, it, d) = [run |-> r, quad |-> IF type = "Mixed" THEN qd + d ELSE qd,
                               type |-> type, left |-> lf - d]
      BY <1>6, <3>2, <3>3 DEF Advance
    <3>5. lf - d = x - (j + d)
          /\ (IF type = "Mixed" THEN qd + d ELSE qd)
               = mx + 1 + (IF type = "Mixed" THEN j + d ELSE 0)
      BY <1>4, <3>1, <3>2
    <3>6. QED BY <3>4, <3>5
  <2>2. new = OnRun(s, r, j + d)
    BY <1>x, <1>m, <1>t DEF OnRun
  <2>3. j + d \in 0 .. x - 1 /\ p + d = b + (j + d)
    BY <1>4, <1>6
  <2>4. new.run = it.run /\ d # it.left
    BY <1>3, <1>6
  <2> HIDE DEF new
  <2>5. AtQuad(s, new, p + d)
    BY <1>l, <1>x, <1>b, <2>2, <2>3 DEF AtQuad
  <2>6. QED BY <2>1, <2>4, <2>5
<1>7. CASE ~ (d < x - j)
  <2>0. d = x - j
    BY <1>4, <1>7
  <2>q. PICK qd : qd = mx + 1 + (IF type = "Mixed" THEN x ELSE 0)
    OBVIOUS
  <2>1. p + d = LengthBefore(s, r + 1) /\ qd = MixedBefore(s, r + 1) + 1
    BY <1>4, <1>5, <2>0, <2>q
  <2>2. Advance(s, it, d) =
          IF r = L THEN [run |-> r + 1, quad |-> qd, type |-> "Empty", left |-> 0]
          ELSE [run |-> r + 1, quad |-> qd, type |-> s.runs[r + 1].type,
                left |-> s.runs[r + 1].length]
    <3>1. PICK q0 : q0 = mx + 1 + (IF type = "Mixed" THEN j ELSE 0)
      OBVIOUS
    <3>2. PICK lf : lf = x - j
      OBVIOUS
    <3>3. it = [run |-> r, quad |-> q0, type |-> type, left |-> lf]
      BY <1>3, <3>1, <3>2
    <3>4. (IF type = "Mixed" THEN q0 + d ELSE q0) = qd
      BY <1>4, <2>0, <2>q, <3>1
    <3>5. Advance(s, it, d) =
            IF r = L THEN [run |-> r + 1, quad |-> IF type = "Mixed" THEN q0 + d ELSE q0,
                           type |-> "Empty", left |-> 0]
            ELSE [run |-> r + 1, quad |-> IF type = "Mixed" THEN q0 + d ELSE q0,
                  type |-> s.runs[r + 1].type, left |-> s.runs[r + 1].length]
      <4>1. PICK q1 : q1 = IF type = "Mixed" THEN q0 + d ELSE q0
        OBVIOUS
      <4>2. [it EXCEPT !.quad = IF it.type = "Mixed" THEN @ + d ELSE @]
              = [run |-> r, quad |-> q1, type |-> type, left |-> lf]
        BY <3>3, <4>1
      <4>3. it.left = lf /\ it.run = r /\ ~ (d < lf)
        BY <1>7, <3>2, <3>3
      <4>4. PICK ty, ln : ty = s.runs[r + 1].type /\ ln = s.runs[r + 1].length
        OBVIOUS
      <4>k. PICK moved : moved = [run |-> r, quad |-> q1, type |-> type, left |-> lf]
        OBVIOUS
      <4>m. moved = [it EXCEPT !.quad = IF it.type = "Mixed" THEN @ + d ELSE @]
        BY <4>2, <4>k
      <4>5. Advance(s, it, d) = IF r = L THEN ToNextRun(moved, "Empty", 0)
                                ELSE ToNextRun(moved, ty, ln)
        BY <1>l, <4>m, <4>3, <4>4, Zenon DEF Advance, ToNextRun
      <4>6. ToNextRun(moved, "Empty", 0)
              = [run |-> r + 1, quad |-> q1, type |-> "Empty", left |-> 0]
        BY <4>k, NextRun
      <4>7. ToNextRun(moved, ty, ln)
              = [run |-> r + 1, quad |-> q1, type |-> ty, left |-> ln]
        BY <4>k, NextRun
      <4>8. QED BY <4>1, <4>4, <4>5, <4>6, <4>7, Zenon
    <3>6. QED BY <3>4, <3>5
  <2>3. it.run = r /\ it.left = d
    BY <1>3, <2>0
  <2>4. Advance(s, it, d).run = r + 1
    BY <2>2
  <2>5. AtQuad(s, Advance(s, it, d), p + d)
    <3>1. CASE r = L
      <4>1. Advance(s, it, d) = OffRuns(s)
        BY <1>0, <1>l, <2>1, <2>2, <3>1 DEF OffRuns
      <4>2. QED BY <1>l, <2>1, <3>1, <4>1 DEF AtQuad
    <3>2. CASE r # L
      <4>1. r + 1 \in 1 .. L
        BY <3>2
      <4>y. PICK y \in Nat \ {0} : y = s.runs[r + 1].length
        BY <1>l, <4>1, RunFits
      <4>c. PICK e \in Nat : e = LengthBefore(s, r + 1)
        BY <1>l, <4>1, RunFits
      <4>n. PICK my \in Nat : my = MixedBefore(s, r + 1)
        BY <1>l, <4>1, RunFits
      <4>2. 0 \in 0 .. y - 1 /\ y - 0 = y /\ e + 0 = e
            /\ my + 1 + (IF s.runs[r + 1].type = "Mixed" THEN 0 ELSE 0) = my + 1
        OBVIOUS
      <4>3. Advance(s, it, d) = OnRun(s, r + 1, 0)
        BY <2>1, <2>2, <3>2, <4>y, <4>n, <4>2 DEF OnRun
      <4>4. QED BY <1>l, <2>1, <4>1, <4>y, <4>c, <4>2, <4>3 DEF AtQuad
    <3>3. QED BY <3>1, <3>2
  <2>6. QED BY <2>3, <2>4, <2>5
<1>8. QED BY <1>6, <1>7

\* Where an iterator is.
PlaceAt(s, it) ==
  IF it.run = Len(s.runs) + 1 THEN LengthBefore(s, Len(s.runs) + 1)
  ELSE LengthBefore(s, it.run) + s.runs[it.run].length - it.left

\* A position in the runs is a position among the quads.
LEMMA PlaceIs ==
  ASSUME NEW s, NEW q, NEW n, Holds(s, q, n), NEW it, NEW p, AtQuad(s, it, p)
  PROVE  p = PlaceAt(s, it)
<1>l. PICK L \in Nat : L = Len(s.runs)
  BY DEF Holds, Objects
<1>1. ASSUME NEW r \in 1 .. L, NEW j \in 0 .. s.runs[r].length - 1,
             it = OnRun(s, r, j), p = LengthBefore(s, r) + j
      PROVE  p = PlaceAt(s, it)
  <2>x. PICK x \in Nat : x = s.runs[r].length
    BY <1>l, RunFits
  <2>b. PICK b \in Nat : b = LengthBefore(s, r)
    BY <1>l, RunFits
  <2>1. it.run = r /\ it.left = x - j /\ r # L + 1
    BY <1>1, <2>x DEF OnRun
  <2>2. b + x - (x - j) = b + j
    BY <1>1, <2>x
  <2>3. QED BY <1>1, <1>l, <2>x, <2>b, <2>1, <2>2 DEF PlaceAt
<1>2. CASE it = OffRuns(s) /\ p = LengthBefore(s, L + 1)
  BY <1>2, <1>l DEF OffRuns, PlaceAt
<1>3. QED BY <1>1, <1>2, <1>l DEF AtQuad

\* Both iterators lie before quad p.
BothAt(s1, s2, its, p) == AtQuad(s1, its[1], p) /\ AtQuad(s2, its[2], p)

\* A stretch moves both iterators by the same number of quads.
LEMMA NextStretchAt ==
  ASSUME NEW s1, NEW q1, NEW s2, NEW q2, NEW n, Holds(s1, q1, n), Holds(s2, q2, n),
         NEW its, NEW p, BothAt(s1, s2, its, p)
  PROVE  /\ Stretch(its) \in Nat /\ p \in 0 .. n /\ p + Stretch(its) <= n
         /\ Stretch(its) <= its[1].left /\ Stretch(its) <= its[2].left
         /\ BothAt(s1, s2, NextStretch(s1, s2, its), p + Stretch(its))
         /\ its[1].run \in Nat /\ its[2].run \in Nat
         /\ p # n => /\ Stretch(its) # 0
                     /\ NextStretch(s1, s2, its)[1].run + NextStretch(s1, s2, its)[2].run
                          > its[1].run + its[2].run
<1>1. AtQuad(s1, its[1], p) /\ AtQuad(s2, its[2], p)
  BY DEF BothAt
<1>a. PICK i1 : i1 = its[1]
  OBVIOUS
<1>b. PICK i2 : i2 = its[2]
  OBVIOUS
<1>n. n \in Nat
  BY DEF Holds
<1>2. /\ i1.left \in Nat /\ i2.left \in Nat /\ p \in 0 .. n
      /\ p + i1.left <= n /\ p + i2.left <= n
      /\ i1.left = 0 <=> p = n
      /\ i2.left = 0 <=> p = n
      /\ i1.run \in Nat /\ i2.run \in Nat
  <2>1. /\ i1.left \in Nat /\ p \in 0 .. n /\ p + i1.left <= n
        /\ i1.left = 0 <=> p = n
        /\ i1.run \in 1 .. Len(s1.runs) + 1
    BY <1>1, <1>a, AtQuadIs
  <2>2. /\ i2.left \in Nat /\ p + i2.left <= n
        /\ i2.left = 0 <=> p = n
        /\ i2.run \in 1 .. Len(s2.runs) + 1
    BY <1>1, <1>b, AtQuadIs
  <2>3. QED BY <2>1, <2>2
<1>d. PICK d : d = Stretch(its)
  OBVIOUS
<1>3. d = IF i1.left < i2.left THEN i1.left ELSE i2.left
  BY <1>a, <1>b, <1>d DEF Stretch
<1>4. /\ d \in Nat /\ p + d <= n /\ d <= i1.left /\ d <= i2.left
      /\ d = i1.left \/ d = i2.left
  BY <1>2, <1>3
<1>5. CASE d = 0
  <2>1. NextStretch(s1, s2, its) = its
    BY <1>5, <1>d DEF NextStretch
  <2>2. p = n /\ p + d = p
    BY <1>2, <1>n, <1>3, <1>5
  <2>3. QED BY <1>2, <1>4, <1>a, <1>b, <1>d, <2>1, <2>2
<1>6. CASE d # 0
  <2>x. PICK j1 : j1 = Advance(s1, i1, d)
    OBVIOUS
  <2>y. PICK j2 : j2 = Advance(s2, i2, d)
    OBVIOUS
  <2>1. NextStretch(s1, s2, its) = <<j1, j2>>
    BY <1>6, <1>a, <1>b, <1>d, <2>x, <2>y DEF NextStretch
  <2>2. d \in 1 .. i1.left /\ d \in 1 .. i2.left
    BY <1>2, <1>4, <1>6
  <2>3. /\ AtQuad(s1, j1, p + d)
        /\ d = i1.left => j1.run = i1.run + 1
        /\ d # i1.left => j1.run = i1.run
    BY <1>1, <1>a, <2>2, <2>x, AdvanceAt
  <2>4. /\ AtQuad(s2, j2, p + d)
        /\ d = i2.left => j2.run = i2.run + 1
        /\ d # i2.left => j2.run = i2.run
    BY <1>1, <1>b, <2>2, <2>y, AdvanceAt
  <2>5. j1.run + j2.run > i1.run + i2.run
    BY <1>2, <1>4, <2>3, <2>4
  <2>6. BothAt(s1, s2, <<j1, j2>>, p + d)
    BY <2>3, <2>4 DEF BothAt
  <2>7. <<j1, j2>>[1].run + <<j1, j2>>[2].run > i1.run + i2.run
    BY <2>5
  <2>8. QED BY <1>2, <1>4, <1>6, <1>a, <1>b, <1>d, <2>1, <2>6, <2>7
<1>7. QED BY <1>5, <1>6

\* The stretches of a walk follow each other, up to the last quad.
LEMMA WalkPlaces ==
  ASSUME NEW s1, NEW q1, NEW s2, NEW q2, NEW n, Holds(s1, q1, n), Holds(s2, q2, n), n # 0,
         NEW m \in Nat, StretchesOf(s1, s2, m)
  PROVE  \E walk, place :
           /\ walk = Walk(s1, s2) /\ DOMAIN walk = 0 .. m
           /\ place[0] = 0 /\ place[m] = n
           /\ \A k \in 0 .. m : /\ place[k] \in 0 .. n
                                /\ BothAt(s1, s2, walk[k], place[k])
                                /\ Stretch(walk[k]) \in Nat
                                /\ place[k] + Stretch(walk[k]) <= n
                                /\ Stretch(walk[k]) <= walk[k][1].left
                                /\ Stretch(walk[k]) <= walk[k][2].left
           /\ \A k \in 0 .. m - 1 : place[k + 1] = place[k] + Stretch(walk[k])
<1>1. PICK walk : /\ walk = Walk(s1, s2) /\ DOMAIN walk = 0 .. m
                  /\ walk[0] = <<QuadBegin(s1), QuadBegin(s2)>>
                  /\ \A k \in 1 .. m : walk[k] = NextStretch(s1, s2, walk[k - 1])
  BY WalkUnfolds
<1>l. /\ Len(s1.runs) \in Nat /\ Len(s2.runs) \in Nat /\ n \in Nat
  BY DEF Holds, Objects
<1> DEFINE Run12(k) == walk[k][1].run + walk[k][2].run
           good == {k \in 0 .. m : \E p : /\ BothAt(s1, s2, walk[k], p)
                                          /\ p = n \/ Run12(k) >= k + 2}
<1>2. 0 \in good
  <2>1. BothAt(s1, s2, <<QuadBegin(s1), QuadBegin(s2)>>, 0)
    BY AtBegin DEF BothAt
  <2>2. QuadBegin(s1).run = 1 /\ QuadBegin(s2).run = 1
    BY DEF QuadBegin
  <2>3. Run12(0) >= 0 + 2
    BY <1>1, <2>2
  <2>4. QED BY <1>1, <2>1, <2>3
<1>3. ASSUME NEW k \in 0 .. m - 1, k \in good PROVE k + 1 \in good
  <2>1. PICK p : BothAt(s1, s2, walk[k], p) /\ (p = n \/ Run12(k) >= k + 2)
    BY <1>3
  <2>2. walk[k + 1] = NextStretch(s1, s2, walk[k])
    <3>1. k + 1 \in 1 .. m /\ k + 1 - 1 = k
      OBVIOUS
    <3>2. QED BY <1>1, <3>1
  <2>i. PICK its : its = walk[k]
    OBVIOUS
  <2>j. PICK nxt : nxt = walk[k + 1]
    OBVIOUS
  <2>3. /\ Stretch(its) \in Nat /\ p \in 0 .. n /\ p + Stretch(its) <= n
        /\ BothAt(s1, s2, nxt, p + Stretch(its))
        /\ its[1].run \in Nat /\ its[2].run \in Nat
        /\ p # n => nxt[1].run + nxt[2].run > its[1].run + its[2].run
    <3>1. BothAt(s1, s2, its, p) /\ nxt = NextStretch(s1, s2, its)
      BY <2>1, <2>2, <2>i, <2>j
    <3>2. /\ Stretch(its) \in Nat /\ p \in 0 .. n /\ p + Stretch(its) <= n
          /\ BothAt(s1, s2, nxt, p + Stretch(its))
          /\ its[1].run \in Nat /\ its[2].run \in Nat
      BY <3>1, NextStretchAt, Zenon
    <3>3. p # n => nxt[1].run + nxt[2].run > its[1].run + its[2].run
      BY <3>1, NextStretchAt, Zenon
    <3>4. QED BY <3>2, <3>3
  <2>4. BothAt(s1, s2, nxt, p + Stretch(its))
    BY <2>3
  <2>5. p = n => p + Stretch(its) = n
    BY <1>l, <2>3
  <2>6. nxt[1].run \in Nat /\ nxt[2].run \in Nat
    BY <2>3, NextStretchAt
  <2>7. p # n => Run12(k + 1) >= (k + 1) + 2
    <3>1. p # n => its[1].run + its[2].run >= k + 2
      BY <2>1, <2>i
    <3>2. p # n => nxt[1].run + nxt[2].run >= (k + 1) + 2
      BY <2>3, <2>6, <3>1
    <3>3. QED BY <2>j, <3>2
  <2>8. k + 1 \in 0 .. m
    OBVIOUS
  <2>9. QED BY <2>4, <2>5, <2>7, <2>8, <2>j
<1>4. \A k \in 0 .. m : k \in good
  <2>1. \A k \in 0 .. m - 1 : k \in good => k + 1 \in good
    BY <1>3
  <2> HIDE DEF good
  <2>2. QED BY <1>2, <2>1, UpToNumber
<1> DEFINE place == [k \in 0 .. m |-> PlaceAt(s1, walk[k][1])]
<1>5. ASSUME NEW k \in 0 .. m
      PROVE  BothAt(s1, s2, walk[k], place[k]) /\ (place[k] = n \/ Run12(k) >= k + 2)
  <2>1. PICK p : BothAt(s1, s2, walk[k], p) /\ (p = n \/ Run12(k) >= k + 2)
    BY <1>4
  <2>2. p = PlaceAt(s1, walk[k][1])
    BY <2>1, PlaceIs DEF BothAt
  <2>3. p = place[k]
    BY <2>2
  <2>4. QED BY <2>1, <2>3
<1>6. ASSUME NEW k \in 0 .. m
      PROVE  /\ place[k] \in 0 .. n
             /\ Stretch(walk[k]) \in Nat
             /\ place[k] + Stretch(walk[k]) <= n
             /\ Stretch(walk[k]) <= walk[k][1].left
             /\ Stretch(walk[k]) <= walk[k][2].left
             /\ BothAt(s1, s2, NextStretch(s1, s2, walk[k]), place[k] + Stretch(walk[k]))
  <2> HIDE DEF place
  <2>1. QED BY <1>5, NextStretchAt
<1>7. place[0] = 0
  <2>1. BothAt(s1, s2, walk[0], 0)
    BY <1>1, AtBegin DEF BothAt
  <2>2. 0 = PlaceAt(s1, walk[0][1])
    BY <2>1, PlaceIs DEF BothAt
  <2>3. QED BY <2>2
<1>8. ASSUME NEW k \in 0 .. m - 1 PROVE place[k + 1] = place[k] + Stretch(walk[k])
  <2>1. k + 1 \in 1 .. m /\ k + 1 - 1 = k /\ k + 1 \in 0 .. m /\ k \in 0 .. m
    OBVIOUS
  <2>2. walk[k + 1] = NextStretch(s1, s2, walk[k])
    BY <1>1, <2>1
  <2>3. BothAt(s1, s2, walk[k + 1], place[k] + Stretch(walk[k]))
    BY <1>6, <2>1, <2>2
  <2>4. place[k] + Stretch(walk[k]) = PlaceAt(s1, walk[k + 1][1])
    BY <2>3, PlaceIs DEF BothAt
  <2>5. QED BY <2>1, <2>4
<1>9. place[m] = n
  <2>1. m \in 0 .. m
    OBVIOUS
  <2>2. AtQuad(s1, walk[m][1], place[m]) /\ AtQuad(s2, walk[m][2], place[m])
        /\ (place[m] = n \/ Run12(m) >= m + 2)
    BY <1>5, <2>1 DEF BothAt
  <2> HIDE DEF place
  <2>a. PICK i1 : i1 = walk[m][1]
    OBVIOUS
  <2>b. PICK i2 : i2 = walk[m][2]
    OBVIOUS
  <2>c. PICK L1 \in Nat : L1 = Len(s1.runs)
    BY <1>l
  <2>d. PICK L2 \in Nat : L2 = Len(s2.runs)
    BY <1>l
  <2>3. i1.run \in 1 .. L1 + 1 /\ (i1.left = 0 <=> i1.run = L1 + 1)
        /\ (i1.left = 0 <=> place[m] = n)
    BY <2>2, <2>a, <2>c, AtQuadIs
  <2>4. i2.run \in 1 .. L2 + 1 /\ (i2.left = 0 <=> i2.run = L2 + 1)
    BY <2>2, <2>b, <2>d, AtQuadIs
  <2>5. place[m] = n \/ i1.run + i2.run >= m + 2
    BY <2>2, <2>a, <2>b
  <2>6. m = L1 + L2
    BY <2>c, <2>d DEF StretchesOf
  <2>7. QED BY <2>3, <2>4, <2>5, <2>6
<1> HIDE DEF place
<1>10. QED BY <1>1, <1>5, <1>6, <1>7, <1>8, <1>9

-----------------------------------------------------------------------------
(* What the operators build along a walk.                                  *)

\* What the operators append for two quads, with the types decided first.
LEMMA ResultIs ==
  ASSUME NEW op \in Operators, NEW t1 \in RunTypes, NEW t2 \in RunTypes,
         NEW x \in SUBSET Bits, NEW y \in SUBSET Bits,
         t1 = "Full" => x = Bits, t1 = "Empty" => x = {},
         t2 = "Full" => y = Bits, t2 = "Empty" => y = {}
  PROVE  /\ Result(op, t1, x, t2, y) = Reference(op, x, y)
         /\ Reference(op, x, y) \in SUBSET Bits
<1>1. CASE op = "and"
  <2>1. Reference(op, x, y) = x \cap y
    BY <1>1 DEF Reference
  <2>2. Result(op, t1, x, t2, y) =
          IF t1 = "Empty" \/ t2 = "Empty" THEN {}
          ELSE IF t1 = "Full" THEN y ELSE IF t2 = "Full" THEN x ELSE x \cap y
    BY <1>1 DEF Result
  <2>3. QED BY <2>1, <2>2
<1>2. CASE op = "or"
  <2>1. Reference(op, x, y) = x \cup y
    BY <1>2 DEF Reference
  <2>2. Result(op, t1, x, t2, y) =
          IF t1 = "Full" \/ t2 = "Full" THEN Bits
          ELSE IF t1 = "Empty" THEN y ELSE IF t2 = "Empty" THEN x ELSE x \cup y
    BY <1>2 DEF Result
  <2>3. QED BY <2>1, <2>2
<1>3. CASE op = "minus"
  <2>1. Reference(op, x, y) = x \ y
    BY <1>3 DEF Reference
  <2>2. Result(op, t1, x, t2, y) =
          IF t1 = "Empty" \/ t2 = "Full" THEN {}
          ELSE IF t1 = "Full" THEN Bits \ y ELSE IF t2 = "Empty" THEN x ELSE x \ y
    BY <1>3 DEF Result
  <2>3. QED BY <2>1, <2>2
<1>4. CASE op = "xor"
  <2>1. Reference(op, x, y) = (x \cup y) \ (x \cap y)
    BY <1>4 DEF Reference
  <2>2. Result(op, t1, x, t2, y) =
         IF t1 # "Mixed" /\ t2 # "Mixed" THEN IF t1 = t2 THEN {} ELSE Bits
         ELSE IF t1 = "Empty" THEN y ELSE IF t2 = "Empty" THEN x
         ELSE IF t1 = "Full" THEN Bits \ y ELSE IF t2 = "Full" THEN Bits \ x
         ELSE (x \cup y) \ (x \cap y)
    BY <1>4 DEF Result
  <2>3. QED BY <2>1, <2>2 DEF RunTypes
<1>5. QED BY <1>1, <1>2, <1>3, <1>4 DEF Operators

\* The quads of the result are the results of the quads.
LEMMA ReferenceQuads ==
  ASSUME NEW op \in Operators, NEW m1, NEW m2, NEW i \in 0 .. QuadCount - 1
  PROVE  /\ QuadsOf(Reference(op, m1, m2))[i] = Reference(op, QuadsOf(m1)[i], QuadsOf(m2)[i])
         /\ Reference(op, m1, m2) \subseteq m1 \cup m2
<1> DEFINE m == Reference(op, m1, m2)
<1>1. QuadsOf(m)[i] = {b \in Bits : QuadBits * i + b \in m}
  BY QuadsOfTyped
<1>2. QuadsOf(m1)[i] = {b \in Bits : QuadBits * i + b \in m1}
  BY QuadsOfTyped
<1>3. QuadsOf(m2)[i] = {b \in Bits : QuadBits * i + b \in m2}
  BY QuadsOfTyped
<1>x. PICK x : x = {b \in Bits : QuadBits * i + b \in m1}
  OBVIOUS
<1>y. PICK y : y = {b \in Bits : QuadBits * i + b \in m2}
  OBVIOUS
<1>z. PICK z : z = {b \in Bits : QuadBits * i + b \in m}
  OBVIOUS
<1>4. CASE op = "and"
  <2>1. m = m1 \cap m2 /\ Reference(op, x, y) = x \cap y
    BY <1>4 DEF Reference
  <2> HIDE DEF m
  <2>2. z = x \cap y
    BY <1>x, <1>y, <1>z, <2>1
  <2>3. QED BY <1>1, <1>2, <1>3, <1>x, <1>y, <1>z, <2>1, <2>2 DEF m
<1>5. CASE op = "or"
  <2>1. m = m1 \cup m2 /\ Reference(op, x, y) = x \cup y
    BY <1>5 DEF Reference
  <2> HIDE DEF m
  <2>2. z = x \cup y
    BY <1>x, <1>y, <1>z, <2>1
  <2>3. QED BY <1>1, <1>2, <1>3, <1>x, <1>y, <1>z, <2>1, <2>2 DEF m
<1>6. CASE op = "minus"
  <2>1. m = m1 \ m2 /\ Reference(op, x, y) = x \ y
    BY <1>6 DEF Reference
  <2> HIDE DEF m
  <2>2. z = x \ y
    BY <1>x, <1>y, <1>z, <2>1
  <2>3. QED BY <1>1, <1>2, <1>3, <1>x, <1>y, <1>z, <2>1, <2>2 DEF m
<1>7. CASE op = "xor"
  <2>1. m = (m1 \cup m2) \ (m1 \cap m2) /\ Reference(op, x, y) = (x \cup y) \ (x \cap y)
    BY <1>7 DEF Reference
  <2> HIDE DEF m
  <2>2. z = (x \cup y) \ (x \cap y)
    BY <1>x, <1>y, <1>z, <2>1
  <2>3. QED BY <1>1, <1>2, <1>3, <1>x, <1>y, <1>z, <2>1, <2>2 DEF m
<1>8. QED BY <1>4, <1>5, <1>6, <1>7 DEF Operators

\* Two quads behind the iterators, and what their runs' types say of them.
LEMMA StretchQuads ==
  ASSUME NEW s1, NEW q1, NEW s2, NEW q2, NEW n, Holds(s1, q1, n), Holds(s2, q2, n),
         NEW its, NEW p, BothAt(s1, s2, its, p), NEW j \in 0 .. Stretch(its) - 1
  PROVE  /\ p + j \in 0 .. n - 1
         /\ its[1].type \in RunTypes /\ its[2].type \in RunTypes
         /\ QuadBehind(s1, its[1], j) = q1[p + j] /\ q1[p + j] \in SUBSET Bits
         /\ QuadBehind(s2, its[2], j) = q2[p + j] /\ q2[p + j] \in SUBSET Bits
         /\ its[1].type = "Full" => q1[p + j] = Bits
         /\ its[1].type = "Empty" => q1[p + j] = {}
         /\ its[2].type = "Full" => q2[p + j] = Bits
         /\ its[2].type = "Empty" => q2[p + j] = {}
<1>a. PICK i1 : i1 = its[1]
  OBVIOUS
<1>b. PICK i2 : i2 = its[2]
  OBVIOUS
<1>1. AtQuad(s1, i1, p) /\ AtQuad(s2, i2, p)
  BY <1>a, <1>b DEF BothAt
<1>2. Stretch(its) \in Nat /\ Stretch(its) <= i1.left /\ Stretch(its) <= i2.left
      /\ i1.left \in Nat /\ i2.left \in Nat
  <2>1. Stretch(its) \in Nat /\ Stretch(its) <= i1.left /\ Stretch(its) <= i2.left
    BY <1>a, <1>b, NextStretchAt
  <2>2. i1.left \in Nat
    BY <1>1, AtQuadIs
  <2>3. i2.left \in Nat
    BY <1>1, AtQuadIs
  <2>4. QED BY <2>1, <2>2, <2>3
<1>3. j \in 0 .. i1.left - 1 /\ j \in 0 .. i2.left - 1
  BY <1>2
<1>4. /\ p + j \in 0 .. n - 1 /\ i1.type \in RunTypes
      /\ QuadBehind(s1, i1, j) = q1[p + j]
      /\ i1.type = "Full" => q1[p + j] = Bits
      /\ i1.type = "Empty" => q1[p + j] = {}
  BY <1>1, <1>3, AtQuadIs
<1>5. /\ i2.type \in RunTypes
      /\ QuadBehind(s2, i2, j) = q2[p + j]
      /\ i2.type = "Full" => q2[p + j] = Bits
      /\ i2.type = "Empty" => q2[p + j] = {}
  BY <1>1, <1>3, AtQuadIs
<1>6. q1 \in [0 .. n - 1 -> SUBSET Bits] /\ q2 \in [0 .. n - 1 -> SUBSET Bits]
  BY DEF Holds
<1>7. q1[p + j] \in SUBSET Bits /\ q2[p + j] \in SUBSET Bits
  BY <1>4, <1>6
<1>8. QED BY <1>4, <1>5, <1>7, <1>a, <1>b

WalkOf(walk, s1, s2) == walk = Walk(s1, s2)

\* An operator on two sets, stretch by stretch.
LEMMA CombineUnfolds ==
  ASSUME NEW op, NEW s1, NEW s2, NEW walk, WalkOf(walk, s1, s2), NEW m \in Nat
  PROVE  StretchesOf(s1, s2, m) =>
           \E f : /\ f[m] = Combine(op, s1, s2)
                 /\ f[0] = Object(<<>>, <<>>)
                 /\ \A n \in 1 .. m : f[n] = AppendQuads(f[n - 1], ResultQuads(op, s1, s2, walk[n - 1]))
<1> DEFINE Body(g, n) == IF n = 0 THEN Object(<<>>, <<>>) ELSE AppendQuads(g[n - 1], ResultQuads(op, s1, s2, walk[n - 1]))
           good == {k \in 0 .. m : \E g : g = [n \in 0 .. k |-> Body(g, n)]}
<1>1. 0 \in good
  <2> DEFINE g == [n \in 0 .. 0 |-> Object(<<>>, <<>>)]
  <2>1. g = [n \in 0 .. 0 |-> Body(g, n)]
    OBVIOUS
  <2> HIDE DEF g, Body
  <2>2. QED BY <2>1
<1>2. ASSUME NEW k \in 0 .. m - 1, k \in good PROVE k + 1 \in good
  <2>1. PICK g : g = [n \in 0 .. k |-> Body(g, n)]
    BY <1>2
  <2> DEFINE h == [n \in 0 .. k + 1 |-> IF n = k + 1 THEN Body(g, n) ELSE g[n]]
  <2>2. ASSUME NEW n \in 0 .. k + 1 PROVE h[n] = Body(h, n)
    <3>1. CASE n = k + 1
      <4>1. n # 0 /\ n - 1 = k /\ k \in 0 .. k + 1 /\ k # k + 1
        BY <3>1
      <4>2. h[k] = g[k] /\ h[n] = Body(g, n)
        BY <3>1, <4>1
      <4>3. QED BY <4>1, <4>2
    <3>2. CASE n # k + 1
      <4>1. n \in 0 .. k /\ h[n] = g[n]
        BY <3>2
      <4>2. n # 0 => n - 1 \in 0 .. k /\ n - 1 \in 0 .. k + 1 /\ n - 1 # k + 1
        BY <3>2
      <4>3. n # 0 => h[n - 1] = g[n - 1]
        BY <4>2
      <4>4. g[n] = Body(g, n)
        BY <2>1, <4>1
      <4>5. QED BY <4>1, <4>3, <4>4
    <3>3. QED BY <3>1, <3>2
  <2>3. h = [n \in 0 .. k + 1 |-> h[n]]
    OBVIOUS
  <2> HIDE DEF h
  <2>4. h = [n \in 0 .. k + 1 |-> Body(h, n)]
    <3> HIDE DEF Body
    <3>1. QED BY <2>2, <2>3
  <2>5. k + 1 \in 0 .. m
    OBVIOUS
  <2>6. QED BY <2>4, <2>5
<1>3. m \in good
  <2>1. \A k \in 0 .. m - 1 : k \in good => k + 1 \in good
    BY <1>2
  <2> HIDE DEF good
  <2>2. \A k \in 0 .. m : k \in good
    BY <1>1, <2>1, UpToNumber
  <2>3. QED BY <2>2
<1> DEFINE f == CHOOSE g : g = [n \in 0 .. m |-> Body(g, n)]
<1>4. f = [n \in 0 .. m |-> Body(f, n)]
  BY <1>3
<1>5. StretchesOf(s1, s2, m) => f[m] = Combine(op, s1, s2)
  BY DEF Combine, StretchesOf, WalkOf
<1> HIDE DEF f
<1>6. \A n \in 0 .. m : f[n] = Body(f, n)
  <2> HIDE DEF Body
  <2>1. QED BY <1>4
<1>7. f[0] = Object(<<>>, <<>>)
  BY <1>6
<1>8. \A n \in 1 .. m : f[n] = AppendQuads(f[n - 1], ResultQuads(op, s1, s2, walk[n - 1]))
  BY <1>6
<1>9. QED BY <1>5, <1>7, <1>8

\* No runs hold no quads.
LEMMA NothingShown ==
  ASSUME NEW Q
  PROVE  Shown(Object(<<>>, <<>>), Q, 0, 0)
<1>1. \A i \in 0 .. 0 + 0 - 1 : Q[i] = IF "Empty" = "Full" THEN Bits ELSE {}
  OBVIOUS
<1>2. Shown(Uniform("Empty", 0), Q, 0, 0 + 0)
  BY <1>1, ShownUniform
<1>3. Uniform("Empty", 0) = Object(<<>>, <<>>)
  BY DEF Uniform, Piece
<1>4. 0 + 0 = 0
  OBVIOUS
<1>5. QED BY <1>2, <1>3, <1>4

\* An operator on two sets builds the set that it is named for.
LEMMA CombineRepresents ==
  ASSUME NEW op \in Operators, NEW s1, NEW m1, Represents(s1, m1),
         NEW s2, NEW m2, Represents(s2, m2)
  PROVE  Represents(Combine(op, s1, s2), Reference(op, m1, m2))
<1> DEFINE Q1 == QuadsOf(m1)
           Q2 == QuadsOf(m2)
           P == QuadsOf(Reference(op, m1, m2))
<1>n. PICK n \in Nat \ {0} : n = QuadCount
  BY SizeAssumption
<1>1. Holds(s1, Q1, n) /\ Holds(s2, Q2, n) /\ m1 \subseteq CodePoints /\ m2 \subseteq CodePoints
  BY <1>n, RepresentsHolds DEF Represents
<1>2. \A i \in 0 .. n - 1 : P[i] = Reference(op, Q1[i], Q2[i])
  BY <1>n, ReferenceQuads
<1>3. Reference(op, m1, m2) \subseteq CodePoints
  <2>1. 0 \in 0 .. n - 1
    OBVIOUS
  <2>2. Reference(op, m1, m2) \subseteq m1 \cup m2
    BY <1>n, <2>1, ReferenceQuads
  <2>3. QED BY <1>1, <2>2
<1> HIDE DEF Q1, Q2, P
<1>m. PICK m \in Nat : StretchesOf(s1, s2, m)
  <2>1. Len(s1.runs) \in Nat /\ Len(s2.runs) \in Nat
    BY <1>1 DEF Holds, Objects
  <2>2. PICK a, b \in Nat : a = Len(s1.runs) /\ b = Len(s2.runs)
    BY <2>1
  <2>3. a + b \in Nat /\ StretchesOf(s1, s2, a + b)
    <3>1. a + b \in Nat
      OBVIOUS
    <3>2. StretchesOf(s1, s2, a + b)
      BY <2>2, Zenon DEF StretchesOf
    <3>3. QED BY <3>1, <3>2
  <2>4. QED BY <2>3
<1>4. PICK walk, place :
           /\ walk = Walk(s1, s2)
           /\ place[0] = 0 /\ place[m] = n
           /\ \A k \in 0 .. m : /\ place[k] \in 0 .. n
                                /\ BothAt(s1, s2, walk[k], place[k])
                                /\ Stretch(walk[k]) \in Nat
           /\ \A k \in 0 .. m - 1 : place[k + 1] = place[k] + Stretch(walk[k])
  <2>1. n # 0
    OBVIOUS
  <2>2. \E walk, place :
           /\ walk = Walk(s1, s2) /\ DOMAIN walk = 0 .. m
           /\ place[0] = 0 /\ place[m] = n
           /\ \A k \in 0 .. m : /\ place[k] \in 0 .. n
                                /\ BothAt(s1, s2, walk[k], place[k])
                                /\ Stretch(walk[k]) \in Nat
                                /\ place[k] + Stretch(walk[k]) <= n
                                /\ Stretch(walk[k]) <= walk[k][1].left
                                /\ Stretch(walk[k]) <= walk[k][2].left
           /\ \A k \in 0 .. m - 1 : place[k + 1] = place[k] + Stretch(walk[k])
    BY <1>1, <1>m, <2>1, WalkPlaces
  <2>3. QED BY <2>2
<1>5. PICK f : /\ f[m] = Combine(op, s1, s2)
               /\ f[0] = Object(<<>>, <<>>)
               /\ \A k \in 1 .. m : f[k] = AppendQuads(f[k - 1], ResultQuads(op, s1, s2, walk[k - 1]))
  <2>1. WalkOf(walk, s1, s2) /\ StretchesOf(s1, s2, m)
    BY <1>4, <1>m DEF WalkOf
  <2>2. QED BY <2>1, CombineUnfolds
<1> DEFINE good == {k \in 0 .. m : Shown(f[k], P, 0, place[k])}
<1>6. 0 \in good
  BY <1>4, <1>5, NothingShown
<1>7. ASSUME NEW k \in 0 .. m - 1, k \in good PROVE k + 1 \in good
  <2>0. k + 1 \in 1 .. m /\ k + 1 - 1 = k /\ k \in 0 .. m /\ k + 1 \in 0 .. m
    OBVIOUS
  <2>i. PICK its : its = walk[k]
    OBVIOUS
  <2>p. PICK p \in 0 .. n : p = place[k]
    BY <1>4, <2>0
  <2>d. PICK d \in Nat : d = Stretch(its)
    BY <1>4, <2>0, <2>i
  <2>1. BothAt(s1, s2, its, p) /\ place[k + 1] = p + d /\ Shown(f[k], P, 0, p)
    BY <1>4, <1>7, <2>0, <2>i, <2>p, <2>d
  <2>q. PICK quads : quads = ResultQuads(op, s1, s2, its)
    OBVIOUS
  <2>2. f[k + 1] = AppendQuads(f[k], quads)
    BY <1>5, <2>0, <2>i, <2>q
  <2>3. quads = [j \in 1 .. d |->
                   Result(op, its[1].type, QuadBehind(s1, its[1], j - 1),
                              its[2].type, QuadBehind(s2, its[2], j - 1))]
    BY <2>d, <2>q DEF ResultQuads
  <2>4. ASSUME NEW j \in 1 .. d
        PROVE  quads[j] \in SUBSET Bits /\ quads[j] = P[p + j - 1]
    <3>k. PICK i \in 0 .. d - 1 : i = j - 1
      OBVIOUS
    <3>1. /\ p + i \in 0 .. n - 1
          /\ its[1].type \in RunTypes /\ its[2].type \in RunTypes
          /\ QuadBehind(s1, its[1], i) = Q1[p + i] /\ Q1[p + i] \in SUBSET Bits
          /\ QuadBehind(s2, its[2], i) = Q2[p + i] /\ Q2[p + i] \in SUBSET Bits
          /\ its[1].type = "Full" => Q1[p + i] = Bits
          /\ its[1].type = "Empty" => Q1[p + i] = {}
          /\ its[2].type = "Full" => Q2[p + i] = Bits
          /\ its[2].type = "Empty" => Q2[p + i] = {}
      BY <1>1, <2>1, <2>d, StretchQuads
    <3>2. quads[j] = Result(op, its[1].type, Q1[p + i], its[2].type, Q2[p + i])
      BY <2>3, <3>k, <3>1
    <3>3. quads[j] = Reference(op, Q1[p + i], Q2[p + i]) /\ quads[j] \in SUBSET Bits
      <4>x. PICK x \in SUBSET Bits : x = Q1[p + i]
        BY <3>1
      <4>y. PICK y \in SUBSET Bits : y = Q2[p + i]
        BY <3>1
      <4>t. PICK t1, t2 \in RunTypes : t1 = its[1].type /\ t2 = its[2].type
        BY <3>1
      <4>1. /\ t1 = "Full" => x = Bits
            /\ t1 = "Empty" => x = {}
            /\ t2 = "Full" => y = Bits
            /\ t2 = "Empty" => y = {}
        BY <3>1, <4>x, <4>y, <4>t
      <4>2. /\ Result(op, t1, x, t2, y) = Reference(op, x, y)
            /\ Reference(op, x, y) \in SUBSET Bits
        BY <4>1, ResultIs
      <4>3. QED BY <3>2, <4>2, <4>x, <4>y, <4>t
    <3>4. p + i = p + j - 1
      BY <3>k
    <3>5. QED BY <1>2, <3>1, <3>3, <3>4
  <2>5. Len(quads) = d
    BY <2>3
  <2>6. \A j \in 1 .. d : quads[j] \in SUBSET Bits /\ quads[j] = P[p + j - 1]
    BY <2>4
  <2>7. Shown(AppendQuads(f[k], quads), P, 0, p + d)
    BY <2>1, <2>5, <2>6, ShownAppended
  <2>8. QED BY <2>0, <2>1, <2>2, <2>7
<1>8. \A k \in 0 .. m : k \in good
  <2>1. \A k \in 0 .. m - 1 : k \in good => k + 1 \in good
    BY <1>7
  <2> HIDE DEF good
  <2>2. QED BY <1>6, <2>1, UpToNumber
<1>9. Shown(Combine(op, s1, s2), P, 0, n)
  <2>1. m \in 0 .. m
    OBVIOUS
  <2>2. Shown(f[m], P, 0, place[m])
    BY <1>8, <2>1
  <2>3. QED BY <1>4, <1>5, <2>2
<1>10. QED BY <1>3, <1>9, <1>n DEF Represents, P

-----------------------------------------------------------------------------
(* The questions about two sets.                                           *)

\* The quads of a Mixed run are Mixed.
LEMMA MixedQuadIn ==
  ASSUME NEW s, NEW q, NEW n, Holds(s, q, n),
         NEW r \in 1 .. Len(s.runs), NEW j \in 0 .. s.runs[r].length - 1,
         s.runs[r].type = "Mixed"
  PROVE  QuadIn(s, r, j) \in MixedQuads
<1>1. /\ MixedBefore(s, r) \in Nat /\ s.runs[r].length \in Nat
      /\ MixedBefore(s, r) + MixedLength(s.runs[r]) <= Len(s.quads)
      /\ s.quads \in Seq(MixedQuads)
  BY RunFits DEF Holds, Objects
<1>b. PICK b \in Nat : b = MixedBefore(s, r)
  BY <1>1
<1>x. PICK x \in Nat : x = s.runs[r].length
  BY <1>1
<1>m. PICK m \in Nat : m = Len(s.quads)
  BY <1>1
<1>2. b + x <= m
  BY <1>1, <1>b, <1>x, <1>m DEF MixedLength
<1>3. b + j + 1 \in 1 .. m
  BY <1>2, <1>x
<1>4. s.quads[b + j + 1] \in MixedQuads
  BY <1>1, <1>3, <1>m
<1>5. QED BY <1>4, <1>b DEF QuadIn, Content

\* Only a quad of a Mixed run is neither empty nor full.
LEMMA MixedBehind ==
  ASSUME NEW s, NEW q, NEW n, Holds(s, q, n), NEW it, NEW p, AtQuad(s, it, p),
         it.type = "Mixed", NEW k \in 0 .. it.left - 1
  PROVE  q[p + k] \in MixedQuads
<1>l. PICK L \in Nat : L = Len(s.runs)
  BY DEF Holds, Objects
<1>1. PICK r \in 1 .. L : \E j \in 0 .. s.runs[r].length - 1 :
             it = OnRun(s, r, j) /\ p = LengthBefore(s, r) + j
  <2>1. it # OffRuns(s)
    BY DEF OffRuns
  <2>2. QED BY <2>1, <1>l DEF AtQuad
<1>2. PICK j \in 0 .. s.runs[r].length - 1 :
             it = OnRun(s, r, j) /\ p = LengthBefore(s, r) + j
  BY <1>1
<1>x. PICK x \in Nat : x = s.runs[r].length
  BY <1>l, RunFits
<1>b. PICK b \in Nat : b = LengthBefore(s, r)
  BY <1>l, RunFits
<1>3. it.left = x - j /\ s.runs[r].type = "Mixed"
  BY <1>2, <1>x DEF OnRun
<1>4. j + k \in 0 .. x - 1 /\ p + k = b + (j + k)
  BY <1>2, <1>3, <1>x, <1>b
<1>5. q[b + (j + k)] = QuadIn(s, r, j + k)
  BY <1>l, <1>4, <1>x, <1>b DEF Holds
<1>6. QuadIn(s, r, j + k) \in MixedQuads
  BY <1>l, <1>3, <1>4, <1>x, MixedQuadIn
<1>7. QED BY <1>4, <1>5, <1>6

\* What the questions ask of two quads.
Asked(question, x, y) == IF question = "intersects" THEN x \cap y # {} ELSE x \ y # {}
Questions == {"intersects", "exceeds"}

\* The early decisions on the types agree with the quads.
LEMMA DecidesIs ==
  ASSUME NEW question \in Questions, NEW t1 \in RunTypes, NEW t2 \in RunTypes,
         NEW x \in SUBSET Bits, NEW y \in SUBSET Bits,
         t1 = "Full" => x = Bits, t1 = "Empty" => x = {}, t1 = "Mixed" => x \in MixedQuads,
         t2 = "Full" => y = Bits, t2 = "Empty" => y = {}, t2 = "Mixed" => y \in MixedQuads
  PROVE  Decides(question, t1, x, t2, y) <=> Asked(question, x, y)
<1>0. Bits # {}
  <2>1. 0 \in Bits
    BY SizeAssumption DEF Bits
  <2>2. QED BY <2>1
<1>x. t1 = "Mixed" => x # {} /\ x # Bits
  BY DEF MixedQuads
<1>y. t2 = "Mixed" => y # {} /\ y # Bits
  BY DEF MixedQuads
<1>1. CASE question = "intersects"
  <2>1. Decides(question, t1, x, t2, y) <=>
          /\ t1 # "Empty" /\ t2 # "Empty"
          /\ t1 = "Full" \/ t2 = "Full" \/ x \cap y # {}
    BY <1>1 DEF Decides
  <2>2. Asked(question, x, y) <=> x \cap y # {}
    BY <1>1 DEF Asked
  <2>3. QED BY <1>0, <1>x, <1>y, <2>1, <2>2 DEF RunTypes
<1>2. CASE question = "exceeds"
  <2>1. Decides(question, t1, x, t2, y) <=>
          /\ t1 # "Empty" /\ t2 # "Full"
          /\ t1 = "Full" \/ t2 = "Empty" \/ x \ y # {}
    BY <1>2 DEF Decides
  <2>2. Asked(question, x, y) <=> x \ y # {}
    BY <1>2 DEF Asked
  <2>3. QED BY <1>0, <1>x, <1>y, <2>1, <2>2 DEF RunTypes
<1>3. QED BY <1>1, <1>2 DEF Questions

\* Every quad lies in a stretch of the walk.
InARow(place, length, m, n) ==
  /\ place[0] = 0 /\ place[m] = n
  /\ \A k \in 0 .. m : place[k] \in Nat /\ length[k] \in Nat
  /\ \A k \in 0 .. m - 1 : place[k + 1] = place[k] + length[k]

\* Each quad is passed in one of the stretches.
LEMMA InSomeStretch ==
  ASSUME NEW m \in Nat, NEW n \in Nat, NEW place, NEW length,
         InARow(place, length, m, n), NEW i \in 0 .. n - 1
  PROVE  \E k \in 0 .. m : \E j \in 0 .. length[k] - 1 : place[k] + j = i
<1> USE DEF InARow
<1> DEFINE S == {k \in 0 .. m : i < place[k]}
<1>1. S \subseteq Nat /\ S # {}
  <2>1. m \in S
    OBVIOUS
  <2>2. QED BY <2>1
<1>2. PICK k \in S : \A h \in S : k <= h
  <2> HIDE DEF S
  <2>1. QED BY <1>1, LeastNumber
<1>3. k \in 0 .. m /\ i < place[k] /\ k # 0
  BY <1>2
<1>4. k - 1 \in 0 .. m - 1 /\ k - 1 \in 0 .. m /\ k - 1 + 1 = k
  BY <1>3
<1>5. k - 1 \notin S
  BY <1>2, <1>3, <1>4
<1>6. place[k - 1] <= i /\ place[k] = place[k - 1] + length[k - 1]
      /\ place[k - 1] \in Nat /\ length[k - 1] \in Nat
  BY <1>4, <1>5
<1>7. i - place[k - 1] \in 0 .. length[k - 1] - 1 /\ place[k - 1] + (i - place[k - 1]) = i
  BY <1>3, <1>6
<1>8. QED BY <1>4, <1>7

\* A walk decides as if each pair of quads had been compared.
LEMMA SomeQuadIs ==
  ASSUME NEW question \in Questions, NEW s1, NEW q1, NEW s2, NEW q2, NEW n \in Nat \ {0},
         Holds(s1, q1, n), Holds(s2, q2, n)
  PROVE  SomeQuad(question, s1, s2) <=> \E i \in 0 .. n - 1 : Asked(question, q1[i], q2[i])
<1>m. PICK m \in Nat : StretchesOf(s1, s2, m)
  <2>1. Len(s1.runs) \in Nat /\ Len(s2.runs) \in Nat
    BY DEF Holds, Objects
  <2>2. PICK a, b \in Nat : a = Len(s1.runs) /\ b = Len(s2.runs)
    BY <2>1
  <2>3. a + b \in Nat
    OBVIOUS
  <2>4. StretchesOf(s1, s2, a + b)
    BY <2>2, Zenon DEF StretchesOf
  <2>5. QED BY <2>3, <2>4
<1>1. PICK walk, place :
           /\ walk = Walk(s1, s2) /\ DOMAIN walk = 0 .. m
           /\ place[0] = 0 /\ place[m] = n
           /\ \A k \in 0 .. m : /\ place[k] \in 0 .. n
                                /\ BothAt(s1, s2, walk[k], place[k])
                                /\ Stretch(walk[k]) \in Nat
                                /\ place[k] + Stretch(walk[k]) <= n
                                /\ Stretch(walk[k]) <= walk[k][1].left
                                /\ Stretch(walk[k]) <= walk[k][2].left
           /\ \A k \in 0 .. m - 1 : place[k + 1] = place[k] + Stretch(walk[k])
  <2>1. n # 0
    OBVIOUS
  <2>2. QED BY <1>m, <2>1, WalkPlaces
<1> DEFINE Decided(its, j) == Decides(question, its[1].type, QuadBehind(s1, its[1], j),
                                      its[2].type, QuadBehind(s2, its[2], j))
<1>2. SomeQuad(question, s1, s2) <=>
        \E k \in 0 .. m : \E j \in 0 .. Stretch(walk[k]) - 1 : Decided(walk[k], j)
  BY <1>1 DEF SomeQuad
<1>3. ASSUME NEW k \in 0 .. m, NEW j \in 0 .. Stretch(walk[k]) - 1
      PROVE  /\ place[k] + j \in 0 .. n - 1
             /\ Decided(walk[k], j) <=> Asked(question, q1[place[k] + j], q2[place[k] + j])
  <2>i. PICK its : its = walk[k]
    OBVIOUS
  <2>p. PICK p \in 0 .. n : p = place[k]
    BY <1>1
  <2>d. PICK d \in Nat : d = Stretch(its)
    BY <1>1, <2>i
  <2>1. BothAt(s1, s2, its, p) /\ j \in 0 .. Stretch(its) - 1
        /\ d <= its[1].left /\ d <= its[2].left
    BY <1>1, <2>i, <2>p, <2>d
  <2>2. /\ p + j \in 0 .. n - 1
        /\ its[1].type \in RunTypes /\ its[2].type \in RunTypes
        /\ QuadBehind(s1, its[1], j) = q1[p + j] /\ q1[p + j] \in SUBSET Bits
        /\ QuadBehind(s2, its[2], j) = q2[p + j] /\ q2[p + j] \in SUBSET Bits
        /\ its[1].type = "Full" => q1[p + j] = Bits
        /\ its[1].type = "Empty" => q1[p + j] = {}
        /\ its[2].type = "Full" => q2[p + j] = Bits
        /\ its[2].type = "Empty" => q2[p + j] = {}
    BY <2>1, StretchQuads
  <2>3. /\ its[1].type = "Mixed" => q1[p + j] \in MixedQuads
        /\ its[2].type = "Mixed" => q2[p + j] \in MixedQuads
    <3>1. AtQuad(s1, its[1], p) /\ AtQuad(s2, its[2], p)
      BY <2>1 DEF BothAt
    <3>2. its[1].left \in Nat
      BY <3>1, AtQuadIs
    <3>3. its[2].left \in Nat
      BY <3>1, AtQuadIs
    <3>4. j \in 0 .. its[1].left - 1 /\ j \in 0 .. its[2].left - 1
      BY <2>1, <2>d, <3>2, <3>3
    <3>5. its[1].type = "Mixed" => q1[p + j] \in MixedQuads
      BY <3>1, <3>4, MixedBehind
    <3>6. its[2].type = "Mixed" => q2[p + j] \in MixedQuads
      BY <3>1, <3>4, MixedBehind
    <3>7. QED BY <3>5, <3>6
  <2>x. PICK x \in SUBSET Bits : x = q1[p + j]
    BY <2>2
  <2>y. PICK y \in SUBSET Bits : y = q2[p + j]
    BY <2>2
  <2>t. PICK t1, t2 \in RunTypes : t1 = its[1].type /\ t2 = its[2].type
    BY <2>2
  <2>4. /\ t1 = "Full" => x = Bits
        /\ t1 = "Empty" => x = {}
        /\ t1 = "Mixed" => x \in MixedQuads
        /\ t2 = "Full" => y = Bits
        /\ t2 = "Empty" => y = {}
        /\ t2 = "Mixed" => y \in MixedQuads
    BY <2>2, <2>3, <2>x, <2>y, <2>t
  <2>5. Decides(question, t1, x, t2, y) <=> Asked(question, x, y)
    BY <2>4, DecidesIs
  <2>6. Decided(its, j) <=> Asked(question, x, y)
    BY <2>2, <2>5, <2>x, <2>y, <2>t
  <2>7. QED BY <2>2, <2>6, <2>i, <2>p, <2>x, <2>y
<1> HIDE DEF Decided
<1>4. ASSUME NEW i \in 0 .. n - 1
      PROVE  \E k \in 0 .. m : \E j \in 0 .. Stretch(walk[k]) - 1 : place[k] + j = i
  <2> DEFINE length == [k \in 0 .. m |-> Stretch(walk[k])]
  <2>1. \A k \in 0 .. m : place[k] \in Nat /\ length[k] \in Nat
    BY <1>1
  <2>2. \A k \in 0 .. m - 1 : place[k + 1] = place[k] + length[k]
    BY <1>1
  <2>3. \A k \in 0 .. m : length[k] = Stretch(walk[k])
    OBVIOUS
  <2> HIDE DEF length
  <2>4. \E k \in 0 .. m : \E j \in 0 .. length[k] - 1 : place[k] + j = i
    <3>1. place[0] = 0 /\ place[m] = n /\ n \in Nat
      BY <1>1
    <3>2. InARow(place, length, m, n)
      BY <2>1, <2>2, <3>1 DEF InARow
    <3>3. QED BY <3>1, <3>2, InSomeStretch
  <2>5. QED BY <2>3, <2>4
<1>5. QED BY <1>2, <1>3, <1>4

\* Code points of sets are bits of their quads.
LEMMA AskedOfSets ==
  ASSUME NEW m1, m1 \subseteq CodePoints, NEW m2, NEW n \in Nat, n = QuadCount
  PROVE  /\ m1 \cap m2 # {} <=>
              \E i \in 0 .. n - 1 : Asked("intersects", QuadsOf(m1)[i], QuadsOf(m2)[i])
         /\ m1 \ m2 # {} <=>
              \E i \in 0 .. n - 1 : Asked("exceeds", QuadsOf(m1)[i], QuadsOf(m2)[i])
<1>1. ASSUME NEW cp \in CodePoints
      PROVE  \E i \in 0 .. n - 1 : \E b \in Bits :
               /\ cp \in m1 <=> b \in QuadsOf(m1)[i]
               /\ cp \in m2 <=> b \in QuadsOf(m2)[i]
  <2>1. cp \div QuadBits \in 0 .. n - 1 /\ cp % QuadBits \in Bits
    BY QuadOfCodePoint
  <2>2. cp \in m1 <=> cp % QuadBits \in QuadsOf(m1)[cp \div QuadBits]
    BY InQuad
  <2>3. cp \in m2 <=> cp % QuadBits \in QuadsOf(m2)[cp \div QuadBits]
    BY InQuad
  <2>4. QED BY <2>1, <2>2, <2>3
<1>2. ASSUME NEW i \in 0 .. n - 1, NEW b, b \in QuadsOf(m1)[i]
      PROVE  \E cp \in m1 : cp \in m2 <=> b \in QuadsOf(m2)[i]
  <2>1. QuadsOf(m1)[i] = {d \in Bits : QuadBits * i + d \in m1}
    BY QuadsOfTyped
  <2>2. QuadsOf(m2)[i] = {d \in Bits : QuadBits * i + d \in m2}
    BY QuadsOfTyped
  <2>c. PICK cp : cp = QuadBits * i + b
    OBVIOUS
  <2>3. b \in Bits /\ cp \in m1
    BY <1>2, <2>1, <2>c
  <2>4. cp \in m2 <=> b \in QuadsOf(m2)[i]
    BY <2>2, <2>3, <2>c
  <2>5. QED BY <2>3, <2>4
<1>3. ASSUME NEW i PROVE Asked("intersects", QuadsOf(m1)[i], QuadsOf(m2)[i])
                           <=> QuadsOf(m1)[i] \cap QuadsOf(m2)[i] # {}
  BY DEF Asked
<1>4. ASSUME NEW i PROVE Asked("exceeds", QuadsOf(m1)[i], QuadsOf(m2)[i])
                           <=> QuadsOf(m1)[i] \ QuadsOf(m2)[i] # {}
  BY DEF Asked
<1>5. ASSUME m1 \cap m2 # {}
      PROVE  \E i \in 0 .. n - 1 : Asked("intersects", QuadsOf(m1)[i], QuadsOf(m2)[i])
  <2>1. PICK cp \in m1 : cp \in m2
    BY <1>5
  <2>2. PICK i \in 0 .. n - 1 : \E b \in Bits : /\ cp \in m1 <=> b \in QuadsOf(m1)[i]
                                                /\ cp \in m2 <=> b \in QuadsOf(m2)[i]
    BY <1>1, <2>1
  <2>3. QuadsOf(m1)[i] \cap QuadsOf(m2)[i] # {}
    BY <2>1, <2>2
  <2>4. QED BY <1>3, <2>3
<1>6. ASSUME m1 \ m2 # {}
      PROVE  \E i \in 0 .. n - 1 : Asked("exceeds", QuadsOf(m1)[i], QuadsOf(m2)[i])
  <2>1. PICK cp \in m1 : cp \notin m2
    BY <1>6
  <2>2. PICK i \in 0 .. n - 1 : \E b \in Bits : /\ cp \in m1 <=> b \in QuadsOf(m1)[i]
                                                /\ cp \in m2 <=> b \in QuadsOf(m2)[i]
    BY <1>1, <2>1
  <2>3. QuadsOf(m1)[i] \ QuadsOf(m2)[i] # {}
    BY <2>1, <2>2
  <2>4. QED BY <1>4, <2>3
<1>7. ASSUME NEW i \in 0 .. n - 1, Asked("intersects", QuadsOf(m1)[i], QuadsOf(m2)[i])
      PROVE  m1 \cap m2 # {}
  <2>1. PICK b \in QuadsOf(m1)[i] : b \in QuadsOf(m2)[i]
    BY <1>3, <1>7
  <2>2. QED BY <1>2, <2>1
<1>8. ASSUME NEW i \in 0 .. n - 1, Asked("exceeds", QuadsOf(m1)[i], QuadsOf(m2)[i])
      PROVE  m1 \ m2 # {}
  <2>1. PICK b \in QuadsOf(m1)[i] : b \notin QuadsOf(m2)[i]
    BY <1>4, <1>8
  <2>2. QED BY <1>2, <2>1
<1>9. QED BY <1>5, <1>6, <1>7, <1>8

\* intersects and subset answer for the sets.
LEMMA QuestionsAnswered ==
  ASSUME NEW s1, NEW m1, Represents(s1, m1), NEW s2, NEW m2, Represents(s2, m2)
  PROVE  /\ intersects(s1, s2) <=> m1 \cap m2 # {}
         /\ subset(s1, s2) <=> m1 \subseteq m2
<1>n. PICK n \in Nat \ {0} : n = QuadCount
  BY SizeAssumption
<1>1. Holds(s1, QuadsOf(m1), n) /\ Holds(s2, QuadsOf(m2), n) /\ m1 \subseteq CodePoints
  BY <1>n, RepresentsHolds DEF Represents
<1>2. SomeQuad("intersects", s1, s2) <=>
        \E i \in 0 .. n - 1 : Asked("intersects", QuadsOf(m1)[i], QuadsOf(m2)[i])
  BY <1>1, SomeQuadIs DEF Questions
<1>3. SomeQuad("exceeds", s1, s2) <=>
        \E i \in 0 .. n - 1 : Asked("exceeds", QuadsOf(m1)[i], QuadsOf(m2)[i])
  BY <1>1, SomeQuadIs DEF Questions
<1>4. n \in Nat
  OBVIOUS
<1>5. SomeQuad("intersects", s1, s2) <=> m1 \cap m2 # {}
  BY <1>n, <1>1, <1>2, <1>4, AskedOfSets
<1>6. SomeQuad("exceeds", s1, s2) <=> m1 \ m2 # {}
  BY <1>n, <1>1, <1>3, <1>4, AskedOfSets
<1>7. m1 \ m2 # {} <=> ~ (m1 \subseteq m2)
  OBVIOUS
<1>8. QED BY <1>5, <1>6, <1>7 DEF intersects, subset

\* insert of a set, also where it finds nothing new.
LEMMA InsertSetRepresents ==
  ASSUME NEW s, NEW m, Represents(s, m), NEW other, NEW mo, Represents(other, mo)
  PROVE  Represents(InsertSetInto(s, other), m \cup mo)
<1>1. CASE subset(other, s)
  <2>1. mo \subseteq m
    BY <1>1, QuestionsAnswered
  <2>2. m \cup mo = m
    BY <2>1
  <2>3. InsertSetInto(s, other) = s
    BY <1>1 DEF InsertSetInto
  <2>4. QED BY <2>2, <2>3
<1>2. CASE ~ subset(other, s)
  <2>1. InsertSetInto(s, other) = Combine("or", s, other)
    BY <1>2 DEF InsertSetInto
  <2>2. Represents(Combine("or", s, other), Reference("or", m, mo))
    BY CombineRepresents DEF Operators
  <2>3. Reference("or", m, mo) = m \cup mo
    BY DEF Reference
  <2>4. QED BY <2>1, <2>2, <2>3
<1>3. QED BY <1>1, <1>2

-----------------------------------------------------------------------------
(* The constructor from a list of intervals.                               *)

ConvertStart == [s |-> Object(<<>>, <<>>), prior |-> 0, mask |-> {}]

\* The constructor from a list, interval by interval.
LEMMA ConvertUnfolds ==
  ASSUME NEW list, NEW m \in Nat
  PROVE  LengthIs(list, m) =>
           \E f : /\ ConvertIntervals(list) = AppendRun(f[m].s, "Empty", QuadCount - f[m].prior)
                 /\ f[0] = ConvertStart
                 /\ \A n \in 1 .. m : f[n] = ConvertInterval(list, f[n - 1], n)
<1> DEFINE Body(g, n) == IF n = 0 THEN ConvertStart ELSE ConvertInterval(list, g[n - 1], n)
           good == {k \in 0 .. m : \E g : g = [n \in 0 .. k |-> Body(g, n)]}
<1>1. 0 \in good
  <2> DEFINE g == [n \in 0 .. 0 |-> ConvertStart]
  <2>1. g = [n \in 0 .. 0 |-> Body(g, n)]
    OBVIOUS
  <2> HIDE DEF g, Body
  <2>2. QED BY <2>1
<1>2. ASSUME NEW k \in 0 .. m - 1, k \in good PROVE k + 1 \in good
  <2>1. PICK g : g = [n \in 0 .. k |-> Body(g, n)]
    BY <1>2
  <2> DEFINE h == [n \in 0 .. k + 1 |-> IF n = k + 1 THEN Body(g, n) ELSE g[n]]
  <2>2. ASSUME NEW n \in 0 .. k + 1 PROVE h[n] = Body(h, n)
    <3>1. CASE n = k + 1
      <4>1. n # 0 /\ n - 1 = k /\ k \in 0 .. k + 1 /\ k # k + 1
        BY <3>1
      <4>2. h[k] = g[k] /\ h[n] = Body(g, n)
        BY <3>1, <4>1
      <4>3. QED BY <4>1, <4>2
    <3>2. CASE n # k + 1
      <4>1. n \in 0 .. k /\ h[n] = g[n]
        BY <3>2
      <4>2. n # 0 => n - 1 \in 0 .. k /\ n - 1 \in 0 .. k + 1 /\ n - 1 # k + 1
        BY <3>2
      <4>3. n # 0 => h[n - 1] = g[n - 1]
        BY <4>2
      <4>4. g[n] = Body(g, n)
        BY <2>1, <4>1
      <4>5. QED BY <4>1, <4>3, <4>4
    <3>3. QED BY <3>1, <3>2
  <2>3. h = [n \in 0 .. k + 1 |-> h[n]]
    OBVIOUS
  <2> HIDE DEF h
  <2>4. h = [n \in 0 .. k + 1 |-> Body(h, n)]
    <3> HIDE DEF Body
    <3>1. QED BY <2>2, <2>3
  <2>5. k + 1 \in 0 .. m
    OBVIOUS
  <2>6. QED BY <2>4, <2>5
<1>3. m \in good
  <2>1. \A k \in 0 .. m - 1 : k \in good => k + 1 \in good
    BY <1>2
  <2> HIDE DEF good
  <2>2. \A k \in 0 .. m : k \in good
    BY <1>1, <2>1, UpToNumber
  <2>3. QED BY <2>2
<1> DEFINE f == CHOOSE g : g = [n \in 0 .. m |-> Body(g, n)]
<1>4. f = [n \in 0 .. m |-> Body(f, n)]
  BY <1>3
<1>5. LengthIs(list, m) => ConvertIntervals(list) = AppendRun(f[m].s, "Empty", QuadCount - f[m].prior)
  BY DEF ConvertIntervals, LengthIs, ConvertStart
<1> HIDE DEF f
<1>6. \A n \in 0 .. m : f[n] = Body(f, n)
  <2> HIDE DEF Body
  <2>1. QED BY <1>4
<1>7. f[0] = ConvertStart
  BY <1>6
<1>8. \A n \in 1 .. m : f[n] = ConvertInterval(list, f[n - 1], n)
  BY <1>6
<1>9. QED BY <1>5, <1>7, <1>8

\* Intervals of code points, in order and apart.
IntervalList(list, m) ==
  /\ \A i \in 1 .. m : /\ list[i][1] \in CodePoints /\ list[i][2] \in CodePoints
                       /\ list[i][1] <= list[i][2]
  /\ \A i \in 1 .. m - 1 : list[i][2] < list[i + 1][1]

\* The code points of the first i intervals.
Covered(list, i) == UNION {list[j][1] .. list[j][2] : j \in 1 .. i}

\* The quads covered by one more interval.
LEMMA CoveredNext ==
  ASSUME NEW list, NEW i \in Nat, NEW k \in 0 .. QuadCount - 1
  PROVE  /\ Covered(list, 0) = {}
         /\ i # 0 => QuadsOf(Covered(list, i))[k]
              = QuadsOf(Covered(list, i - 1))[k] \cup QuadsOf(list[i][1] .. list[i][2])[k]
<1> DEFINE R(j) == list[j][1] .. list[j][2]
<1>0. \A n, cp : cp \in Covered(list, n) <=> \E j \in 1 .. n : cp \in R(j)
  BY DEF Covered
<1> HIDE DEF R
<1>1. Covered(list, 0) = {}
  <2>1. \A j : j \notin 1 .. 0
    OBVIOUS
  <2>2. QED BY <1>0, <2>1
<1>2. i # 0 => Covered(list, i) = Covered(list, i - 1) \cup R(i)
  <2>1. i # 0 => \A j : j \in 1 .. i <=> j \in 1 .. i - 1 \/ j = i
    OBVIOUS
  <2>2. QED BY <1>0, <2>1
<1>3. ASSUME i # 0
      PROVE  QuadsOf(Covered(list, i))[k] = QuadsOf(Covered(list, i - 1))[k] \cup QuadsOf(R(i))[k]
  <2>x. PICK x : x = Covered(list, i - 1)
    OBVIOUS
  <2>y. PICK y : y = R(i)
    OBVIOUS
  <2>z. PICK z : z = Covered(list, i)
    OBVIOUS
  <2>0. z = x \cup y
    BY <1>2, <1>3, <2>x, <2>y, <2>z
  <2>1. QuadsOf(z)[k] = {b \in Bits : QuadBits * k + b \in z}
    BY QuadsOfTyped
  <2>2. QuadsOf(x)[k] = {b \in Bits : QuadBits * k + b \in x}
    BY QuadsOfTyped
  <2>3. QuadsOf(y)[k] = {b \in Bits : QuadBits * k + b \in y}
    BY QuadsOfTyped
  <2>4. QuadsOf(z)[k] = QuadsOf(x)[k] \cup QuadsOf(y)[k]
    BY <2>0, <2>1, <2>2, <2>3
  <2>5. QED BY <2>4, <2>x, <2>y, <2>z
<1>4. QED BY <1>1, <1>3 DEF R

\* Quads up to "prior" are written, the one at "prior" is in the mask.
Converted(acc, P, c) ==
  /\ acc.prior \in 0 .. c
  /\ Shown(acc.s, P, 0, acc.prior)
  /\ \A k \in acc.prior + 1 .. c - 1 : P[k] = {}
  /\ acc.prior < c => acc.mask = P[acc.prior]
  /\ acc.prior = c => acc.mask = {}

\* One more interval from quad x on.
LEMMA ConvertedNext ==
  ASSUME NEW list, NEW m \in Nat, LengthIs(list, m), IntervalList(list, m),
         NEW c \in Nat \ {0}, c = QuadCount,
         NEW i \in 1 .. m, NEW acc, Converted(acc, QuadsOf(Covered(list, i - 1)), c),
         acc.prior <= list[i][1] \div QuadBits,
         acc.prior < list[i][1] \div QuadBits => acc.mask = {},
         NEW new, new = ConvertInterval(list, acc, i)
  PROVE  /\ Converted(new, QuadsOf(Covered(list, i)), c)
         /\ i # m => /\ new.prior <= list[i + 1][1] \div QuadBits
                     /\ new.prior < list[i + 1][1] \div QuadBits => new.mask = {}
         /\ i = m => new.mask = {}
<1> DEFINE O == QuadsOf(Covered(list, i - 1))
           P == QuadsOf(Covered(list, i))
<1>lo. PICK lo \in CodePoints : lo = list[i][1]
  BY DEF IntervalList
<1>hi. PICK hi \in CodePoints : hi = list[i][2] /\ lo <= hi
  BY <1>lo DEF IntervalList
<1> DEFINE R == QuadsOf(lo .. hi)
<1>x. PICK x \in 0 .. c - 1 : x = lo \div QuadBits
  BY QuadOfCodePoint
<1>y. PICK y \in 0 .. c - 1 : y = hi \div QuadBits
  BY QuadOfCodePoint
<1>1. \A k \in 0 .. c - 1 : P[k] = O[k] \cup R[k] /\ P[k] \in SUBSET Bits
  <2>1. i \in Nat /\ i # 0
    OBVIOUS
  <2>2. \A k \in 0 .. c - 1 : P[k] = O[k] \cup R[k]
    BY <1>lo, <1>hi, <2>1, CoveredNext
  <2>3. \A k \in 0 .. c - 1 : P[k] \in SUBSET Bits
    BY QuadsOfTyped
  <2>4. QED BY <2>2, <2>3
<1>2. \A k \in 0 .. c - 1 :
        /\ k < x \/ y < k => R[k] = {}
        /\ x < k /\ k < y => R[k] = Bits
        /\ k = x /\ k < y => R[k] = LoQuad(lo)
        /\ x < k /\ k = y => R[k] = HiQuad(hi)
        /\ k = x /\ k = y => R[k] = LoQuad(lo) \cap HiQuad(hi)
  BY <1>x, <1>y, <1>hi, RangeQuads
<1>3. x <= y
  BY <1>x, <1>y, <1>hi, EndsInQuads
<1>a. PICK prior \in 0 .. c : prior = acc.prior
  BY DEF Converted
<1>4. prior <= x /\ (prior < x => acc.mask = {})
  BY <1>a, <1>lo, <1>x
<1>5. /\ Shown(acc.s, O, 0, prior)
      /\ \A k \in prior + 1 .. c - 1 : O[k] = {}
      /\ prior < c => acc.mask = O[prior]
  BY <1>a DEF Converted
<1> HIDE DEF O, P, R
<1> DEFINE s == AppendRun(acc.s, "Empty", x - prior)
           mask == IF x = y THEN acc.mask \cup (LoQuad(lo) \cap HiQuad(hi)) ELSE HiQuad(hi)
           t == IF x = y THEN s
                ELSE AppendRun(AppendQuad(s, acc.mask \cup LoQuad(lo)), "Full", y - (x + 1))
           open == i < m /\ list[i + 1][1] \div QuadBits = y
<1>6. new = IF open THEN [s |-> t, prior |-> y, mask |-> mask]
            ELSE [s |-> AppendQuad(t, mask), prior |-> y + 1, mask |-> {}]
  <2>1. open <=> i < Len(list) /\ list[i + 1][1] \div QuadBits = y
    BY DEF LengthIs
  <2>2. s = AppendRun(acc.s, "Empty", lo \div QuadBits - acc.prior)
    BY <1>x, <1>a
  <2> HIDE DEF open, s
  <2>3. QED BY <2>1, <2>2, <1>lo, <1>hi, <1>x, <1>y DEF ConvertInterval
\* The quads of the earlier intervals from x on.
<1>7. O[x] = acc.mask /\ \A k \in x + 1 .. c - 1 : O[k] = {}
  <2>1. \A k \in x + 1 .. c - 1 : k \in prior + 1 .. c - 1
    BY <1>4
  <2>2. prior < x => x \in prior + 1 .. c - 1
    OBVIOUS
  <2>3. CASE prior = x
    BY <1>5, <2>1, <2>3
  <2>4. CASE prior # x
    <3>1. prior < x
      BY <1>4, <2>4
    <3>2. O[x] = {} /\ acc.mask = {}
      BY <1>4, <1>5, <2>2, <3>1
    <3>3. QED BY <1>5, <2>1, <3>2
  <2>5. QED BY <2>3, <2>4
<1>8. \A k \in y + 1 .. c - 1 : P[k] = {}
  <2>1. ASSUME NEW k \in y + 1 .. c - 1 PROVE P[k] = {}
    <3>1. k \in 0 .. c - 1 /\ y < k /\ k \in x + 1 .. c - 1
      BY <1>3
    <3>2. R[k] = {} /\ O[k] = {} /\ P[k] = O[k] \cup R[k]
      BY <1>1, <1>2, <1>7, <3>1
    <3>3. QED BY <3>2
  <2>2. QED BY <2>1
<1>9. Shown(s, P, 0, x)
  <2>1. ASSUME NEW k \in 0 .. x - 1 PROVE P[k] = O[k]
    <3>1. k \in 0 .. c - 1 /\ k < x
      OBVIOUS
    <3>2. R[k] = {} /\ P[k] = O[k] \cup R[k]
      BY <1>1, <1>2, <3>1
    <3>3. QED BY <3>2
  <2>2. Shown(acc.s, P, 0, prior)
    <3>1. \A k \in 0 .. prior - 1 : O[k] = P[k]
      BY <2>1, <1>4
    <3>2. QED BY <1>5, <3>1, ShownSame
  <2>n. PICK n \in Nat : n = x - prior /\ prior + n = x
    BY <1>4
  <2>3. \A k \in prior .. prior + n - 1 : P[k] = IF "Empty" = "Full" THEN Bits ELSE {}
    <3>1. ASSUME NEW k \in prior .. prior + n - 1 PROVE P[k] = {}
      <4>1. k \in 0 .. x - 1 /\ prior < x /\ k \in prior .. c - 1
        BY <2>n
      <4>2. O[k] = {}
        <5>1. CASE k = prior
          BY <1>4, <1>5, <4>1, <5>1
        <5>2. CASE k # prior
          <6>1. k \in prior + 1 .. c - 1
            BY <4>1, <5>2
          <6>2. QED BY <1>5, <6>1
        <5>3. QED BY <5>1, <5>2
      <4>3. QED BY <2>1, <4>1, <4>2
    <3>2. QED BY <3>1
  <2>4. Shown(AppendRun(acc.s, "Empty", n), P, 0, prior + n)
    BY <2>2, <2>3, ShownRun
  <2>5. QED BY <2>4, <2>n
<1> HIDE DEF s
<1>10. Shown(t, P, 0, y) /\ mask = P[y]
  <2>1. CASE x = y
    <3>1. P[y] = O[y] \cup (LoQuad(lo) \cap HiQuad(hi))
      BY <1>1, <1>2, <2>1
    <3>2. t = s /\ mask = acc.mask \cup (LoQuad(lo) \cap HiQuad(hi))
      BY <2>1
    <3>3. QED BY <1>7, <1>9, <2>1, <3>1, <3>2
  <2>2. CASE x # y
    <3>0. x < y /\ y \in x + 1 .. c - 1
      BY <1>3, <2>2
    <3>1. P[x] = acc.mask \cup LoQuad(lo) /\ P[x] \in SUBSET Bits
      BY <1>1, <1>2, <1>7, <3>0
    <3>2. P[y] = HiQuad(hi)
      <4>1. y \in 0 .. c - 1 /\ x < y
        BY <3>0
      <4>2. R[y] = HiQuad(hi)
        BY <1>2, <4>1
      <4>3. O[y] = {}
        BY <1>7, <3>0
      <4>4. P[y] = O[y] \cup R[y]
        BY <1>1, <4>1
      <4>5. QED BY <4>2, <4>3, <4>4
    <3>3. Shown(AppendQuad(s, acc.mask \cup LoQuad(lo)), P, 0, x + 1)
      BY <1>9, <3>1, ShownQuad
    <3>n. PICK n \in Nat : n = y - (x + 1) /\ (x + 1) + n = y
      BY <3>0
    <3>4. \A k \in x + 1 .. (x + 1) + n - 1 : P[k] = IF "Full" = "Full" THEN Bits ELSE {}
      <4>1. ASSUME NEW k \in x + 1 .. (x + 1) + n - 1 PROVE P[k] = Bits
        <5>1. k \in 0 .. c - 1 /\ x < k /\ k < y
          BY <3>n
        <5>2. R[k] = Bits /\ P[k] = O[k] \cup R[k] /\ P[k] \in SUBSET Bits
          BY <1>1, <1>2, <5>1
        <5>3. QED BY <5>2
      <4>2. QED BY <4>1
    <3>5. x + 1 \in Nat
      OBVIOUS
    <3>6. Shown(AppendRun(AppendQuad(s, acc.mask \cup LoQuad(lo)), "Full", n), P, 0, (x + 1) + n)
      BY <3>3, <3>4, ShownRun
    <3>7. t = AppendRun(AppendQuad(s, acc.mask \cup LoQuad(lo)), "Full", n)
          /\ mask = HiQuad(hi)
      BY <2>2, <3>n
    <3>8. QED BY <3>2, <3>6, <3>7, <3>n
  <2>3. QED BY <2>1, <2>2
<1> HIDE DEF t, mask
<1>11. CASE open
  <2>1. new.s = t /\ new.prior = y /\ new.mask = mask
    BY <1>6, <1>11
  <2>2. y < c /\ y \in 0 .. c /\ y # c
    OBVIOUS
  <2>3. Converted(new, P, c)
    BY <1>8, <1>10, <2>1, <2>2 DEF Converted
  <2>4. i # m /\ new.prior = list[i + 1][1] \div QuadBits
    BY <1>11, <2>1
  <2>5. new.prior <= list[i + 1][1] \div QuadBits /\ ~ (new.prior < list[i + 1][1] \div QuadBits)
    BY <2>1, <2>4
  <2>6. QED BY <2>3, <2>4, <2>5 DEF P
<1>12. CASE ~ open
  <2>1. new.s = AppendQuad(t, mask) /\ new.prior = y + 1 /\ new.mask = {}
    BY <1>6, <1>12
  <2>2. y + 1 \in 0 .. c /\ \A k \in y + 2 .. c - 1 : k \in y + 1 .. c - 1
    OBVIOUS
  <2>3. P[y] \in SUBSET Bits
    BY <1>1
  <2>4. Shown(AppendQuad(t, mask), P, 0, y + 1)
    BY <1>10, <2>3, ShownQuad
  <2>5. y + 1 < c => P[y + 1] = {}
    BY <1>8
  <2>6. \A k \in (y + 1) + 1 .. c - 1 : P[k] = {}
    BY <1>8
  <2>7. Converted(new, P, c)
    BY <2>1, <2>2, <2>4, <2>5, <2>6 DEF Converted
  <2>8. i # m => y + 1 <= list[i + 1][1] \div QuadBits
    <3>1. SUFFICES ASSUME i # m PROVE y + 1 <= list[i + 1][1] \div QuadBits
      OBVIOUS
    <3>2. i \in 1 .. m - 1 /\ i + 1 \in 1 .. m /\ i < m
      BY <3>1
    <3>3. PICK z \in CodePoints : z = list[i + 1][1] /\ hi < z
      BY <3>2, <1>hi DEF IntervalList
    <3>4. hi <= z
      BY <3>3 DEF CodePoints
    <3>5. y <= z \div QuadBits /\ z \div QuadBits \in 0 .. c - 1
      BY <1>y, <3>4, EndsInQuads
    <3>6. z \div QuadBits # y
      BY <1>12, <3>2, <3>3
    <3>7. QED BY <3>3, <3>5, <3>6
  <2>9. QED BY <2>1, <2>7, <2>8 DEF P
<1>13. QED BY <1>11, <1>12

\* The constructor builds the set of the code points of its intervals.
LEMMA ConvertRepresents ==
  ASSUME NEW list, NEW m \in Nat, LengthIs(list, m), IntervalList(list, m)
  PROVE  Represents(ConvertIntervals(list), Covered(list, m))
<1>c. PICK c \in Nat \ {0} : c = QuadCount
  BY SizeAssumption
<1>1. PICK f : /\ ConvertIntervals(list) = AppendRun(f[m].s, "Empty", QuadCount - f[m].prior)
               /\ f[0] = ConvertStart
               /\ \A n \in 1 .. m : f[n] = ConvertInterval(list, f[n - 1], n)
  BY ConvertUnfolds
<1> DEFINE P(i) == QuadsOf(Covered(list, i))
           Next1(i, acc) == /\ acc.prior <= list[i + 1][1] \div QuadBits
                            /\ acc.prior < list[i + 1][1] \div QuadBits => acc.mask = {}
           good == {i \in 0 .. m : /\ Converted(f[i], P(i), c)
                                   /\ i # m => Next1(i, f[i])
                                   /\ i = m => f[i].mask = {}}
<1>2. 0 \in good
  <2>1. f[0].s = Object(<<>>, <<>>) /\ f[0].prior = 0 /\ f[0].mask = {}
    BY <1>1 DEF ConvertStart
  <2>2. \A k \in 0 .. c - 1 : P(0)[k] = {}
    <3>1. 0 \in 0 .. QuadCount - 1
      BY <1>c
    <3>2. Covered(list, 0) = {}
      BY <3>1, CoveredNext
    <3>3. QED BY <1>c, <3>2, EmptyQuads
  <2>3. Converted(f[0], P(0), c)
    <3> HIDE DEF P
    <3>1. Shown(f[0].s, P(0), 0, f[0].prior)
      BY <2>1, NothingShown
    <3>2. \A k \in 0 + 1 .. c - 1 : P(0)[k] = {}
      BY <2>2
    <3>3. 0 \in 0 .. c /\ 0 # c /\ P(0)[0] = {}
      BY <2>2
    <3>4. QED BY <2>1, <3>1, <3>2, <3>3 DEF Converted
  <2>4. 0 # m => Next1(0, f[0])
    <3>1. SUFFICES ASSUME 0 # m PROVE Next1(0, f[0])
      OBVIOUS
    <3>2. 0 + 1 \in 1 .. m
      BY <3>1
    <3>3. PICK z \in CodePoints : z = list[0 + 1][1]
      BY <3>2 DEF IntervalList
    <3>4. z \div QuadBits \in 0 .. c - 1
      BY <1>c, QuadOfCodePoint
    <3>5. QED BY <2>1, <3>3, <3>4
  <2> HIDE DEF P, Next1
  <2>5. QED BY <2>1, <2>3, <2>4
<1>3. ASSUME NEW i \in 0 .. m - 1, i \in good PROVE i + 1 \in good
  <2>0. i + 1 \in 1 .. m /\ i + 1 - 1 = i /\ i # m /\ i + 1 \in 0 .. m
    OBVIOUS
  <2>a. PICK acc : acc = f[i]
    OBVIOUS
  <2>n. PICK new : new = f[i + 1]
    OBVIOUS
  <2>j. PICK j \in 1 .. m : j = i + 1 /\ j - 1 = i
    BY <2>0
  <2>1. new = ConvertInterval(list, acc, j)
    BY <1>1, <2>a, <2>n, <2>j
  <2>2. Converted(acc, P(i), c) /\ Next1(i, acc)
    <3> HIDE DEF P, Next1
    <3>1. QED BY <1>3, <2>0, <2>a
  <2>3. Converted(acc, QuadsOf(Covered(list, j - 1)), c)
    BY <2>2, <2>j
  <2>4. /\ acc.prior <= list[j][1] \div QuadBits
        /\ acc.prior < list[j][1] \div QuadBits => acc.mask = {}
    BY <2>2, <2>j
  <2>5. /\ Converted(new, QuadsOf(Covered(list, j)), c)
        /\ j # m => /\ new.prior <= list[j + 1][1] \div QuadBits
                    /\ new.prior < list[j + 1][1] \div QuadBits => new.mask = {}
        /\ j = m => new.mask = {}
    BY <1>c, <2>1, <2>3, <2>4, ConvertedNext
  <2>6. /\ Converted(new, P(j), c)
        /\ j # m => Next1(j, new)
        /\ j = m => new.mask = {}
    BY <2>5
  <2> HIDE DEF P, Next1
  <2>7. QED BY <2>0, <2>6, <2>j, <2>n
<1>4. m \in good
  <2>1. \A k \in 0 .. m - 1 : k \in good => k + 1 \in good
    BY <1>3
  <2> HIDE DEF good
  <2>2. \A k \in 0 .. m : k \in good
    BY <1>2, <2>1, UpToNumber
  <2>3. QED BY <2>2
<1>5. Converted(f[m], P(m), c) /\ f[m].mask = {}
  <2> HIDE DEF P, Next1
  <2>1. QED BY <1>4
<1> HIDE DEF P, good
<1>p. PICK prior \in 0 .. c : prior = f[m].prior
  BY <1>5 DEF Converted
<1>6. Shown(f[m].s, P(m), 0, prior)
  BY <1>5, <1>p DEF Converted
<1>7. \A k \in prior .. c - 1 : P(m)[k] = {}
  <2>1. ASSUME NEW k \in prior .. c - 1 PROVE P(m)[k] = {}
    <3>1. CASE k = prior
      BY <1>5, <1>p, <3>1 DEF Converted
    <3>2. CASE k # prior
      <4>1. k \in prior + 1 .. c - 1
        BY <3>2
      <4>2. QED BY <1>5, <1>p, <4>1 DEF Converted
    <3>3. QED BY <3>1, <3>2
  <2>2. QED BY <2>1
<1>n. PICK n \in Nat : n = c - prior /\ prior + n = c
  OBVIOUS
<1>8. \A k \in prior .. prior + n - 1 : P(m)[k] = IF "Empty" = "Full" THEN Bits ELSE {}
  BY <1>7, <1>n
<1>9. Shown(AppendRun(f[m].s, "Empty", n), P(m), 0, prior + n)
  BY <1>6, <1>8, ShownRun
<1>10. Shown(ConvertIntervals(list), P(m), 0, c)
  BY <1>1, <1>9, <1>n, <1>p, <1>c
<1>11. Covered(list, m) \subseteq CodePoints
  <2>1. ASSUME NEW j \in 1 .. m, NEW cp \in list[j][1] .. list[j][2] PROVE cp \in CodePoints
    <3>1. PICK lo \in CodePoints : lo = list[j][1]
      BY DEF IntervalList
    <3>2. PICK hi \in CodePoints : hi = list[j][2]
      BY DEF IntervalList
    <3>3. Limit \in Int
      BY SizeAssumption DEF Limit
    <3>4. QED BY <3>1, <3>2, <3>3 DEF CodePoints
  <2>2. QED BY <2>1 DEF Covered
<1>12. QED BY <1>10, <1>11, <1>c DEF Represents, P

-----------------------------------------------------------------------------
(* The interval lists of a set.                                            *)

IntervalPairs == CodePoints \X CodePoints

\* Intervals of the code points of m below n, with gaps between them if "apart".
Lists(list, m, n, apart) ==
  /\ list \in Seq(IntervalPairs)
  /\ IntervalList(list, Len(list))
  /\ \A j \in 1 .. Len(list) : list[j][2] < n
  /\ \A cp \in CodePoints :
       (cp \in m /\ cp < n) <=> \E j \in 1 .. Len(list) : list[j][1] <= cp /\ cp <= list[j][2]
  /\ apart => \A j \in 1 .. Len(list) - 1 : list[j][2] + 1 < list[j + 1][1]

\* The intervals of a list are pairs of code points in order.
LEMMA ListOf ==
  ASSUME NEW list, NEW m, NEW n, NEW apart, Lists(list, m, n, apart)
  PROVE  /\ Len(list) \in Nat /\ list \in [1 .. Len(list) -> IntervalPairs]
         /\ \A j \in 1 .. Len(list) :
              list[j] = <<list[j][1], list[j][2]>> /\ list[j][1] \in Nat /\ list[j][2] \in Nat
              /\ list[j][1] \in CodePoints /\ list[j][2] \in CodePoints
              /\ list[j][1] <= list[j][2] /\ list[j][2] < n
<1>1. Len(list) \in Nat /\ list \in [1 .. Len(list) -> IntervalPairs]
  BY DEF Lists
<1>2. ASSUME NEW j \in 1 .. Len(list)
      PROVE  list[j] = <<list[j][1], list[j][2]>> /\ list[j][1] \in Nat /\ list[j][2] \in Nat
              /\ list[j][1] \in CodePoints /\ list[j][2] \in CodePoints
              /\ list[j][1] <= list[j][2] /\ list[j][2] < n
  <2>1. list[j] \in CodePoints \X CodePoints
    BY <1>1 DEF IntervalPairs
  <2>2. list[j][1] <= list[j][2] /\ list[j][2] < n
    BY DEF Lists, IntervalList
  <2>3. QED BY <2>1, <2>2 DEF CodePoints
<1>3. QED BY <1>1, <1>2

\* The code point n joins as an interval of its own.
LEMMA IntervalAppended ==
  ASSUME NEW list, NEW m, NEW n \in CodePoints, NEW apart, Lists(list, m, n, apart), n \in m,
         apart => n - 1 \notin m
  PROVE  Lists(Append(list, <<n, n>>), m, n + 1, apart)
<1>l. PICK L \in Nat : L = Len(list)
  BY ListOf
<1>n. n \in Nat
  BY DEF CodePoints
<1>p. PICK new : new = Append(list, <<n, n>>)
  OBVIOUS
<1>1. /\ new \in Seq(IntervalPairs) /\ Len(new) = L + 1
      /\ \A j \in 1 .. L : new[j] = list[j]
      /\ new[L + 1] = <<n, n>>
  <2>1. list \in Seq(IntervalPairs) /\ <<n, n>> \in IntervalPairs
    BY DEF Lists, IntervalPairs
  <2>2. QED BY <2>1, <1>l, <1>p, AppendProperties
<1>2. new[L + 1][1] = n /\ new[L + 1][2] = n
  BY <1>1
<1>3. \A j \in 1 .. L : /\ new[j][1] \in CodePoints /\ new[j][2] \in CodePoints
                        /\ new[j][1] \in Nat /\ new[j][2] \in Nat
                        /\ new[j][1] <= new[j][2] /\ new[j][2] < n
  BY <1>1, <1>l, ListOf
<1>4. \A j \in 1 .. L + 1 : j \in 1 .. L \/ j = L + 1
  OBVIOUS
<1>5. \A j \in 1 .. L + 1 : /\ new[j][1] \in CodePoints /\ new[j][2] \in CodePoints
                            /\ new[j][1] <= new[j][2] /\ new[j][2] < n + 1
  <2>1. \A j \in 1 .. L : new[j][2] < n + 1
    BY <1>n, <1>3
  <2>2. n <= n /\ n < n + 1
    BY <1>n
  <2>3. QED BY <1>2, <1>3, <1>4, <2>1, <2>2
<1>6. ASSUME NEW j \in 1 .. (L + 1) - 1
      PROVE  /\ new[j][2] < new[j + 1][1]
             /\ apart => new[j][2] + 1 < new[j + 1][1]
  <2>1. j \in 1 .. L
    OBVIOUS
  <2>2. CASE j = L
    <3>1. new[j + 1][1] = n /\ new[j][2] < n /\ new[j][2] \in Nat /\ new[j][2] \in CodePoints
      BY <1>2, <1>3, <2>1, <2>2
    <3>2. new[j][2] \in m
      <4>1. list[j][1] <= new[j][2] /\ new[j][2] <= list[j][2]
        BY <1>1, <1>3, <2>1, <3>1
      <4>2. \E i \in 1 .. Len(list) : list[i][1] <= new[j][2] /\ new[j][2] <= list[i][2]
        BY <1>l, <2>1, <4>1
      <4>3. QED BY <3>1, <4>2 DEF Lists
    <3>3. apart => new[j][2] # n - 1
      BY <3>2
    <3>4. QED BY <1>n, <3>1, <3>3
  <2>3. CASE j # L
    <3>1. j \in 1 .. L - 1 /\ j + 1 \in 1 .. L
      BY <2>1, <2>3
    <3>2. list[j][2] < list[j + 1][1] /\ (apart => list[j][2] + 1 < list[j + 1][1])
      BY <1>l, <3>1 DEF Lists, IntervalList
    <3>3. QED BY <1>1, <2>1, <3>1, <3>2
  <2>4. QED BY <2>2, <2>3
<1>7. ASSUME NEW cp \in CodePoints
      PROVE  (cp \in m /\ cp < n + 1)
               <=> \E j \in 1 .. L + 1 : new[j][1] <= cp /\ cp <= new[j][2]
  <2>0. cp \in Nat
    BY DEF CodePoints
  <2>1. (cp \in m /\ cp < n) <=> \E j \in 1 .. L : new[j][1] <= cp /\ cp <= new[j][2]
    BY <1>1, <1>l DEF Lists
  <2>2. cp < n + 1 <=> cp < n \/ cp = n
    BY <1>n, <2>0
  <2>3. (new[L + 1][1] <= cp /\ cp <= new[L + 1][2]) <=> cp = n
    BY <1>n, <1>2, <2>0
  <2>4. L + 1 \in 1 .. L + 1 /\ \A j \in 1 .. L : j \in 1 .. L + 1
    OBVIOUS
  <2>5. QED BY <1>4, <2>1, <2>2, <2>3, <2>4
<1>8. IntervalList(new, L + 1)
  BY <1>5, <1>6 DEF IntervalList
<1>9. QED BY <1>1, <1>5, <1>6, <1>7, <1>8, <1>p DEF Lists

\* The maximal intervals, code point by code point.
LEMMA MaximalUnfolds ==
  ASSUME NEW codePoints, NEW m \in Nat
  PROVE  m = Limit =>
           \E f : /\ MaximalIntervals(codePoints) = f[m]
                 /\ f[0] = <<>>
                 /\ \A n \in 1 .. m : f[n] = ExtendIntervals(f[n - 1], codePoints, n - 1)
<1> DEFINE Body(g, n) == IF n = 0 THEN <<>> ELSE ExtendIntervals(g[n - 1], codePoints, n - 1)
           good == {k \in 0 .. m : \E g : g = [n \in 0 .. k |-> Body(g, n)]}
<1>1. 0 \in good
  <2> DEFINE g == [n \in 0 .. 0 |-> <<>>]
  <2>1. g = [n \in 0 .. 0 |-> Body(g, n)]
    OBVIOUS
  <2> HIDE DEF g, Body
  <2>2. QED BY <2>1
<1>2. ASSUME NEW k \in 0 .. m - 1, k \in good PROVE k + 1 \in good
  <2>1. PICK g : g = [n \in 0 .. k |-> Body(g, n)]
    BY <1>2
  <2> DEFINE h == [n \in 0 .. k + 1 |-> IF n = k + 1 THEN Body(g, n) ELSE g[n]]
  <2>2. ASSUME NEW n \in 0 .. k + 1 PROVE h[n] = Body(h, n)
    <3>1. CASE n = k + 1
      <4>1. n # 0 /\ n - 1 = k /\ k \in 0 .. k + 1 /\ k # k + 1
        BY <3>1
      <4>2. h[k] = g[k] /\ h[n] = Body(g, n)
        BY <3>1, <4>1
      <4>3. QED BY <4>1, <4>2
    <3>2. CASE n # k + 1
      <4>1. n \in 0 .. k /\ h[n] = g[n]
        BY <3>2
      <4>2. n # 0 => n - 1 \in 0 .. k /\ n - 1 \in 0 .. k + 1 /\ n - 1 # k + 1
        BY <3>2
      <4>3. n # 0 => h[n - 1] = g[n - 1]
        BY <4>2
      <4>4. g[n] = Body(g, n)
        BY <2>1, <4>1
      <4>5. QED BY <4>1, <4>3, <4>4
    <3>3. QED BY <3>1, <3>2
  <2>3. h = [n \in 0 .. k + 1 |-> h[n]]
    OBVIOUS
  <2> HIDE DEF h
  <2>4. h = [n \in 0 .. k + 1 |-> Body(h, n)]
    <3> HIDE DEF Body
    <3>1. QED BY <2>2, <2>3
  <2>5. k + 1 \in 0 .. m
    OBVIOUS
  <2>6. QED BY <2>4, <2>5
<1>3. m \in good
  <2>1. \A k \in 0 .. m - 1 : k \in good => k + 1 \in good
    BY <1>2
  <2> HIDE DEF good
  <2>2. \A k \in 0 .. m : k \in good
    BY <1>1, <2>1, UpToNumber
  <2>3. QED BY <2>2
<1> DEFINE f == CHOOSE g : g = [n \in 0 .. m |-> Body(g, n)]
<1>4. f = [n \in 0 .. m |-> Body(f, n)]
  BY <1>3
<1>5. m = Limit => MaximalIntervals(codePoints) = f[m]
  BY DEF MaximalIntervals
<1> HIDE DEF f
<1>6. \A n \in 0 .. m : f[n] = Body(f, n)
  <2> HIDE DEF Body
  <2>1. QED BY <1>4
<1>7. f[0] = <<>>
  BY <1>6
<1>8. \A n \in 1 .. m : f[n] = ExtendIntervals(f[n - 1], codePoints, n - 1)
  BY <1>6
<1>9. QED BY <1>5, <1>7, <1>8

\* The members one by one, code point by code point.
LEMMA SingleUnfolds ==
  ASSUME NEW codePoints, NEW m \in Nat
  PROVE  m = Limit =>
           \E f : /\ SingleIntervals(codePoints) = f[m]
                 /\ f[0] = <<>>
                 /\ \A n \in 1 .. m : f[n] = AppendSingle(f[n - 1], codePoints, n - 1)
<1> DEFINE Body(g, n) == IF n = 0 THEN <<>> ELSE AppendSingle(g[n - 1], codePoints, n - 1)
           good == {k \in 0 .. m : \E g : g = [n \in 0 .. k |-> Body(g, n)]}
<1>1. 0 \in good
  <2> DEFINE g == [n \in 0 .. 0 |-> <<>>]
  <2>1. g = [n \in 0 .. 0 |-> Body(g, n)]
    OBVIOUS
  <2> HIDE DEF g, Body
  <2>2. QED BY <2>1
<1>2. ASSUME NEW k \in 0 .. m - 1, k \in good PROVE k + 1 \in good
  <2>1. PICK g : g = [n \in 0 .. k |-> Body(g, n)]
    BY <1>2
  <2> DEFINE h == [n \in 0 .. k + 1 |-> IF n = k + 1 THEN Body(g, n) ELSE g[n]]
  <2>2. ASSUME NEW n \in 0 .. k + 1 PROVE h[n] = Body(h, n)
    <3>1. CASE n = k + 1
      <4>1. n # 0 /\ n - 1 = k /\ k \in 0 .. k + 1 /\ k # k + 1
        BY <3>1
      <4>2. h[k] = g[k] /\ h[n] = Body(g, n)
        BY <3>1, <4>1
      <4>3. QED BY <4>1, <4>2
    <3>2. CASE n # k + 1
      <4>1. n \in 0 .. k /\ h[n] = g[n]
        BY <3>2
      <4>2. n # 0 => n - 1 \in 0 .. k /\ n - 1 \in 0 .. k + 1 /\ n - 1 # k + 1
        BY <3>2
      <4>3. n # 0 => h[n - 1] = g[n - 1]
        BY <4>2
      <4>4. g[n] = Body(g, n)
        BY <2>1, <4>1
      <4>5. QED BY <4>1, <4>3, <4>4
    <3>3. QED BY <3>1, <3>2
  <2>3. h = [n \in 0 .. k + 1 |-> h[n]]
    OBVIOUS
  <2> HIDE DEF h
  <2>4. h = [n \in 0 .. k + 1 |-> Body(h, n)]
    <3> HIDE DEF Body
    <3>1. QED BY <2>2, <2>3
  <2>5. k + 1 \in 0 .. m
    OBVIOUS
  <2>6. QED BY <2>4, <2>5
<1>3. m \in good
  <2>1. \A k \in 0 .. m - 1 : k \in good => k + 1 \in good
    BY <1>2
  <2> HIDE DEF good
  <2>2. \A k \in 0 .. m : k \in good
    BY <1>1, <2>1, UpToNumber
  <2>3. QED BY <2>2
<1> DEFINE f == CHOOSE g : g = [n \in 0 .. m |-> Body(g, n)]
<1>4. f = [n \in 0 .. m |-> Body(f, n)]
  BY <1>3
<1>5. m = Limit => SingleIntervals(codePoints) = f[m]
  BY DEF SingleIntervals
<1> HIDE DEF f
<1>6. \A n \in 0 .. m : f[n] = Body(f, n)
  <2> HIDE DEF Body
  <2>1. QED BY <1>4
<1>7. f[0] = <<>>
  BY <1>6
<1>8. \A n \in 1 .. m : f[n] = AppendSingle(f[n - 1], codePoints, n - 1)
  BY <1>6
<1>9. QED BY <1>5, <1>7, <1>8

\* The code point n extends the last interval.
LEMMA IntervalExtended ==
  ASSUME NEW list, NEW m, NEW n \in CodePoints, NEW apart, Lists(list, m, n, apart), n \in m,
         n - 1 \in m, m \subseteq CodePoints
  PROVE  Lists([list EXCEPT ![Len(list)] = <<@[1], n>>], m, n + 1, apart)
<1>l. PICK L \in Nat : L = Len(list)
  BY ListOf
<1>n. n \in Nat /\ n - 1 \in Nat /\ n - 1 \in CodePoints
  BY DEF CodePoints
<1>1. \A j \in 1 .. L : /\ list[j] \in IntervalPairs
                        /\ list[j][1] \in CodePoints /\ list[j][2] \in CodePoints
                        /\ list[j][1] \in Nat /\ list[j][2] \in Nat
                        /\ list[j][1] <= list[j][2] /\ list[j][2] < n
  BY <1>l, ListOf
<1>2. \A j \in 1 .. L - 1 : /\ list[j][2] < list[j + 1][1]
                            /\ apart => list[j][2] + 1 < list[j + 1][1]
  BY <1>l DEF Lists, IntervalList
<1>3. L # 0 /\ list[L][2] = n - 1
  <2>1. PICK j \in 1 .. L : list[j][1] <= n - 1 /\ n - 1 <= list[j][2]
    <3>1. n - 1 \in m /\ n - 1 < n
      BY <1>n
    <3>2. \E j \in 1 .. Len(list) : list[j][1] <= n - 1 /\ n - 1 <= list[j][2]
      BY <1>n, <3>1 DEF Lists
    <3>3. QED BY <1>l, <3>2
  <2>2. list[j][2] = n - 1
    BY <1>1, <1>n, <2>1
  <2>3. j = L
    <3>1. SUFFICES ASSUME j # L PROVE FALSE
      OBVIOUS
    <3>2. j \in 1 .. L - 1 /\ j + 1 \in 1 .. L
      BY <3>1
    <3>3. list[j][2] < list[j + 1][1] /\ list[j + 1][1] <= list[j + 1][2] /\ list[j + 1][2] < n
          /\ list[j + 1][1] \in Nat /\ list[j + 1][2] \in Nat
      BY <1>1, <1>2, <3>2
    <3>4. QED BY <1>n, <2>2, <3>3
  <2>4. QED BY <2>1, <2>2, <2>3
<1>a. PICK a \in Nat : a = list[L][1] /\ a \in CodePoints /\ a <= n - 1
  BY <1>1, <1>3
<1>p. PICK new : new = [list EXCEPT ![Len(list)] = <<@[1], n>>]
  OBVIOUS
<1>4. /\ new \in Seq(IntervalPairs) /\ Len(new) = L
      /\ \A j \in 1 .. L : j # L => new[j] = list[j]
      /\ new[L] = <<a, n>>
  <2>1. list \in Seq(IntervalPairs) /\ <<a, n>> \in IntervalPairs /\ L \in 1 .. L
    BY <1>a, <1>3 DEF Lists, IntervalPairs
  <2>2. new = [list EXCEPT ![L] = <<a, n>>]
    BY <1>l, <1>p, <1>a
  <2>3. L \in 1 .. Len(list)
    BY <1>l, <2>1
  <2>4. new \in Seq(IntervalPairs) /\ Len(new) = Len(list)
        /\ \A j \in 1 .. Len(list) : new[j] = IF j = L THEN <<a, n>> ELSE list[j]
    BY <2>1, <2>2, <2>3, ExceptSeq
  <2>5. QED BY <1>l, <2>1, <2>4
<1>5. new[L][1] = a /\ new[L][2] = n
  BY <1>4
<1>6. \A j \in 1 .. L : /\ new[j][1] \in CodePoints /\ new[j][2] \in CodePoints
                        /\ new[j][1] <= new[j][2] /\ new[j][2] < n + 1
                        /\ new[j][1] = list[j][1]
                        /\ j # L => new[j][2] = list[j][2]
  <2>1. SUFFICES ASSUME NEW j \in 1 .. L
                 PROVE  /\ new[j][1] \in CodePoints /\ new[j][2] \in CodePoints
                        /\ new[j][1] <= new[j][2] /\ new[j][2] < n + 1
                        /\ new[j][1] = list[j][1]
                        /\ j # L => new[j][2] = list[j][2]
    OBVIOUS
  <2>2. CASE j = L
    BY <1>5, <1>a, <1>n, <2>2
  <2>3. CASE j # L
    <3>1. new[j] = list[j]
      BY <1>4, <2>3
    <3>2. list[j][2] < n + 1
      BY <1>1, <1>n
    <3>3. QED BY <1>1, <2>3, <3>1, <3>2
  <2>4. QED BY <2>2, <2>3
<1>7. ASSUME NEW j \in 1 .. L - 1
      PROVE  /\ new[j][2] < new[j + 1][1]
             /\ apart => new[j][2] + 1 < new[j + 1][1]
  <2>1. j \in 1 .. L /\ j # L /\ j + 1 \in 1 .. L
    OBVIOUS
  <2>2. new[j][2] = list[j][2] /\ new[j + 1][1] = list[j + 1][1]
    BY <1>6, <2>1
  <2>3. QED BY <1>2, <2>2
<1>8. ASSUME NEW cp \in CodePoints
      PROVE  (cp \in m /\ cp < n + 1) <=> \E j \in 1 .. L : new[j][1] <= cp /\ cp <= new[j][2]
  <2>0. cp \in Nat
    BY DEF CodePoints
  <2>1. (cp \in m /\ cp < n) <=> \E j \in 1 .. L : list[j][1] <= cp /\ cp <= list[j][2]
    BY <1>l DEF Lists
  <2>2. cp < n + 1 <=> cp < n \/ cp = n
    BY <1>n, <2>0
  <2>3. ASSUME NEW j \in 1 .. L
        PROVE  (new[j][1] <= cp /\ cp <= new[j][2])
                 <=> (list[j][1] <= cp /\ cp <= list[j][2]) \/ (j = L /\ cp = n)
    <3>1. CASE j = L
      BY <1>3, <1>5, <1>a, <1>n, <2>0, <3>1
    <3>2. CASE j # L
      BY <1>4, <3>2
    <3>3. QED BY <3>1, <3>2
  <2>4. L \in 1 .. L
    BY <1>3
  <2>5. QED BY <2>1, <2>2, <2>3, <2>4
<1>9. IntervalList(new, L)
  BY <1>6, <1>7 DEF IntervalList
<1>10. \A j \in 1 .. L : new[j][2] < n + 1
  BY <1>6
<1>11. QED BY <1>4, <1>7, <1>8, <1>9, <1>10, <1>p DEF Lists

\* No code point is listed before the first.
LEMMA NothingListed ==
  ASSUME NEW m, NEW apart
  PROVE  Lists(<<>>, m, 0, apart)
<1>1. <<>> \in Seq(IntervalPairs) /\ Len(<<>>) = 0
  OBVIOUS
<1>2. \A cp \in CodePoints : cp \in Nat /\ ~ (cp < 0)
  BY DEF CodePoints
<1>3. (\A j \in 1 .. 0 : FALSE) /\ (\A j \in 1 .. 0 - 1 : FALSE)
  OBVIOUS
<1>4. QED BY <1>1, <1>2, <1>3 DEF Lists, IntervalList

\* A code point outside the set leaves the list as it is.
LEMMA NotListed ==
  ASSUME NEW list, NEW m, NEW n \in CodePoints, NEW apart, Lists(list, m, n, apart), n \notin m
  PROVE  Lists(list, m, n + 1, apart)
<1>n. n \in Nat
  BY DEF CodePoints
<1>1. \A j \in 1 .. Len(list) : list[j][2] < n + 1
  BY <1>n, ListOf
<1>2. \A cp \in CodePoints : (cp \in m /\ cp < n + 1) <=> (cp \in m /\ cp < n)
  BY <1>n DEF CodePoints
<1>3. QED BY <1>1, <1>2 DEF Lists

\* MaximalIntervals lists the set in intervals that are apart.
LEMMA MaximalListed ==
  ASSUME NEW m, m \subseteq CodePoints
  PROVE  Lists(MaximalIntervals(m), m, Limit, TRUE)
<1>n. PICK n \in Nat : n = Limit
  BY SizeAssumption DEF Limit
<1>1. PICK f : /\ MaximalIntervals(m) = f[n]
               /\ f[0] = <<>>
               /\ \A k \in 1 .. n : f[k] = ExtendIntervals(f[k - 1], m, k - 1)
  BY <1>n, MaximalUnfolds
<1> DEFINE good == {k \in 0 .. n : Lists(f[k], m, k, TRUE)}
<1>2. 0 \in good
  <2>1. Lists(<<>>, m, 0, TRUE)
    BY NothingListed, Zenon
  <2>2. Lists(f[0], m, 0, TRUE)
    BY <1>1, <2>1, Zenon
  <2>3. 0 \in 0 .. n
    OBVIOUS
  <2>4. QED BY <2>2, <2>3
<1>3. ASSUME NEW k \in 0 .. n - 1, k \in good PROVE k + 1 \in good
  <2>1. k + 1 \in 1 .. n /\ k + 1 - 1 = k /\ k + 1 \in 0 .. n /\ k \in CodePoints
    BY <1>n DEF CodePoints
  <2>2. Lists(f[k], m, k, TRUE)
    BY <1>3
  <2>3. f[k + 1] = ExtendIntervals(f[k], m, k)
    BY <1>1, <2>1
  <2>4. Lists(ExtendIntervals(f[k], m, k), m, k + 1, TRUE)
    <3>1. CASE k \notin m
      BY <2>1, <2>2, <3>1, NotListed DEF ExtendIntervals
    <3>2. CASE k \in m /\ k - 1 \in m
      BY <2>1, <2>2, <3>2, IntervalExtended DEF ExtendIntervals
    <3>3. CASE k \in m /\ k - 1 \notin m
      BY <2>1, <2>2, <3>3, IntervalAppended DEF ExtendIntervals
    <3>4. QED BY <3>1, <3>2, <3>3
  <2>5. QED BY <2>1, <2>3, <2>4
<1>4. \A k \in 0 .. n : k \in good
  <2>1. \A k \in 0 .. n - 1 : k \in good => k + 1 \in good
    BY <1>3
  <2> HIDE DEF good
  <2>2. QED BY <1>2, <2>1, UpToNumber
<1>5. n \in 0 .. n
  OBVIOUS
<1>6. Lists(f[n], m, n, TRUE)
  BY <1>4, <1>5
<1>7. QED BY <1>1, <1>6, <1>n

\* SingleIntervals lists it, too, with intervals that may touch.
LEMMA SingleListed ==
  ASSUME NEW m, m \subseteq CodePoints
  PROVE  Lists(SingleIntervals(m), m, Limit, FALSE)
<1>n. PICK n \in Nat : n = Limit
  BY SizeAssumption DEF Limit
<1>1. PICK f : /\ SingleIntervals(m) = f[n]
               /\ f[0] = <<>>
               /\ \A k \in 1 .. n : f[k] = AppendSingle(f[k - 1], m, k - 1)
  BY <1>n, SingleUnfolds
<1> DEFINE good == {k \in 0 .. n : Lists(f[k], m, k, FALSE)}
<1>2. 0 \in good
  <2>1. Lists(<<>>, m, 0, FALSE)
    BY NothingListed, Zenon
  <2>2. Lists(f[0], m, 0, FALSE)
    BY <1>1, <2>1, Zenon
  <2>3. 0 \in 0 .. n
    OBVIOUS
  <2>4. QED BY <2>2, <2>3
<1>3. ASSUME NEW k \in 0 .. n - 1, k \in good PROVE k + 1 \in good
  <2>1. k + 1 \in 1 .. n /\ k + 1 - 1 = k /\ k + 1 \in 0 .. n /\ k \in CodePoints
    BY <1>n DEF CodePoints
  <2>2. Lists(f[k], m, k, FALSE)
    BY <1>3
  <2>3. f[k + 1] = AppendSingle(f[k], m, k)
    BY <1>1, <2>1
  <2>4. Lists(AppendSingle(f[k], m, k), m, k + 1, FALSE)
    <3>1. CASE k \notin m
      BY <2>1, <2>2, <3>1, NotListed DEF AppendSingle
    <3>2. CASE k \in m
      BY <2>1, <2>2, <3>2, IntervalAppended DEF AppendSingle
    <3>3. QED BY <3>1, <3>2
  <2>5. QED BY <2>1, <2>3, <2>4
<1>4. \A k \in 0 .. n : k \in good
  <2>1. \A k \in 0 .. n - 1 : k \in good => k + 1 \in good
    BY <1>3
  <2> HIDE DEF good
  <2>2. QED BY <1>2, <2>1, UpToNumber
<1>5. n \in 0 .. n
  OBVIOUS
<1>6. Lists(f[n], m, n, FALSE)
  BY <1>4, <1>5
<1>7. QED BY <1>1, <1>6, <1>n

\* A list of the intervals of a set makes that set.
LEMMA ListRepresents ==
  ASSUME NEW list, NEW m, NEW apart, m \subseteq CodePoints, Lists(list, m, Limit, apart)
  PROVE  Represents(ConvertIntervals(list), m)
<1>l. PICK L \in Nat : LengthIs(list, L)
  BY ListOf DEF LengthIs
<1>1. IntervalList(list, L)
  BY <1>l DEF Lists, LengthIs
<1>2. Covered(list, L) = m
  <2>0. \A cp : cp \in Covered(list, L) <=> \E j \in 1 .. L : cp \in list[j][1] .. list[j][2]
    BY DEF Covered
  <2>1. Limit \in Nat
    BY SizeAssumption DEF Limit
  <2>2. \A cp \in CodePoints : cp \in m <=> \E j \in 1 .. L : list[j][1] <= cp /\ cp <= list[j][2]
    <3>1. \A cp \in CodePoints : cp < Limit
      BY <2>1 DEF CodePoints
    <3>2. QED BY <1>l, <3>1 DEF Lists, LengthIs
  <2>3. \A j \in 1 .. L : list[j][1] \in CodePoints /\ list[j][2] \in CodePoints
    BY <1>1 DEF IntervalList
  <2>4. \A j \in 1 .. L : \A cp : cp \in list[j][1] .. list[j][2]
                            <=> cp \in CodePoints /\ list[j][1] <= cp /\ cp <= list[j][2]
    BY <2>1, <2>3 DEF CodePoints
  <2>5. QED BY <2>0, <2>2, <2>4
<1>3. Represents(ConvertIntervals(list), Covered(list, L))
  BY <1>l, <1>1, ConvertRepresents
<1>4. QED BY <1>2, <1>3

\* Both lists give the constructor the same set.
LEMMA OtherRepresents ==
  ASSUME NEW m, m \subseteq CodePoints
  PROVE  /\ Represents(OtherSet(m), m)
         /\ Represents(ConvertIntervals(SingleIntervals(m)), m)
BY MaximalListed, SingleListed, ListRepresents DEF OtherSet

-----------------------------------------------------------------------------
(* Spans of code points that are members, or that are not.                 *)

Is(m, wanted, cp) == IF wanted = "Full" THEN cp \in m ELSE cp \notin m
All(m, wanted, a, b) == \A cp \in CodePoints : a <= cp /\ cp < b => Is(m, wanted, cp)
Other(wanted) == IF wanted = "Full" THEN "Empty" ELSE "Full"

\* The bits of a quad from b up to e, without e.
LEMMA BitsSpan ==
  ASSUME NEW m, NEW wanted, NEW i \in 0 .. QuadCount - 1, NEW b \in Nat, NEW e \in 0 .. QuadBits,
         \A d \in Bits : b <= d /\ d < e => Is(QuadsOf(m)[i], wanted, d)
  PROVE  All(m, wanted, QuadBits * i + b, QuadBits * i + e)
<1>1. QuadBits \in Nat /\ QuadBits > 1 /\ i \in Nat
  BY SizeAssumption
<1>e. PICK x \in Nat : x = QuadBits * i
  BY <1>1
<1>2. SUFFICES ASSUME NEW cp \in CodePoints, x + b <= cp, cp < x + e
               PROVE  Is(m, wanted, cp)
  BY <1>e DEF All
<1>3. cp \in Nat
  BY DEF CodePoints
<1>4. cp - x \in Bits /\ cp = x + (cp - x) /\ b <= cp - x /\ cp - x < e
  BY <1>1, <1>2, <1>3 DEF Bits
<1>d. PICK d \in Bits : d = cp - x /\ cp = x + d /\ b <= d /\ d < e
  BY <1>4
<1>5. cp \div QuadBits = i /\ cp % QuadBits = d
  BY <1>1, <1>d, <1>e, QuadAndBitUnique
<1>6. cp \in m <=> d \in QuadsOf(m)[i]
  BY <1>5, InQuad
<1>7. Is(QuadsOf(m)[i], wanted, d)
  BY <1>d
<1>8. QED BY <1>6, <1>7 DEF Is

\* The code points of a run that is not Mixed.
LEMMA RunSpan ==
  ASSUME NEW s, NEW m, NEW n, n = QuadCount, Holds(s, QuadsOf(m), n), NEW r \in 1 .. Len(s.runs),
         s.runs[r].type # "Mixed"
  PROVE  All(m, s.runs[r].type, QuadBits * LengthBefore(s, r), QuadBits * LengthBefore(s, r + 1))
<1>0. s \in Objects
  BY DEF Holds
<1>x. PICK x \in Nat \ {0} : x = s.runs[r].length
  BY RunFits
<1>a. PICK a \in Nat : a = LengthBefore(s, r)
  BY RunFits
<1>1. LengthBefore(s, r + 1) = a + x /\ a + x <= n
  BY <1>0, <1>x, <1>a, RunPlaces, RunFits
<1>t. PICK type \in RunTypes : type = s.runs[r].type
  BY RunFits
<1>2. QuadBits \in Nat /\ QuadBits > 1
  BY SizeAssumption
<1>3. SUFFICES ASSUME NEW cp \in CodePoints, QuadBits * a <= cp, cp < QuadBits * (a + x)
               PROVE  Is(m, type, cp)
  BY <1>1, <1>a, <1>t DEF All
<1>4. /\ cp \in Nat /\ cp \div QuadBits \in Nat /\ cp % QuadBits \in Bits
      /\ cp = QuadBits * (cp \div QuadBits) + (cp % QuadBits)
  BY QuadOfCodePoint, QuadAndBit
<1>i. PICK i \in Nat : i = cp \div QuadBits
  BY <1>4
<1>d. PICK d \in Nat : d = cp % QuadBits /\ d < QuadBits /\ d \in Bits
  BY <1>2, <1>4 DEF Bits
<1>5. cp = QuadBits * i + d
  BY <1>4, <1>i, <1>d
<1>6. a <= i
  <2>1. SUFFICES ASSUME i < a PROVE FALSE
    OBVIOUS
  <2>2. QuadBits * i + QuadBits <= QuadBits * a
    BY <2>1, Multiples
  <2>p. PICK p \in Nat : p = QuadBits * i
    BY <1>2
  <2>q. PICK q \in Nat : q = QuadBits * a
    BY <1>2
  <2>w. PICK w \in Nat : w = QuadBits
    BY <1>2
  <2>3. p + w <= q /\ q <= cp /\ d < w
    BY <1>3, <1>d, <2>2, <2>p, <2>q, <2>w
  <2>4. cp = p + d
    BY <1>5, <2>p
  <2>5. QED BY <2>3, <2>4
<1>7. i < a + x
  <2>1. SUFFICES ASSUME a + x <= i PROVE FALSE
    OBVIOUS
  <2>2. QuadBits * (a + x) <= QuadBits * i
    <3>1. CASE a + x = i
      BY <1>2, <3>1
    <3>2. CASE a + x # i
      <4>1. QuadBits * (a + x) + QuadBits <= QuadBits * i
        BY <2>1, <3>2, Multiples
      <4>p. PICK p \in Nat : p = QuadBits * i
        BY <1>2
      <4>q. PICK q \in Nat : q = QuadBits * (a + x)
        BY <1>2
      <4>2. QED BY <1>2, <4>1, <4>p, <4>q
    <3>3. QED BY <3>1, <3>2
  <2>p. PICK p \in Nat : p = QuadBits * i
    BY <1>2
  <2>q. PICK q \in Nat : q = QuadBits * (a + x)
    BY <1>2
  <2>3. QED BY <1>3, <1>5, <2>2, <2>p, <2>q
<1>8. i - a \in 0 .. x - 1 /\ a + (i - a) = i
  BY <1>6, <1>7
<1>9. QuadsOf(m)[i] = QuadIn(s, r, i - a)
  BY <1>8, <1>x, <1>a DEF Holds
<1>10. QuadsOf(m)[i] = IF type = "Full" THEN Bits ELSE {}
  BY <1>9, <1>t DEF QuadIn, Content
<1>11. cp \in m <=> d \in QuadsOf(m)[i]
  BY <1>i, <1>d, InQuad
<1>12. QED BY <1>10, <1>11, <1>d DEF Is

-----------------------------------------------------------------------------
(* Where the interval iterator stands.                                     *)

ItOn(s, r, j, b) ==
  [run |-> r, quad |-> MixedBefore(s, r) + 1 + j, mixedIndex |-> j, offset |-> b,
   base |-> QuadBits * (LengthBefore(s, r) + j)]
ItOff(s) ==
  [run |-> Len(s.runs) + 1, quad |-> Len(s.quads) + 1, mixedIndex |-> 0, offset |-> 0,
   base |-> QuadBits * LengthBefore(s, Len(s.runs) + 1)]

\* In run r, behind j quads and b bits: cp is the code point, w counts steps.
ItIn(s, it, r, j, b, cp, w) ==
  /\ r \in 1 .. Len(s.runs) /\ j \in 0 .. s.runs[r].length /\ b \in Bits
  /\ s.runs[r].type # "Mixed" => j = 0 /\ b = 0
  /\ j = s.runs[r].length => b = 0
  /\ it = ItOn(s, r, j, b)
  /\ cp = QuadBits * (LengthBefore(s, r) + j) + b
  /\ w = 2 * (LengthBefore(s, r) + j) + (IF j = s.runs[r].length THEN 0 ELSE 1)
ItAt(s, it, cp, w) ==
  \/ \E r, j, b : ItIn(s, it, r, j, b, cp, w)
  \/ /\ it = ItOff(s) /\ cp = QuadBits * LengthBefore(s, Len(s.runs) + 1)
     /\ w = 2 * LengthBefore(s, Len(s.runs) + 1)

\* At the begin of a run, or behind the last one.
LEMMA ItAtRun ==
  ASSUME NEW s, NEW q, NEW n, Holds(s, q, n), NEW r \in 1 .. Len(s.runs) + 1, NEW it,
         it = [run |-> r, quad |-> MixedBefore(s, r) + 1, mixedIndex |-> 0, offset |-> 0,
               base |-> QuadBits * LengthBefore(s, r)]
  PROVE  /\ r # Len(s.runs) + 1 =>
              ItAt(s, it, QuadBits * LengthBefore(s, r), 2 * LengthBefore(s, r) + 1)
         /\ r = Len(s.runs) + 1 =>
              ItAt(s, it, QuadBits * LengthBefore(s, r), 2 * LengthBefore(s, r))
<1>l. PICK L \in Nat : L = Len(s.runs)
  BY DEF Holds, Objects
<1>0. s \in Objects
  BY DEF Holds
<1>a. PICK a \in Nat : a = LengthBefore(s, r)
  BY <1>0, RunPlaces
<1>m. PICK mx \in Nat : mx = MixedBefore(s, r)
  BY <1>0, RunPlaces
<1>q. QuadBits \in Nat /\ 0 \in Bits
  BY SizeAssumption DEF Bits
<1>1. ASSUME r # L + 1
      PROVE  ItAt(s, it, QuadBits * LengthBefore(s, r), 2 * LengthBefore(s, r) + 1)
  <2>1. r \in 1 .. L
    BY <1>1, <1>l
  <2>x. PICK x \in Nat \ {0} : x = s.runs[r].length
    BY <1>l, <2>1, RunFits
  <2>2. mx + 1 + 0 = mx + 1 /\ a + 0 = a
    OBVIOUS
  <2>3. it = ItOn(s, r, 0, 0)
    BY <1>a, <1>m, <2>2 DEF ItOn
  <2>4. QuadBits * (a + 0) + 0 = QuadBits * a
    BY <1>q
  <2>5. 0 \in 0 .. x /\ 0 # x
    OBVIOUS
  <2>6. 2 * (a + 0) + (IF 0 = x THEN 0 ELSE 1) = 2 * a + 1
    BY <2>5
  <2>7. ItIn(s, it, r, 0, 0, QuadBits * a, 2 * a + 1)
    BY <1>l, <1>a, <1>q, <2>1, <2>x, <2>3, <2>4, <2>5, <2>6 DEF ItIn
  <2>8. QED BY <1>a, <2>7 DEF ItAt
<1>2. ASSUME r = L + 1
      PROVE  ItAt(s, it, QuadBits * LengthBefore(s, r), 2 * LengthBefore(s, r))
  <2>1. mx = Len(s.quads)
    BY <1>2, <1>l, <1>m DEF Holds
  <2>2. it = ItOff(s)
    BY <1>2, <1>l, <1>m, <2>1 DEF ItOff
  <2>3. QED BY <1>2, <1>l, <2>2 DEF ItAt
<1>3. QED BY <1>1, <1>2, <1>l

\* The assignments to the iterator.
PassRun(it, n) == [it EXCEPT !.run = @ + 1, !.base = @ + n * QuadBits]
PassMixed(it) == [it EXCEPT !.run = @ + 1, !.offset = 0, !.mixedIndex = 0]
Place(r, q, j, b, e) == [run |-> r, quad |-> q, mixedIndex |-> j, offset |-> b, base |-> e]

\* The iterator behind a run that is not Mixed.
LEMMA PassRunIs ==
  ASSUME NEW r, NEW q, NEW j, NEW b, NEW e, NEW n
  PROVE  PassRun(Place(r, q, j, b, e), n) = Place(r + 1, q, j, b, e + n * QuadBits)
<1>x. PICK x : x = Place(r, q, j, b, e)
  OBVIOUS
<1>y. PICK y : y = [x EXCEPT !.run = @ + 1]
  OBVIOUS
<1>d. PICK d : d = n * QuadBits
  OBVIOUS
<1>1. y = Place(r + 1, q, j, b, e)
  BY <1>x, <1>y DEF Place
<1>2. [y EXCEPT !.base = @ + d] = Place(r + 1, q, j, b, e + d)
  BY <1>1 DEF Place
<1>3. PassRun(x, n) = [y EXCEPT !.base = @ + d]
  BY <1>y, <1>d, Zenon DEF PassRun
<1>4. QED BY <1>x, <1>d, <1>2, <1>3, Zenon

\* The iterator behind the last quad of a Mixed run.
LEMMA PassMixedIs ==
  ASSUME NEW r, NEW q, NEW j, NEW b, NEW e
  PROVE  PassMixed(Place(r, q, j, b, e)) = Place(r + 1, q, 0, 0, e)
<1>x. PICK x : x = Place(r, q, j, b, e)
  OBVIOUS
<1>y. PICK y : y = [x EXCEPT !.run = @ + 1]
  OBVIOUS
<1>z. PICK z : z = [y EXCEPT !.offset = 0]
  OBVIOUS
<1>1. y = Place(r + 1, q, j, b, e)
  BY <1>x, <1>y DEF Place
<1>2. z = Place(r + 1, q, j, 0, e)
  BY <1>1, <1>z DEF Place
<1>3. [z EXCEPT !.mixedIndex = 0] = Place(r + 1, q, 0, 0, e)
  BY <1>2 DEF Place
<1>4. PassMixed(x) = [z EXCEPT !.mixedIndex = 0]
  BY <1>y, <1>z, Zenon DEF PassMixed
<1>5. QED BY <1>x, <1>3, <1>4, Zenon

\* The iterator at the next quad of a Mixed run.
LEMMA NextQuadIs ==
  ASSUME NEW r, NEW q, NEW j, NEW b, NEW e
  PROVE  NextQuad(Place(r, q, j, b, e)) = Place(r, q + 1, j + 1, 0, e + QuadBits)
<1>x. PICK x : x = Place(r, q, j, b, e)
  OBVIOUS
<1>y. PICK y : y = [x EXCEPT !.quad = @ + 1]
  OBVIOUS
<1>z. PICK z : z = [y EXCEPT !.mixedIndex = @ + 1]
  OBVIOUS
<1>u. PICK u : u = [z EXCEPT !.offset = 0]
  OBVIOUS
<1>1. y = Place(r, q + 1, j, b, e)
  BY <1>x, <1>y DEF Place
<1>2. z = Place(r, q + 1, j + 1, b, e)
  BY <1>1, <1>z DEF Place
<1>3. u = Place(r, q + 1, j + 1, 0, e)
  BY <1>2, <1>u DEF Place
<1>4. [u EXCEPT !.base = @ + QuadBits] = Place(r, q + 1, j + 1, 0, e + QuadBits)
  BY <1>3 DEF Place
<1>5. NextQuad(x) = [u EXCEPT !.base = @ + QuadBits]
  BY <1>y, <1>z, <1>u, Zenon DEF NextQuad
<1>6. QED BY <1>x, <1>4, <1>5, Zenon

\* One step of a search, by cases: what it finds in run it.run, which has the
\* given type and length, and in the quad there.
StepFinds(s, it, wanted, type, n, found) ==
  /\ it.base < Limit /\ it.base \in Nat /\ Limit \in Nat
  /\ type = s.runs[it.run].type /\ n = s.runs[it.run].length
  /\ found = {b \in (IF wanted = "Full" THEN s.quads[it.quad] ELSE Bits \ s.quads[it.quad]) :
                b >= it.offset}
StepYields(y, it, wanted, type, n, found) ==
  /\ type # "Mixed" => y = [it |-> PassRun(it, n), at |-> IF type = wanted THEN it.base ELSE Limit]
  /\ type = "Mixed" /\ it.mixedIndex = n => y = [it |-> PassMixed(it), at |-> Limit]
  /\ type = "Mixed" /\ it.mixedIndex # n /\ found # {} =>
       y = [it |-> [it EXCEPT !.offset = Min(found)], at |-> it.base + Min(found)]
  /\ type = "Mixed" /\ it.mixedIndex # n /\ found = {} => y = [it |-> NextQuad(it), at |-> Limit]

\* One step of the search, by what it meets.
LEMMA ScanStepIs ==
  ASSUME NEW s, NEW it, NEW wanted, NEW type, NEW n, NEW found,
         StepFinds(s, it, wanted, type, n, found)
  PROVE  StepYields(ScanStep(s, [it |-> it, at |-> Limit], wanted), it, wanted, type, n, found)
<1>x. PICK x : x = [it |-> it, at |-> Limit]
  OBVIOUS
<1>1. x.it = it /\ x.at = Limit
  BY <1>x
<1>2. \A i : [x EXCEPT !.it = i] = [it |-> i, at |-> Limit]
  BY <1>x
<1>3. ~ (it.base >= Limit)
  BY DEF StepFinds
<1>d. /\ type = s.runs[it.run].type /\ n = s.runs[it.run].length
      /\ found = {b \in (IF wanted = "Full" THEN s.quads[it.quad]
                         ELSE Bits \ s.quads[it.quad]) : b >= it.offset}
  BY Zenon DEF StepFinds
<1>y. PICK y : y = ScanStep(s, x, wanted)
  OBVIOUS
<1>4. y = IF type # "Mixed"
          THEN [it |-> PassRun(it, n), at |-> IF type = wanted THEN it.base ELSE Limit]
          ELSE IF it.mixedIndex = n THEN [x EXCEPT !.it = PassMixed(it)]
          ELSE IF found # {}
          THEN [it |-> [it EXCEPT !.offset = Min(found)], at |-> it.base + Min(found)]
          ELSE [x EXCEPT !.it = NextQuad(it)]
  BY <1>1, <1>3, <1>d, <1>y, Zenon DEF ScanStep, PassRun, PassMixed
<1>5. StepYields(y, it, wanted, type, n, found)
  BY <1>2, <1>4, Zenon DEF StepYields
<1>6. QED BY <1>5, <1>x, <1>y, Zenon

\* What a search that began at code point a has found: nothing so far, or a
\* code point that is wanted, and it has not passed any that is not wanted.
NotFound(s, m, wanted, x, a, w) ==
  x.at = Limit
  /\ \E cp \in Nat : ItAt(s, x.it, cp, w) /\ a <= cp /\ All(m, Other(wanted), a, cp)
Found(s, m, wanted, x, a) ==
  /\ x.at \in CodePoints /\ a <= x.at
  /\ Is(m, wanted, x.at) /\ All(m, Other(wanted), a, x.at)
  /\ \E cp \in Nat : \E w \in Nat :
       ItAt(s, x.it, cp, w) /\ x.at <= cp /\ All(m, wanted, x.at, cp)

\* Min is the least of a set of numbers.
LEMMA LeastIs ==
  ASSUME NEW S, S \subseteq Nat, S # {}
  PROVE  Min(S) \in S /\ \A y \in S : Min(S) <= y
BY LeastNumber DEF Min

\* Two spans in a row.
LEMMA AllJoins ==
  ASSUME NEW m, NEW wanted, NEW a \in Nat, NEW b \in Nat, NEW c \in Nat,
         All(m, wanted, a, b), All(m, wanted, b, c)
  PROVE  All(m, wanted, a, c)
<1>1. \A cp \in CodePoints : cp \in Nat
  BY DEF CodePoints
<1>2. \A cp \in CodePoints : a <= cp /\ cp < c => (a <= cp /\ cp < b) \/ (b <= cp /\ cp < c)
  BY <1>1
<1>3. QED BY <1>2 DEF All

\* A step finds the code point, or has passed some that are not wanted.
LEMMA ScanStepAt ==
  ASSUME NEW s, NEW m, m \subseteq CodePoints, NEW n, n = QuadCount, Holds(s, QuadsOf(m), n),
         NEW it, NEW r, NEW j, NEW b, NEW cp, NEW w, ItIn(s, it, r, j, b, cp, w),
         LengthBefore(s, r) + j < n,
         NEW wanted \in {"Full", "Empty"}, NEW y, y = ScanStep(s, [it |-> it, at |-> Limit], wanted)
  PROVE  \/ \E v \in Nat : v > w /\ NotFound(s, m, wanted, y, cp, v)
         \/ Found(s, m, wanted, y, cp)
<1>l. PICK L \in Nat : L = Len(s.runs)
  BY DEF Holds, Objects
<1>n. n \in Nat /\ s \in Objects /\ LengthBefore(s, L + 1) = n
  BY <1>l DEF Holds
<1>q. QuadBits \in Nat /\ QuadBits > 1 /\ Limit = QuadBits * n /\ Limit \in Nat /\ 0 \in Bits
  BY SizeAssumption DEF Limit, Bits
<1>0. r \in 1 .. L
  BY <1>l DEF ItIn
<1>x. PICK x \in Nat \ {0} : x = s.runs[r].length
  BY <1>l, <1>0, RunFits
<1>a. PICK a \in Nat : a = LengthBefore(s, r)
  BY <1>l, <1>0, RunFits
<1>m. PICK mx \in Nat : mx = MixedBefore(s, r)
  BY <1>l, <1>0, RunFits
<1>t. PICK type \in RunTypes : type = s.runs[r].type
  BY <1>l, <1>0, RunFits
<1>1. /\ j \in 0 .. x /\ b \in Bits /\ b \in Nat
      /\ type # "Mixed" => j = 0 /\ b = 0
      /\ j = x => b = 0
      /\ cp = QuadBits * (a + j) + b
      /\ w = 2 * (a + j) + (IF j = x THEN 0 ELSE 1)
      /\ it = Place(r, mx + 1 + j, j, b, QuadBits * (a + j))
  BY <1>x, <1>a, <1>m, <1>t DEF ItIn, ItOn, Place, Bits
<1>p. PICK p \in Nat : p = a + j /\ p < n
  BY <1>1, <1>a
<1>e. PICK e \in Nat : e = QuadBits * p /\ e + QuadBits <= Limit
  BY <1>q, <1>p, <1>n, Multiples
<1>2. LengthBefore(s, r + 1) = a + x /\ a + x <= n
      /\ MixedBefore(s, r + 1) = mx + (IF type = "Mixed" THEN x ELSE 0)
  BY <1>l, <1>0, <1>n, <1>x, <1>a, <1>m, <1>t, RunPlaces, RunFits DEF MixedLength
<1>3. /\ it.run = r /\ it.quad = mx + 1 + j /\ it.mixedIndex = j /\ it.offset = b /\ it.base = e
      /\ it = Place(r, mx + 1 + j, j, b, e) /\ cp = e + b /\ cp \in Nat
      /\ w = 2 * p + (IF j = x THEN 0 ELSE 1)
  BY <1>1, <1>p, <1>e DEF Place
<1> DEFINE quad == IF wanted = "Full" THEN s.quads[it.quad] ELSE Bits \ s.quads[it.quad]
           found == {d \in quad : d >= it.offset}
<1>4. /\ type # "Mixed" => y = [it |-> PassRun(it, x), at |-> IF type = wanted THEN e ELSE Limit]
      /\ type = "Mixed" /\ j = x => y = [it |-> PassMixed(it), at |-> Limit]
      /\ type = "Mixed" /\ j # x /\ found # {} =>
           y = [it |-> [it EXCEPT !.offset = Min(found)], at |-> e + Min(found)]
      /\ type = "Mixed" /\ j # x /\ found = {} => y = [it |-> NextQuad(it), at |-> Limit]
  <2>f. PICK fd : fd = found
    OBVIOUS
  <2>1. StepFinds(s, it, wanted, type, x, fd)
    <3>1. it.base < Limit /\ it.base \in Nat /\ Limit \in Nat
      BY <1>3, <1>e, <1>q
    <3>2. type = s.runs[it.run].type /\ x = s.runs[it.run].length
      BY <1>3, <1>t, <1>x
    <3>3. fd = {d \in (IF wanted = "Full" THEN s.quads[it.quad]
                       ELSE Bits \ s.quads[it.quad]) : d >= it.offset}
      BY <2>f, Zenon DEF found, quad
    <3>4. QED BY <3>1, <3>2, <3>3, Zenon DEF StepFinds
  <2> HIDE DEF quad, found
  <2>2. StepYields(y, it, wanted, type, x, fd)
    BY <2>1, ScanStepIs, Zenon
  <2>3. it.mixedIndex = j /\ it.base = e
    BY <1>3
  <2>4. QED BY <2>2, <2>3, <2>f, Zenon DEF StepYields
\* The begin of the next run, or the end.
<1>5. ASSUME NEW new, new = Place(r + 1, MixedBefore(s, r + 1) + 1, 0, 0, QuadBits * (a + x))
      PROVE  \E v \in Nat : /\ ItAt(s, new, QuadBits * (a + x), v)
                            /\ v >= 2 * (a + x) /\ (a + x < n => v = 2 * (a + x) + 1)
  <2>1. r + 1 \in 1 .. Len(s.runs) + 1
    BY <1>0, <1>l
  <2>2. new = [run |-> r + 1, quad |-> MixedBefore(s, r + 1) + 1, mixedIndex |-> 0,
               offset |-> 0, base |-> QuadBits * LengthBefore(s, r + 1)]
    BY <1>2, <1>5 DEF Place
  <2>3. /\ r + 1 # Len(s.runs) + 1 =>
              ItAt(s, new, QuadBits * LengthBefore(s, r + 1), 2 * LengthBefore(s, r + 1) + 1)
        /\ r + 1 = Len(s.runs) + 1 =>
              ItAt(s, new, QuadBits * LengthBefore(s, r + 1), 2 * LengthBefore(s, r + 1))
    BY <2>1, <2>2, ItAtRun
  <2>4. r + 1 = Len(s.runs) + 1 => a + x = n
    BY <1>l, <1>n, <1>2
  <2>c. PICK c \in Nat : c = a + x
    OBVIOUS
  <2>5. /\ r + 1 # Len(s.runs) + 1 => ItAt(s, new, QuadBits * c, 2 * c + 1)
        /\ r + 1 = Len(s.runs) + 1 => ItAt(s, new, QuadBits * c, 2 * c) /\ c = n
    BY <1>2, <2>3, <2>4, <2>c
  <2>6. CASE r + 1 # Len(s.runs) + 1
    <3>1. 2 * c + 1 \in Nat /\ 2 * c + 1 >= 2 * c
      OBVIOUS
    <3>2. QED BY <2>5, <2>6, <2>c, <3>1
  <2>7. CASE r + 1 = Len(s.runs) + 1
    <3>1. 2 * c \in Nat /\ 2 * c >= 2 * c /\ ~ (c < n)
      BY <1>n, <2>5, <2>7
    <3>2. QED BY <2>5, <2>7, <2>c, <3>1
  <2>8. QED BY <2>6, <2>7
<1> HIDE DEF quad, found
<1>6. CASE type # "Mixed"
  <2>1. j = 0 /\ b = 0 /\ j # x /\ p = a /\ cp = e /\ w = 2 * a + 1 /\ mx + 1 + j = mx + 1
    BY <1>1, <1>3, <1>6, <1>p
  <2>2. QuadBits * (a + x) = e + x * QuadBits
    BY <1>q, <1>e, <2>1
  <2>g. PICK g \in Nat : g = QuadBits * (a + x)
    BY <1>q
  <2>3. PassRun(it, x) = Place(r + 1, mx + 1, 0, 0, e + x * QuadBits)
    BY <1>3, <2>1, PassRunIs
  <2>4. PassRun(it, x) = Place(r + 1, MixedBefore(s, r + 1) + 1, 0, 0, QuadBits * (a + x))
    BY <1>2, <1>6, <2>2, <2>3
  <2>i. PICK i : i = PassRun(it, x)
    OBVIOUS
  <2>v. PICK v \in Nat : ItAt(s, i, g, v) /\ v >= 2 * (a + x)
    BY <1>5, <2>4, <2>g, <2>i
  <2>5. e <= g /\ e < Limit /\ v > w
    <3>1. x * QuadBits >= 0
      BY <1>q
    <3>d. PICK d \in Nat : d = x * QuadBits
      BY <1>q
    <3>2. e <= g
      BY <2>2, <2>g, <3>d
    <3>3. v > w
      BY <2>1, <2>v
    <3>4. QED BY <1>e, <1>q, <3>2, <3>3
  <2>6. All(m, type, e, g)
    <3>1. All(m, s.runs[r].type, QuadBits * LengthBefore(s, r), QuadBits * LengthBefore(s, r + 1))
      BY <1>l, <1>0, <1>6, <1>t, RunSpan
    <3>2. QED BY <1>2, <1>a, <1>e, <1>p, <1>t, <2>1, <2>g, <3>1
  <2>7. CASE type = wanted
    <3>1. y.at = e /\ y.it = i
      BY <1>4, <1>6, <2>7, <2>i
    <3>2. e \in CodePoints /\ e <= e /\ e < g
      <4>1. x * QuadBits >= QuadBits
        <5>1. x \in Nat /\ x >= 1
          OBVIOUS
        <5>2. PICK z \in Nat : z = x - 1
          BY <5>1
        <5>3. (z + 1) * QuadBits = z * QuadBits + QuadBits
          BY <1>q
        <5>4. z * QuadBits >= 0 /\ z + 1 = x
          BY <1>q, <5>2
        <5>5. QED BY <1>q, <5>3, <5>4
      <4>d. PICK d \in Nat : d = x * QuadBits
        BY <1>q
      <4>2. QED BY <1>q, <2>2, <2>5, <2>g, <4>1, <4>d DEF CodePoints
    <3>3. Is(m, wanted, e)
      BY <2>6, <2>7, <3>2 DEF All
    <3>4. All(m, Other(wanted), e, e)
      <4>1. \A c \in CodePoints : ~ (e <= c /\ c < e)
        BY DEF CodePoints
      <4>2. QED BY <4>1 DEF All
    <3>5. Found(s, m, wanted, y, cp)
      BY <2>1, <2>5, <2>6, <2>7, <2>v, <3>1, <3>2, <3>3, <3>4 DEF Found
    <3>6. QED BY <3>5
  <2>8. CASE type # wanted
    <3>1. y.at = Limit /\ y.it = i
      BY <1>4, <1>6, <2>8, <2>i
    <3>2. type = Other(wanted)
      BY <1>6, <2>8 DEF Other, RunTypes
    <3>3. NotFound(s, m, wanted, y, cp, v)
      BY <2>1, <2>5, <2>6, <2>v, <3>1, <3>2 DEF NotFound
    <3>4. QED BY <2>5, <3>3
  <2>9. QED BY <2>7, <2>8
<1>7. CASE type = "Mixed" /\ j = x
  <2>1. b = 0 /\ cp = e /\ w = 2 * p /\ p = a + x /\ mx + 1 + j = mx + x + 1
    BY <1>1, <1>3, <1>7, <1>p
  <2>2. PassMixed(it) = Place(r + 1, mx + x + 1, 0, 0, e)
    BY <1>3, <2>1, PassMixedIs
  <2>3. PassMixed(it) = Place(r + 1, MixedBefore(s, r + 1) + 1, 0, 0, QuadBits * (a + x))
    BY <1>2, <1>7, <1>e, <2>1, <2>2
  <2>i. PICK i : i = PassMixed(it)
    OBVIOUS
  <2>v. PICK v \in Nat : ItAt(s, i, e, v) /\ v = 2 * (a + x) + 1
    BY <1>5, <1>e, <1>p, <2>1, <2>3, <2>i
  <2>4. y.at = Limit /\ y.it = i
    BY <1>4, <1>7, <2>i
  <2>5. All(m, Other(wanted), e, e)
    <3>1. \A c \in CodePoints : ~ (e <= c /\ c < e)
      BY DEF CodePoints
    <3>2. QED BY <3>1 DEF All
  <2>6. NotFound(s, m, wanted, y, cp, v)
    BY <2>1, <2>4, <2>5, <2>v DEF NotFound
  <2>7. v > w
    BY <2>1, <2>v
  <2>8. QED BY <2>6, <2>7
<1> DEFINE Q == QuadsOf(m)[p]
<1>8. ASSUME type = "Mixed", j # x
      PROVE  /\ p \in 0 .. QuadCount - 1 /\ Q \subseteq Bits
             /\ found = {d \in Bits : b <= d /\ Is(Q, wanted, d)}
  <2>1. j \in 0 .. x - 1 /\ p \in 0 .. n - 1
    BY <1>1, <1>8, <1>p, <1>n
  <2>2. Q = QuadIn(s, r, j)
    BY <1>l, <1>0, <1>x, <1>a, <1>p, <2>1 DEF Holds
  <2>3. Q = s.quads[it.quad]
    <3>1. mx + j + 1 = mx + 1 + j
      BY <2>1
    <3>2. QED BY <1>3, <1>8, <1>m, <1>t, <2>2, <3>1 DEF QuadIn, Content
  <2>4. Q \subseteq Bits
    BY <2>1, QuadsOfTyped
  <2> HIDE DEF Q
  <2>5. quad = IF wanted = "Full" THEN Q ELSE Bits \ Q
    BY <2>3 DEF quad
  <2>6. found = {d \in quad : d >= b}
    BY <1>3 DEF found
  <2>7. \A d \in Bits : d >= b <=> b <= d
    BY <1>1 DEF Bits
  <2>8. found = {d \in Bits : b <= d /\ Is(Q, wanted, d)}
    BY <2>4, <2>5, <2>6, <2>7 DEF Is
  <2>9. QED BY <2>1, <2>4, <2>8
<1>9. CASE type = "Mixed" /\ j # x /\ found # {}
  <2>1. /\ p \in 0 .. QuadCount - 1
        /\ found = {d \in Bits : b <= d /\ Is(Q, wanted, d)}
    BY <1>8, <1>9
  <2>d. PICK d \in found : d = Min(found) /\ \A c \in found : d <= c
    <3>1. found \subseteq Nat
      BY <2>1 DEF Bits
    <3>2. QED BY <1>9, <3>1, LeastIs
  <2>2. d \in Bits /\ d \in Nat /\ b <= d /\ Is(Q, wanted, d) /\ d < QuadBits
    BY <1>q, <2>1, <2>d DEF Bits
  <2>3. \A c \in Bits : b <= c /\ c < d => Is(Q, Other(wanted), c)
    <3>1. \A c \in Bits : b <= c /\ c < d => ~ Is(Q, wanted, c)
      <4>1. \A c \in Bits : c < d => ~ (d <= c)
        BY <2>2 DEF Bits
      <4>2. QED BY <2>1, <2>d, <4>1
    <3>2. QED BY <3>1 DEF Is, Other
  <2>4. All(m, Other(wanted), e + b, e + d)
    <3>1. d \in 0 .. QuadBits /\ b \in Nat
      BY <1>1, <1>q, <2>2
    <3>2. \A c \in Bits : b <= c /\ c < d => Is(QuadsOf(m)[p], Other(wanted), c)
      BY <2>3
    <3> HIDE DEF Q
    <3>3. All(m, Other(wanted), QuadBits * p + b, QuadBits * p + d)
      BY <2>1, <3>1, <3>2, BitsSpan
    <3>4. QED BY <1>e, <3>3
  <2>5. e + d \in CodePoints /\ cp <= e + d
    BY <1>e, <1>q, <1>3, <1>1, <2>2 DEF CodePoints
  <2>6. Is(m, wanted, e + d)
    <3>1. (e + d) \div QuadBits = p /\ (e + d) % QuadBits = d
      BY <1>e, <2>2, QuadAndBitUnique
    <3>2. e + d \in m <=> d \in Q
      BY <2>5, <3>1, InQuad
    <3>3. QED BY <2>2, <3>2 DEF Is
  <2>i. PICK i : i = [it EXCEPT !.offset = d]
    OBVIOUS
  <2>7. y.at = e + d /\ y.it = i
    BY <1>4, <1>9, <2>d, <2>i
  <2>8. i = Place(r, mx + 1 + j, j, d, e)
    BY <1>3, <2>i DEF Place
  <2>9. ItIn(s, i, r, j, d, e + d, w)
    <3>1. i = ItOn(s, r, j, d)
      BY <1>a, <1>e, <1>m, <1>p, <2>8 DEF ItOn, Place
    <3>2. e + d = QuadBits * (a + j) + d
      BY <1>e, <1>p
    <3>3. QED BY <1>0, <1>1, <1>9, <1>a, <1>l, <1>t, <1>x, <2>2, <3>1, <3>2 DEF ItIn
  <2>10. All(m, wanted, e + d, e + d)
    <3>1. \A c \in CodePoints : ~ (e + d <= c /\ c < e + d)
      BY <2>2 DEF CodePoints
    <3>2. QED BY <3>1 DEF All
  <2>w. w \in Nat
    BY <1>3
  <2>f. PICK f \in Nat : f = e + d
    BY <2>2
  <2>11. ItAt(s, i, f, w)
    BY <2>9, <2>f DEF ItAt
  <2>12. Found(s, m, wanted, y, cp)
    BY <1>3, <2>4, <2>5, <2>6, <2>7, <2>10, <2>11, <2>f, <2>w DEF Found
  <2>13. QED BY <2>12
<1>10. CASE type = "Mixed" /\ j # x /\ found = {}
  <2>1. /\ p \in 0 .. QuadCount - 1
        /\ found = {d \in Bits : b <= d /\ Is(Q, wanted, d)}
    BY <1>8, <1>10
  <2>2. \A c \in Bits : b <= c /\ c < QuadBits => Is(QuadsOf(m)[p], Other(wanted), c)
    <3>1. \A c \in Bits : b <= c => ~ Is(Q, wanted, c)
      BY <1>10, <2>1
    <3>2. QED BY <3>1 DEF Is, Other
  <2>3. All(m, Other(wanted), e + b, e + QuadBits)
    <3>1. QuadBits \in 0 .. QuadBits /\ b \in Nat
      BY <1>1, <1>q
    <3>2. All(m, Other(wanted), QuadBits * p + b, QuadBits * p + QuadBits)
      BY <2>1, <2>2, <3>1, BitsSpan
    <3>3. QED BY <1>e, <3>2
  <2>i. PICK i : i = NextQuad(it)
    OBVIOUS
  <2>4. y.at = Limit /\ y.it = i
    BY <1>4, <1>10, <2>i
  <2>5. i = Place(r, mx + 1 + j + 1, j + 1, 0, e + QuadBits)
    BY <1>3, <2>i, NextQuadIs
  <2>6. j + 1 \in 0 .. x /\ a + (j + 1) = p + 1 /\ mx + 1 + (j + 1) = mx + 1 + j + 1
    BY <1>1, <1>10, <1>p
  <2>7. QuadBits * (a + (j + 1)) = e + QuadBits
    BY <1>q, <1>e, <2>6
  <2>8. i = ItOn(s, r, j + 1, 0)
    BY <1>a, <1>m, <2>5, <2>6, <2>7 DEF ItOn, Place
  <2>v. PICK v \in Nat : v = 2 * (a + (j + 1)) + (IF j + 1 = x THEN 0 ELSE 1)
    BY <2>6
  <2>f. PICK f \in Nat : f = e + QuadBits
    BY <1>q
  <2>9. f = QuadBits * (a + (j + 1)) + 0
    BY <2>7, <2>f
  <2>10. ItIn(s, i, r, j + 1, 0, f, v)
    BY <1>0, <1>10, <1>a, <1>l, <1>q, <1>t, <1>x, <2>6, <2>8, <2>9, <2>v DEF ItIn
  <2>11. v > w
    BY <1>3, <1>10, <2>6, <2>v
  <2>12. cp <= f
    BY <1>3, <1>1, <1>q, <2>f DEF Bits
  <2>13. ItAt(s, i, f, v)
    BY <2>10 DEF ItAt
  <2>14. NotFound(s, m, wanted, y, cp, v)
    BY <1>3, <2>3, <2>4, <2>12, <2>13, <2>f DEF NotFound
  <2>15. QED BY <2>11, <2>14
<1>11. QED BY <1>6, <1>7, <1>9, <1>10

\* An iterator stands at a code point, or behind the last one.
LEMMA PositionOf ==
  ASSUME NEW s, NEW q, NEW n, n = QuadCount, Holds(s, q, n), NEW it, NEW cp, NEW w,
         ItAt(s, it, cp, w)
  PROVE  /\ it.base \in Nat /\ cp \in Nat /\ cp <= Limit /\ w \in Nat
         /\ it.base < Limit =>
              /\ w < 2 * n
              /\ \E r, j, b : ItIn(s, it, r, j, b, cp, w) /\ LengthBefore(s, r) + j < n
         /\ it.base >= Limit => cp = Limit
<1>l. PICK L \in Nat : L = Len(s.runs)
  BY DEF Holds, Objects
<1>n. n \in Nat /\ s \in Objects /\ LengthBefore(s, L + 1) = n
  BY <1>l DEF Holds
<1>q. QuadBits \in Nat /\ QuadBits > 1 /\ Limit = QuadBits * n /\ Limit \in Nat
  BY SizeAssumption DEF Limit
<1>1. CASE it = ItOff(s) /\ cp = QuadBits * LengthBefore(s, Len(s.runs) + 1)
           /\ w = 2 * LengthBefore(s, Len(s.runs) + 1)
  <2>1. it.base = Limit /\ cp = Limit /\ w = 2 * n
    BY <1>1, <1>l, <1>n, <1>q DEF ItOff
  <2>2. QED BY <1>n, <1>q, <2>1
<1>2. ASSUME NEW r, NEW j, NEW b, ItIn(s, it, r, j, b, cp, w)
      PROVE  /\ it.base \in Nat /\ cp \in Nat /\ cp <= Limit /\ w \in Nat
             /\ it.base < Limit => w < 2 * n /\ LengthBefore(s, r) + j < n
             /\ it.base >= Limit => cp = Limit
  <2>0. r \in 1 .. L
    BY <1>2, <1>l DEF ItIn
  <2>x. PICK x \in Nat \ {0} : x = s.runs[r].length
    BY <1>l, <2>0, RunFits
  <2>a. PICK a \in Nat : a = LengthBefore(s, r) /\ a + x <= n
    BY <1>l, <2>0, <2>x, RunFits
  <2>1. /\ j \in 0 .. x /\ b \in Nat /\ b < QuadBits
        /\ j = x => b = 0
        /\ cp = QuadBits * (a + j) + b
        /\ w = 2 * (a + j) + (IF j = x THEN 0 ELSE 1)
        /\ it.base = QuadBits * (a + j)
    BY <1>2, <1>q, <2>x, <2>a DEF ItIn, ItOn, Bits
  <2>p. PICK p \in Nat : p = a + j /\ p <= n
    BY <1>n, <2>1, <2>a
  <2>e. PICK e \in Nat : e = QuadBits * p
    BY <1>q
  <2>2. p < n => e + QuadBits <= Limit
    BY <1>n, <1>q, <2>e, <2>p, Multiples
  <2>3. p = n => e = Limit /\ b = 0
    BY <1>q, <2>1, <2>a, <2>e, <2>p
  <2>4. it.base = e /\ cp = e + b /\ w = 2 * p + (IF j = x THEN 0 ELSE 1)
    BY <2>1, <2>e, <2>p
  <2>5. CASE p < n
    BY <1>n, <1>q, <2>1, <2>2, <2>4, <2>5, <2>a, <2>p
  <2>6. CASE p = n
    BY <1>n, <1>q, <2>1, <2>3, <2>4, <2>6, <2>a, <2>p
  <2>7. QED BY <2>5, <2>6, <2>p, <1>n
<1>3. ASSUME \E r, j, b : ItIn(s, it, r, j, b, cp, w)
      PROVE  /\ it.base \in Nat /\ cp \in Nat /\ cp <= Limit /\ w \in Nat
             /\ it.base < Limit =>
                  /\ w < 2 * n
                  /\ \E r, j, b : ItIn(s, it, r, j, b, cp, w) /\ LengthBefore(s, r) + j < n
             /\ it.base >= Limit => cp = Limit
  BY <1>2, <1>3
<1>4. QED BY <1>1, <1>3 DEF ItAt

\* The search, step by step.
LEMMA ScanUnfolds ==
  ASSUME NEW s, NEW it, NEW wanted, NEW m \in Nat
  PROVE  m = 2 * QuadCount =>
           \E f : /\ Scan(s, it, wanted) = f[m]
                 /\ f[0] = [it |-> it, at |-> Limit]
                 /\ \A n \in 1 .. m : f[n] = ScanStep(s, f[n - 1], wanted)
<1> DEFINE Body(g, n) == IF n = 0 THEN [it |-> it, at |-> Limit] ELSE ScanStep(s, g[n - 1], wanted)
           good == {k \in 0 .. m : \E g : g = [n \in 0 .. k |-> Body(g, n)]}
<1>1. 0 \in good
  <2> DEFINE g == [n \in 0 .. 0 |-> [it |-> it, at |-> Limit]]
  <2>1. g = [n \in 0 .. 0 |-> Body(g, n)]
    OBVIOUS
  <2> HIDE DEF g, Body
  <2>2. QED BY <2>1
<1>2. ASSUME NEW k \in 0 .. m - 1, k \in good PROVE k + 1 \in good
  <2>1. PICK g : g = [n \in 0 .. k |-> Body(g, n)]
    BY <1>2
  <2> DEFINE h == [n \in 0 .. k + 1 |-> IF n = k + 1 THEN Body(g, n) ELSE g[n]]
  <2>2. ASSUME NEW n \in 0 .. k + 1 PROVE h[n] = Body(h, n)
    <3>1. CASE n = k + 1
      <4>1. n # 0 /\ n - 1 = k /\ k \in 0 .. k + 1 /\ k # k + 1
        BY <3>1
      <4>2. h[k] = g[k] /\ h[n] = Body(g, n)
        BY <3>1, <4>1
      <4>3. QED BY <4>1, <4>2
    <3>2. CASE n # k + 1
      <4>1. n \in 0 .. k /\ h[n] = g[n]
        BY <3>2
      <4>2. n # 0 => n - 1 \in 0 .. k /\ n - 1 \in 0 .. k + 1 /\ n - 1 # k + 1
        BY <3>2
      <4>3. n # 0 => h[n - 1] = g[n - 1]
        BY <4>2
      <4>4. g[n] = Body(g, n)
        BY <2>1, <4>1
      <4>5. QED BY <4>1, <4>3, <4>4
    <3>3. QED BY <3>1, <3>2
  <2>3. h = [n \in 0 .. k + 1 |-> h[n]]
    OBVIOUS
  <2> HIDE DEF h
  <2>4. h = [n \in 0 .. k + 1 |-> Body(h, n)]
    <3> HIDE DEF Body
    <3>1. QED BY <2>2, <2>3
  <2>5. k + 1 \in 0 .. m
    OBVIOUS
  <2>6. QED BY <2>4, <2>5
<1>3. m \in good
  <2>1. \A k \in 0 .. m - 1 : k \in good => k + 1 \in good
    BY <1>2
  <2> HIDE DEF good
  <2>2. \A k \in 0 .. m : k \in good
    BY <1>1, <2>1, UpToNumber
  <2>3. QED BY <2>2
<1> DEFINE f == CHOOSE g : g = [n \in 0 .. m |-> Body(g, n)]
<1>4. f = [n \in 0 .. m |-> Body(f, n)]
  BY <1>3
<1>5. m = 2 * QuadCount => Scan(s, it, wanted) = f[m]
  BY DEF Scan
<1> HIDE DEF f
<1>6. \A n \in 0 .. m : f[n] = Body(f, n)
  <2> HIDE DEF Body
  <2>1. QED BY <1>4
<1>7. f[0] = [it |-> it, at |-> Limit]
  BY <1>6
<1>8. \A n \in 1 .. m : f[n] = ScanStep(s, f[n - 1], wanted)
  BY <1>6
<1>9. QED BY <1>5, <1>7, <1>8

\* A search has passed all code points from a on, none of which is wanted.
NoneLeft(s, m, wanted, x, a) ==
  /\ x.at = Limit /\ x.it.base >= Limit
  /\ \E w : ItAt(s, x.it, Limit, w)
  /\ All(m, Other(wanted), a, Limit)

\* What a search has done after k steps.
Searched(s, m, wanted, x, a, k) ==
  \/ Found(s, m, wanted, x, a)
  \/ NoneLeft(s, m, wanted, x, a)
  \/ \E v \in Nat : v >= k /\ NotFound(s, m, wanted, x, a, v)

\* After k more steps it has found it, or is k places further.
LEMMA SearchGoesOn ==
  ASSUME NEW s, NEW m, m \subseteq CodePoints, NEW n, n = QuadCount, Holds(s, QuadsOf(m), n),
         NEW wanted \in {"Full", "Empty"}, NEW a \in Nat, NEW k \in Nat, NEW x,
         x = [it |-> x.it, at |-> x.at], Searched(s, m, wanted, x, a, k),
         NEW y, y = ScanStep(s, x, wanted)
  PROVE  Searched(s, m, wanted, y, a, k + 1)
<1>q. Limit \in Nat
  BY SizeAssumption DEF Limit
<1>1. CASE Found(s, m, wanted, x, a)
  <2>1. x.at # Limit
    BY <1>1, <1>q DEF Found, CodePoints
  <2>2. y = x
    BY <2>1 DEF ScanStep
  <2>3. QED BY <1>1, <2>2 DEF Searched
<1>2. CASE NoneLeft(s, m, wanted, x, a)
  <2>1. y = x
    BY <1>2 DEF ScanStep, NoneLeft
  <2>2. QED BY <1>2, <2>1 DEF Searched
<1>3. CASE \E v \in Nat : v >= k /\ NotFound(s, m, wanted, x, a, v)
  <2>v. PICK v \in Nat : v >= k /\ NotFound(s, m, wanted, x, a, v)
    BY <1>3
  <2>c. PICK cp \in Nat : ItAt(s, x.it, cp, v) /\ a <= cp /\ All(m, Other(wanted), a, cp)
    BY <2>v DEF NotFound
  <2>i. PICK it : it = x.it
    OBVIOUS
  <2>1. x.at = Limit /\ x = [it |-> it, at |-> Limit]
    BY <2>v, <2>i DEF NotFound
  <2>2. /\ it.base \in Nat /\ cp <= Limit
        /\ it.base < Limit =>
             \E r, j, b : ItIn(s, it, r, j, b, cp, v) /\ LengthBefore(s, r) + j < n
        /\ it.base >= Limit => cp = Limit
    BY <2>c, <2>i, PositionOf
  <2>3. CASE it.base >= Limit
    <3>1. NoneLeft(s, m, wanted, x, a)
      BY <2>c, <2>i, <2>1, <2>2, <2>3 DEF NoneLeft
    <3>2. y = x
      BY <2>1, <2>3, <2>i DEF ScanStep
    <3>3. QED BY <3>1, <3>2 DEF Searched
  <2>4. CASE it.base < Limit
    <3>p. PICK r, j, b : ItIn(s, it, r, j, b, cp, v) /\ LengthBefore(s, r) + j < n
      BY <2>2, <2>4
    <3>0. y = ScanStep(s, [it |-> it, at |-> Limit], wanted)
      BY <2>1
    <3>1. \/ \E u \in Nat : u > v /\ NotFound(s, m, wanted, y, cp, u)
          \/ Found(s, m, wanted, y, cp)
      BY <3>p, <3>0, ScanStepAt
    <3>2. CASE Found(s, m, wanted, y, cp)
      <4>1. /\ y.at \in CodePoints /\ cp <= y.at /\ Is(m, wanted, y.at)
            /\ All(m, Other(wanted), cp, y.at)
            /\ \E c \in Nat : \E w \in Nat :
                 ItAt(s, y.it, c, w) /\ y.at <= c /\ All(m, wanted, y.at, c)
        BY <3>2 DEF Found
      <4>2. y.at \in Nat
        BY <4>1 DEF CodePoints
      <4>3. a <= y.at
        BY <2>c, <4>1, <4>2
      <4>4. All(m, Other(wanted), a, y.at)
        BY <2>c, <4>1, <4>2, AllJoins
      <4>5. Found(s, m, wanted, y, a)
        BY <4>1, <4>3, <4>4 DEF Found
      <4>6. QED BY <4>5 DEF Searched
    <3>3. CASE \E u \in Nat : u > v /\ NotFound(s, m, wanted, y, cp, u)
      <4>u. PICK u \in Nat : u > v /\ NotFound(s, m, wanted, y, cp, u)
        BY <3>3
      <4>c. PICK c \in Nat : ItAt(s, y.it, c, u) /\ cp <= c /\ All(m, Other(wanted), cp, c)
        BY <4>u DEF NotFound
      <4>1. a <= c /\ u >= k + 1
        BY <2>v, <2>c, <4>u, <4>c
      <4>2. All(m, Other(wanted), a, c)
        BY <2>c, <4>c, AllJoins
      <4>3. NotFound(s, m, wanted, y, a, u)
        BY <4>u, <4>c, <4>1, <4>2 DEF NotFound
      <4>4. QED BY <4>1, <4>3 DEF Searched
    <3>4. QED BY <3>1, <3>2, <3>3
  <2>5. QED BY <1>q, <2>2, <2>3, <2>4
<1>4. QED BY <1>1, <1>2, <1>3 DEF Searched

\* A step gives an iterator and a code point.
LEMMA StepIsPair ==
  ASSUME NEW s, NEW x, x = [it |-> x.it, at |-> x.at], NEW wanted, NEW y, y = ScanStep(s, x, wanted)
  PROVE  y = [it |-> y.it, at |-> y.at]
<1>1. \A i : [x EXCEPT !.it = i] = [it |-> i, at |-> x.at]
  OBVIOUS
<1>2. y = x \/ \E i, t : y = [it |-> i, at |-> t]
  BY <1>1, Zenon DEF ScanStep
<1>3. \A i, t : y = [it |-> i, at |-> t] => y = [it |-> y.it, at |-> y.at]
  OBVIOUS
<1>4. QED BY <1>2, <1>3

\* A search for the next code point that is wanted finds it, if there is one.
LEMMA ScanFinds ==
  ASSUME NEW s, NEW m, Represents(s, m), NEW it, NEW a, NEW w, ItAt(s, it, a, w),
         NEW wanted \in {"Full", "Empty"}
  PROVE  \/ Found(s, m, wanted, Scan(s, it, wanted), a)
         \/ NoneLeft(s, m, wanted, Scan(s, it, wanted), a)
<1>n. PICK n \in Nat : n = QuadCount
  BY SizeAssumption
<1>1. m \subseteq CodePoints /\ Holds(s, QuadsOf(m), n)
  BY <1>n, RepresentsHolds DEF Represents
<1>2. a \in Nat /\ w \in Nat
  BY <1>n, <1>1, PositionOf
<1>t. PICK t \in Nat : t = 2 * n
  OBVIOUS
<1>f. PICK f : /\ Scan(s, it, wanted) = f[t]
               /\ f[0] = [it |-> it, at |-> Limit]
               /\ \A k \in 1 .. t : f[k] = ScanStep(s, f[k - 1], wanted)
  BY <1>n, <1>t, ScanUnfolds
<1> DEFINE Ok(x, k) == x = [it |-> x.it, at |-> x.at] /\ Searched(s, m, wanted, x, a, k)
           good == {k \in 0 .. t : Ok(f[k], k)}
<1>3. Ok(f[0], 0)
  <2>x. PICK x : x = f[0]
    OBVIOUS
  <2>1. x = [it |-> it, at |-> Limit] /\ x = [it |-> x.it, at |-> x.at]
        /\ x.it = it /\ x.at = Limit
    BY <1>f, <2>x
  <2>2. All(m, Other(wanted), a, a)
    <3>1. \A c \in CodePoints : ~ (a <= c /\ c < a)
      BY <1>2 DEF CodePoints
    <3>2. QED BY <3>1 DEF All
  <2>3. a <= a /\ w >= 0
    BY <1>2
  <2>4. NotFound(s, m, wanted, x, a, w)
    BY <1>2, <2>1, <2>2, <2>3 DEF NotFound
  <2>5. QED BY <1>2, <2>1, <2>3, <2>4, <2>x DEF Searched
<1>4. ASSUME NEW k \in 0 .. t - 1, Ok(f[k], k) PROVE Ok(f[k + 1], k + 1)
  <2>1. k + 1 \in 1 .. t /\ k + 1 - 1 = k /\ k \in Nat
    OBVIOUS
  <2>x. PICK x : x = f[k]
    OBVIOUS
  <2>y. PICK y : y = f[k + 1]
    OBVIOUS
  <2>2. y = ScanStep(s, x, wanted)
    BY <1>f, <2>1, <2>x, <2>y
  <2>3. x = [it |-> x.it, at |-> x.at] /\ Searched(s, m, wanted, x, a, k)
    BY <1>4, <2>x
  <2>4. Searched(s, m, wanted, y, a, k + 1)
    BY <1>n, <1>1, <1>2, <2>1, <2>2, <2>3, SearchGoesOn
  <2>5. y = [it |-> y.it, at |-> y.at]
    BY <2>2, <2>3, StepIsPair
  <2>6. QED BY <2>4, <2>5, <2>y
<1> HIDE DEF Ok
<1>5. \A k \in 0 .. t : k \in good
  <2>1. 0 \in good
    BY <1>3
  <2>2. \A k \in 0 .. t - 1 : k \in good => k + 1 \in good
    BY <1>4
  <2> HIDE DEF good
  <2>3. QED BY <2>1, <2>2, UpToNumber
<1>6. t \in 0 .. t
  OBVIOUS
<1>x. PICK x : x = f[t]
  OBVIOUS
<1>7. Searched(s, m, wanted, x, a, t)
  BY <1>5, <1>6, <1>x DEF Ok
<1>8. ASSUME NEW v \in Nat, v >= t, NotFound(s, m, wanted, x, a, v)
      PROVE  NoneLeft(s, m, wanted, x, a)
  <2>1. PICK cp \in Nat : ItAt(s, x.it, cp, v) /\ a <= cp /\ All(m, Other(wanted), a, cp)
    BY <1>8 DEF NotFound
  <2>2. /\ x.it.base \in Nat
        /\ x.it.base < Limit => v < 2 * n
        /\ x.it.base >= Limit => cp = Limit
    BY <1>n, <1>1, <2>1, PositionOf
  <2>3. Limit \in Nat
    BY SizeAssumption DEF Limit
  <2>4. x.it.base >= Limit
    BY <1>8, <1>t, <2>2, <2>3
  <2>5. x.at = Limit
    BY <1>8 DEF NotFound
  <2>6. QED BY <2>1, <2>2, <2>4, <2>5 DEF NoneLeft
<1>9. QED BY <1>7, <1>8, <1>f, <1>x DEF Searched

-----------------------------------------------------------------------------
(* The intervals that the iterator yields.                                 *)

\* What follows an interval is not a member.
Closed(list, m) == \A j \in 1 .. Len(list) : list[j][2] + 1 \notin m

\* An interval behind the listed ones, and apart from them.
LEMMA IntervalFound ==
  ASSUME NEW list, NEW m, NEW n \in Nat, Lists(list, m, n, TRUE), Closed(list, m),
         NEW lo \in Nat, NEW up \in Nat, n <= lo, lo < up, up <= Limit,
         All(m, "Empty", n, lo), All(m, "Full", lo, up), up \notin m
  PROVE  /\ Lists(Append(list, <<lo, up - 1>>), m, up, TRUE)
         /\ Closed(Append(list, <<lo, up - 1>>), m)
<1>l. PICK L \in Nat : L = Len(list)
  BY ListOf
<1>q. Limit \in Nat
  BY SizeAssumption DEF Limit
<1>h. PICK hi \in Nat : hi = up - 1 /\ lo <= hi /\ hi + 1 = up
  OBVIOUS
<1>c. lo \in CodePoints /\ hi \in CodePoints
  BY <1>q, <1>h DEF CodePoints
<1>p. PICK new : new = Append(list, <<lo, hi>>)
  OBVIOUS
<1>1. /\ new \in Seq(IntervalPairs) /\ Len(new) = L + 1
      /\ \A j \in 1 .. L : new[j] = list[j]
      /\ new[L + 1] = <<lo, hi>>
  <2>1. list \in Seq(IntervalPairs) /\ <<lo, hi>> \in IntervalPairs
    BY <1>c DEF Lists, IntervalPairs
  <2>2. QED BY <2>1, <1>l, <1>p, AppendProperties
<1>2. new[L + 1][1] = lo /\ new[L + 1][2] = hi
  BY <1>1
<1>3. \A j \in 1 .. L : /\ new[j][1] \in CodePoints /\ new[j][2] \in CodePoints
                        /\ new[j][1] \in Nat /\ new[j][2] \in Nat
                        /\ new[j][1] <= new[j][2] /\ new[j][2] < n
  <2>1. ASSUME NEW j \in 1 .. L
        PROVE  /\ list[j][1] \in CodePoints /\ list[j][2] \in CodePoints
               /\ list[j][1] \in Nat /\ list[j][2] \in Nat
               /\ list[j][1] <= list[j][2] /\ list[j][2] < n
    <3>1. j \in 1 .. Len(list)
      BY <1>l
    <3>2. QED BY <3>1, ListOf
  <2>2. \A j \in 1 .. L : new[j] = list[j]
    BY <1>1
  <2>3. QED BY <2>1, <2>2, Zenon
<1>4. \A j \in 1 .. L + 1 : j \in 1 .. L \/ j = L + 1
  OBVIOUS
<1>5. \A j \in 1 .. L + 1 : /\ new[j][1] \in CodePoints /\ new[j][2] \in CodePoints
                            /\ new[j][1] <= new[j][2] /\ new[j][2] < up
  <2>1. \A j \in 1 .. L : new[j][2] < up
    BY <1>3
  <2>2. lo <= hi /\ hi < up
    BY <1>h
  <2>3. QED BY <1>2, <1>3, <1>4, <1>c, <2>1, <2>2
<1>m. lo \in m
  BY <1>c DEF All, Is
<1>6. ASSUME NEW j \in 1 .. (L + 1) - 1
      PROVE  new[j][2] < new[j + 1][1] /\ new[j][2] + 1 < new[j + 1][1]
  <2>1. j \in 1 .. L
    OBVIOUS
  <2>2. CASE j = L
    <3>1. new[j + 1][1] = lo /\ new[j][2] < n /\ new[j][2] \in Nat
      BY <1>2, <1>3, <2>1, <2>2
    <3>2. new[j][2] + 1 \notin m
      BY <1>1, <1>l, <2>1 DEF Closed
    <3>3. new[j][2] + 1 # lo
      BY <1>m, <3>2
    <3>4. QED BY <3>1, <3>3
  <2>3. CASE j # L
    <3>1. j \in 1 .. L - 1 /\ j + 1 \in 1 .. L
      BY <2>1, <2>3
    <3>2. list[j][2] < list[j + 1][1] /\ list[j][2] + 1 < list[j + 1][1]
      BY <1>l, <3>1 DEF Lists, IntervalList
    <3>3. QED BY <1>1, <2>1, <3>1, <3>2
  <2>4. QED BY <2>2, <2>3
<1>7. ASSUME NEW cp \in CodePoints
      PROVE  (cp \in m /\ cp < up)
               <=> \E j \in 1 .. L + 1 : new[j][1] <= cp /\ cp <= new[j][2]
  <2>0. cp \in Nat
    BY DEF CodePoints
  <2>1. (cp \in m /\ cp < n) <=> \E j \in 1 .. L : new[j][1] <= cp /\ cp <= new[j][2]
    BY <1>1, <1>l DEF Lists
  <2>2. (cp \in m /\ cp < up) <=> (cp \in m /\ cp < n) \/ (lo <= cp /\ cp < up)
    <3>1. n <= cp /\ cp < lo => cp \notin m
      BY DEF All, Is
    <3>2. lo <= cp /\ cp < up => cp \in m
      BY DEF All, Is
    <3>3. QED BY <2>0, <3>1, <3>2
  <2>3. (new[L + 1][1] <= cp /\ cp <= new[L + 1][2]) <=> lo <= cp /\ cp < up
    BY <1>h, <1>2, <2>0
  <2>4. L + 1 \in 1 .. L + 1 /\ \A j \in 1 .. L : j \in 1 .. L + 1
    OBVIOUS
  <2>5. QED BY <1>4, <2>1, <2>2, <2>3, <2>4
<1>8. IntervalList(new, L + 1)
  BY <1>5, <1>6 DEF IntervalList
<1>9. Lists(new, m, up, TRUE)
  BY <1>1, <1>5, <1>6, <1>7, <1>8 DEF Lists
<1>10. Closed(new, m)
  <2>1. \A j \in 1 .. L : new[j][2] + 1 \notin m
    BY <1>1, <1>l DEF Closed
  <2>2. new[L + 1][2] + 1 \notin m
    BY <1>2, <1>h
  <2>3. QED BY <1>1, <1>4, <2>1, <2>2 DEF Closed
<1>11. QED BY <1>9, <1>10, <1>p, <1>h

\* The list is complete up to where no member lies.
LEMMA ListReaches ==
  ASSUME NEW list, NEW m, NEW n \in Nat, NEW up \in Nat, n <= up, NEW apart,
         Lists(list, m, n, apart), All(m, "Empty", n, up)
  PROVE  Lists(list, m, up, apart)
<1>1. \A j \in 1 .. Len(list) : list[j][2] < up
  <2>1. SUFFICES ASSUME NEW j \in 1 .. Len(list) PROVE list[j][2] < up
    OBVIOUS
  <2>2. list[j][2] \in Nat /\ list[j][2] < n
    BY ListOf
  <2>3. QED BY <2>2
<1>2. \A cp \in CodePoints : (cp \in m /\ cp < up) <=> (cp \in m /\ cp < n)
  <2>1. \A cp \in CodePoints : n <= cp /\ cp < up => cp \notin m
    BY DEF All, Is
  <2>2. \A cp \in CodePoints : cp \in Nat
    BY DEF CodePoints
  <2>3. QED BY <2>1, <2>2
<1>3. QED BY <1>1, <1>2 DEF Lists

\* The iterator, interval by interval.
LEMMA IntervalsUnfold ==
  ASSUME NEW s, NEW m \in Nat
  PROVE  m = Limit =>
           \E f : /\ Intervals(s) = f[m].list
                 /\ f[0] = [it |-> IteratorBegin, list |-> <<>>]
                 /\ \A n \in 1 .. m : f[n] = NextInterval(s, f[n - 1])
<1> DEFINE Body(g, n) == IF n = 0 THEN [it |-> IteratorBegin, list |-> <<>>] ELSE NextInterval(s, g[n - 1])
           good == {k \in 0 .. m : \E g : g = [n \in 0 .. k |-> Body(g, n)]}
<1>1. 0 \in good
  <2> DEFINE g == [n \in 0 .. 0 |-> [it |-> IteratorBegin, list |-> <<>>]]
  <2>1. g = [n \in 0 .. 0 |-> Body(g, n)]
    OBVIOUS
  <2> HIDE DEF g, Body
  <2>2. QED BY <2>1
<1>2. ASSUME NEW k \in 0 .. m - 1, k \in good PROVE k + 1 \in good
  <2>1. PICK g : g = [n \in 0 .. k |-> Body(g, n)]
    BY <1>2
  <2> DEFINE h == [n \in 0 .. k + 1 |-> IF n = k + 1 THEN Body(g, n) ELSE g[n]]
  <2>2. ASSUME NEW n \in 0 .. k + 1 PROVE h[n] = Body(h, n)
    <3>1. CASE n = k + 1
      <4>1. n # 0 /\ n - 1 = k /\ k \in 0 .. k + 1 /\ k # k + 1
        BY <3>1
      <4>2. h[k] = g[k] /\ h[n] = Body(g, n)
        BY <3>1, <4>1
      <4>3. QED BY <4>1, <4>2
    <3>2. CASE n # k + 1
      <4>1. n \in 0 .. k /\ h[n] = g[n]
        BY <3>2
      <4>2. n # 0 => n - 1 \in 0 .. k /\ n - 1 \in 0 .. k + 1 /\ n - 1 # k + 1
        BY <3>2
      <4>3. n # 0 => h[n - 1] = g[n - 1]
        BY <4>2
      <4>4. g[n] = Body(g, n)
        BY <2>1, <4>1
      <4>5. QED BY <4>1, <4>3, <4>4
    <3>3. QED BY <3>1, <3>2
  <2>3. h = [n \in 0 .. k + 1 |-> h[n]]
    OBVIOUS
  <2> HIDE DEF h
  <2>4. h = [n \in 0 .. k + 1 |-> Body(h, n)]
    <3> HIDE DEF Body
    <3>1. QED BY <2>2, <2>3
  <2>5. k + 1 \in 0 .. m
    OBVIOUS
  <2>6. QED BY <2>4, <2>5
<1>3. m \in good
  <2>1. \A k \in 0 .. m - 1 : k \in good => k + 1 \in good
    BY <1>2
  <2> HIDE DEF good
  <2>2. \A k \in 0 .. m : k \in good
    BY <1>1, <2>1, UpToNumber
  <2>3. QED BY <2>2
<1> DEFINE f == CHOOSE g : g = [n \in 0 .. m |-> Body(g, n)]
<1>4. f = [n \in 0 .. m |-> Body(f, n)]
  BY <1>3
<1>5. m = Limit => Intervals(s) = f[m].list
  BY DEF Intervals
<1> HIDE DEF f
<1>6. \A n \in 0 .. m : f[n] = Body(f, n)
  <2> HIDE DEF Body
  <2>1. QED BY <1>4
<1>7. f[0] = [it |-> IteratorBegin, list |-> <<>>]
  BY <1>6
<1>8. \A n \in 1 .. m : f[n] = NextInterval(s, f[n - 1])
  BY <1>6
<1>9. QED BY <1>5, <1>7, <1>8

\* What has been listed after k calls of the iterator.
Listed(s, m, x, k) ==
  \/ NextInterval(s, x) = x /\ Lists(x.list, m, Limit, TRUE)
  \/ \E c \in Nat, w \in Nat : /\ ItAt(s, x.it, c, w) /\ c >= k
                               /\ Lists(x.list, m, c, TRUE) /\ Closed(x.list, m)

\* operator++ finds the next interval, or there is none.
LEMMA NextIntervalListed ==
  ASSUME NEW s, NEW m, Represents(s, m), NEW k \in Nat, NEW x, Listed(s, m, x, k)
  PROVE  Listed(s, m, NextInterval(s, x), k + 1)
<1>n. PICK n \in Nat : n = QuadCount
  BY SizeAssumption
<1>q. Limit \in Nat
  BY SizeAssumption DEF Limit
<1>1. m \subseteq CodePoints /\ Holds(s, QuadsOf(m), n)
  BY <1>n, RepresentsHolds DEF Represents
<1>o. Other("Full") = "Empty" /\ Other("Empty") = "Full"
  BY DEF Other
<1>e. Limit \notin m
  BY <1>1, <1>q DEF CodePoints
<1>2. CASE NextInterval(s, x) = x /\ Lists(x.list, m, Limit, TRUE)
  BY <1>2 DEF Listed
<1>3. CASE \E c \in Nat, w \in Nat : /\ ItAt(s, x.it, c, w) /\ c >= k
                               /\ Lists(x.list, m, c, TRUE) /\ Closed(x.list, m)
  <2>c. PICK c \in Nat, w \in Nat : /\ ItAt(s, x.it, c, w) /\ c >= k
                                    /\ Lists(x.list, m, c, TRUE) /\ Closed(x.list, m)
    BY <1>3
  <2>1. x.it.base \in Nat /\ c <= Limit /\ (x.it.base >= Limit => c = Limit)
    BY <1>n, <1>1, <2>c, PositionOf
  <2>lo. PICK lo : lo = Scan(s, x.it, "Full")
    OBVIOUS
  <2>hi. PICK hi : hi = Scan(s, lo.it, "Empty")
    OBVIOUS
  <2>2. NextInterval(s, x) = IF x.it.base >= Limit \/ lo.at = Limit THEN x
                             ELSE [it |-> hi.it, list |-> Append(x.list, <<lo.at, hi.at - 1>>)]
    BY <2>lo, <2>hi, Zenon DEF NextInterval
  <2>3. CASE x.it.base >= Limit
    <3>1. NextInterval(s, x) = x
      BY <2>2, <2>3, Zenon
    <3>2. Lists(x.list, m, Limit, TRUE)
      BY <2>1, <2>3, <2>c, Zenon
    <3>3. QED BY <3>1, <3>2 DEF Listed
  <2>4. Found(s, m, "Full", lo, c) \/ NoneLeft(s, m, "Full", lo, c)
    BY <2>c, <2>lo, ScanFinds
  <2>5. CASE NoneLeft(s, m, "Full", lo, c)
    <3>1. lo.at = Limit /\ All(m, "Empty", c, Limit)
      BY <1>o, <2>5 DEF NoneLeft
    <3>2. NextInterval(s, x) = x
      BY <2>2, <3>1, Zenon
    <3>3. Lists(x.list, m, Limit, TRUE)
      BY <1>q, <2>1, <2>c, <3>1, ListReaches
    <3>4. QED BY <3>2, <3>3 DEF Listed
  <2>6. CASE Found(s, m, "Full", lo, c) /\ ~ (x.it.base >= Limit)
    <3>l. PICK l \in Nat : l = lo.at /\ l \in CodePoints /\ l # Limit /\ c <= l
                           /\ l \in m /\ All(m, "Empty", c, l)
      BY <1>o, <1>q, <2>6 DEF Found, Is, CodePoints
    <3>c. PICK c1 \in Nat, w1 \in Nat : ItAt(s, lo.it, c1, w1) /\ l <= c1 /\ All(m, "Full", l, c1)
      BY <2>6, <3>l DEF Found
    <3>1. c1 <= Limit
      BY <1>n, <1>1, <3>c, PositionOf
    <3>2. Found(s, m, "Empty", hi, c1) \/ NoneLeft(s, m, "Empty", hi, c1)
      BY <2>hi, <3>c, ScanFinds
    <3>3. PICK up \in Nat : /\ up = hi.at /\ c1 <= up /\ up <= Limit /\ up \notin m
                            /\ All(m, "Full", c1, up)
                            /\ \E c2 \in Nat, w2 \in Nat :
                                 ItAt(s, hi.it, c2, w2) /\ up <= c2 /\ All(m, "Empty", up, c2)
      <4>1. CASE Found(s, m, "Empty", hi, c1)
        <5>1. /\ hi.at \in CodePoints /\ c1 <= hi.at /\ hi.at \notin m
              /\ All(m, "Full", c1, hi.at)
              /\ \E c2 \in Nat : \E w2 \in Nat :
                   ItAt(s, hi.it, c2, w2) /\ hi.at <= c2 /\ All(m, "Empty", hi.at, c2)
          BY <1>o, <4>1 DEF Found, Is
        <5>2. hi.at \in Nat /\ hi.at <= Limit
          BY <1>q, <5>1 DEF CodePoints
        <5>3. QED BY <5>1, <5>2
      <4>2. CASE NoneLeft(s, m, "Empty", hi, c1)
        <5>1. hi.at = Limit /\ All(m, "Full", c1, Limit)
          BY <1>o, <4>2 DEF NoneLeft
        <5>2. PICK w2 : ItAt(s, hi.it, Limit, w2)
          BY <4>2 DEF NoneLeft
        <5>3. w2 \in Nat
          BY <1>n, <1>1, <5>2, PositionOf
        <5>4. All(m, "Empty", Limit, Limit)
          <6>1. \A d \in CodePoints : ~ (Limit <= d /\ d < Limit)
            BY <1>q DEF CodePoints
          <6>2. QED BY <6>1 DEF All
        <5>5. Limit <= Limit
          BY <1>q
        <5>6. QED BY <1>e, <1>q, <3>1, <5>1, <5>2, <5>3, <5>4, <5>5
      <4>3. QED BY <3>2, <4>1, <4>2
    <3>d. PICK c2 \in Nat, w2 \in Nat :
            ItAt(s, hi.it, c2, w2) /\ up <= c2 /\ All(m, "Empty", up, c2)
      BY <3>3
    <3>4. l < up
      <4>1. l # up
        BY <3>l, <3>3
      <4>2. QED BY <3>c, <3>3, <4>1
    <3>5. All(m, "Full", l, up)
      BY <3>c, <3>3, AllJoins
    <3>p. PICK list : list = Append(x.list, <<l, up - 1>>)
      OBVIOUS
    <3>6. Lists(list, m, up, TRUE) /\ Closed(list, m)
      BY <2>c, <3>l, <3>3, <3>4, <3>5, <3>p, IntervalFound
    <3>7. Lists(list, m, c2, TRUE)
      BY <3>d, <3>6, ListReaches
    <3>8. c2 >= k + 1
      BY <2>c, <3>l, <3>4, <3>d
    <3>y. PICK y : y = [it |-> hi.it, list |-> list]
      OBVIOUS
    <3>9. y.it = hi.it /\ y.list = list
      BY <3>y
    <3>10. Listed(s, m, y, k + 1)
      BY <3>d, <3>6, <3>7, <3>8, <3>9 DEF Listed
    <3>11. NextInterval(s, x) = y
      BY <2>2, <2>6, <3>l, <3>3, <3>p, <3>y, Zenon
    <3>12. QED BY <3>10, <3>11
  <2>7. QED BY <2>3, <2>4, <2>5, <2>6
<1>4. QED BY <1>2, <1>3 DEF Listed

\* The iterator lists the members, with gaps between the intervals.
LEMMA IntervalsListed ==
  ASSUME NEW s, NEW m, Represents(s, m)
  PROVE  Lists(Intervals(s), m, Limit, TRUE)
<1>n. PICK n \in Nat : n = QuadCount
  BY SizeAssumption
<1>q. QuadBits \in Nat /\ Limit \in Nat
  BY SizeAssumption DEF Limit
<1>1. m \subseteq CodePoints /\ Holds(s, QuadsOf(m), n)
  BY <1>n, RepresentsHolds DEF Represents
<1>t. PICK t \in Nat : t = Limit
  BY <1>q
<1>f. PICK f : /\ Intervals(s) = f[t].list
               /\ f[0] = [it |-> IteratorBegin, list |-> <<>>]
               /\ \A k \in 1 .. t : f[k] = NextInterval(s, f[k - 1])
  BY <1>t, IntervalsUnfold
<1> DEFINE good == {k \in 0 .. t : Listed(s, m, f[k], k)}
<1>2. Listed(s, m, f[0], 0)
  <2>x. PICK x : x = f[0]
    OBVIOUS
  <2>1. x.it = IteratorBegin /\ x.list = <<>>
    BY <1>f, <2>x
  <2>2. s \in Objects /\ Len(s.runs) \in Nat
    BY <1>1 DEF Holds, Objects
  <2>3. LengthBefore(s, 1) = 0 /\ MixedBefore(s, 1) = 0
    BY <2>2, RunPlaces
  <2>4. 1 \in 1 .. Len(s.runs) + 1 /\ QuadBits * 0 = 0 /\ 0 + 1 = 1
    BY <1>q, <2>2
  <2>5. IteratorBegin = [run |-> 1, quad |-> MixedBefore(s, 1) + 1, mixedIndex |-> 0,
                         offset |-> 0, base |-> QuadBits * LengthBefore(s, 1)]
    BY <2>3, <2>4 DEF IteratorBegin
  <2>6. \E w \in Nat : ItAt(s, IteratorBegin, 0, w)
    <3>1. /\ 1 # Len(s.runs) + 1 =>
              ItAt(s, IteratorBegin, QuadBits * LengthBefore(s, 1), 2 * LengthBefore(s, 1) + 1)
          /\ 1 = Len(s.runs) + 1 =>
              ItAt(s, IteratorBegin, QuadBits * LengthBefore(s, 1), 2 * LengthBefore(s, 1))
      BY <1>1, <2>4, <2>5, ItAtRun
    <3>2. 2 * 0 + 1 = 1 /\ 2 * 0 = 0
      OBVIOUS
    <3>3. \/ ItAt(s, IteratorBegin, 0, 1) \/ ItAt(s, IteratorBegin, 0, 0)
      BY <2>3, <2>4, <3>1, <3>2
    <3>4. QED BY <3>3
  <2>7. Lists(<<>>, m, 0, TRUE) /\ Closed(<<>>, m)
    <3>1. Lists(<<>>, m, 0, TRUE)
      BY NothingListed, Zenon
    <3>2. Closed(<<>>, m)
      BY DEF Closed
    <3>3. QED BY <3>1, <3>2
  <2>8. 0 \in Nat /\ 0 >= 0
    OBVIOUS
  <2>9. Lists(x.list, m, 0, TRUE) /\ Closed(x.list, m)
    BY <2>1, <2>7, Zenon
  <2>10. Listed(s, m, x, 0)
    BY <2>1, <2>6, <2>8, <2>9 DEF Listed
  <2>11. QED BY <2>10, <2>x
<1>3. ASSUME NEW k \in 0 .. t - 1, Listed(s, m, f[k], k) PROVE Listed(s, m, f[k + 1], k + 1)
  <2>1. k + 1 \in 1 .. t /\ k + 1 - 1 = k /\ k \in Nat
    OBVIOUS
  <2>2. f[k + 1] = NextInterval(s, f[k])
    BY <1>f, <2>1
  <2>3. QED BY <1>3, <2>1, <2>2, NextIntervalListed
<1>4. \A k \in 0 .. t : k \in good
  <2>1. 0 \in good
    BY <1>2
  <2>2. \A k \in 0 .. t - 1 : k \in good => k + 1 \in good
    BY <1>3
  <2> HIDE DEF good
  <2>3. QED BY <2>1, <2>2, UpToNumber
<1>5. t \in 0 .. t
  OBVIOUS
<1>x. PICK x : x = f[t]
  OBVIOUS
<1>6. Listed(s, m, x, t)
  BY <1>4, <1>5, <1>x
<1>7. ASSUME NEW c \in Nat, NEW w \in Nat, ItAt(s, x.it, c, w), c >= t, Lists(x.list, m, c, TRUE)
      PROVE  Lists(x.list, m, Limit, TRUE)
  <2>1. c <= Limit
    BY <1>n, <1>1, <1>7, PositionOf
  <2>2. c = Limit
    BY <1>7, <1>q, <1>t, <2>1
  <2>3. QED BY <1>7, <2>2, Zenon
<1>8. QED BY <1>6, <1>7, <1>f, <1>x DEF Listed

\* Intervals further on in a list lie behind a gap.
LEMMA ListOrdered ==
  ASSUME NEW list, NEW m, NEW n, Lists(list, m, n, TRUE),
         NEW i \in 1 .. Len(list), NEW j \in 1 .. Len(list), i < j
  PROVE  list[i][2] + 1 < list[j][1]
<1>l. PICK L \in Nat : L = Len(list)
  BY ListOf
<1>d. PICK d \in Nat : d = j - i - 1
  OBVIOUS
<1> DEFINE good == {k \in 0 .. d : list[i][2] + 1 < list[i + 1 + k][1]}
<1>1. \A k \in 1 .. L : list[k][1] \in Nat /\ list[k][2] \in Nat /\ list[k][1] <= list[k][2]
  BY <1>l, ListOf
<1>2. \A k \in 1 .. L - 1 : list[k][2] + 1 < list[k + 1][1]
  BY <1>l DEF Lists
<1>3. 0 \in good
  <2>1. i \in 1 .. L - 1 /\ i + 1 + 0 = i + 1 /\ 0 \in 0 .. d
    BY <1>l
  <2>2. QED BY <1>2, <2>1
<1>4. ASSUME NEW k \in 0 .. d - 1, k \in good PROVE k + 1 \in good
  <2>p. PICK p \in Nat : p = i + 1 + k /\ p + 1 = i + 1 + (k + 1) /\ p \in 1 .. L - 1
                         /\ p + 1 \in 1 .. L /\ p \in 1 .. L
    BY <1>l, <1>d
  <2>a. PICK a \in Nat : a = list[i][2]
    BY <1>1, <1>l
  <2>b. PICK b \in Nat, c \in Nat : b = list[p][1] /\ c = list[p][2] /\ b <= c
    BY <1>1, <2>p
  <2>d. PICK e \in Nat : e = list[p + 1][1]
    BY <1>1, <2>p
  <2>1. a + 1 < b
    BY <1>4, <2>a, <2>b, <2>p
  <2>2. c + 1 < e
    <3>1. list[p][2] + 1 < list[p + 1][1]
      BY <1>2, <2>p
    <3>2. QED BY <2>b, <2>d, <3>1, Zenon
  <2>f. a + 1 < e
    BY <2>b, <2>1, <2>2
  <2>3. list[i][2] + 1 < list[p + 1][1]
    BY <2>a, <2>d, <2>f
  <2>4. k + 1 \in 0 .. d
    OBVIOUS
  <2>5. QED BY <2>3, <2>4, <2>p
<1>5. \A k \in 0 .. d : k \in good
  <2>1. \A k \in 0 .. d - 1 : k \in good => k + 1 \in good
    BY <1>4
  <2> HIDE DEF good
  <2>2. QED BY <1>3, <2>1, UpToNumber
<1>6. d \in 0 .. d /\ i + 1 + d = j
  BY <1>d
<1>7. QED BY <1>5, <1>6

\* Two lists of the same members agree on the first j intervals.
AgreeOn(x, y, j) == j <= Len(x) /\ j <= Len(y) /\ \A i \in 1 .. j : x[i] = y[i]

\* Of two lists of one set the next interval begins no later.
LEMMA NextBegin ==
  ASSUME NEW m, NEW n, NEW x, NEW y, Lists(x, m, n, TRUE), Lists(y, m, n, TRUE),
         NEW j \in Nat, AgreeOn(x, y, j), j + 1 <= Len(x)
  PROVE  j + 1 <= Len(y) /\ y[j + 1][1] <= x[j + 1][1]
<1>x. PICK X \in Nat : X = Len(x)
  BY ListOf
<1>y. PICK Y \in Nat : Y = Len(y)
  BY ListOf
<1>1. j + 1 \in 1 .. X
  BY <1>x
<1>a. PICK a \in Nat : a = x[j + 1][1] /\ a \in CodePoints /\ a <= x[j + 1][2]
                       /\ x[j + 1][2] < n /\ x[j + 1][2] \in Nat
  BY <1>1, <1>x, ListOf
<1>2. a \in m /\ a < n
  <2>1. x[j + 1][1] <= a /\ a <= x[j + 1][2]
    BY <1>a
  <2>2. \E i \in 1 .. Len(x) : x[i][1] <= a /\ a <= x[i][2]
    BY <1>1, <1>x, <2>1
  <2>3. QED BY <1>a, <2>2 DEF Lists
<1>i. PICK i \in 1 .. Y : y[i][1] <= a /\ a <= y[i][2]
  BY <1>a, <1>2, <1>y DEF Lists
<1>3. ~ (i <= j)
  <2>1. SUFFICES ASSUME i <= j PROVE FALSE
    OBVIOUS
  <2>2. i \in 1 .. j /\ i \in 1 .. X /\ i < j + 1
    BY <1>1, <2>1
  <2>3. x[i] = y[i]
    BY <2>2 DEF AgreeOn
  <2>4. x[i][2] + 1 < x[j + 1][1]
    BY <1>1, <1>x, <2>2, ListOrdered
  <2>5. x[i][2] \in Nat
    BY <1>x, <2>2, ListOf
  <2>u. PICK u \in Nat : u = x[i][2]
    BY <2>5
  <2>6. u + 1 < a
    BY <1>a, <2>4, <2>u, Zenon
  <2>7. a <= u
    BY <1>i, <2>3, <2>u, Zenon
  <2>8. QED BY <2>6, <2>7
<1>4. j + 1 \in 1 .. Y
  BY <1>3
<1>5. y[j + 1][1] <= a
  <2>1. CASE i = j + 1
    BY <1>i, <2>1
  <2>2. CASE i # j + 1
    <3>1. j + 1 < i
      BY <1>3, <2>2
    <3>2. y[j + 1][2] + 1 < y[i][1]
      BY <1>4, <1>y, <3>1, ListOrdered
    <3>3. /\ y[j + 1][1] \in Nat /\ y[j + 1][2] \in Nat /\ y[j + 1][1] <= y[j + 1][2]
          /\ y[i][1] \in Nat
      BY <1>4, <1>y, ListOf
    <3>u. PICK u \in Nat, v \in Nat, w \in Nat :
            /\ u = y[j + 1][1] /\ v = y[j + 1][2] /\ w = y[i][1] /\ u <= v
      BY <3>3
    <3>4. v + 1 < w /\ w <= a
      <4>1. v + 1 < w
        BY <3>2, <3>u, Zenon
      <4>2. w <= a
        BY <1>i, <3>u, Zenon
      <4>3. QED BY <4>1, <4>2
    <3>v. u <= v
      BY <3>u
    <3>5. u <= a
      BY <3>v, <3>4
    <3>6. QED BY <3>u, <3>5
  <2>3. QED BY <2>1, <2>2
<1>6. QED BY <1>4, <1>5, <1>a, <1>y

\* It ends no earlier.
LEMMA NextEnd ==
  ASSUME NEW m, NEW n, NEW x, NEW y, Lists(x, m, n, TRUE), Lists(y, m, n, TRUE),
         NEW j \in Nat, j + 1 <= Len(x), j + 1 <= Len(y), x[j + 1][1] = y[j + 1][1]
  PROVE  ~ (x[j + 1][2] < y[j + 1][2])
<1>x. PICK X \in Nat : X = Len(x)
  BY ListOf
<1>y. PICK Y \in Nat : Y = Len(y)
  BY ListOf
<1>1. j + 1 \in 1 .. X /\ j + 1 \in 1 .. Y
  BY <1>x, <1>y
<1>2. SUFFICES ASSUME x[j + 1][2] < y[j + 1][2] PROVE FALSE
  OBVIOUS
<1>0. x[j + 1][1] \in Nat /\ x[j + 1][1] <= x[j + 1][2] /\ x[j + 1][2] \in Nat
  BY <1>1, <1>x, ListOf
<1>a. PICK a \in Nat : a = x[j + 1][1] /\ a <= x[j + 1][2] /\ a = y[j + 1][1]
  BY <1>0
<1>e. PICK e \in Nat : e = x[j + 1][2] + 1
  BY <1>0
<1>3. /\ y[j + 1][2] \in Nat /\ y[j + 1][2] \in CodePoints /\ y[j + 1][2] < n
      /\ x[j + 1][2] \in Nat
  <2>1. y[j + 1][2] \in Nat /\ y[j + 1][2] \in CodePoints /\ y[j + 1][2] < n
    BY <1>1, <1>y, ListOf
  <2>2. x[j + 1][2] \in Nat
    BY <1>1, <1>x, ListOf
  <2>3. QED BY <2>1, <2>2
<1>4. e \in CodePoints /\ a < e /\ e <= y[j + 1][2]
  <2>1. Limit \in Nat
    BY SizeAssumption DEF Limit
  <2>x. PICK b \in Nat, c \in Nat : b = x[j + 1][2] /\ c = y[j + 1][2]
    BY <1>3
  <2>2. a <= b /\ e = b + 1 /\ b < c
    BY <1>2, <1>a, <1>e, <2>x
  <2>3. c <= Limit - 1
    BY <1>3, <2>1, <2>x DEF CodePoints
  <2>4. e \in CodePoints
    BY <2>1, <2>2, <2>3 DEF CodePoints
  <2>5. QED BY <2>x, <2>2, <2>4
<1>5. e \in m /\ e < n
  <2>1. y[j + 1][1] <= e
    BY <1>a, <1>4
  <2>2. \E i \in 1 .. Len(y) : y[i][1] <= e /\ e <= y[i][2]
    BY <1>1, <1>y, <1>4, <2>1
  <2>3. QED BY <1>4, <2>2 DEF Lists
<1>i. PICK i \in 1 .. X : x[i][1] <= e /\ e <= x[i][2]
  BY <1>4, <1>5, <1>x DEF Lists
<1>6. x[i][1] \in Nat /\ x[i][2] \in Nat
  BY <1>x, ListOf
<1>7. CASE i = j + 1
  BY <1>3, <1>e, <1>i, <1>7
<1>8. CASE i > j + 1
  <2>1. x[j + 1][2] + 1 < x[i][1]
    BY <1>1, <1>x, <1>8, ListOrdered
  <2>u. PICK u \in Nat : u = x[i][1]
    BY <1>6
  <2>2. e < u /\ u <= e
    BY <1>e, <1>i, <2>u, <2>1
  <2>3. QED BY <2>2
<1>9. CASE i < j + 1
  <2>1. x[i][2] + 1 < x[j + 1][1]
    BY <1>1, <1>x, <1>9, ListOrdered
  <2>u. PICK u \in Nat : u = x[i][2]
    BY <1>6
  <2>2. u + 1 < a /\ a < e /\ e <= u
    BY <1>4, <1>a, <1>i, <2>u, <2>1
  <2>3. QED BY <2>2
<1>10. QED BY <1>7, <1>8, <1>9

\* Two lists that agree up to an interval agree on the next one.
LEMMA AgreeFurther ==
  ASSUME NEW m, NEW n, NEW x, NEW y, Lists(x, m, n, TRUE), Lists(y, m, n, TRUE),
         NEW j \in Nat, AgreeOn(x, y, j), j + 1 <= Len(x)
  PROVE  AgreeOn(x, y, j + 1)
<1>x. PICK X \in Nat : X = Len(x)
  BY ListOf
<1>y. PICK Y \in Nat : Y = Len(y)
  BY ListOf
<1>1. j + 1 <= Len(y) /\ y[j + 1][1] <= x[j + 1][1]
  BY NextBegin
<1>2. AgreeOn(y, x, j)
  BY DEF AgreeOn
<1>3. x[j + 1][1] <= y[j + 1][1]
  BY <1>1, <1>2, NextBegin
<1>4. j + 1 \in 1 .. X /\ j + 1 \in 1 .. Y
  BY <1>1, <1>x, <1>y
<1>5. /\ x[j + 1] = <<x[j + 1][1], x[j + 1][2]>> /\ x[j + 1][1] \in Nat /\ x[j + 1][2] \in Nat
      /\ y[j + 1] = <<y[j + 1][1], y[j + 1][2]>> /\ y[j + 1][1] \in Nat /\ y[j + 1][2] \in Nat
  BY <1>4, <1>x, <1>y, ListOf
<1>6. x[j + 1][1] = y[j + 1][1]
  BY <1>1, <1>3, <1>5
<1>7. ~ (x[j + 1][2] < y[j + 1][2])
  BY <1>1, <1>6, NextEnd
<1>8. ~ (y[j + 1][2] < x[j + 1][2])
  BY <1>1, <1>6, NextEnd
<1>9. x[j + 1][2] = y[j + 1][2]
  BY <1>5, <1>7, <1>8
<1>10. x[j + 1] = y[j + 1]
  BY <1>5, <1>6, <1>9
<1>11. \A i \in 1 .. j + 1 : x[i] = y[i]
  <2>1. \A i \in 1 .. j + 1 : i \in 1 .. j \/ i = j + 1
    OBVIOUS
  <2>2. QED BY <1>10, <2>1 DEF AgreeOn
<1>12. QED BY <1>1, <1>11 DEF AgreeOn

\* There is one list of the members with gaps between the intervals.
LEMMA ListUnique ==
  ASSUME NEW m, NEW n, NEW x, NEW y, Lists(x, m, n, TRUE), Lists(y, m, n, TRUE)
  PROVE  x = y
<1>x. PICK X \in Nat : X = Len(x)
  BY ListOf
<1>y. PICK Y \in Nat : Y = Len(y)
  BY ListOf
<1> DEFINE good == {k \in 0 .. X : AgreeOn(x, y, k)}
<1>1. 0 \in good
  <2>1. 0 <= Len(x) /\ 0 <= Len(y) /\ \A i \in 1 .. 0 : x[i] = y[i]
    BY <1>x, <1>y
  <2>2. 0 \in 0 .. X
    OBVIOUS
  <2>3. QED BY <2>1, <2>2 DEF AgreeOn
<1>2. ASSUME NEW k \in 0 .. X - 1, k \in good PROVE k + 1 \in good
  <2>1. k + 1 <= Len(x) /\ k \in Nat /\ k + 1 \in 0 .. X
    BY <1>x
  <2>2. AgreeOn(x, y, k + 1)
    BY <1>2, <2>1, AgreeFurther
  <2>3. QED BY <2>1, <2>2
<1>3. \A k \in 0 .. X : k \in good
  <2>1. \A k \in 0 .. X - 1 : k \in good => k + 1 \in good
    BY <1>2
  <2> HIDE DEF good
  <2>2. QED BY <1>1, <2>1, UpToNumber
<1>4. X \in 0 .. X
  OBVIOUS
<1>5. AgreeOn(x, y, X)
  BY <1>3, <1>4
<1>6. Y <= X
  <2>1. SUFFICES ASSUME X + 1 <= Y PROVE FALSE
    OBVIOUS
  <2>2. AgreeOn(y, x, X)
    BY <1>5 DEF AgreeOn
  <2>3. X + 1 <= Len(x)
    BY <1>y, <2>1, <2>2, NextBegin
  <2>4. QED BY <1>x, <2>3
<1>7. X = Y /\ \A i \in 1 .. X : x[i] = y[i]
  BY <1>5, <1>6, <1>x, <1>y DEF AgreeOn
<1>8. x \in Seq(IntervalPairs) /\ y \in Seq(IntervalPairs)
  BY DEF Lists
<1>9. QED BY <1>7, <1>8, <1>x, <1>y, SeqEqual

\* isolates, interval by interval.
LEMMA IsolatesUnfold ==
  ASSUME NEW s, NEW list, NEW m \in Nat
  PROVE  list = Intervals(s) /\ m = Len(list) =>
           \E f : /\ Isolates(s) = f[m]
                 /\ f[0] = EmptySet
                 /\ \A n \in 1 .. m : f[n] = InsertIsolate(f[n - 1], list[n])
<1> DEFINE Body(g, n) == IF n = 0 THEN EmptySet ELSE InsertIsolate(g[n - 1], list[n])
           good == {k \in 0 .. m : \E g : g = [n \in 0 .. k |-> Body(g, n)]}
<1>1. 0 \in good
  <2> DEFINE g == [n \in 0 .. 0 |-> EmptySet]
  <2>1. g = [n \in 0 .. 0 |-> Body(g, n)]
    OBVIOUS
  <2> HIDE DEF g, Body
  <2>2. QED BY <2>1
<1>2. ASSUME NEW k \in 0 .. m - 1, k \in good PROVE k + 1 \in good
  <2>1. PICK g : g = [n \in 0 .. k |-> Body(g, n)]
    BY <1>2
  <2> DEFINE h == [n \in 0 .. k + 1 |-> IF n = k + 1 THEN Body(g, n) ELSE g[n]]
  <2>2. ASSUME NEW n \in 0 .. k + 1 PROVE h[n] = Body(h, n)
    <3>1. CASE n = k + 1
      <4>1. n # 0 /\ n - 1 = k /\ k \in 0 .. k + 1 /\ k # k + 1
        BY <3>1
      <4>2. h[k] = g[k] /\ h[n] = Body(g, n)
        BY <3>1, <4>1
      <4>3. QED BY <4>1, <4>2
    <3>2. CASE n # k + 1
      <4>1. n \in 0 .. k /\ h[n] = g[n]
        BY <3>2
      <4>2. n # 0 => n - 1 \in 0 .. k /\ n - 1 \in 0 .. k + 1 /\ n - 1 # k + 1
        BY <3>2
      <4>3. n # 0 => h[n - 1] = g[n - 1]
        BY <4>2
      <4>4. g[n] = Body(g, n)
        BY <2>1, <4>1
      <4>5. QED BY <4>1, <4>3, <4>4
    <3>3. QED BY <3>1, <3>2
  <2>3. h = [n \in 0 .. k + 1 |-> h[n]]
    OBVIOUS
  <2> HIDE DEF h
  <2>4. h = [n \in 0 .. k + 1 |-> Body(h, n)]
    <3> HIDE DEF Body
    <3>1. QED BY <2>2, <2>3
  <2>5. k + 1 \in 0 .. m
    OBVIOUS
  <2>6. QED BY <2>4, <2>5
<1>3. m \in good
  <2>1. \A k \in 0 .. m - 1 : k \in good => k + 1 \in good
    BY <1>2
  <2> HIDE DEF good
  <2>2. \A k \in 0 .. m : k \in good
    BY <1>1, <2>1, UpToNumber
  <2>3. QED BY <2>2
<1> DEFINE f == CHOOSE g : g = [n \in 0 .. m |-> Body(g, n)]
<1>4. f = [n \in 0 .. m |-> Body(f, n)]
  BY <1>3
<1>5. list = Intervals(s) /\ m = Len(list) => Isolates(s) = f[m]
  BY DEF Isolates
<1> HIDE DEF f
<1>6. \A n \in 0 .. m : f[n] = Body(f, n)
  <2> HIDE DEF Body
  <2>1. QED BY <1>4
<1>7. f[0] = EmptySet
  BY <1>6
<1>8. \A n \in 1 .. m : f[n] = InsertIsolate(f[n - 1], list[n])
  BY <1>6
<1>9. QED BY <1>5, <1>7, <1>8

\* Intervals of one code point, of the first k of a list.
Alone(list, k) == {cp \in CodePoints : \E j \in 1 .. k : list[j][1] = cp /\ list[j][2] = cp}

\* The intervals of one code point are the isolated members.
LEMMA AloneAre ==
  ASSUME NEW list, NEW m, m \subseteq CodePoints, Lists(list, m, Limit, TRUE)
  PROVE  Alone(list, Len(list)) = {cp \in m : cp - 1 \notin m /\ cp + 1 \notin m}
<1>l. PICK L \in Nat : L = Len(list)
  BY ListOf
<1>1. \A cp \in CodePoints : cp \in Nat /\ cp < Limit
  <2>1. Limit \in Nat
    BY SizeAssumption DEF Limit
  <2>2. QED BY <2>1 DEF CodePoints
<1>2. ASSUME NEW cp \in CodePoints
      PROVE  cp \in m <=> \E j \in 1 .. L : list[j][1] <= cp /\ cp <= list[j][2]
  BY <1>1, <1>l DEF Lists
<1>3. \A j \in 1 .. L : list[j][1] \in Nat /\ list[j][2] \in Nat /\ list[j][1] <= list[j][2]
                        /\ list[j][1] \in CodePoints /\ list[j][2] \in CodePoints
  BY <1>l, ListOf
<1>4. ASSUME NEW cp \in CodePoints, NEW j \in 1 .. L, list[j][1] = cp, list[j][2] = cp
      PROVE  cp \in m /\ cp - 1 \notin m /\ cp + 1 \notin m
  <2>0. cp \in Nat
    BY <1>1
  <2>1. cp \in m
    <3>1. list[j][1] <= cp /\ cp <= list[j][2]
      BY <1>4, <2>0
    <3>2. QED BY <1>2, <3>1
  <2>2. ASSUME NEW d \in m, d = cp - 1 \/ d = cp + 1 PROVE FALSE
    <3>0. d \in CodePoints /\ d \in Nat
      BY <1>1
    <3>i. PICK i \in 1 .. L : list[i][1] <= d /\ d <= list[i][2]
      BY <1>2, <3>0
    <3>1. CASE i = j
      BY <1>4, <2>0, <2>2, <3>0, <3>1, <3>i
    <3>2. CASE i < j
      <4>1. list[i][2] + 1 < list[j][1]
        BY <1>l, <3>2, ListOrdered
      <4>2. QED BY <1>3, <1>4, <2>0, <2>2, <3>0, <3>i, <4>1
    <3>3. CASE j < i
      <4>1. list[j][2] + 1 < list[i][1]
        BY <1>l, <3>3, ListOrdered
      <4>2. QED BY <1>3, <1>4, <2>0, <2>2, <3>0, <3>i, <4>1
    <3>4. QED BY <3>1, <3>2, <3>3
  <2>3. QED BY <2>1, <2>2
<1>5. ASSUME NEW cp \in m, cp - 1 \notin m, cp + 1 \notin m
      PROVE  \E j \in 1 .. L : list[j][1] = cp /\ list[j][2] = cp
  <2>0. cp \in CodePoints /\ cp \in Nat
    BY <1>1
  <2>j. PICK j \in 1 .. L : list[j][1] <= cp /\ cp <= list[j][2]
    BY <1>2, <2>0
  <2>q. Limit \in Nat
    BY SizeAssumption DEF Limit
  <2>1. ~ (list[j][1] < cp)
    <3>1. SUFFICES ASSUME list[j][1] < cp PROVE FALSE
      OBVIOUS
    <3>2. cp - 1 \in CodePoints /\ list[j][1] <= cp - 1 /\ cp - 1 <= list[j][2]
      BY <1>1, <1>3, <2>0, <2>j, <2>q, <3>1 DEF CodePoints
    <3>3. QED BY <1>2, <1>5, <3>2
  <2>2. ~ (cp < list[j][2])
    <3>1. SUFFICES ASSUME cp < list[j][2] PROVE FALSE
      OBVIOUS
    <3>2. list[j][2] \in CodePoints
      BY <1>3
    <3>3. cp + 1 \in CodePoints /\ list[j][1] <= cp + 1 /\ cp + 1 <= list[j][2]
      BY <1>1, <1>3, <2>0, <2>j, <2>q, <3>1, <3>2 DEF CodePoints
    <3>4. QED BY <1>2, <1>5, <3>3
  <2>3. list[j][1] = cp /\ list[j][2] = cp
    BY <1>3, <2>0, <2>j, <2>1, <2>2
  <2>4. QED BY <2>3
<1>6. QED BY <1>4, <1>5, <1>l DEF Alone

\* isolates inserts these, and no other.
LEMMA IsolateInserted ==
  ASSUME NEW list, NEW m, Lists(list, m, Limit, TRUE), NEW k \in Nat, k + 1 <= Len(list),
         NEW s, Represents(s, Alone(list, k))
  PROVE  Represents(InsertIsolate(s, list[k + 1]), Alone(list, k + 1))
<1>l. PICK L \in Nat : L = Len(list)
  BY ListOf
<1>1. k + 1 \in 1 .. L
  BY <1>l
<1>2. list[k + 1][1] \in CodePoints
  BY <1>1, <1>l, ListOf
<1>3. \A j \in 1 .. k + 1 : j \in 1 .. k \/ j = k + 1
  OBVIOUS
<1>4. (\A j \in 1 .. k : j \in 1 .. k + 1) /\ k + 1 \in 1 .. k + 1
  OBVIOUS
<1>5. CASE list[k + 1][1] = list[k + 1][2]
  <2>1. Alone(list, k + 1) = Alone(list, k) \cup {list[k + 1][1]}
    BY <1>2, <1>3, <1>4, <1>5 DEF Alone
  <2>2. InsertIsolate(s, list[k + 1]) = InsertCodePoint(s, list[k + 1][1])
    BY <1>5 DEF InsertIsolate
  <2>3. QED BY <1>2, <2>1, <2>2, InsertRepresents
<1>6. CASE list[k + 1][1] # list[k + 1][2]
  <2>1. Alone(list, k + 1) = Alone(list, k)
    BY <1>3, <1>4, <1>6 DEF Alone
  <2>2. InsertIsolate(s, list[k + 1]) = s
    BY <1>6 DEF InsertIsolate
  <2>3. QED BY <2>1, <2>2
<1>7. QED BY <1>5, <1>6

\* The set of the isolated members.
LEMMA IsolatesRepresents ==
  ASSUME NEW s, NEW m, Represents(s, m)
  PROVE  Represents(Isolates(s), {cp \in m : cp - 1 \notin m /\ cp + 1 \notin m})
<1>0. m \subseteq CodePoints
  BY DEF Represents
<1>p. PICK list : list = Intervals(s)
  OBVIOUS
<1>1. Lists(list, m, Limit, TRUE)
  BY <1>p, IntervalsListed
<1>l. PICK L \in Nat : L = Len(list)
  BY <1>1, ListOf
<1>f. PICK f : /\ Isolates(s) = f[L]
               /\ f[0] = EmptySet
               /\ \A k \in 1 .. L : f[k] = InsertIsolate(f[k - 1], list[k])
  BY <1>l, <1>p, IsolatesUnfold
<1> DEFINE good == {k \in 0 .. L : Represents(f[k], Alone(list, k))}
<1>2. 0 \in good
  <2>1. Alone(list, 0) = {}
    BY DEF Alone
  <2>2. 0 \in 0 .. L
    OBVIOUS
  <2>3. QED BY <1>f, <2>1, <2>2, EmptyRepresents
<1>3. ASSUME NEW k \in 0 .. L - 1, k \in good PROVE k + 1 \in good
  <2>1. k + 1 <= Len(list) /\ k \in Nat /\ k + 1 \in 0 .. L /\ k + 1 \in 1 .. L /\ k + 1 - 1 = k
    BY <1>l
  <2>2. f[k + 1] = InsertIsolate(f[k], list[k + 1])
    BY <1>f, <2>1
  <2>3. QED BY <1>1, <1>3, <2>1, <2>2, IsolateInserted
<1>4. \A k \in 0 .. L : k \in good
  <2>1. \A k \in 0 .. L - 1 : k \in good => k + 1 \in good
    BY <1>3
  <2> HIDE DEF good
  <2>2. QED BY <1>2, <2>1, UpToNumber
<1>5. L \in 0 .. L
  OBVIOUS
<1>6. Represents(f[L], Alone(list, L))
  BY <1>4, <1>5
<1>7. QED BY <1>0, <1>1, <1>6, <1>f, <1>l, AloneAre

-----------------------------------------------------------------------------
(* The object's life.                                                      *)

\* The inductive invariant: the object holds what the calls say.
SetInvariant == Represents(set, members) /\ joined \in BOOLEAN

\* The other sets that calls are given are represented, too.
LEMMA OperandsAreSets ==
  ASSUME NEW m \in Operands
  PROVE  /\ m \subseteq CodePoints
         /\ Represents(OtherSet(m), m)
         /\ Represents(ConvertIntervals(SingleIntervals(m)), m)
<1>1. m \subseteq CodePoints
  BY SizeAssumption DEF CodePoints, Limit
<1>2. QED BY <1>1, OtherRepresents

\* Every constructor establishes the invariant.
LEMMA InitRepresents == Init => SetInvariant
<1>1. SUFFICES ASSUME Init PROVE SetInvariant
  OBVIOUS
<1>2. CASE set = EmptySet /\ members = {} /\ joined = TRUE
  BY <1>2, EmptyRepresents DEF SetInvariant
<1>3. CASE \E cp \in CodePoints : set = SingletonSet(cp) /\ members = {cp} /\ joined = TRUE
  BY <1>3, SingletonRepresents DEF SetInvariant
<1>4. CASE \E lo \in CodePoints : \E hi \in lo .. Limit - 1 :
             set = RangeSet(lo, hi) /\ members = lo .. hi /\ joined = FALSE
  <2>0. PICK lo \in CodePoints : \E hi \in lo .. Limit - 1 :
               set = RangeSet(lo, hi) /\ members = lo .. hi /\ joined = FALSE
    BY <1>4
  <2>1. PICK hi \in lo .. Limit - 1 :
               set = RangeSet(lo, hi) /\ members = lo .. hi /\ joined = FALSE
    BY <2>0
  <2>2. hi \in CodePoints /\ lo <= hi
    BY SizeAssumption DEF CodePoints, Limit
  <2>3. Represents(RangeSet(lo, hi), lo .. hi)
    BY <2>2, RangeRepresents
  <2>4. QED BY <2>1, <2>3 DEF SetInvariant
<1>5. CASE \E m \in Operands :
             /\ set \in {OtherSet(m), ConvertIntervals(SingleIntervals(m))}
             /\ members = m /\ joined = TRUE
  BY <1>5, OperandsAreSets DEF SetInvariant
<1>6. QED BY <1>1, <1>2, <1>3, <1>4, <1>5 DEF Init

\* Every call keeps it.
LEMMA NextRepresents ==
  ASSUME MergingRanges = FALSE, SetInvariant, [Next]_vars
  PROVE  SetInvariant'
<1>0. Represents(set, members) /\ joined \in BOOLEAN
  BY DEF SetInvariant
<1>1. ASSUME NEW cp \in CodePoints, Insert(cp) PROVE SetInvariant'
  <2>1. Represents(set, members)'
    BY <1>0, <1>1, InsertRepresents DEF Insert
  <2>2. (joined \in BOOLEAN)'
    BY <1>1 DEF Insert
  <2>3. QED BY <2>1, <2>2 DEF SetInvariant
<1>2. ASSUME NEW lo \in CodePoints, NEW hi \in lo .. Limit - 1, InsertRange(lo, hi)
      PROVE  SetInvariant'
  <2>1. hi \in CodePoints /\ lo <= hi
    BY SizeAssumption DEF CodePoints, Limit
  <2>2. hi \div QuadBits = lo \div QuadBits \/ TypeOf(QuadAt(set, hi \div QuadBits)) # "Mixed"
    BY <1>2 DEF InsertRange
  <2>3. Represents(InsertRangeInto(set, lo, hi), members \cup (lo .. hi))
    BY <1>0, <2>1, <2>2, InsertRangeRepresents
  <2>4. QED BY <1>2, <2>3 DEF InsertRange, SetInvariant
<1>3. ASSUME NEW m \in Operands, InsertSet(m) PROVE SetInvariant'
  <2>1. Represents(InsertSetInto(set, OtherSet(m)), members \cup m)
    BY <1>0, OperandsAreSets, InsertSetRepresents
  <2>2. (joined \in BOOLEAN)'
    BY <1>3 DEF InsertSet
  <2>3. QED BY <1>3, <2>1, <2>2 DEF InsertSet, SetInvariant
<1>4. ASSUME NEW m \in Operands, NEW op \in Operators, ApplyOperator(op, m)
      PROVE  SetInvariant'
  <2>1. Represents(OtherSet(m), m)
    BY OperandsAreSets
  <2>2. /\ Represents(Combine(op, set, OtherSet(m)), Reference(op, members, m))
        /\ Represents(Combine(op, OtherSet(m), set), Reference(op, m, members))
    BY <1>0, <2>1, CombineRepresents
  <2>3. QED BY <1>4, <2>2 DEF ApplyOperator, SetInvariant
<1>5. ASSUME Invert PROVE SetInvariant'
  BY <1>0, <1>5, ComplementRepresents DEF Invert, SetInvariant
<1>6. ASSUME TakeIsolates PROVE SetInvariant'
  BY <1>0, <1>6, IsolatesRepresents DEF TakeIsolates, SetInvariant
<1>7. ASSUME UNCHANGED vars PROVE SetInvariant'
  BY <1>0, <1>7 DEF vars, SetInvariant
<1>8. QED BY <1>1, <1>2, <1>3, <1>4, <1>5, <1>6, <1>7 DEF Next

\* After any sequence of calls, if no insert_range merges its end with a Mixed
\* quad, the representation holds the code points that the calls say: of the
\* constructors, insert, insert_range, insert of a set, the operators, invert
\* and isolates.
THEOREM SetInvariantHolds ==
  ASSUME MergingRanges = FALSE
  PROVE  Spec => []SetInvariant
<1>1. Init => SetInvariant
  BY InitRepresents
<1>2. SetInvariant /\ [Next]_vars => SetInvariant'
  BY NextRepresents
<1>3. QED BY <1>1, <1>2, PTL DEF Spec

\* What verify asserts follows.
LEMMA RepresentsIsWellFormed ==
  ASSUME SetInvariant
  PROVE  TypeOK
<1>1. Represents(set, members) /\ joined \in BOOLEAN
  BY DEF SetInvariant
<1>2. members \subseteq CodePoints /\ Holds(set, QuadsOf(members), QuadCount)
  BY <1>1, RepresentsHolds DEF Represents
<1>3. /\ set.runs \in Seq(Runs) /\ set.quads \in Seq(MixedQuads)
      /\ LengthBefore(set, Len(set.runs) + 1) = QuadCount
      /\ MixedBefore(set, Len(set.runs) + 1) = Len(set.quads)
  BY <1>2 DEF Holds, Objects
<1>4. \A r \in DOMAIN set.runs : set.runs[r] \in Runs
  BY <1>3
<1>5. \A i \in DOMAIN set.quads : set.quads[i] \in MixedQuads
  BY <1>3
<1>6. QED BY <1>1, <1>2, <1>3, <1>4, <1>5 DEF TypeOK, Runs, MixedQuads

\* contains is exact.
LEMMA RepresentsIsExact ==
  ASSUME SetInvariant
  PROVE  MembersExact
<1>1. members \subseteq CodePoints /\ Holds(set, QuadsOf(members), QuadCount)
  BY RepresentsHolds DEF Represents, SetInvariant
<1>n. PICK n \in Nat : n = QuadCount
  BY SizeAssumption
<1>2. ASSUME NEW cp \in CodePoints PROVE contains(set, cp) <=> cp \in members
  <2>1. cp \div QuadBits \in 0 .. n - 1 /\ cp % QuadBits \in Bits
    BY <1>n, QuadOfCodePoint
  <2>2. QuadAt(set, cp \div QuadBits) = QuadsOf(members)[cp \div QuadBits]
    BY <1>1, <1>n, <2>1, QuadAtIs
  <2>3. QED BY <2>2, InQuad DEF contains
<1>3. {cp \in CodePoints : contains(set, cp)} = members
  BY <1>1, <1>2
<1>4. QED BY <1>3, RepresentsIsWellFormed DEF MembersExact

\* intersects and subset are exact.
LEMMA QuestionsExact ==
  ASSUME SetInvariant
  PROVE  PredicatesExact
<1>1. Represents(set, members)
  BY DEF SetInvariant
<1>2. ASSUME NEW m \in Operands
      PROVE  /\ intersects(set, OtherSet(m)) <=> members \cap m # {}
             /\ subset(set, OtherSet(m)) <=> members \subseteq m
             /\ subset(OtherSet(m), set) <=> m \subseteq members
  <2>1. Represents(OtherSet(m), m)
    BY OperandsAreSets
  <2>2. QED BY <1>1, <2>1, QuestionsAnswered
<1>3. QED BY <1>2 DEF PredicatesExact

\* verify never fails: no run is empty, the runs cover the code points, and
\* there is a quad, neither empty nor full, for each Mixed one.
THEOREM TypesCorrect ==
  ASSUME MergingRanges = FALSE
  PROVE  Spec => []TypeOK
<1>1. SetInvariant => TypeOK
  BY RepresentsIsWellFormed
<1>2. QED BY <1>1, SetInvariantHolds, PTL

\* contains answers what the sequence of calls says.
THEOREM MembersAreExact ==
  ASSUME MergingRanges = FALSE
  PROVE  Spec => []MembersExact
<1>1. SetInvariant => MembersExact
  BY RepresentsIsExact
<1>2. QED BY <1>1, SetInvariantHolds, PTL

\* The walks of intersects and subset, which end early and skip whole runs,
\* answer for the members.
THEOREM PredicatesAreExact ==
  ASSUME MergingRanges = FALSE
  PROVE  Spec => []PredicatesExact
<1>1. SetInvariant => PredicatesExact
  BY QuestionsExact
<1>2. QED BY <1>1, SetInvariantHolds, PTL

-----------------------------------------------------------------------------
(* Questions about a range, and the count.                                 *)

\* The first interval that does not end before the range decides.
LEMMA RangeIntersected ==
  ASSUME NEW list, NEW m, Lists(list, m, Limit, TRUE),
         NEW lo \in CodePoints, NEW hi \in CodePoints, lo <= hi
  PROVE  intersectsRange(list, lo, hi) <=> (lo .. hi) \cap m # {}
<1>l. PICK L \in Nat : L = Len(list) /\ DOMAIN list = 1 .. L
  BY ListOf
<1>q. Limit \in Nat
  BY SizeAssumption DEF Limit
<1>0. lo \in Nat /\ hi \in Nat /\ hi < Limit
  BY <1>q DEF CodePoints
<1>1. \A j \in 1 .. L : list[j][1] \in Nat /\ list[j][2] \in Nat /\ list[j][1] <= list[j][2]
                        /\ list[j][1] \in CodePoints /\ list[j][2] \in CodePoints
  BY <1>l, ListOf
<1>2. ASSUME NEW cp \in CodePoints
      PROVE  cp \in m <=> \E j \in 1 .. L : list[j][1] <= cp /\ cp <= list[j][2]
  <2>1. cp < Limit
    BY <1>q DEF CodePoints
  <2>2. QED BY <1>l, <2>1 DEF Lists
<1>3. ASSUME NEW i \in 1 .. L, lo <= list[i][2], list[i][1] <= hi
      PROVE  (lo .. hi) \cap m # {}
  <2>a. PICK a \in Nat, b \in Nat : a = list[i][1] /\ b = list[i][2] /\ a <= b
                                    /\ a \in CodePoints
    BY <1>1
  <2>c. PICK c \in Nat : c = (IF lo <= a THEN a ELSE lo) /\ c \in CodePoints
    BY <1>0, <2>a
  <2>1. a <= c /\ c <= b /\ c \in lo .. hi
    BY <1>0, <1>3, <2>a, <2>c
  <2>2. c \in m
    BY <1>2, <2>a, <2>c, <2>1
  <2>3. QED BY <2>1, <2>2
<1>4. ASSUME NEW cp \in (lo .. hi) \cap m
      PROVE  \E i \in 1 .. L : /\ lo <= list[i][2] /\ list[i][1] <= hi
                               /\ \A j \in 1 .. i - 1 : list[j][2] < lo
  <2>1. cp \in CodePoints /\ lo <= cp /\ cp <= hi /\ cp \in Nat
    BY <1>0, <1>q DEF CodePoints
  <2>k. PICK k \in 1 .. L : list[k][1] <= cp /\ cp <= list[k][2]
    BY <1>2, <2>1
  <2> DEFINE S == {i \in 1 .. L : lo <= list[i][2]}
  <2>2. k \in S
    <3>1. list[k][2] \in Nat
      BY <1>1
    <3>2. QED BY <1>0, <2>1, <2>k, <3>1
  <2>i. PICK i \in S : \A j \in S : i <= j
    <3>1. S \subseteq Nat /\ S # {}
      BY <2>2
    <3> HIDE DEF S
    <3>2. QED BY <3>1, LeastNumber
  <2>3. i \in 1 .. L /\ lo <= list[i][2] /\ i <= k
    BY <2>2, <2>i
  <2>4. list[i][1] <= hi
    <3>1. CASE i = k
      <4>1. list[k][1] \in Nat
        BY <1>1
      <4>2. QED BY <1>0, <2>1, <2>k, <3>1, <4>1
    <3>2. CASE i # k
      <4>0. i \in 1 .. Len(list) /\ k \in 1 .. Len(list) /\ i < k
        BY <1>l, <2>3, <3>2
      <4>1. list[i][2] + 1 < list[k][1]
        BY <4>0, ListOrdered
      <4>2. list[i][1] \in Nat /\ list[i][2] \in Nat /\ list[i][1] <= list[i][2] /\ list[k][1] \in Nat
        BY <1>1, <2>3
      <4>a. PICK a \in Nat, b \in Nat, c \in Nat :
              a = list[i][1] /\ b = list[i][2] /\ c = list[k][1]
        BY <4>2
      <4>3. a <= hi
        BY <1>0, <2>1, <2>k, <4>1, <4>2, <4>a
      <4>4. QED BY <4>3, <4>a
    <3>3. QED BY <3>1, <3>2
  <2>5. ASSUME NEW j \in 1 .. i - 1 PROVE list[j][2] < lo
    <3>1. j \in 1 .. L /\ j \notin S
      BY <2>3, <2>i
    <3>2. list[j][2] \in Nat
      BY <1>1, <3>1
    <3>3. QED BY <1>0, <3>1, <3>2
  <2>6. QED BY <2>3, <2>4, <2>5
<1>5. intersectsRange(list, lo, hi) <=>
        \E i \in 1 .. L : /\ lo <= list[i][2] /\ list[i][1] <= hi
                          /\ \A j \in 1 .. i - 1 : list[j][2] < lo
  BY <1>l, Zenon DEF intersectsRange
<1>6. QED BY <1>3, <1>4, <1>5

Below(m, c) == {cp \in m : cp < c}

\* The code points below a bound are finitely many.
LEMMA BelowFinite ==
  ASSUME NEW m, m \subseteq CodePoints, NEW c \in Nat
  PROVE  IsFiniteSet(Below(m, c)) /\ Cardinality(Below(m, c)) \in Nat
<1>1. Limit \in Nat
  BY SizeAssumption DEF Limit
<1>2. IsFiniteSet(CodePoints)
  BY <1>1, FS_Interval DEF CodePoints
<1>3. Below(m, c) \subseteq CodePoints
  BY DEF Below
<1>4. IsFiniteSet(Below(m, c))
  BY <1>2, <1>3, FS_Subset
<1>5. QED BY <1>4, FS_CardinalityType

\* A quad has as many code points as bits.
LEMMA QuadCounted ==
  ASSUME NEW m, m \subseteq CodePoints, NEW i \in 0 .. QuadCount - 1
  PROVE  /\ IsFiniteSet(QuadsOf(m)[i]) /\ Cardinality(QuadsOf(m)[i]) \in Nat
         /\ Cardinality(Below(m, QuadBits * (i + 1)))
              = Cardinality(Below(m, QuadBits * i)) + Cardinality(QuadsOf(m)[i])
<1>1. QuadBits \in Nat /\ QuadBits > 1 /\ i \in Nat
  BY SizeAssumption
<1>x. PICK x \in Nat : x = QuadBits * i
  BY <1>1
<1>y. PICK y \in Nat : y = QuadBits * (i + 1) /\ y = x + QuadBits
  BY <1>1, <1>x
<1>q. PICK q : q = QuadsOf(m)[i]
  OBVIOUS
<1>2. q \subseteq Bits /\ \A b \in Bits : b \in q <=> x + b \in m
  BY <1>x, <1>q, QuadsOfTyped
<1>3. IsFiniteSet(q) /\ Cardinality(q) \in Nat
  <2>1. IsFiniteSet(Bits)
    BY <1>1, FS_Interval DEF Bits
  <2>2. IsFiniteSet(q)
    BY <1>2, <2>1, FS_Subset
  <2>3. QED BY <2>2, FS_CardinalityType
<1>p. PICK part : part = {cp \in m : x <= cp /\ cp < y}
  OBVIOUS
<1>4. IsFiniteSet(part) /\ Cardinality(part) = Cardinality(q)
  <2> DEFINE f == [b \in q |-> x + b]
  <2>1. f \in [q -> part]
    <3>1. SUFFICES ASSUME NEW b \in q PROVE x + b \in part
      OBVIOUS
    <3>2. b \in Nat /\ b < QuadBits /\ x + b \in m
      BY <1>1, <1>2 DEF Bits
    <3>3. x <= x + b /\ x + b < y
      BY <1>1, <1>y, <3>2
    <3>4. QED BY <1>p, <3>2, <3>3
  <2>2. \A a, b \in q : f[a] = f[b] => a = b
    BY <1>2 DEF Bits
  <2>3. \A t \in part : \E b \in q : f[b] = t
    <3>1. SUFFICES ASSUME NEW t \in part PROVE \E b \in q : f[b] = t
      OBVIOUS
    <3>2. t \in m /\ t \in Nat /\ x <= t /\ t < y
      BY <1>p DEF CodePoints
    <3>b. PICK b \in Bits : b = t - x /\ x + b = t
      BY <1>1, <1>y, <3>2 DEF Bits
    <3>3. b \in q
      BY <1>2, <3>2, <3>b
    <3>4. QED BY <3>3, <3>b
  <2> HIDE DEF f
  <2>4. f \in Bijection(q, part)
    BY <2>1, <2>2, <2>3 DEF Bijection, Injection, Surjection, IsInjective
  <2>5. ExistsBijection(q, part)
    BY <2>4 DEF ExistsBijection
  <2>6. QED BY <1>3, <2>5, FS_Bijection
<1>u. PICK u : u = Below(m, x)
  OBVIOUS
<1>5. /\ Below(m, y) = u \cup part
      /\ u \cap part = {}
  <2>1. \A cp \in m : cp \in Nat
    BY DEF CodePoints
  <2>2. \A cp \in m : cp < y <=> cp < x \/ (x <= cp /\ cp < y)
    BY <1>1, <1>y, <2>1
  <2>3. \A cp \in m : ~ (cp < x /\ x <= cp)
    BY <2>1
  <2>4. QED BY <1>p, <1>u, <2>2, <2>3 DEF Below
<1>6. IsFiniteSet(u) /\ Cardinality(u) \in Nat
  BY <1>u, BelowFinite
<1>7. Cardinality(u \cup part) = Cardinality(u) + Cardinality(part) - Cardinality(u \cap part)
  BY <1>4, <1>6, FS_Union
<1>8. Cardinality(u \cap part) = 0
  BY <1>5, FS_EmptySet
<1>9. Cardinality(Below(m, y)) = Cardinality(u) + Cardinality(q)
  <2>1. Cardinality(u \cup part) = Cardinality(u) + Cardinality(q) - 0
    BY <1>4, <1>7, <1>8
  <2>2. QED BY <1>3, <1>5, <1>6, <2>1
<1>10. QED BY <1>3, <1>9, <1>q, <1>u, <1>x, <1>y

\* The sums of count, over the runs and over the Mixed quads.
FullBefore(s) == SumsOf([r \in 1 .. Len(s.runs) |-> FullLength(s.runs[r])])
BitsBefore(s) == SumsOf([i \in 1 .. Len(s.quads) |-> Cardinality(s.quads[i])])

\* The sums of count, run by run and quad by quad.
LEMMA CountSums ==
  ASSUME NEW s \in Objects
  PROVE  /\ FullBefore(s) \in [0 .. Len(s.runs) -> Nat]
         /\ FullBefore(s)[0] = 0
         /\ \A r \in 1 .. Len(s.runs) :
              FullBefore(s)[r] = FullBefore(s)[r - 1] + FullLength(s.runs[r])
         /\ BitsBefore(s) \in [0 .. Len(s.quads) -> Nat]
         /\ BitsBefore(s)[0] = 0
         /\ \A i \in 1 .. Len(s.quads) :
              BitsBefore(s)[i] = BitsBefore(s)[i - 1] + Cardinality(s.quads[i])
         /\ \A i \in 1 .. Len(s.quads) : Cardinality(s.quads[i]) \in Nat
<1>l. PICK L \in Nat : L = Len(s.runs)
  BY DEF Objects
<1>m. PICK M \in Nat : M = Len(s.quads)
  BY DEF Objects
<1>1. \A r \in 1 .. L : FullLength(s.runs[r]) \in Nat
  <2>1. \A r \in 1 .. L : s.runs[r] \in Runs
    BY <1>l DEF Objects
  <2>2. QED BY <2>1 DEF Runs, FullLength
<1>2. ASSUME NEW i \in 1 .. M PROVE Cardinality(s.quads[i]) \in Nat
  <2>1. s.quads[i] \subseteq Bits
    BY <1>m DEF Objects, MixedQuads
  <2>2. IsFiniteSet(Bits)
    BY SizeAssumption, FS_Interval DEF Bits
  <2>3. IsFiniteSet(s.quads[i])
    BY <2>1, <2>2, FS_Subset
  <2>4. QED BY <2>3, FS_CardinalityType
<1>f. PICK f : f = [r \in 1 .. L |-> FullLength(s.runs[r])]
  OBVIOUS
<1>g. PICK g : g = [i \in 1 .. M |-> Cardinality(s.quads[i])]
  OBVIOUS
<1>3. f \in [1 .. L -> Nat] /\ g \in [1 .. M -> Nat]
  BY <1>1, <1>2, <1>f, <1>g
<1>4. /\ SumsOf(f) \in [0 .. L -> Nat] /\ SumsOf(f)[0] = 0
      /\ \A r \in 1 .. L : SumsOf(f)[r] = SumsOf(f)[r - 1] + f[r]
  BY <1>3, SumsDefined
<1>5. /\ SumsOf(g) \in [0 .. M -> Nat] /\ SumsOf(g)[0] = 0
      /\ \A r \in 1 .. M : SumsOf(g)[r] = SumsOf(g)[r - 1] + g[r]
  BY <1>3, SumsDefined
<1>6. SumsOf(f) = FullBefore(s) /\ SumsOf(g) = BitsBefore(s)
  BY <1>f, <1>g, <1>l, <1>m DEF FullBefore, BitsBefore
<1>7. (\A r \in 1 .. L : f[r] = FullLength(s.runs[r])) /\ \A i \in 1 .. M : g[i] = Cardinality(s.quads[i])
  BY <1>f, <1>g
<1>8. QED BY <1>2, <1>4, <1>5, <1>6, <1>7, <1>l, <1>m

\* c[i] code points lie in the first i quads.
Counts(c, q, n) ==
  /\ c \in [0 .. n -> Nat] /\ c[0] = 0
  /\ \A i \in 0 .. n - 1 : c[i + 1] = c[i] + Cardinality(q[i])

\* The code points of the first quads add up to those of the set.
LEMMA QuadsCounted ==
  ASSUME NEW m, m \subseteq CodePoints, NEW n \in Nat, n = QuadCount
  PROVE  \E c : Counts(c, QuadsOf(m), n) /\ c[n] = Cardinality(m)
<1>1. QuadBits \in Nat /\ QuadBits > 1
  BY SizeAssumption
<1>2. \A i \in 0 .. n : QuadBits * i \in Nat
  BY <1>1
<1>c. PICK c : c = [i \in 0 .. n |-> Cardinality(Below(m, QuadBits * i))]
  OBVIOUS
<1>3. c \in [0 .. n -> Nat]
  <2>1. \A i \in 0 .. n : Cardinality(Below(m, QuadBits * i)) \in Nat
    BY <1>2, BelowFinite
  <2>2. QED BY <1>c, <2>1
<1>4. c[0] = 0
  <2>1. QuadBits * 0 = 0 /\ 0 \in 0 .. n
    BY <1>1
  <2>2. Below(m, 0) = {}
    <3>1. \A cp \in CodePoints : ~ (cp < 0)
      BY DEF CodePoints
    <3>2. QED BY <3>1 DEF Below
  <2>3. c[0] = Cardinality(Below(m, 0))
    BY <1>c, <2>1
  <2>4. QED BY <2>2, <2>3, FS_EmptySet
<1>5. c[n] = Cardinality(m)
  <2>1. QuadBits * n = Limit /\ n \in 0 .. n /\ Limit \in Nat
    BY <1>1 DEF Limit
  <2>2. Below(m, Limit) = m
    <3>1. \A cp \in CodePoints : cp < Limit
      BY <2>1 DEF CodePoints
    <3>2. QED BY <3>1 DEF Below
  <2>3. QED BY <1>c, <2>1, <2>2
<1>6. ASSUME NEW i \in 0 .. n - 1
      PROVE  c[i + 1] = c[i] + Cardinality(QuadsOf(m)[i])
  <2>1. i \in 0 .. n /\ i + 1 \in 0 .. n
    OBVIOUS
  <2>2. Cardinality(Below(m, QuadBits * (i + 1)))
          = Cardinality(Below(m, QuadBits * i)) + Cardinality(QuadsOf(m)[i])
    BY QuadCounted
  <2>3. c[i + 1] = Cardinality(Below(m, QuadBits * (i + 1)))
        /\ c[i] = Cardinality(Below(m, QuadBits * i))
    BY <1>c, <2>1
  <2>4. QED BY <2>2, <2>3
<1>7. QED BY <1>3, <1>4, <1>5, <1>6 DEF Counts

\* What the quads of run r add to the count.
LEMMA RunCounted ==
  ASSUME NEW s, NEW q, NEW n, Holds(s, q, n), NEW c, Counts(c, q, n),
         NEW r \in 1 .. Len(s.runs)
  PROVE  c[LengthBefore(s, r + 1)] + BitsBefore(s)[MixedBefore(s, r)]
           = c[LengthBefore(s, r)] + QuadBits * FullLength(s.runs[r])
             + BitsBefore(s)[MixedBefore(s, r + 1)]
<1>l. PICK L \in Nat : L = Len(s.runs)
  BY DEF Holds, Objects
<1>0. n \in Nat /\ s \in Objects
  BY DEF Holds
<1>c. c \in [0 .. n -> Nat] /\ \A i \in 0 .. n - 1 : c[i + 1] = c[i] + Cardinality(q[i])
  BY DEF Counts
<1>q. QuadBits \in Nat /\ QuadBits > 1
  BY SizeAssumption
<1>x. PICK x \in Nat \ {0} : x = s.runs[r].length
  BY <1>l, RunFits
<1>a. PICK a \in Nat : a = LengthBefore(s, r) /\ a + x <= n
  BY <1>l, <1>x, RunFits
<1>m. PICK mx \in Nat : mx = MixedBefore(s, r)
  BY <1>l, RunFits
<1>t. PICK type \in RunTypes : type = s.runs[r].type
  BY <1>l, RunFits
<1>M. PICK M \in Nat : M = Len(s.quads)
  BY <1>0 DEF Objects
<1>1. LengthBefore(s, r + 1) = a + x
      /\ MixedBefore(s, r + 1) = mx + (IF type = "Mixed" THEN x ELSE 0)
      /\ (type = "Mixed" => mx + x <= M)
  <2>1. /\ LengthBefore(s, r + 1) = LengthBefore(s, r) + s.runs[r].length
        /\ MixedBefore(s, r + 1) = MixedBefore(s, r) + MixedLength(s.runs[r])
        /\ MixedBefore(s, r) + MixedLength(s.runs[r]) <= Len(s.quads)
    BY <1>0, <1>l, RunPlaces, RunFits
  <2>2. MixedLength(s.runs[r]) = IF type = "Mixed" THEN x ELSE 0
    BY <1>t, <1>x DEF MixedLength
  <2>3. QED BY <1>a, <1>m, <1>M, <1>x, <2>1, <2>2
<1>b. PICK b : b = BitsBefore(s)
  OBVIOUS
<1>2. /\ b \in [0 .. M -> Nat]
      /\ \A i \in 1 .. M : b[i] = b[i - 1] + Cardinality(s.quads[i])
  BY <1>0, <1>b, <1>M, CountSums
<1>3. \A j \in 0 .. x - 1 : /\ q[a + j] = QuadIn(s, r, j)
                            /\ c[a + j + 1] = c[a + j] + Cardinality(q[a + j])
                            /\ c[a + j] \in Nat /\ c[a + j + 1] \in Nat
  <2>1. SUFFICES ASSUME NEW j \in 0 .. x - 1
                 PROVE  /\ q[a + j] = QuadIn(s, r, j)
                        /\ c[a + j + 1] = c[a + j] + Cardinality(q[a + j])
                        /\ c[a + j] \in Nat /\ c[a + j + 1] \in Nat
    OBVIOUS
  <2>2. a + j \in 0 .. n - 1 /\ a + j \in 0 .. n /\ a + j + 1 \in 0 .. n
    <3>1. j \in Nat /\ j + 1 <= x /\ a + x <= n
      BY <1>a
    <3>2. QED BY <1>0, <3>1
  <2>3. q[a + j] = QuadIn(s, r, j)
    BY <1>a, <1>l, <1>x DEF Holds
  <2>4. QED BY <1>c, <2>2, <2>3
<1>4. a + 0 = a /\ a \in 0 .. n /\ c[a] \in Nat /\ a + x \in 0 .. n /\ c[a + x] \in Nat
  <2>1. a + 0 = a /\ a \in 0 .. n /\ a + x \in 0 .. n
    BY <1>0, <1>a
  <2>2. QED BY <1>c, <2>1
<1>5. CASE type = "Mixed"
  <2> DEFINE good == {j \in 0 .. x : c[a + j] + b[mx] = c[a] + b[mx + j]}
  <2>1. 0 \in good
    <3>1. mx \in 0 .. M /\ mx + 0 = mx /\ b[mx] \in Nat
      BY <1>1, <1>2, <1>5
    <3>2. QED BY <1>4, <3>1
  <2>2. ASSUME NEW j \in 0 .. x - 1, j \in good PROVE j + 1 \in good
    <3>1. /\ mx + j + 1 \in 1 .. M /\ mx + j \in 0 .. M /\ mx \in 0 .. M /\ mx + (j + 1) = mx + j + 1
          /\ mx + j + 1 - 1 = mx + j /\ a + (j + 1) = a + j + 1 /\ j + 1 \in 0 .. x
      BY <1>1, <1>5
    <3>2. q[a + j] = s.quads[mx + j + 1]
      BY <1>3, <1>5, <1>m, <1>t DEF QuadIn, Content
    <3>d. PICK d : d = Cardinality(s.quads[mx + j + 1])
      OBVIOUS
    <3>3. d \in Nat /\ b[mx + j + 1] = b[mx + j] + d /\ c[a + j + 1] = c[a + j] + d
      <4>1. d \in Nat
        BY <1>0, <1>M, <3>1, <3>d, CountSums
      <4>2. c[a + j + 1] = c[a + j] + Cardinality(q[a + j])
        BY <1>3
      <4>p. PICK k \in 1 .. M : k = mx + j + 1 /\ k - 1 = mx + j
        BY <3>1
      <4>3. b[k] = b[k - 1] + Cardinality(s.quads[k])
        BY <1>2
      <4>4. QED BY <3>2, <3>d, <4>1, <4>2, <4>3, <4>p
    <3>4. b[mx + j] \in Nat /\ b[mx] \in Nat
      BY <1>2, <3>1
    <3>5. c[a + j] + b[mx] = c[a] + b[mx + j]
      BY <2>2
    <3>y. PICK y \in Nat, z \in Nat, u \in Nat, v \in Nat :
            y = b[mx + j] /\ z = b[mx] /\ u = c[a + j] /\ v = c[a]
      BY <1>3, <1>4, <3>4
    <3>e. PICK e \in Nat : e = d
      BY <3>3
    <3>z. u + z = v + y
      BY <3>5, <3>y
    <3>w. u + e + z = v + (y + e)
      BY <3>z
    <3>6. u + d + z = v + (y + d)
      BY <3>e, <3>w
    <3>7. c[a + (j + 1)] + b[mx] = c[a] + b[mx + (j + 1)]
      <4>1. c[a + (j + 1)] = u + d
        BY <3>1, <3>3, <3>y
      <4>2. b[mx + (j + 1)] = y + d
        BY <3>1, <3>3, <3>y
      <4>3. QED BY <3>6, <3>y, <4>1, <4>2
    <3>8. QED BY <3>1, <3>7
  <2>3. \A j \in 0 .. x : j \in good
    <3>1. \A j \in 0 .. x - 1 : j \in good => j + 1 \in good
      BY <2>2
    <3> HIDE DEF good
    <3>2. QED BY <2>1, <3>1, UpToNumber
  <2>4. x \in 0 .. x
    OBVIOUS
  <2>5. c[a + x] + b[mx] = c[a] + b[mx + x]
    BY <2>3, <2>4
  <2>6. FullLength(s.runs[r]) = 0 /\ QuadBits * 0 = 0 /\ c[a] + 0 = c[a]
    BY <1>4, <1>5, <1>q, <1>t DEF FullLength
  <2>7. MixedBefore(s, r + 1) = mx + x
    BY <1>1, <1>5
  <2>8. c[a] + QuadBits * FullLength(s.runs[r]) = c[a]
    BY <2>6
  <2>9. QED BY <1>1, <1>a, <1>b, <1>m, <2>5, <2>7, <2>8
<1>6. CASE type # "Mixed"
  <2>d. PICK d \in Nat : d = Cardinality(IF type = "Full" THEN Bits ELSE {})
                         /\ d = IF type = "Full" THEN QuadBits ELSE 0
    <3>1. Cardinality(Bits) = QuadBits
      BY <1>q, FS_Interval DEF Bits
    <3>2. QED BY <1>q, <3>1, FS_EmptySet
  <2> DEFINE good == {j \in 0 .. x : c[a + j] = c[a] + j * d}
  <2>1. 0 \in good
    <3>1. 0 * d = 0
      OBVIOUS
    <3>2. QED BY <1>4, <3>1
  <2>2. ASSUME NEW j \in 0 .. x - 1, j \in good PROVE j + 1 \in good
    <3>1. q[a + j] = IF type = "Full" THEN Bits ELSE {}
      BY <1>3, <1>6, <1>t DEF QuadIn, Content
    <3>2. c[a + j + 1] = c[a + j] + d
      BY <1>3, <2>d, <3>1
    <3>3. (j + 1) * d = j * d + d /\ j * d \in Nat /\ j + 1 \in 0 .. x /\ a + (j + 1) = a + j + 1
      OBVIOUS
    <3>e. PICK e \in Nat : e = j * d
      BY <3>3
    <3>4. c[a + j] = c[a] + e
      BY <2>2, <3>e
    <3>v. PICK v \in Nat : v = c[a]
      BY <1>4
    <3>5. c[a + j + 1] = v + (e + d)
      BY <3>2, <3>4, <3>v
    <3>6. QED BY <3>3, <3>5, <3>e, <3>v
  <2>3. \A j \in 0 .. x : j \in good
    <3>1. \A j \in 0 .. x - 1 : j \in good => j + 1 \in good
      BY <2>2
    <3> HIDE DEF good
    <3>2. QED BY <2>1, <3>1, UpToNumber
  <2>4. x \in 0 .. x
    OBVIOUS
  <2>5. c[a + x] = c[a] + x * d
    BY <2>3, <2>4
  <2>6. x * d = QuadBits * FullLength(s.runs[r])
    <3>1. CASE type = "Full"
      BY <1>q, <1>t, <1>x, <2>d, <3>1 DEF FullLength
    <3>2. CASE type # "Full"
      BY <1>q, <1>t, <2>d, <3>2 DEF FullLength
    <3>3. QED BY <3>1, <3>2
  <2>7. MixedBefore(s, r + 1) = mx
    BY <1>1, <1>6
  <2>8. QED BY <1>1, <1>a, <1>b, <1>m, <2>5, <2>6, <2>7
<1>7. QED BY <1>5, <1>6

\* count adds the Full runs and the bits of the Mixed quads.
LEMMA CountIs ==
  ASSUME NEW s, NEW m, Represents(s, m)
  PROVE  count(s) = Cardinality(m)
<1>n. PICK n \in Nat : n = QuadCount
  BY SizeAssumption
<1>1. m \subseteq CodePoints /\ Holds(s, QuadsOf(m), n)
  BY <1>n, RepresentsHolds DEF Represents
<1>0. s \in Objects
  BY <1>1 DEF Holds
<1>q. QuadBits \in Nat
  BY SizeAssumption
<1>l. PICK L \in Nat : L = Len(s.runs)
  BY <1>0 DEF Objects
<1>M. PICK M \in Nat : M = Len(s.quads)
  BY <1>0 DEF Objects
<1>c. PICK c : Counts(c, QuadsOf(m), n) /\ c[n] = Cardinality(m)
  BY <1>n, <1>1, QuadsCounted
<1>d. c \in [0 .. n -> Nat] /\ c[0] = 0
  BY <1>c DEF Counts
<1>f. PICK f : f = FullBefore(s)
  OBVIOUS
<1>b. PICK b : b = BitsBefore(s)
  OBVIOUS
<1>2. /\ f \in [0 .. L -> Nat] /\ f[0] = 0
      /\ \A r \in 1 .. L : f[r] = f[r - 1] + FullLength(s.runs[r])
      /\ b \in [0 .. M -> Nat] /\ b[0] = 0
  BY <1>0, <1>b, <1>f, <1>l, <1>M, CountSums
<1>3. LengthBefore(s, 1) = 0 /\ MixedBefore(s, 1) = 0
      /\ LengthBefore(s, L + 1) = n /\ MixedBefore(s, L + 1) = M
  BY <1>0, <1>1, <1>l, <1>M, RunPlaces DEF Holds
<1> DEFINE Counted(r) == c[LengthBefore(s, r + 1)]
                           = QuadBits * f[r] + b[MixedBefore(s, r + 1)]
           good == {r \in 0 .. L : Counted(r)}
<1>4. 0 \in good
  <2>1. 0 + 1 = 1 /\ QuadBits * 0 = 0 /\ 0 \in 0 .. L
    BY <1>q
  <2>2. QED BY <1>2, <1>3, <1>d, <2>1
<1>5. ASSUME NEW r \in 0 .. L - 1, r \in good PROVE r + 1 \in good
  <2>p. PICK p \in 1 .. L : p = r + 1
    OBVIOUS
  <2>1. /\ LengthBefore(s, p) \in Nat /\ MixedBefore(s, p) \in Nat
        /\ LengthBefore(s, p + 1) \in Nat /\ MixedBefore(s, p + 1) \in Nat
        /\ LengthBefore(s, p) <= n /\ MixedBefore(s, p) <= M
        /\ LengthBefore(s, p + 1) <= n /\ MixedBefore(s, p + 1) <= M
    <3>1. p \in 1 .. L + 1 /\ p + 1 \in 1 .. L + 1 /\ L + 1 \in 1 .. L + 1
          /\ p <= L + 1 /\ p + 1 <= L + 1
      OBVIOUS
    <3>2. \A i \in 1 .. L + 1 : LengthBefore(s, i) \in Nat /\ MixedBefore(s, i) \in Nat
      BY <1>0, <1>l, RunPlaces
    <3>3. LengthBefore(s, p) <= LengthBefore(s, L + 1) /\ MixedBefore(s, p) <= MixedBefore(s, L + 1)
      BY <1>0, <1>l, <3>1, RunPlacesOrdered
    <3>4. /\ LengthBefore(s, p + 1) <= LengthBefore(s, L + 1)
          /\ MixedBefore(s, p + 1) <= MixedBefore(s, L + 1)
      BY <1>0, <1>l, <3>1, RunPlacesOrdered
    <3>5. QED BY <1>3, <3>1, <3>2, <3>3, <3>4
  <2>2. c[LengthBefore(s, p + 1)] + b[MixedBefore(s, p)]
          = c[LengthBefore(s, p)] + QuadBits * FullLength(s.runs[p]) + b[MixedBefore(s, p + 1)]
    <3>1. p \in 1 .. Len(s.runs)
      BY <1>l
    <3>2. Holds(s, QuadsOf(m), n) /\ Counts(c, QuadsOf(m), n)
      BY <1>1, <1>c
    <3>3. QED BY <1>b, <3>1, <3>2, RunCounted
  <2>3. c[LengthBefore(s, p)] = QuadBits * f[r] + b[MixedBefore(s, p)]
    BY <1>5, <2>p
  <2>4. f[p] = f[r] + FullLength(s.runs[p]) /\ f[r] \in Nat /\ FullLength(s.runs[p]) \in Nat
    <3>1. p - 1 = r /\ r \in 0 .. L
      BY <2>p
    <3>2. s.runs[p] \in Runs
      BY <1>0, <1>l DEF Objects
    <3>3. FullLength(s.runs[p]) \in Nat
      BY <3>2 DEF Runs, FullLength
    <3>4. QED BY <1>2, <3>1, <3>3
  <2>u. PICK u \in Nat, v \in Nat, y \in Nat, z \in Nat :
          /\ u = c[LengthBefore(s, p)] /\ v = c[LengthBefore(s, p + 1)]
          /\ y = b[MixedBefore(s, p)] /\ z = b[MixedBefore(s, p + 1)]
    <3>1. /\ c[LengthBefore(s, p)] \in Nat /\ c[LengthBefore(s, p + 1)] \in Nat
          /\ b[MixedBefore(s, p)] \in Nat /\ b[MixedBefore(s, p + 1)] \in Nat
      BY <1>2, <1>d, <2>1
    <3>2. QED BY <3>1, Zenon
  <2>e. PICK e \in Nat, d \in Nat : e = QuadBits * f[r] /\ d = QuadBits * FullLength(s.runs[p])
    BY <1>q, <2>4
  <2>5. QuadBits * f[p] = e + d
    BY <1>q, <2>4, <2>e
  <2>6. v + y = u + d + z /\ u = e + y
    BY <2>2, <2>3, <2>u, <2>e
  <2>7. v = e + d + z
    BY <2>6
  <2>8. Counted(p)
    BY <2>5, <2>7, <2>u
  <2>9. QED BY <2>8, <2>p
<1>6. \A r \in 0 .. L : r \in good
  <2>1. \A r \in 0 .. L - 1 : r \in good => r + 1 \in good
    BY <1>5
  <2> HIDE DEF good
  <2>2. QED BY <1>4, <2>1, UpToNumber
<1>7. L \in 0 .. L
  OBVIOUS
<1>8. c[n] = QuadBits * f[L] + b[M]
  BY <1>3, <1>6, <1>7
<1>9. count(s) = f[L] * QuadBits + b[M]
  BY <1>b, <1>f, <1>l, <1>M DEF count, FullBefore, BitsBefore
<1>10. f[L] * QuadBits = QuadBits * f[L]
  <2>1. f[L] \in Nat
    BY <1>2
  <2>2. QED BY <1>q, <2>1
<1>11. QED BY <1>8, <1>9, <1>10, <1>c

\* The iterator, count and the test of a range agree.
LEMMA IterationIsExact ==
  ASSUME SetInvariant
  PROVE  IterationExact
<1>1. Represents(set, members) /\ members \subseteq CodePoints
  BY DEF SetInvariant, Represents
<1>p. PICK list : list = Intervals(set)
  OBVIOUS
<1>2. Lists(list, members, Limit, TRUE)
  BY <1>1, <1>p, IntervalsListed
<1>3. list = MaximalIntervals(members)
  BY <1>1, <1>2, MaximalListed, ListUnique
<1>4. count(set) = Cardinality(members)
  BY <1>1, CountIs
<1>5. ASSUME NEW lo \in CodePoints, NEW hi \in lo .. Limit - 1
      PROVE  intersectsRange(list, lo, hi) <=> (lo .. hi) \cap members # {}
  <2>1. hi \in CodePoints /\ lo <= hi
    BY SizeAssumption DEF CodePoints, Limit
  <2>2. QED BY <1>2, <2>1, RangeIntersected
<1>6. QED BY <1>3, <1>4, <1>5, <1>p DEF IterationExact

\* The iterator yields the maximal intervals in order, whatever the borders of
\* runs and quads that they cross; count and the test of a range agree.
THEOREM IterationIsRight ==
  ASSUME MergingRanges = FALSE
  PROVE  Spec => []IterationExact
<1>1. SetInvariant => IterationExact
  BY IterationIsExact
<1>2. QED BY <1>1, SetInvariantHolds, PTL

-----------------------------------------------------------------------------
(* The order of the representations.                                       *)

\* Two sequences of one length that differ do so first in one place.
LEMMA FirstDifferenceIs ==
  ASSUME NEW S, NEW x \in Seq(S), NEW y \in Seq(S), Len(x) = Len(y), x # y
  PROVE  /\ FirstDifference(x, y) \in 1 .. Len(x)
         /\ x[FirstDifference(x, y)] # y[FirstDifference(x, y)]
         /\ FirstDifference(y, x) = FirstDifference(x, y)
<1>l. PICK L \in Nat : L = Len(x) /\ L = Len(y) /\ DOMAIN x = 1 .. L /\ DOMAIN y = 1 .. L
  OBVIOUS
<1> DEFINE D == {i \in 1 .. L : x[i] # y[i]}
           First(i) == i \in D /\ \A j \in 1 .. i - 1 : x[j] = y[j]
<1>1. D # {}
  <2>1. SUFFICES ASSUME \A i \in 1 .. L : x[i] = y[i] PROVE FALSE
    OBVIOUS
  <2>2. x = y
    BY <1>l, <2>1, SeqEqual
  <2>3. QED BY <2>2
<1>d. PICK d \in D : \A j \in D : d <= j
  <2>1. D \subseteq Nat
    OBVIOUS
  <2> HIDE DEF D
  <2>2. QED BY <1>1, <2>1, LeastNumber
<1>2. First(d)
  <2>1. ASSUME NEW j \in 1 .. d - 1 PROVE x[j] = y[j]
    <3>1. j \in 1 .. L /\ ~ (d <= j)
      OBVIOUS
    <3>2. j \notin D
      BY <1>d, <3>1
    <3>3. QED BY <3>1, <3>2
  <2>2. QED BY <2>1
<1>3. ASSUME NEW i, First(i) PROVE i = d
  <2>1. i \in 1 .. L /\ d \in 1 .. L /\ d <= i /\ x[d] # y[d]
    BY <1>3, <1>d
  <2>2. ~ (d \in 1 .. i - 1)
    BY <1>3, <2>1
  <2>3. QED BY <2>1, <2>2
<1>4. FirstDifference(x, y) = CHOOSE i \in DOMAIN x : x[i] # y[i] /\ \A j \in 1 .. i - 1 : x[j] = y[j]
  BY DEF FirstDifference
<1>5. FirstDifference(y, x) = CHOOSE i \in DOMAIN y : y[i] # x[i] /\ \A j \in 1 .. i - 1 : y[j] = x[j]
  BY DEF FirstDifference
<1>6. \A i : (i \in DOMAIN x /\ x[i] # y[i] /\ \A j \in 1 .. i - 1 : x[j] = y[j]) <=> First(i)
  BY <1>l
<1>7. \A i : (i \in DOMAIN y /\ y[i] # x[i] /\ \A j \in 1 .. i - 1 : y[j] = x[j]) <=> First(i)
  BY <1>l
<1>8. d \in 1 .. L /\ x[d] # y[d]
  BY <1>d
<1> HIDE DEF First, D
<1>9. FirstDifference(x, y) = d
  <2>1. \A i \in DOMAIN x : (x[i] # y[i] /\ \A j \in 1 .. i - 1 : x[j] = y[j]) <=> i = d
    BY <1>2, <1>3, <1>6
  <2>2. d \in DOMAIN x
    BY <1>l, <1>8
  <2>3. QED BY <1>4, <2>1, <2>2
<1>10. FirstDifference(y, x) = d
  <2>1. \A i \in DOMAIN y : (y[i] # x[i] /\ \A j \in 1 .. i - 1 : y[j] = x[j]) <=> i = d
    BY <1>2, <1>3, <1>7
  <2>2. d \in DOMAIN y
    BY <1>l, <1>8
  <2>3. QED BY <1>5, <2>1, <2>2
<1>11. QED BY <1>8, <1>9, <1>10, <1>l

\* Of two different runs one is the smaller.
LEMMA RunsOrdered ==
  ASSUME NEW r1 \in Runs, NEW r2 \in Runs, r1 # r2
  PROVE  RunLess(r1, r2) <=> ~RunLess(r2, r1)
<1>a. PICK t1 \in RunTypes, x1 \in Nat : t1 = r1.type /\ x1 = r1.length
  BY DEF Runs
<1>b. PICK t2 \in RunTypes, x2 \in Nat : t2 = r2.type /\ x2 = r2.length
  BY DEF Runs
<1>1. t1 # t2 \/ x1 # x2
  BY <1>a, <1>b DEF Runs
<1>2. TypeNumber("Empty") = 0 /\ TypeNumber("Mixed") = 1 /\ TypeNumber("Full") = 2
  BY DEF TypeNumber
<1>3. t1 # t2 => (TypeNumber(t1) < TypeNumber(t2) <=> ~ (TypeNumber(t2) < TypeNumber(t1)))
  BY <1>2 DEF RunTypes
<1>4. t1 = t2 => ~ (TypeNumber(t1) < TypeNumber(t2)) /\ ~ (TypeNumber(t2) < TypeNumber(t1))
  BY <1>2 DEF RunTypes
<1>5. x1 # x2 => (x1 < x2 <=> ~ (x2 < x1))
  OBVIOUS
<1>6. QED BY <1>1, <1>3, <1>4, <1>5, <1>a, <1>b, Zenon DEF RunLess

\* Max is a member of a set of bits.
LEMMA LargestIs ==
  ASSUME NEW S, S \subseteq Bits, S # {}
  PROVE  Max(S) \in S
<1>1. QuadBits \in Nat
  BY SizeAssumption
<1> DEFINE T == {QuadBits - b : b \in S}
<1>2. T \subseteq Nat /\ T # {}
  <2>1. \A b \in S : QuadBits - b \in Nat
    <3>1. SUFFICES ASSUME NEW b \in S PROVE QuadBits - b \in Nat
      OBVIOUS
    <3>2. b \in 0 .. QuadBits - 1
      BY Zenon DEF Bits
    <3>3. QED BY <1>1, <3>2
  <2>2. PICK b \in S : TRUE
    OBVIOUS
  <2>3. QED BY <2>1, <2>2, Zenon
<1>t. PICK t \in T : \A u \in T : t <= u
  <2> HIDE DEF T
  <2>1. QED BY <1>2, LeastNumber
<1>b. PICK b \in S : t = QuadBits - b
  OBVIOUS
<1>3. \A y \in S : b >= y
  <2>1. SUFFICES ASSUME NEW y \in S PROVE b >= y
    OBVIOUS
  <2>2. QuadBits - b <= QuadBits - y
    BY <1>t, <1>b
  <2>3. QED BY <1>1, <2>2 DEF Bits
<1>4. \E x \in S : \A y \in S : x >= y
  BY <1>3
<1>5. QED BY <1>4, Zenon DEF Max

\* Of two different quads one is the smaller number.
LEMMA QuadsOrdered ==
  ASSUME NEW q1 \in MixedQuads, NEW q2 \in MixedQuads, q1 # q2
  PROVE  QuadLess(q1, q2) <=> ~QuadLess(q2, q1)
<1>d. PICK d : d = (q1 \cup q2) \ (q1 \cap q2)
  OBVIOUS
<1>1. d = (q2 \cup q1) \ (q2 \cap q1) /\ d \subseteq Bits /\ d # {}
  BY <1>d DEF MixedQuads
<1>2. Max(d) \in d
  BY <1>1, LargestIs
<1>3. Max(d) \in q1 <=> ~ (Max(d) \in q2)
  BY <1>d, <1>2
<1>4. QED BY <1>1, <1>3, <1>d, Zenon DEF QuadLess

\* Of two representations one is the smaller, unless they are equal.
LEMMA ObjectsOrdered ==
  ASSUME NEW s1 \in Objects, NEW s2 \in Objects
  PROVE  /\ Equal(s1, s2) => ~LessThan(s1, s2) /\ ~LessThan(s2, s1)
         /\ ~Equal(s1, s2) => (LessThan(s1, s2) <=> ~LessThan(s2, s1))
<1>1. /\ s1.runs \in Seq(Runs) /\ s2.runs \in Seq(Runs)
      /\ s1.quads \in Seq(MixedQuads) /\ s2.quads \in Seq(MixedQuads)
  BY DEF Objects
<1>l. PICK L1 \in Nat, L2 \in Nat : L1 = Len(s1.runs) /\ L2 = Len(s2.runs)
  BY <1>1
<1>m. PICK M1 \in Nat, M2 \in Nat : M1 = Len(s1.quads) /\ M2 = Len(s2.quads)
  BY <1>1
<1>2. CASE L1 # L2
  <2>1. LessThan(s1, s2) <=> L1 < L2
    BY <1>2, <1>l, Zenon DEF LessThan
  <2>2. LessThan(s2, s1) <=> L2 < L1
    BY <1>2, <1>l, Zenon DEF LessThan
  <2>3. L1 < L2 <=> ~ (L2 < L1)
    BY <1>2
  <2>4. ~Equal(s1, s2)
    BY <1>2, <1>l DEF Equal
  <2>5. QED BY <2>1, <2>2, <2>3, <2>4
<1>3. CASE L1 = L2 /\ M1 # M2
  <2>1. LessThan(s1, s2) <=> M1 < M2
    BY <1>3, <1>l, <1>m, Zenon DEF LessThan
  <2>2. LessThan(s2, s1) <=> M2 < M1
    BY <1>3, <1>l, <1>m, Zenon DEF LessThan
  <2>3. M1 < M2 <=> ~ (M2 < M1)
    BY <1>3
  <2>4. ~Equal(s1, s2)
    BY <1>3, <1>m DEF Equal
  <2>5. QED BY <2>1, <2>2, <2>3, <2>4
<1>4. CASE L1 = L2 /\ M1 = M2 /\ s1.runs # s2.runs
  <2>i. PICK i : i = FirstDifference(s1.runs, s2.runs)
    OBVIOUS
  <2>s. PICK x \in Seq(Runs), y \in Seq(Runs) : x = s1.runs /\ y = s2.runs
    BY <1>1
  <2>d. Len(x) = Len(y) /\ x # y
    BY <1>4, <1>l, <2>s
  <2>f. /\ FirstDifference(x, y) \in 1 .. Len(x)
        /\ x[FirstDifference(x, y)] # y[FirstDifference(x, y)]
        /\ FirstDifference(y, x) = FirstDifference(x, y)
    BY <2>d, FirstDifferenceIs
  <2>1. /\ i \in 1 .. L1 /\ s1.runs[i] # s2.runs[i]
        /\ FirstDifference(s2.runs, s1.runs) = i
    BY <1>l, <2>s, <2>f, <2>i, Zenon
  <2>2. LessThan(s1, s2) <=> RunLess(s1.runs[i], s2.runs[i])
    BY <1>4, <1>l, <1>m, <2>i, Zenon DEF LessThan
  <2>3. LessThan(s2, s1) <=> RunLess(s2.runs[i], s1.runs[i])
    BY <1>4, <1>l, <1>m, <2>1, Zenon DEF LessThan
  <2>o. i \in 1 .. Len(x)
    BY <2>f, <2>i, <2>s, Zenon
  <2>p. i \in 1 .. Len(x) /\ i \in 1 .. Len(y)
    BY <2>d, <2>o
  <2>x. x[i] \in Runs
    BY <2>p, ElementOfSeq
  <2>y. y[i] \in Runs
    BY <2>p, ElementOfSeq
  <2>4. s1.runs[i] \in Runs /\ s2.runs[i] \in Runs
    BY <2>s, <2>x, <2>y, Zenon
  <2>5. ~Equal(s1, s2)
    BY <1>4 DEF Equal
  <2>6. QED BY <2>1, <2>2, <2>3, <2>4, <2>5, RunsOrdered
<1>5. CASE L1 = L2 /\ M1 = M2 /\ s1.runs = s2.runs /\ s1.quads # s2.quads
  <2>i. PICK i : i = FirstDifference(s1.quads, s2.quads)
    OBVIOUS
  <2>s. PICK x \in Seq(MixedQuads), y \in Seq(MixedQuads) : x = s1.quads /\ y = s2.quads
    BY <1>1
  <2>d. Len(x) = Len(y) /\ x # y
    BY <1>5, <1>m, <2>s
  <2>f. /\ FirstDifference(x, y) \in 1 .. Len(x)
        /\ x[FirstDifference(x, y)] # y[FirstDifference(x, y)]
        /\ FirstDifference(y, x) = FirstDifference(x, y)
    BY <2>d, FirstDifferenceIs
  <2>1. /\ i \in 1 .. M1 /\ s1.quads[i] # s2.quads[i]
        /\ FirstDifference(s2.quads, s1.quads) = i
    BY <1>m, <2>s, <2>f, <2>i, Zenon
  <2>2. LessThan(s1, s2) <=> QuadLess(s1.quads[i], s2.quads[i])
    BY <1>5, <1>l, <1>m, <2>i, Zenon DEF LessThan
  <2>3. LessThan(s2, s1) <=> QuadLess(s2.quads[i], s1.quads[i])
    BY <1>5, <1>l, <1>m, <2>1, Zenon DEF LessThan
  <2>o. i \in 1 .. Len(x)
    BY <2>f, <2>i, <2>s, Zenon
  <2>p. i \in 1 .. Len(x) /\ i \in 1 .. Len(y)
    BY <2>d, <2>o
  <2>x. x[i] \in MixedQuads
    BY <2>p, ElementOfSeq
  <2>y. y[i] \in MixedQuads
    BY <2>p, ElementOfSeq
  <2>4. s1.quads[i] \in MixedQuads /\ s2.quads[i] \in MixedQuads
    BY <2>s, <2>x, <2>y, Zenon
  <2>5. ~Equal(s1, s2)
    BY <1>5 DEF Equal
  <2>6. QED BY <2>1, <2>2, <2>3, <2>4, <2>5, QuadsOrdered
<1>6. CASE s1.runs = s2.runs /\ s1.quads = s2.quads
  BY <1>6, Zenon DEF Equal, LessThan
<1>7. QED BY <1>2, <1>3, <1>4, <1>5, <1>6, Zenon

\* operator< decides exactly one way between two sets that operator== tells
\* apart, so that a map with sets as its keys finds them.
THEOREM OrderIsTotal ==
  ASSUME MergingRanges = FALSE
  PROVE  Spec => []OrderTotal
<1>1. ASSUME SetInvariant PROVE OrderTotal
  <2>1. set \in Objects
    BY <1>1, RepresentsHolds DEF SetInvariant, Represents, Holds
  <2>2. \A m \in Operands : OtherSet(m) \in Objects
    <3>1. SUFFICES ASSUME NEW m \in Operands PROVE OtherSet(m) \in Objects
      OBVIOUS
    <3>2. Represents(OtherSet(m), m) /\ m \subseteq CodePoints
      BY OperandsAreSets
    <3>3. QED BY <3>2, RepresentsHolds DEF Holds
  <2>3. QED BY <2>1, <2>2, ObjectsOrdered DEF OrderTotal
<1>2. SetInvariant => OrderTotal
  BY <1>1
<1>3. QED BY <1>2, SetInvariantHolds, PTL

-----------------------------------------------------------------------------
(* append_run leaves no two runs of one type next to each other.           *)

LooseRuns == [type : RunTypes, length : Int]

\* Neighbours differ in type: all that was written by append_run.
Joined(s) ==
  /\ s = Object(s.runs, s.quads) /\ s.runs \in Seq(LooseRuns)
  /\ \A r \in 1 .. Len(s.runs) - 1 : s.runs[r].type # s.runs[r + 1].type

\* A run appended to an object that ends with another type of run, or is empty.
LEMMA AppendedApart ==
  ASSUME NEW x \in Seq(LooseRuns), NEW e \in LooseRuns,
         \A r \in 1 .. Len(x) - 1 : x[r].type # x[r + 1].type,
         Len(x) # 0 => x[Len(x)].type # e.type
  PROVE  /\ Append(x, e) \in Seq(LooseRuns)
         /\ \A r \in 1 .. Len(Append(x, e)) - 1 : Append(x, e)[r].type # Append(x, e)[r + 1].type
<1>l. PICK L \in Nat : L = Len(x)
  OBVIOUS
<1>y. PICK y : y = Append(x, e)
  OBVIOUS
<1>1. /\ y \in Seq(LooseRuns) /\ Len(y) = L + 1
      /\ \A i \in 1 .. L : y[i] = x[i]
      /\ y[L + 1] = e
  BY <1>l, <1>y, AppendProperties
<1>2. ASSUME NEW r \in 1 .. L PROVE y[r].type # y[r + 1].type
  <2>1. CASE r = L
    BY <1>1, <1>l, <2>1
  <2>2. CASE r # L
    <3>1. r \in 1 .. L - 1 /\ r + 1 \in 1 .. L
      BY <2>2
    <3>2. x[r].type # x[r + 1].type
      BY <1>l, <3>1
    <3>3. QED BY <1>1, <3>1, <3>2
  <2>3. QED BY <2>1, <2>2
<1>3. L + 1 - 1 = L
  OBVIOUS
<1>4. \A r \in 1 .. Len(y) - 1 : y[r].type # y[r + 1].type
  <2>1. \A r \in 1 .. L : y[r].type # y[r + 1].type
    BY <1>2
  <2>2. Len(y) - 1 = L
    <3>1. Len(y) = L + 1
      BY <1>1
    <3>2. QED BY <3>1
  <2>3. QED BY <2>1, <2>2, Zenon
<1>5. QED BY <1>1, <1>4, <1>y

\* A last run that only grows keeps its type.
LEMMA LastGrown ==
  ASSUME NEW x \in Seq(LooseRuns), NEW e \in LooseRuns,
         \A r \in 1 .. Len(x) - 1 : x[r].type # x[r + 1].type,
         Len(x) # 0, x[Len(x)].type = e.type
  PROVE  /\ [x EXCEPT ![Len(x)] = e] \in Seq(LooseRuns)
         /\ \A r \in 1 .. Len([x EXCEPT ![Len(x)] = e]) - 1 :
              [x EXCEPT ![Len(x)] = e][r].type # [x EXCEPT ![Len(x)] = e][r + 1].type
<1>l. PICK L \in Nat : L = Len(x) /\ L \in 1 .. Len(x)
  OBVIOUS
<1>y. PICK y : y = [x EXCEPT ![L] = e]
  OBVIOUS
<1>1. /\ y \in Seq(LooseRuns) /\ Len(y) = L
      /\ \A i \in 1 .. L : y[i] = IF i = L THEN e ELSE x[i]
  BY <1>l, <1>y, ExceptSeq
<1>2. \A i \in 1 .. L : y[i].type = x[i].type
  BY <1>1, <1>l
<1>3. ASSUME NEW r \in 1 .. L - 1 PROVE y[r].type # y[r + 1].type
  <2>1. r \in 1 .. L /\ r + 1 \in 1 .. L
    OBVIOUS
  <2>2. x[r].type # x[r + 1].type
    BY <1>l
  <2>3. QED BY <1>2, <2>1, <2>2, Zenon
<1>4. \A r \in 1 .. Len(y) - 1 : y[r].type # y[r + 1].type
  BY <1>1, <1>3
<1>5. QED BY <1>1, <1>4, <1>l, <1>y, Zenon

\* append_run keeps neighbours of different types.
LEMMA RunJoined ==
  ASSUME NEW s, Joined(s), NEW type \in RunTypes, NEW n \in Int
  PROVE  Joined(AppendRun(s, type, n))
<1>x0. PICK x \in Seq(LooseRuns) : x = s.runs
  BY DEF Joined
<1>y. PICK y : y = s.quads
  OBVIOUS
<1>x. x = s.runs /\ y = s.quads /\ s = Object(x, y)
  BY <1>x0, <1>y DEF Joined
<1>l. PICK L \in Nat : L = Len(x)
  OBVIOUS
<1>1. \A r \in 1 .. Len(x) - 1 : x[r].type # x[r + 1].type
  BY <1>x DEF Joined
<1>2. ASSUME NEW z \in Seq(LooseRuns), \A r \in 1 .. Len(z) - 1 : z[r].type # z[r + 1].type
      PROVE  Joined(Object(z, y))
  <2>1. Object(z, y).runs = z /\ Object(z, y).quads = y
    BY DEF Object
  <2>2. QED BY <1>2, <2>1 DEF Joined
<1>3. CASE n = 0
  BY <1>3 DEF AppendRun
<1>4. CASE n # 0 /\ L # 0 /\ x[L].type = type
  <2>k. PICK k \in Int : k = x[L].length
    <3>1. x[L] \in LooseRuns
      BY <1>4, <1>l, ElementOfSeq
    <3>2. QED BY <3>1 DEF LooseRuns
  <2>0. x[L] = Run(type, k)
    <3>1. x[L] \in LooseRuns
      BY <1>4, <1>l, ElementOfSeq
    <3>2. QED BY <1>4, <2>k, <3>1 DEF LooseRuns, Run
  <2>s. PICK sum \in Int : sum = k + n
    OBVIOUS
  <2>e. PICK e \in LooseRuns : e = Run(type, sum)
    BY DEF LooseRuns, Run
  <2>1. e.type = type
    BY <2>e DEF Run
  <2>2. x # <<>>
    BY <1>4, <1>l
  <2>3. AppendRun(s, type, n) = Object(Lengthened(x, n), y)
    <3>1. AppendRun(Object(x, y), type, n) = Object(Lengthened(x, n), y)
      BY <1>4, <1>l, <2>2, AppendRunLonger
    <3>2. QED BY <1>x, <3>1
  <2>5. Lengthened(x, n) = [x EXCEPT ![L] = e]
    <3>1. x[Len(x)] = Run(type, k)
      BY <1>l, <2>0
    <3>2. Lengthened(x, n) = LastIs(x, Run(type, k + n))
      BY <3>1, LengthenedLast
    <3>3. LastIs(x, Run(type, k + n)) = LastIs(x, e)
      BY <2>s, <2>e
    <3>4. LastIs(x, e) = [x EXCEPT ![L] = e]
      BY <1>l DEF LastIs
    <3>5. QED BY <3>2, <3>3, <3>4, Zenon
  <2>6. /\ [x EXCEPT ![L] = e] \in Seq(LooseRuns)
        /\ \A r \in 1 .. Len([x EXCEPT ![L] = e]) - 1 :
             [x EXCEPT ![L] = e][r].type # [x EXCEPT ![L] = e][r + 1].type
    BY <1>1, <1>4, <1>l, <2>1, LastGrown
  <2>7. Joined(Object([x EXCEPT ![L] = e], y))
    BY <1>2, <2>6
  <2>8. QED BY <2>3, <2>5, <2>7, Zenon
<1>5. CASE n # 0 /\ ~ (L # 0 /\ x[L].type = type)
  <2>e. PICK e \in LooseRuns : e = Run(type, n)
    BY DEF LooseRuns, Run
  <2>1. e.type = type
    BY <2>e DEF Run
  <2>2. ~ (x # <<>> /\ x[L].type = type)
    BY <1>5, <1>l
  <2>3. AppendRun(s, type, n) = [Object(x, y) EXCEPT !.runs = Append(x, e)]
    <3>1. AppendRun(s, type, n) = [s EXCEPT !.runs = Append(@, Run(type, n))]
      BY <1>5, <1>x, <1>l, <2>2 DEF AppendRun
    <3>2. QED BY <1>x, <2>e, <3>1
  <2>4. [Object(x, y) EXCEPT !.runs = Append(x, e)] = Object(Append(x, e), y)
    BY OtherRuns, Zenon
  <2>5. /\ Append(x, e) \in Seq(LooseRuns)
        /\ \A r \in 1 .. Len(Append(x, e)) - 1 : Append(x, e)[r].type # Append(x, e)[r + 1].type
    BY <1>1, <1>5, <1>l, <2>1, AppendedApart
  <2>6. Joined(Object(Append(x, e), y))
    BY <1>2, <2>5
  <2>7. QED BY <2>3, <2>4, <2>6, Zenon
<1>6. QED BY <1>3, <1>4, <1>5

\* append_quad does.
LEMMA QuadJoined ==
  ASSUME NEW s, Joined(s), NEW quad
  PROVE  Joined(AppendQuad(s, quad))
<1>1. TypeOf(quad) \in RunTypes
  BY DEF TypeOf, RunTypes
<1>2. Joined([s EXCEPT !.quads = Append(@, quad)])
  <2>1. PICK x, y : x = s.runs /\ y = s.quads /\ s = Object(x, y)
    BY DEF Joined
  <2>2. [s EXCEPT !.quads = Append(@, quad)] = Object(x, Append(y, quad))
    <3>1. s = [runs |-> x, quads |-> y]
      BY <2>1 DEF Object
    <3>2. [[runs |-> x, quads |-> y] EXCEPT !.quads = Append(@, quad)]
            = [runs |-> x, quads |-> Append(y, quad)]
      OBVIOUS
    <3>3. QED BY <3>1, <3>2 DEF Object
  <2>3. Object(x, Append(y, quad)).runs = x /\ Object(x, Append(y, quad)).quads = Append(y, quad)
    BY DEF Object
  <2>4. x \in Seq(LooseRuns) /\ \A r \in 1 .. Len(x) - 1 : x[r].type # x[r + 1].type
    BY <2>1 DEF Joined
  <2>5. QED BY <2>2, <2>3, <2>4 DEF Joined
<1>3. 1 \in Int
  OBVIOUS
<1>4. QED BY <1>1, <1>2, <1>3, RunJoined DEF AppendQuad

\* A list of appended quads does.
LEMMA QuadsJoined ==
  ASSUME NEW s, Joined(s), NEW quads, NEW m \in Nat, LengthIs(quads, m)
  PROVE  Joined(AppendQuads(s, quads))
<1>1. PICK f : /\ f[0] = s /\ f[m] = AppendQuads(s, quads)
               /\ \A n \in 1 .. m : f[n] = AppendQuad(f[n - 1], quads[n])
  BY QuadsAppended
<1> DEFINE good == {k \in 0 .. m : Joined(f[k])}
<1>2. 0 \in good
  BY <1>1
<1>3. ASSUME NEW k \in 0 .. m - 1, k \in good PROVE k + 1 \in good
  <2>1. k + 1 \in 1 .. m /\ k + 1 - 1 = k /\ k + 1 \in 0 .. m
    OBVIOUS
  <2>2. f[k + 1] = AppendQuad(f[k], quads[k + 1])
    BY <1>1, <2>1
  <2>3. Joined(f[k])
    BY <1>3
  <2>4. QED BY <2>1, <2>2, <2>3, QuadJoined
<1>4. \A k \in 0 .. m : k \in good
  <2>1. \A k \in 0 .. m - 1 : k \in good => k + 1 \in good
    BY <1>3
  <2> HIDE DEF good
  <2>2. QED BY <1>2, <2>1, UpToNumber
<1>5. m \in 0 .. m
  OBVIOUS
<1>6. QED BY <1>1, <1>4, <1>5

\* No runs have no neighbours.
LEMMA NothingJoined == Joined(Object(<<>>, <<>>))
<1>1. Object(<<>>, <<>>).runs = <<>> /\ Object(<<>>, <<>>).quads = <<>>
  BY DEF Object
<1>2. <<>> \in Seq(LooseRuns) /\ Len(<<>>) = 0
  BY EmptySeq
<1>3. \A r \in 1 .. 0 - 1 : FALSE
  OBVIOUS
<1>4. QED BY <1>1, <1>2, <1>3 DEF Joined

\* The stretches of a walk over two sets.
LEMMA StretchesWalked ==
  ASSUME NEW s1, NEW q1, NEW s2, NEW q2, NEW n, Holds(s1, q1, n), Holds(s2, q2, n), n # 0,
         NEW m \in Nat, StretchesOf(s1, s2, m)
  PROVE  \E walk : walk = Walk(s1, s2) /\ \A k \in 0 .. m : Stretch(walk[k]) \in Nat
<1>1. \E walk, place :
           /\ walk = Walk(s1, s2) /\ DOMAIN walk = 0 .. m
           /\ place[0] = 0 /\ place[m] = n
           /\ \A k \in 0 .. m : /\ place[k] \in 0 .. n
                                /\ BothAt(s1, s2, walk[k], place[k])
                                /\ Stretch(walk[k]) \in Nat
                                /\ place[k] + Stretch(walk[k]) <= n
                                /\ Stretch(walk[k]) <= walk[k][1].left
                                /\ Stretch(walk[k]) <= walk[k][2].left
           /\ \A k \in 0 .. m - 1 : place[k + 1] = place[k] + Stretch(walk[k])
  BY WalkPlaces
<1>2. QED BY <1>1

\* The operators write with append_run.
LEMMA CombineJoined ==
  ASSUME NEW op, NEW s1, NEW m1, Represents(s1, m1), NEW s2, NEW m2, Represents(s2, m2)
  PROVE  Joined(Combine(op, s1, s2))
<1>n. PICK n \in Nat : n = QuadCount /\ n # 0
  BY SizeAssumption
<1>p. PICK q1 : Holds(s1, q1, n)
  BY <1>n, RepresentsHolds DEF Represents
<1>q. PICK q2 : Holds(s2, q2, n)
  BY <1>n, RepresentsHolds DEF Represents
<1>1. Holds(s1, q1, n) /\ Holds(s2, q2, n)
  BY <1>p, <1>q
<1>m. PICK m \in Nat : StretchesOf(s1, s2, m)
  <2>1. Len(s1.runs) \in Nat /\ Len(s2.runs) \in Nat
    BY <1>1 DEF Holds, Objects
  <2>2. PICK a, b \in Nat : a = Len(s1.runs) /\ b = Len(s2.runs)
    BY <2>1
  <2>3. a + b \in Nat /\ StretchesOf(s1, s2, a + b)
    <3>1. a + b \in Nat
      OBVIOUS
    <3>2. StretchesOf(s1, s2, a + b)
      BY <2>2, Zenon DEF StretchesOf
    <3>3. QED BY <3>1, <3>2
  <2>4. QED BY <2>3
<1>4. PICK walk : walk = Walk(s1, s2) /\ \A k \in 0 .. m : Stretch(walk[k]) \in Nat
  BY <1>1, <1>m, <1>n, StretchesWalked
<1>5. PICK f : /\ f[m] = Combine(op, s1, s2)
               /\ f[0] = Object(<<>>, <<>>)
               /\ \A k \in 1 .. m : f[k] = AppendQuads(f[k - 1], ResultQuads(op, s1, s2, walk[k - 1]))
  <2>1. WalkOf(walk, s1, s2)
    BY <1>4 DEF WalkOf
  <2>2. StretchesOf(s1, s2, m) =>
          \E f : /\ f[m] = Combine(op, s1, s2)
                /\ f[0] = Object(<<>>, <<>>)
                /\ \A j \in 1 .. m :
                     f[j] = AppendQuads(f[j - 1], ResultQuads(op, s1, s2, walk[j - 1]))
    BY <2>1, CombineUnfolds
  <2>3. QED BY <1>m, <2>2
<1> DEFINE good == {k \in 0 .. m : Joined(f[k])}
<1>6. 0 \in good
  BY <1>5, NothingJoined
<1>7. ASSUME NEW k \in 0 .. m - 1, k \in good PROVE k + 1 \in good
  <2>0. k + 1 \in 1 .. m /\ k + 1 - 1 = k /\ k \in 0 .. m /\ k + 1 \in 0 .. m
    OBVIOUS
  <2>d. PICK d \in Nat : d = Stretch(walk[k])
    BY <1>4, <2>0
  <2>q. PICK quads : quads = ResultQuads(op, s1, s2, walk[k])
    OBVIOUS
  <2>1. f[k + 1] = AppendQuads(f[k], quads)
    BY <1>5, <2>0, <2>q
  <2>2. LengthIs(quads, d)
    <3>1. quads = [j \in 1 .. d |->
                   Result(op, walk[k][1].type, QuadBehind(s1, walk[k][1], j - 1),
                              walk[k][2].type, QuadBehind(s2, walk[k][2], j - 1))]
      BY <2>d, <2>q DEF ResultQuads
    <3>2. QED BY <3>1 DEF LengthIs
  <2>3. Joined(f[k])
    BY <1>7
  <2>4. Joined(AppendQuads(f[k], quads))
    BY <2>2, <2>3, QuadsJoined
  <2>5. QED BY <2>0, <2>1, <2>4
<1>8. \A k \in 0 .. m : k \in good
  <2>1. \A k \in 0 .. m - 1 : k \in good => k + 1 \in good
    BY <1>7
  <2> HIDE DEF good
  <2>2. QED BY <1>6, <2>1, UpToNumber
<1>9. m \in 0 .. m
  OBVIOUS
<1>10. QED BY <1>5, <1>8, <1>9

\* The constructor from a list of intervals does, too.
LEMMA IntervalJoined ==
  ASSUME NEW list, NEW acc, Joined(acc.s), acc.prior \in Int, NEW i,
         list[i][1] \in Nat, list[i][2] \in Nat
  PROVE  /\ Joined(ConvertInterval(list, acc, i).s)
         /\ ConvertInterval(list, acc, i).prior \in Int
<1>l. PICK a \in Nat : a = list[i][1]
  OBVIOUS
<1>h. PICK b \in Nat : b = list[i][2]
  OBVIOUS
<1>i. PICK x \in Int : x = a \div QuadBits
  BY QuadAndBit
<1>j. PICK y \in Int : y = b \div QuadBits
  BY QuadAndBit
<1>p. PICK p \in Int : p = acc.prior
  OBVIOUS
<1>s. PICK s : s = AppendRun(acc.s, "Empty", x - p)
  OBVIOUS
<1>1. Joined(s)
  <2>1. "Empty" \in RunTypes /\ x - p \in Int
    BY DEF RunTypes
  <2>2. QED BY <1>s, <2>1, RunJoined
<1>t. PICK t : t = IF x = y THEN s
                   ELSE AppendRun(AppendQuad(s, acc.mask \cup LoQuad(a)), "Full", y - (x + 1))
  OBVIOUS
<1>2. Joined(t)
  <2>1. "Full" \in RunTypes /\ y - (x + 1) \in Int
    BY DEF RunTypes
  <2>2. Joined(AppendQuad(s, acc.mask \cup LoQuad(a)))
    BY <1>1, QuadJoined
  <2>3. Joined(AppendRun(AppendQuad(s, acc.mask \cup LoQuad(a)), "Full", y - (x + 1)))
    BY <2>1, <2>2, RunJoined
  <2>4. QED BY <1>1, <1>t, <2>3
<1>3. \E mask :
        \/ ConvertInterval(list, acc, i) = [s |-> t, prior |-> y, mask |-> mask]
        \/ ConvertInterval(list, acc, i) = [s |-> AppendQuad(t, mask), prior |-> y + 1, mask |-> {}]
  BY <1>l, <1>h, <1>i, <1>j, <1>p, <1>s, <1>t, Zenon DEF ConvertInterval
<1>4. PICK mask :
        \/ ConvertInterval(list, acc, i) = [s |-> t, prior |-> y, mask |-> mask]
        \/ ConvertInterval(list, acc, i) = [s |-> AppendQuad(t, mask), prior |-> y + 1, mask |-> {}]
  BY <1>3
<1>5. Joined(AppendQuad(t, mask)) /\ y + 1 \in Int
  BY <1>2, QuadJoined
<1>6. QED BY <1>2, <1>4, <1>5

\* All intervals of a list.
LEMMA ConvertJoined ==
  ASSUME NEW list, NEW m, NEW apart, Lists(list, m, Limit, apart)
  PROVE  Joined(ConvertIntervals(list))
<1>l. PICK L \in Nat : LengthIs(list, L)
  BY ListOf DEF LengthIs
<1>0. \A j \in 1 .. L : list[j][1] \in Nat /\ list[j][2] \in Nat
  BY <1>l, ListOf DEF LengthIs
<1>1. PICK f : /\ ConvertIntervals(list) = AppendRun(f[L].s, "Empty", QuadCount - f[L].prior)
               /\ f[0] = ConvertStart
               /\ \A n \in 1 .. L : f[n] = ConvertInterval(list, f[n - 1], n)
  BY <1>l, ConvertUnfolds
<1> DEFINE good == {k \in 0 .. L : Joined(f[k].s) /\ f[k].prior \in Int}
<1>2. 0 \in good
  <2>1. f[0].s = Object(<<>>, <<>>) /\ f[0].prior = 0
    BY <1>1 DEF ConvertStart
  <2>2. QED BY <2>1, NothingJoined
<1>3. ASSUME NEW k \in 0 .. L - 1, k \in good PROVE k + 1 \in good
  <2>0. k + 1 \in 1 .. L /\ k + 1 - 1 = k /\ k + 1 \in 0 .. L
    OBVIOUS
  <2>a. PICK acc : acc = f[k]
    OBVIOUS
  <2>j. PICK j \in 1 .. L : j = k + 1
    BY <2>0
  <2>1. f[k + 1] = ConvertInterval(list, acc, j)
    BY <1>1, <2>0, <2>a, <2>j
  <2>2. Joined(acc.s) /\ acc.prior \in Int
    BY <1>3, <2>a
  <2>3. Joined(ConvertInterval(list, acc, j).s) /\ ConvertInterval(list, acc, j).prior \in Int
    BY <1>0, <2>2, IntervalJoined
  <2>4. QED BY <2>0, <2>1, <2>3
<1>4. \A k \in 0 .. L : k \in good
  <2>1. \A k \in 0 .. L - 1 : k \in good => k + 1 \in good
    BY <1>3
  <2> HIDE DEF good
  <2>2. QED BY <1>2, <2>1, UpToNumber
<1>5. L \in 0 .. L
  OBVIOUS
<1>6. Joined(f[L].s) /\ f[L].prior \in Int
  BY <1>4, <1>5
<1>7. "Empty" \in RunTypes /\ QuadCount - f[L].prior \in Int
  BY <1>6, SizeAssumption DEF RunTypes
<1>8. QED BY <1>1, <1>6, <1>7, RunJoined

\* The other sets that calls are given.
LEMMA OtherJoined ==
  ASSUME NEW m \in Operands
  PROVE  Joined(OtherSet(m)) /\ Joined(ConvertIntervals(SingleIntervals(m)))
<1>1. m \subseteq CodePoints
  BY OperandsAreSets
<1>2. QED BY <1>1, MaximalListed, SingleListed, ConvertJoined DEF OtherSet

\* The quads of a run tell its type.
LEMMA TypeOfRun ==
  ASSUME NEW s, NEW q, NEW n, Holds(s, q, n), NEW r \in 1 .. Len(s.runs),
         NEW j \in 0 .. s.runs[r].length - 1
  PROVE  s.runs[r].type = TypeOf(q[LengthBefore(s, r) + j])
<1>0. s \in Objects /\ s.quads \in Seq(MixedQuads) /\ Len(s.quads) \in Nat
  BY DEF Holds, Objects
<1>m. PICK M \in Nat : M = Len(s.quads)
  BY <1>0
<1>1. q[LengthBefore(s, r) + j] = QuadIn(s, r, j)
  BY DEF Holds
<1>2. /\ s.runs[r].type \in RunTypes /\ MixedBefore(s, r) \in Nat /\ s.runs[r].length \in Nat
      /\ MixedBefore(s, r) + MixedLength(s.runs[r]) <= M
  BY <1>m, RunFits
<1>b. PICK b \in Nat : b = MixedBefore(s, r)
  BY <1>2
<1>x. PICK x \in Nat : x = s.runs[r].length
  BY <1>2
<1>t. PICK type \in RunTypes : type = s.runs[r].type
  BY <1>2
<1>3. CASE type = "Mixed"
  <2>1. b + x <= M
    BY <1>2, <1>3, <1>b, <1>x, <1>t DEF MixedLength
  <2>2. b + j + 1 \in 1 .. M
    BY <1>x, <2>1
  <2>3. s.quads[b + j + 1] \in MixedQuads
    BY <1>0, <1>m, <2>2
  <2>4. QuadIn(s, r, j) = s.quads[b + j + 1]
    BY <1>3, <1>b, <1>t DEF QuadIn, Content
  <2>5. TypeOf(s.quads[b + j + 1]) = "Mixed"
    BY <2>3 DEF TypeOf, MixedQuads
  <2>6. QED BY <1>1, <1>3, <1>t, <2>4, <2>5
<1>4. CASE type = "Full"
  <2>1. QuadIn(s, r, j) = Bits
    BY <1>4, <1>t DEF QuadIn, Content
  <2>2. Bits # {}
    <3>1. 0 \in Bits
      BY SizeAssumption DEF Bits
    <3>2. QED BY <3>1
  <2>3. QED BY <1>1, <1>4, <1>t, <2>1, <2>2 DEF TypeOf
<1>5. CASE type = "Empty"
  <2>1. QuadIn(s, r, j) = {}
    BY <1>5, <1>t DEF QuadIn, Content
  <2>2. QED BY <1>1, <1>5, <1>t, <2>1 DEF TypeOf
<1>6. QED BY <1>3, <1>4, <1>5 DEF RunTypes

\* Two objects begin with the same k runs.
RunsAgree(s, t, k) ==
  /\ k <= Len(s.runs) /\ k <= Len(t.runs)
  /\ \A r \in 1 .. k : s.runs[r] = t.runs[r]
  /\ LengthBefore(s, k + 1) = LengthBefore(t, k + 1)

\* A run that begins at the same quad, in objects of the same quads, is not the
\* shorter one if the next run of its object has another type.
LEMMA NotShorter ==
  ASSUME NEW q, NEW n, NEW s, Holds(s, q, n), Joined(s), NEW t, Holds(t, q, n),
         NEW r \in Nat \ {0}, r <= Len(s.runs), r <= Len(t.runs),
         LengthBefore(s, r) = LengthBefore(t, r), s.runs[r].type = t.runs[r].type
  PROVE  ~ (s.runs[r].length < t.runs[r].length)
<1>0. /\ s \in Objects /\ t \in Objects /\ Len(s.runs) \in Nat /\ Len(t.runs) \in Nat /\ n \in Nat
      /\ LengthBefore(s, Len(s.runs) + 1) = n
  BY DEF Holds, Objects
<1>l. PICK L \in Nat : L = Len(s.runs)
  BY <1>0
<1>1. r \in 1 .. Len(s.runs) /\ r \in 1 .. Len(t.runs) /\ r \in 1 .. L
  BY <1>0, <1>l
<1>2. s.runs[r].length \in Nat \ {0} /\ LengthBefore(s, r) \in Nat
  BY <1>1, RunFits
<1>3. t.runs[r].length \in Nat \ {0} /\ LengthBefore(t, r) + t.runs[r].length <= n
  BY <1>1, RunFits
<1>a. PICK a \in Nat : a = LengthBefore(s, r)
  BY <1>2
<1>x. PICK x \in Nat \ {0} : x = s.runs[r].length
  BY <1>2
<1>y. PICK y \in Nat \ {0} : y = t.runs[r].length
  BY <1>3
<1>4. SUFFICES ASSUME x < y PROVE FALSE
  BY <1>x, <1>y
<1>5. LengthBefore(s, r + 1) = a + x
  BY <1>0, <1>1, <1>a, <1>x, RunPlaces
<1>6. a + y <= n
  BY <1>3, <1>a, <1>y
<1>7. r # L
  BY <1>0, <1>4, <1>5, <1>6, <1>l
<1>8. r + 1 \in 1 .. Len(s.runs) /\ r \in 1 .. Len(s.runs) - 1
  BY <1>1, <1>7, <1>l
<1>9. 0 \in 0 .. s.runs[r + 1].length - 1
  <2>1. PICK r1 \in 1 .. Len(s.runs) : r1 = r + 1
    BY <1>8
  <2>2. PICK z \in Nat \ {0} : z = s.runs[r1].length
    BY RunFits
  <2>3. 0 \in 0 .. z - 1
    OBVIOUS
  <2>4. QED BY <2>1, <2>2, <2>3
<1>10. s.runs[r + 1].type = TypeOf(q[a + x])
  <2>1. s.runs[r + 1].type = TypeOf(q[LengthBefore(s, r + 1) + 0])
    BY <1>8, <1>9, TypeOfRun
  <2>2. LengthBefore(s, r + 1) + 0 = a + x
    BY <1>5
  <2>3. QED BY <2>1, <2>2
<1>11. t.runs[r].type = TypeOf(q[a + x])
  <2>1. x \in 0 .. t.runs[r].length - 1
    BY <1>4, <1>y
  <2>2. t.runs[r].type = TypeOf(q[LengthBefore(t, r) + x])
    BY <1>1, <2>1, TypeOfRun
  <2>3. QED BY <1>a, <2>2
<1>12. s.runs[r].type # s.runs[r + 1].type
  BY <1>8 DEF Joined
<1>13. QED BY <1>10, <1>11, <1>12

\* Objects that agree on the first runs agree on the next one.
LEMMA NextRunAgrees ==
  ASSUME NEW q, NEW n, NEW s, Holds(s, q, n), Joined(s), NEW t, Holds(t, q, n), Joined(t),
         NEW k \in Nat, RunsAgree(s, t, k), k + 1 <= Len(s.runs)
  PROVE  RunsAgree(s, t, k + 1)
<1>0. /\ s \in Objects /\ t \in Objects /\ Len(s.runs) \in Nat /\ Len(t.runs) \in Nat /\ n \in Nat
      /\ s.runs \in Seq(Runs) /\ t.runs \in Seq(Runs)
      /\ LengthBefore(t, Len(t.runs) + 1) = n
  BY DEF Holds, Objects
<1>l. PICK L \in Nat : L = Len(s.runs)
  BY <1>0
<1>m. PICK M \in Nat : M = Len(t.runs)
  BY <1>0
<1>r. PICK r \in Nat \ {0} : r = k + 1
  OBVIOUS
<1>1. /\ k <= M /\ r <= L /\ r \in 1 .. Len(s.runs) /\ r <= Len(s.runs)
      /\ LengthBefore(s, r) = LengthBefore(t, r)
      /\ \A i \in 1 .. k : s.runs[i] = t.runs[i]
  BY <1>l, <1>m, <1>r DEF RunsAgree
<1>2. /\ LengthBefore(s, r) \in Nat /\ s.runs[r].length \in Nat \ {0}
      /\ LengthBefore(s, r) + s.runs[r].length <= n
  BY <1>1, RunFits
<1>3. k # M
  BY <1>0, <1>1, <1>2, <1>m, <1>r
<1>4. r <= M /\ r \in 1 .. Len(t.runs) /\ r <= Len(t.runs)
  BY <1>1, <1>3, <1>m, <1>r
<1>5. t.runs[r].length \in Nat \ {0} /\ LengthBefore(t, r) \in Nat
  BY <1>4, RunFits
<1>6. s.runs[r].type = t.runs[r].type
  <2>1. 0 \in 0 .. s.runs[r].length - 1
    BY <1>2
  <2>2. 0 \in 0 .. t.runs[r].length - 1
    BY <1>5
  <2>3. s.runs[r].type = TypeOf(q[LengthBefore(s, r) + 0])
    BY <1>1, <2>1, TypeOfRun
  <2>4. t.runs[r].type = TypeOf(q[LengthBefore(t, r) + 0])
    BY <1>4, <2>2, TypeOfRun
  <2>5. QED BY <1>1, <2>3, <2>4
<1>7. s.runs[r].length = t.runs[r].length
  <2>1. ~ (s.runs[r].length < t.runs[r].length)
    BY <1>1, <1>4, <1>6, NotShorter
  <2>2. ~ (t.runs[r].length < s.runs[r].length)
    BY <1>1, <1>4, <1>6, NotShorter
  <2>3. QED BY <1>2, <1>5, <2>1, <2>2
<1>8. s.runs[r] = t.runs[r]
  <2>1. s.runs[r] \in Runs
    BY <1>0, <1>1, ElementOfSeq
  <2>2. t.runs[r] \in Runs
    BY <1>0, <1>4, ElementOfSeq
  <2>3. QED BY <1>6, <1>7, <2>1, <2>2 DEF Runs
<1>9. LengthBefore(s, r + 1) = LengthBefore(t, r + 1)
  <2>1. LengthBefore(s, r + 1) = LengthBefore(s, r) + s.runs[r].length
    BY <1>0, <1>1, RunPlaces
  <2>2. LengthBefore(t, r + 1) = LengthBefore(t, r) + t.runs[r].length
    BY <1>0, <1>4, RunPlaces
  <2>3. QED BY <1>1, <1>7, <2>1, <2>2
<1>10. \A i \in 1 .. r : s.runs[i] = t.runs[i]
  BY <1>1, <1>8, <1>r
<1>11. RunsAgree(s, t, r)
  BY <1>1, <1>4, <1>9, <1>10 DEF RunsAgree
<1>12. QED BY <1>11, <1>r

\* Each run of the one is a run of the other.
LEMMA RunsReach ==
  ASSUME NEW q, NEW n, NEW s, Holds(s, q, n), Joined(s), NEW t, Holds(t, q, n), Joined(t)
  PROVE  Len(s.runs) <= Len(t.runs) /\ \A r \in 1 .. Len(s.runs) : s.runs[r] = t.runs[r]
<1>0. s \in Objects /\ t \in Objects /\ Len(s.runs) \in Nat /\ Len(t.runs) \in Nat
  BY DEF Holds, Objects
<1>l. PICK L \in Nat : L = Len(s.runs)
  BY <1>0
<1> DEFINE good == {k \in 0 .. L : RunsAgree(s, t, k)}
<1>1. 0 \in good
  <2>1. LengthBefore(s, 0 + 1) = 0 /\ LengthBefore(t, 0 + 1) = 0
    <3>1. LengthBefore(s, 1) = 0 /\ LengthBefore(t, 1) = 0
      BY <1>0, RunPlaces
    <3>2. QED BY <3>1
  <2>2. 0 <= Len(s.runs) /\ 0 <= Len(t.runs) /\ \A r \in 1 .. 0 : s.runs[r] = t.runs[r]
    BY <1>0
  <2>3. RunsAgree(s, t, 0)
    BY <2>1, <2>2 DEF RunsAgree
  <2>4. 0 \in 0 .. L
    OBVIOUS
  <2>5. QED BY <2>3, <2>4
<1>2. ASSUME NEW k \in 0 .. L - 1, k \in good PROVE k + 1 \in good
  <2>1. k + 1 <= Len(s.runs) /\ k \in Nat /\ k + 1 \in 0 .. L
    BY <1>l
  <2>2. RunsAgree(s, t, k)
    BY <1>2
  <2>3. RunsAgree(s, t, k + 1)
    BY <2>1, <2>2, NextRunAgrees
  <2>4. QED BY <2>1, <2>3
<1>3. \A k \in 0 .. L : k \in good
  <2>1. \A k \in 0 .. L - 1 : k \in good => k + 1 \in good
    BY <1>2
  <2> HIDE DEF good
  <2>2. QED BY <1>1, <2>1, UpToNumber
<1>4. L \in 0 .. L
  OBVIOUS
<1>5. RunsAgree(s, t, L)
  BY <1>3, <1>4
<1>6. QED BY <1>5, <1>l DEF RunsAgree

\* The place of a Mixed quad in the runs.
LEMMA MixedQuadAt ==
  ASSUME NEW s, NEW q, NEW n, Holds(s, q, n), NEW i \in 1 .. Len(s.quads)
  PROVE  \E r \in 1 .. Len(s.runs) : \E j \in 0 .. s.runs[r].length - 1 :
           s.runs[r].type = "Mixed" /\ MixedBefore(s, r) + j + 1 = i
<1>0. s \in Objects /\ Len(s.runs) \in Nat /\ Len(s.quads) \in Nat
  BY DEF Holds, Objects
<1>l. PICK L \in Nat : L = Len(s.runs)
  BY <1>0
<1>m. PICK M \in Nat : M = Len(s.quads)
  BY <1>0
<1>1. i \in Nat /\ 1 <= i /\ i <= M /\ MixedBefore(s, L + 1) = M
  BY <1>l, <1>m DEF Holds
<1> DEFINE S == {r \in 1 .. L + 1 : i <= MixedBefore(s, r)}
<1>2. PICK m \in S : \A k \in S : m <= k
  <2>1. L + 1 \in S
    BY <1>1
  <2>2. S \subseteq Nat /\ S # {}
    BY <2>1
  <2> HIDE DEF S
  <2>3. QED BY <2>2, LeastNumber
<1>3. m # 1 /\ m \in 1 .. L + 1
  <2>1. MixedBefore(s, 1) = 0
    BY <1>0, RunPlaces
  <2>2. QED BY <1>1, <1>2, <2>1
<1>r. PICK r \in 1 .. L : r = m - 1 /\ r + 1 = m /\ r \in 1 .. L + 1
  BY <1>3
<1>4. r \in 1 .. Len(s.runs)
  BY <1>l
<1>5. /\ MixedBefore(s, r) \in Nat /\ s.runs[r].length \in Nat
      /\ MixedBefore(s, r + 1) = MixedBefore(s, r) + MixedLength(s.runs[r])
  BY <1>0, <1>4, RunPlaces, RunFits
<1>b. PICK b \in Nat : b = MixedBefore(s, r)
  BY <1>5
<1>x. PICK x \in Nat : x = s.runs[r].length
  BY <1>5
<1>6. b < i
  <2>1. r \notin S
    BY <1>2, <1>r
  <2>2. QED BY <1>1, <1>b, <1>r, <2>1
<1>7. i <= b + MixedLength(s.runs[r])
  BY <1>2, <1>5, <1>b, <1>r
<1>8. s.runs[r].type = "Mixed" /\ i <= b + x
  BY <1>6, <1>7, <1>x, <1>1 DEF MixedLength
<1>j. PICK j \in 0 .. x - 1 : b + j + 1 = i
  <2>1. i - b - 1 \in 0 .. x - 1 /\ b + (i - b - 1) + 1 = i
    BY <1>1, <1>6, <1>8
  <2>2. QED BY <2>1
<1>10. QED BY <1>4, <1>8, <1>b, <1>j, <1>x

\* What an object holds determines it, if append_run wrote its runs.
LEMMA ObjectUnique ==
  ASSUME NEW q, NEW n, NEW s, Holds(s, q, n), Joined(s), NEW t, Holds(t, q, n), Joined(t)
  PROVE  s = t
<1>0. /\ s \in Objects /\ t \in Objects /\ Len(s.runs) \in Nat /\ Len(t.runs) \in Nat
      /\ s.runs \in Seq(Runs) /\ t.runs \in Seq(Runs)
      /\ s.quads \in Seq(MixedQuads) /\ t.quads \in Seq(MixedQuads)
      /\ MixedBefore(s, Len(s.runs) + 1) = Len(s.quads)
      /\ MixedBefore(t, Len(t.runs) + 1) = Len(t.quads)
  BY DEF Holds, Objects
<1>1. Len(s.runs) <= Len(t.runs) /\ \A r \in 1 .. Len(s.runs) : s.runs[r] = t.runs[r]
  BY RunsReach
<1>2. Len(t.runs) <= Len(s.runs)
  BY RunsReach
<1>3. Len(s.runs) = Len(t.runs)
  BY <1>0, <1>1, <1>2
<1>4. s.runs = t.runs
  <2>1. PICK x \in Seq(Runs), y \in Seq(Runs) : x = s.runs /\ y = t.runs
    BY <1>0
  <2>2. Len(x) = Len(y) /\ \A r \in 1 .. Len(x) : x[r] = y[r]
    BY <1>1, <1>3, <2>1
  <2>3. QED BY <2>1, <2>2, SeqEqual
<1>5. \A r : LengthBefore(s, r) = LengthBefore(t, r) /\ MixedBefore(s, r) = MixedBefore(t, r)
  BY <1>4, PlacesOfRuns
<1>6. Len(s.quads) = Len(t.quads)
  BY <1>0, <1>3, <1>5
<1>7. ASSUME NEW i \in 1 .. Len(s.quads) PROVE s.quads[i] = t.quads[i]
  <2>1. PICK r \in 1 .. Len(s.runs) : \E j \in 0 .. s.runs[r].length - 1 :
               s.runs[r].type = "Mixed" /\ MixedBefore(s, r) + j + 1 = i
    BY MixedQuadAt
  <2>2. PICK j \in 0 .. s.runs[r].length - 1 :
               s.runs[r].type = "Mixed" /\ MixedBefore(s, r) + j + 1 = i
    BY <2>1
  <2>3. q[LengthBefore(s, r) + j] = QuadIn(s, r, j)
    BY DEF Holds
  <2>4. r \in 1 .. Len(t.runs) /\ j \in 0 .. t.runs[r].length - 1
    BY <1>3, <1>4
  <2>5. q[LengthBefore(t, r) + j] = QuadIn(t, r, j)
    BY <2>4 DEF Holds
  <2>6. QuadIn(s, r, j) = s.quads[i]
    BY <2>2 DEF QuadIn, Content
  <2>7. QuadIn(t, r, j) = t.quads[i]
    BY <1>4, <1>5, <2>2 DEF QuadIn, Content
  <2>8. QED BY <1>5, <2>3, <2>5, <2>6, <2>7
<1>8. s.quads = t.quads
  <2>1. PICK x \in Seq(MixedQuads), y \in Seq(MixedQuads) : x = s.quads /\ y = t.quads
    BY <1>0
  <2>2. Len(x) = Len(y) /\ \A r \in 1 .. Len(x) : x[r] = y[r]
    BY <1>6, <1>7, <2>1
  <2>3. QED BY <2>1, <2>2, SeqEqual
<1>9. QED BY <1>0, <1>4, <1>8 DEF Objects

\* One set of code points has one such representation.
LEMMA SameMembersSameObject ==
  ASSUME NEW m, NEW s, Represents(s, m), Joined(s), NEW t, Represents(t, m), Joined(t)
  PROVE  s = t
<1>1. m \subseteq CodePoints
  BY DEF Represents
<1>2. Holds(s, QuadsOf(m), QuadCount) /\ Holds(t, QuadsOf(m), QuadCount)
  BY <1>1, RepresentsHolds
<1>3. PICK q, n : q = QuadsOf(m) /\ n = QuadCount
  OBVIOUS
<1>4. Holds(s, q, n) /\ Holds(t, q, n)
  BY <1>2, <1>3
<1>5. QED BY <1>4, ObjectUnique

\* An object of one run.
LEMMA UniformRuns ==
  ASSUME NEW type \in RunTypes
  PROVE  /\ Len(Uniform(type, QuadCount).runs) = 1
         /\ Uniform(type, QuadCount).runs[1] = Run(type, QuadCount)
         /\ Uniform(type, QuadCount).quads = <<>>
<1>1. QuadCount # 0
  BY SizeAssumption
<1>2. Uniform(type, QuadCount) = Object(<<Run(type, QuadCount)>>, <<>>)
  BY <1>1 DEF Uniform, Piece
<1>3. QED BY <1>2 DEF Object

\* One run has no neighbours.
LEMMA OneRunJoined ==
  ASSUME NEW s \in Objects, Len(s.runs) <= 1
  PROVE  Joined(s)
<1>1. s = Object(s.runs, s.quads) /\ s.runs \in Seq(Runs) /\ Len(s.runs) \in Nat
  BY DEF Objects, Object
<1>2. s.runs \in Seq(LooseRuns)
  <2>1. Runs \subseteq LooseRuns
    BY DEF Runs, LooseRuns
  <2>2. QED BY <1>1, <2>1
<1>3. \A r \in 1 .. Len(s.runs) - 1 : FALSE
  BY <1>1
<1>4. QED BY <1>1, <1>2, <1>3 DEF Joined

\* What represents a set is an object.
LEMMA RepresentsObject ==
  ASSUME NEW s, NEW m, Represents(s, m)
  PROVE  /\ s \in Objects /\ m \subseteq CodePoints /\ Len(s.runs) \in Nat
         /\ s = Object(s.runs, s.quads)
         /\ s.runs \in Seq(Runs) /\ s.runs \in Seq(LooseRuns)
<1>1. m \subseteq CodePoints
  BY DEF Represents
<1>2. Holds(s, QuadsOf(m), QuadCount)
  BY <1>1, RepresentsHolds
<1>3. s \in Objects
  BY <1>2 DEF Holds
<1>4. s = Object(s.runs, s.quads) /\ s.runs \in Seq(Runs) /\ Len(s.runs) \in Nat
  BY <1>3 DEF Objects, Object
<1>5. s.runs \in Seq(LooseRuns)
  <2>1. Runs \subseteq LooseRuns
    BY DEF Runs, LooseRuns
  <2>2. QED BY <1>4, <2>1
<1>6. QED BY <1>1, <1>3, <1>4, <1>5

\* A Mixed quad that stays Mixed leaves the runs as they are.
LEMMA SameRunsJoined ==
  ASSUME NEW s, Joined(s), NEW t, NEW m, Represents(t, m), t.runs = s.runs
  PROVE  Joined(t)
<1>1. t = Object(t.runs, t.quads)
  BY RepresentsObject
<1>2. QED BY <1>1 DEF Joined

\* invert changes the types of all runs, and different ones stay different.
LEMMA ComplementJoined ==
  ASSUME NEW s, NEW m, Represents(s, m), Joined(s)
  PROVE  Joined(Complement(s))
<1>0. s.runs \in Seq(Runs) /\ Len(s.runs) \in Nat
  BY RepresentsObject
<1>l. PICK L \in Nat : L = Len(s.runs)
  BY <1>0
<1>t. PICK t : t = Complement(s)
  OBVIOUS
<1>1. Represents(t, CodePoints \ m)
  BY <1>t, ComplementRepresents
<1>2. DOMAIN s.runs = 1 .. L /\ \A r \in 1 .. L : s.runs[r] \in Runs
  BY <1>0, <1>l
<1>3. t.runs = [r \in 1 .. L |-> Run(Inverted(s.runs[r].type), s.runs[r].length)]
  BY <1>2, <1>t DEF Complement, Object
<1>4. t.runs \in Seq(Runs) /\ t.runs \in Seq(LooseRuns) /\ t = Object(t.runs, t.quads)
  BY <1>1, RepresentsObject
<1>5. Len(t.runs) = L
  BY <1>3
<1>6. \A r \in 1 .. L : t.runs[r].type = Inverted(s.runs[r].type)
  BY <1>3 DEF Run
<1>7. ASSUME NEW r \in 1 .. L - 1 PROVE t.runs[r].type # t.runs[r + 1].type
  <2>1. r \in 1 .. L /\ r + 1 \in 1 .. L /\ r \in 1 .. Len(s.runs) - 1
    BY <1>l
  <2>2. s.runs[r].type # s.runs[r + 1].type
    BY <2>1 DEF Joined
  <2>3. s.runs[r].type \in RunTypes
    BY <1>2, <2>1 DEF Runs
  <2>4. s.runs[r + 1].type \in RunTypes
    BY <1>2, <2>1 DEF Runs
  <2>a. PICK a \in RunTypes : a = s.runs[r].type
    BY <2>3
  <2>b. PICK b \in RunTypes : b = s.runs[r + 1].type
    BY <2>4
  <2>5. a # b => Inverted(a) # Inverted(b)
    BY DEF Inverted, RunTypes
  <2>6. QED BY <1>6, <2>1, <2>2, <2>5, <2>a, <2>b
<1>8. Joined(t)
  BY <1>4, <1>5, <1>7 DEF Joined
<1>9. QED BY <1>8, <1>t

\* A run of any length has the type that it is given.
LEMMA LooseRun ==
  ASSUME NEW type \in RunTypes, NEW n \in Int
  PROVE  Run(type, n) \in LooseRuns /\ Run(type, n).type = type
BY DEF LooseRuns, Run

\* One Mixed run with Empty ones around it.
LEMMA SingletonJoined ==
  ASSUME NEW cp \in CodePoints
  PROVE  Joined(SingletonSet(cp))
<1>a. PICK a \in Nat : a = cp \div QuadBits
  BY QuadOfCodePoint
<1>b. PICK b \in Int : b = QuadCount - (a + 1)
  BY SizeAssumption
<1>s. PICK s : s = SingletonSet(cp)
  OBVIOUS
<1>1. s.runs = Piece("Empty", a) \o <<Run("Mixed", 1)>> \o Piece("Empty", b)
  BY <1>a, <1>b, <1>s DEF SingletonSet, Concat, Uniform, Partial, Object
<1>2. s = Object(s.runs, s.quads)
  BY <1>s, SingletonRepresents, RepresentsObject
<1>e. "Empty" \in RunTypes /\ "Mixed" \in RunTypes
  BY DEF RunTypes
<1>y. PICK y \in LooseRuns : y = Run("Mixed", 1)
  BY <1>e, LooseRun
<1>z. PICK z \in LooseRuns : z = Run("Empty", b)
  BY <1>e, LooseRun
<1>x. PICK x \in Seq(LooseRuns) :
         x = Piece("Empty", a) /\ Len(x) <= 1 /\ (Len(x) # 0 => x[Len(x)].type = "Empty")
  <2>1. PICK e \in LooseRuns : e = Run("Empty", a)
    <3>1. a \in Int
      OBVIOUS
    <3>2. QED BY <1>e, <3>1, LooseRun
  <2>2. CASE a = 0
    <3>1. Piece("Empty", a) = <<>>
      BY <2>2 DEF Piece
    <3>2. <<>> \in Seq(LooseRuns) /\ Len(<<>>) <= 1 /\ ~ (Len(<<>>) # 0)
      BY EmptySeq
    <3>3. QED BY <3>1, <3>2, Zenon
  <2>3. CASE a # 0
    <3>1. Piece("Empty", a) = <<e>>
      BY <2>1, <2>3 DEF Piece
    <3>2. <<e>> \in Seq(LooseRuns) /\ Len(<<e>>) = 1 /\ <<e>>[1] = e /\ Len(<<e>>) <= 1
      OBVIOUS
    <3>3. e.type = "Empty"
      BY <2>1 DEF Run
    <3>4. QED BY <3>1, <3>2, <3>3, Zenon
  <2>4. QED BY <2>2, <2>3
<1>3. y.type = "Mixed" /\ z.type = "Empty"
  BY <1>y, <1>z DEF Run
<1>u. PICK u : u = Append(x, y)
  OBVIOUS
<1>4. u \in Seq(LooseRuns) /\ \A r \in 1 .. Len(u) - 1 : u[r].type # u[r + 1].type
  <2>1. \A r \in 1 .. Len(x) - 1 : x[r].type # x[r + 1].type
    BY <1>x
  <2>2. Len(x) # 0 => x[Len(x)].type # y.type
    BY <1>x, <1>3
  <2>3. QED BY <1>u, <2>1, <2>2, AppendedApart
<1>5. Len(u) \in Nat /\ Len(u) # 0 /\ u[Len(u)] = y
  BY <1>u, AppendProperties
<1>6. s.runs = u \o Piece("Empty", b)
  <2>1. x \o <<y>> = u
    BY <1>u, AppendIsConcat
  <2>2. s.runs = (x \o <<y>>) \o Piece("Empty", b)
    BY <1>1, <1>x, <1>y, Zenon
  <2>3. QED BY <2>1, <2>2, Zenon
<1>7. CASE b = 0
  <2>1. Piece("Empty", b) = <<>>
    BY <1>7 DEF Piece
  <2>2. u \o <<>> = u
    BY <1>4, ConcatEmptySeq
  <2>3. s.runs = u
    BY <1>6, <2>1, <2>2, Zenon
  <2>4. QED BY <1>2, <1>4, <1>s, <2>3 DEF Joined
<1>8. CASE b # 0
  <2>1. Piece("Empty", b) = <<z>>
    BY <1>8, <1>z DEF Piece
  <2>2. u \o <<z>> = Append(u, z)
    BY <1>4, AppendIsConcat
  <2>v. PICK v : v = Append(u, z)
    OBVIOUS
  <2>3. s.runs = v
    BY <1>6, <2>1, <2>2, <2>v, Zenon
  <2>4. v \in Seq(LooseRuns) /\ \A r \in 1 .. Len(v) - 1 : v[r].type # v[r + 1].type
    <3>1. Len(u) # 0 => u[Len(u)].type # z.type
      BY <1>3, <1>5
    <3>2. QED BY <1>4, <2>v, <3>1, AppendedApart
  <2>5. QED BY <1>2, <1>s, <2>3, <2>4 DEF Joined
<1>9. QED BY <1>7, <1>8

\* The empty set is one run.
LEMMA EmptyJoined == Joined(EmptySet)
<1>1. EmptySet \in Objects
  BY EmptyRepresents, RepresentsObject
<1>2. "Empty" \in RunTypes
  BY DEF RunTypes
<1>3. Len(EmptySet.runs) = 1
  BY <1>2, UniformRuns DEF EmptySet
<1>4. PICK s \in Objects : s = EmptySet
  BY <1>1
<1>5. Len(s.runs) <= 1
  <2>1. Len(s.runs) = 1
    BY <1>3, <1>4, Zenon
  <2>2. QED BY <2>1
<1>6. Joined(s)
  BY <1>5, OneRunJoined
<1>7. QED BY <1>4, <1>6

\* One run of one type holds nothing, or everything.
LEMMA OneRunHolds ==
  ASSUME NEW s, NEW m, Represents(s, m), NEW t, NEW mt, Represents(t, mt),
         Len(s.runs) = 1, Len(t.runs) = 1,
         NEW type \in {"Empty", "Full"}, s.runs[1].type = type, t.runs[1].type = type
  PROVE  m = mt
<1>n. PICK n \in Nat : n = QuadCount
  BY SizeAssumption
<1>1. ASSUME NEW u, NEW mu, Represents(u, mu), Len(u.runs) = 1, u.runs[1].type = type
      PROVE  /\ mu \subseteq CodePoints
             /\ \A i \in 0 .. n - 1 : QuadsOf(mu)[i] = IF type = "Full" THEN Bits ELSE {}
  <2>1. mu \subseteq CodePoints
    BY <1>1 DEF Represents
  <2>q. PICK q : q = QuadsOf(mu)
    OBVIOUS
  <2>2. Holds(u, q, n)
    BY <1>1, <1>n, <2>1, <2>q, RepresentsHolds
  <2>3. u \in Objects /\ LengthBefore(u, Len(u.runs) + 1) = n
    BY <2>2 DEF Holds
  <2>4. LengthBefore(u, 1) = 0 /\ LengthBefore(u, 2) = u.runs[1].length
    <3>1. 1 \in 1 .. Len(u.runs)
      BY <1>1
    <3>2. LengthBefore(u, 1) = 0 /\ LengthBefore(u, 1 + 1) = LengthBefore(u, 1) + u.runs[1].length
      BY <2>3, <3>1, RunPlaces
    <3>3. u.runs[1].length \in Nat
      BY <2>2, <3>1, RunFits
    <3>4. QED BY <3>2, <3>3
  <2>5. u.runs[1].length = n
    BY <1>1, <2>3, <2>4
  <2>6. ASSUME NEW i \in 0 .. n - 1 PROVE q[i] = IF type = "Full" THEN Bits ELSE {}
    <3>1. i \in 0 .. u.runs[1].length - 1 /\ 1 \in 1 .. Len(u.runs)
      BY <1>1, <2>5
    <3>2. q[LengthBefore(u, 1) + i] = QuadIn(u, 1, i)
      BY <2>2, <3>1 DEF Holds
    <3>3. LengthBefore(u, 1) + i = i
      BY <2>4
    <3>4. QuadIn(u, 1, i) = IF type = "Full" THEN Bits ELSE {}
      BY <1>1 DEF QuadIn, Content
    <3>5. QED BY <3>2, <3>3, <3>4
  <2>7. QED BY <2>1, <2>6, <2>q
<1>2. /\ m \subseteq CodePoints
      /\ \A i \in 0 .. n - 1 : QuadsOf(m)[i] = IF type = "Full" THEN Bits ELSE {}
  BY <1>1
<1>3. /\ mt \subseteq CodePoints
      /\ \A i \in 0 .. n - 1 : QuadsOf(mt)[i] = IF type = "Full" THEN Bits ELSE {}
  BY <1>1
<1>4. \A i \in 0 .. QuadCount - 1 : QuadsOf(m)[i] = QuadsOf(mt)[i]
  BY <1>2, <1>3, <1>n
<1>5. QED BY <1>2, <1>3, <1>4, SameQuads

\* The last conjunct of Joined is what an object that represents a set may lack.
LEMMA RunsApart ==
  ASSUME NEW s, NEW m, Represents(s, m)
  PROVE  Joined(s) <=> NeighboursDiffer(s)
BY RepresentsObject DEF Joined, NeighboursDiffer

\* A single run has no neighbour that it could be joined to.
LEMMA OneRunApart ==
  ASSUME NEW s, NEW m, Represents(s, m), Len(s.runs) = 1
  PROVE  NeighboursDiffer(s)
<1>1. s \in Objects
  BY RepresentsObject
<1>2. Len(s.runs) <= 1
  OBVIOUS
<1>3. Joined(s)
  BY <1>1, <1>2, OneRunJoined
<1>4. QED BY <1>3, RunsApart

\* empty() and full() answer for what an object holds exactly if its runs are
\* joined: one run of a type is then the only way to write the set.
LEMMA OneRunMeans ==
  ASSUME NEW s, NEW m, Represents(s, m)
  PROVE  /\ empty(s) <=> m = {} /\ NeighboursDiffer(s)
         /\ full(s) <=> m = CodePoints /\ NeighboursDiffer(s)
<1>e. PICK e : e = EmptySet
  OBVIOUS
<1>f. PICK f : f = Complement(e)
  OBVIOUS
<1>1. Represents(e, {}) /\ Joined(e)
  BY <1>e, EmptyRepresents, EmptyJoined
<1>2. Represents(f, CodePoints) /\ Joined(f)
  <2>1. Represents(f, CodePoints \ {})
    BY <1>1, <1>f, ComplementRepresents
  <2>2. CodePoints \ {} = CodePoints
    OBVIOUS
  <2>3. QED BY <1>1, <1>f, <2>1, <2>2, ComplementJoined
<1>3. Len(e.runs) = 1 /\ e.runs[1].type = "Empty"
  <2>1. "Empty" \in RunTypes
    BY DEF RunTypes
  <2>2. Len(e.runs) = 1 /\ e.runs[1] = Run("Empty", QuadCount)
    BY <1>e, <2>1, UniformRuns DEF EmptySet
  <2>3. QED BY <2>2 DEF Run
<1>4. Len(f.runs) = 1 /\ f.runs[1].type = "Full"
  <2>1. e.runs \in Seq(Runs)
    BY <1>1, RepresentsObject
  <2>2. DOMAIN e.runs = 1 .. 1
    BY <1>3, <2>1
  <2>3. f.runs = [r \in 1 .. 1 |-> Run(Inverted(e.runs[r].type), e.runs[r].length)]
    BY <1>f, <2>2 DEF Complement, Object
  <2>4. f.runs[1].type = Inverted("Empty") /\ Len(f.runs) = 1
    BY <1>3, <2>3 DEF Run
  <2>5. QED BY <2>4 DEF Inverted
<1>5. empty(s) => m = {} /\ NeighboursDiffer(s)
  <2>1. SUFFICES ASSUME empty(s) PROVE m = {} /\ NeighboursDiffer(s)
    OBVIOUS
  <2>2. Len(s.runs) = 1 /\ s.runs[1].type = "Empty"
    BY <2>1 DEF empty
  <2>3. "Empty" \in {"Empty", "Full"}
    OBVIOUS
  <2>4. m = {}
    BY <1>1, <1>3, <2>2, <2>3, OneRunHolds
  <2>5. QED BY <2>2, <2>4, OneRunApart
<1>6. m = {} /\ NeighboursDiffer(s) => empty(s)
  <2>1. SUFFICES ASSUME m = {}, NeighboursDiffer(s) PROVE empty(s)
    OBVIOUS
  <2>2. s = e
    BY <1>1, <2>1, RunsApart, SameMembersSameObject
  <2>3. QED BY <1>3, <2>2 DEF empty
<1>7. full(s) => m = CodePoints /\ NeighboursDiffer(s)
  <2>1. SUFFICES ASSUME full(s) PROVE m = CodePoints /\ NeighboursDiffer(s)
    OBVIOUS
  <2>2. Len(s.runs) = 1 /\ s.runs[1].type = "Full"
    BY <2>1 DEF full
  <2>3. "Full" \in {"Empty", "Full"}
    OBVIOUS
  <2>4. m = CodePoints
    BY <1>2, <1>4, <2>2, <2>3, OneRunHolds
  <2>5. QED BY <2>2, <2>4, OneRunApart
<1>8. m = CodePoints /\ NeighboursDiffer(s) => full(s)
  <2>1. SUFFICES ASSUME m = CodePoints, NeighboursDiffer(s) PROVE full(s)
    OBVIOUS
  <2>2. s = f
    BY <1>2, <2>1, RunsApart, SameMembersSameObject
  <2>3. QED BY <1>4, <2>2 DEF full
<1>9. QED BY <1>5, <1>6, <1>7, <1>8

\* operator== compares representations: beside a joined one, it answers for
\* the members exactly if the other one is joined, too.
LEMMA EqualMeans ==
  ASSUME NEW s, NEW m, Represents(s, m), NEW t, NEW mt, Represents(t, mt), Joined(t)
  PROVE  Equal(s, t) <=> mt = m /\ NeighboursDiffer(s)
<1>1. mt = m /\ NeighboursDiffer(s) => Equal(s, t)
  <2>1. SUFFICES ASSUME mt = m, NeighboursDiffer(s) PROVE Equal(s, t)
    OBVIOUS
  <2>2. s = t
    BY <2>1, RunsApart, SameMembersSameObject
  <2>3. QED BY <2>2 DEF Equal
<1>2. Equal(s, t) => mt = m /\ NeighboursDiffer(s)
  <2>1. SUFFICES ASSUME Equal(s, t) PROVE mt = m /\ NeighboursDiffer(s)
    OBVIOUS
  <2>2. s = Object(s.runs, s.quads) /\ t = Object(t.runs, t.quads)
    BY RepresentsObject
  <2>3. s = t
    BY <2>1, <2>2 DEF Equal
  <2>4. NeighboursDiffer(s)
    BY <2>3, RunsApart
  <2>5. QED BY <2>3, <2>4, RepresentsExact
<1>3. QED BY <1>1, <1>2

\* The inductive invariant for operator==.
JoinedInvariant == SetInvariant /\ (joined => Joined(set))

\* Every constructor but the one for a range establishes it.
LEMMA InitJoined == Init => JoinedInvariant
<1>1. SUFFICES ASSUME Init PROVE JoinedInvariant
  OBVIOUS
<1>0. SetInvariant
  BY <1>1, InitRepresents
<1>2. CASE set = EmptySet /\ members = {} /\ joined = TRUE
  BY <1>0, <1>2, EmptyJoined DEF JoinedInvariant
<1>3. CASE \E cp \in CodePoints : set = SingletonSet(cp) /\ members = {cp} /\ joined = TRUE
  BY <1>0, <1>3, SingletonJoined DEF JoinedInvariant
<1>4. CASE \E lo \in CodePoints : \E hi \in lo .. Limit - 1 :
             set = RangeSet(lo, hi) /\ members = lo .. hi /\ joined = FALSE
  BY <1>0, <1>4 DEF JoinedInvariant
<1>5. CASE \E m \in Operands :
             /\ set \in {OtherSet(m), ConvertIntervals(SingleIntervals(m))}
             /\ members = m /\ joined = TRUE
  BY <1>0, <1>5, OtherJoined DEF JoinedInvariant
<1>6. QED BY <1>1, <1>2, <1>3, <1>4, <1>5 DEF Init

\* Every call keeps it, or resets joined.
LEMMA NextJoined ==
  ASSUME MergingRanges = FALSE, JoinedInvariant, [Next]_vars
  PROVE  JoinedInvariant'
<1>0. Represents(set, members) /\ (joined => Joined(set)) /\ joined \in BOOLEAN /\ SetInvariant
  BY DEF JoinedInvariant, SetInvariant
<1>s. SetInvariant'
  BY <1>0, NextRepresents
<1>r. Represents(set', members')
  BY <1>s DEF SetInvariant
<1>j. SUFFICES ASSUME joined' PROVE Joined(set')
  BY <1>s DEF JoinedInvariant
<1>1. ASSUME NEW cp \in CodePoints, Insert(cp) PROVE Joined(set')
  <2>1. joined /\ set'.runs = set.runs
    BY <1>j, <1>1 DEF Insert
  <2>2. QED BY <1>0, <1>r, <2>1, SameRunsJoined
<1>2. ASSUME NEW lo \in CodePoints, NEW hi \in lo .. Limit - 1, InsertRange(lo, hi)
      PROVE  Joined(set')
  BY <1>j, <1>2 DEF InsertRange
<1>3. ASSUME NEW m \in Operands, InsertSet(m) PROVE Joined(set')
  <2>1. Joined(Combine("or", set, OtherSet(m)))
    BY <1>0, OperandsAreSets, CombineJoined
  <2>2. set' = set \/ set' = Combine("or", set, OtherSet(m))
    BY <1>3 DEF InsertSet, InsertSetInto
  <2>3. set' = set => joined
    BY <1>j, <1>3 DEF InsertSet
  <2>4. QED BY <1>0, <2>1, <2>2, <2>3
<1>4. ASSUME NEW m \in Operands, NEW op \in Operators, ApplyOperator(op, m)
      PROVE  Joined(set')
  <2>1. Represents(OtherSet(m), m)
    BY OperandsAreSets
  <2>2. Joined(Combine(op, set, OtherSet(m))) /\ Joined(Combine(op, OtherSet(m), set))
    BY <1>0, <2>1, CombineJoined
  <2>3. QED BY <1>4, <2>2 DEF ApplyOperator
<1>5. ASSUME Invert PROVE Joined(set')
  <2>1. joined /\ set' = Complement(set)
    BY <1>j, <1>5 DEF Invert
  <2>2. QED BY <1>0, <2>1, ComplementJoined
<1>6. ASSUME TakeIsolates PROVE Joined(set')
  BY <1>j, <1>6 DEF TakeIsolates
<1>7. ASSUME UNCHANGED vars PROVE Joined(set')
  BY <1>0, <1>j, <1>7 DEF vars
<1>8. QED BY <1>1, <1>2, <1>3, <1>4, <1>5, <1>6, <1>7 DEF Next

\* As long as append_run wrote every run of the object, two neighbours differ
\* in type, and so the members determine the representation.
THEOREM JoinedInvariantHolds ==
  ASSUME MergingRanges = FALSE
  PROVE  Spec => []JoinedInvariant
<1>1. Init => JoinedInvariant
  BY InitJoined
<1>2. JoinedInvariant /\ [Next]_vars => JoinedInvariant'
  BY NextJoined
<1>3. QED BY <1>1, <1>2, PTL DEF Spec

\* operator==, empty and full look at runs and quads only; whatever calls made
\* the object, they answer for its members exactly if no two of its neighbouring
\* runs have one type, as is the case when append_run wrote them all.
THEOREM ComparisonsAreExact ==
  ASSUME MergingRanges = FALSE
  PROVE  Spec => []ComparisonsExact
<1>1. JoinedInvariant => ComparisonsExact
  <2>1. SUFFICES ASSUME JoinedInvariant PROVE ComparisonsExact
    OBVIOUS
  <2>2. Represents(set, members) /\ (joined => Joined(set))
    BY <2>1 DEF JoinedInvariant, SetInvariant
  <2>3. ASSUME NEW m \in Operands
        PROVE  Equal(set, OtherSet(m)) <=> m = members /\ NeighboursDiffer(set)
    <3>1. Represents(OtherSet(m), m)
      BY OperandsAreSets
    <3>2. Joined(OtherSet(m))
      BY OtherJoined
    <3>3. QED BY <2>2, <3>1, <3>2, EqualMeans
  <2>4. /\ empty(set) <=> members = {} /\ NeighboursDiffer(set)
        /\ full(set) <=> members = CodePoints /\ NeighboursDiffer(set)
    BY <2>2, OneRunMeans
  <2>5. joined => NeighboursDiffer(set)
    BY <2>2, RunsApart
  <2>6. QED BY <2>3, <2>4, <2>5, Zenon DEF ComparisonsExact
<1>2. QED BY <1>1, JoinedInvariantHolds, PTL
=============================================================================
