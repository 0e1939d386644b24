------------------------ MODULE StreamContentProofs ------------------------
(***************************************************************************)
(* Proofs about StreamBuffer: whatever the pipeline, the threads and the   *)
(* capacities, a running consumer finds every item where its own address   *)
(* says, although the producer has replaced the buffer since; and the      *)
(* threads never all wait for one another.                                 *)
(***************************************************************************)
EXTENDS StreamSetProofs

-----------------------------------------------------------------------------
(* Positions in a circular buffer.                                         *)

LEMMA Division ==
  ASSUME NEW a \in Nat, NEW n \in Nat \ {0}
  PROVE  /\ a % n \in 0 .. n - 1 /\ a \div n \in Nat
         /\ a = (a \div n) * n + (a % n)
OBVIOUS

\* Products of numbers, as far as the proofs need them.
LEMMA Products ==
  ASSUME NEW a \in Nat, NEW b \in Nat, NEW c \in Nat
  PROVE  /\ a * b \in Nat /\ (a + b) * c = a * c + b * c
         /\ (a * b) * c = a * (b * c)
         /\ a <= b => a * c <= b * c
         /\ c # 0 => a <= a * c
OBVIOUS

LEMMA Remainder ==
  ASSUME NEW n \in Nat \ {0}, NEW q \in Nat, NEW r \in 0 .. n - 1
  PROVE  (q * n + r) % n = r /\ (q * n + r) \div n = q
OBVIOUS

\* Whole turns around the buffer lead to the same slot.
LEMMA WholeTurns ==
  ASSUME NEW a \in Nat, NEW q \in Nat, NEW n \in Nat \ {0}
  PROVE  (a + q * n) % n = a % n
<1> DEFINE p == a \div n
           r == a % n
<1>1. p \in Nat /\ r \in 0 .. n - 1 /\ a = p * n + r
  BY Division
<1> HIDE DEF p, r
<1>2. a + q * n = (p + q) * n + r /\ p + q \in Nat
  BY <1>1, Products
<1>3. ((p + q) * n + r) % n = r
  BY <1>1, <1>2, Remainder
<1>4. QED BY <1>2, <1>3 DEF r

\* Items that are less than a buffer apart have slots of their own.
LEMMA SlotsDiffer ==
  ASSUME NEW n \in Nat \ {0}, NEW i \in Nat, NEW j \in Nat, i < j, j < i + n
  PROVE  i % n # j % n
<1> DEFINE p == i \div n
           q == j \div n
<1>1. /\ p \in Nat /\ i = p * n + (i % n) /\ i % n \in 0 .. n - 1
      /\ q \in Nat /\ j = q * n + (j % n) /\ j % n \in 0 .. n - 1
  BY Division
<1> SUFFICES ASSUME i % n = j % n PROVE FALSE
  OBVIOUS
<1> HIDE DEF p, q
<1>2. p * n < q * n /\ q * n < p * n + n /\ p * n \in Nat /\ q * n \in Nat
  BY <1>1, Products
<1>3. CASE q <= p
  BY <1>1, <1>2, <1>3, Products
<1>4. CASE p + 1 <= q
  <2>1. (p + 1) * n <= q * n /\ (p + 1) * n = p * n + 1 * n
    BY <1>1, <1>4, Products
  <2>2. QED BY <1>1, <1>2, <2>1
<1>5. QED BY <1>1, <1>3, <1>4

LEMMA SameSlot ==
  ASSUME NEW n \in Nat \ {0}, NEW lo \in Nat, NEW i \in Nat, NEW j \in Nat,
         lo <= i, i < lo + n, lo <= j, j < lo + n, i % n = j % n
  PROVE  i = j
<1>1. j < i + n /\ i < j + n
  OBVIOUS
<1>2. ~ (i < j) /\ ~ (j < i)
  BY <1>1, SlotsDiffer, Zenon
<1>3. QED BY <1>1, <1>2

\* How an address that was computed at item a finds item i in a buffer of cap
\* chunks of w items that is mapped twice in a row.
LEMMA AddressedSlot ==
  ASSUME NEW w \in Nat \ {0}, NEW cap \in Nat \ {0}, NEW a \in Nat, NEW i \in Nat,
         a <= i
  PROVE  LET size == cap * w
             offset == ((a \div w) % cap) * w + i - (a \div w) * w
         IN  /\ size \in Nat \ {0} /\ offset \in Nat
             /\ (a \div w) * w <= i
             /\ offset % size = i % size
             /\ i < a + size => offset < 2 * size
<1> DEFINE size == cap * w
           c == a \div w
           turns == c \div cap
           rest == c % cap
           offset == rest * w + i - c * w
<1>1. /\ c \in Nat /\ a = c * w + (a % w) /\ a % w \in 0 .. w - 1
      /\ turns \in Nat /\ rest \in 0 .. cap - 1 /\ c = turns * cap + rest
  BY Division
<1>2. size \in Nat \ {0} /\ c * w \in Nat /\ c * w <= a /\ a < c * w + w
  BY <1>1, Products
<1>3. c * w = turns * size + rest * w /\ turns * size \in Nat /\ rest * w \in Nat
  <2>1. /\ turns * cap \in Nat
        /\ (turns * cap + rest) * w = (turns * cap) * w + rest * w
        /\ (turns * cap) * w = turns * (cap * w)
    BY <1>1, Products
  <2>2. QED BY <1>1, <1>2, <2>1, Products
<1> HIDE DEF size, c, turns, rest
<1>4. offset \in Nat /\ i = offset + turns * size
  BY <1>2, <1>3
<1>5. i % size = offset % size
  <2> HIDE DEF offset
  <2>a. turns \in Nat
    BY <1>1, Zenon
  <2>b. size \in Nat \ {0}
    BY <1>2, Zenon
  <2>c. offset \in Nat
    BY <1>4, Zenon
  <2>1. (offset + turns * size) % size = offset % size
    BY <2>a, <2>b, <2>c, WholeTurns
  <2>2. QED BY <1>4, <2>1
<1>6. rest * w + w <= size
  <2>1. (rest + 1) * w = rest * w + 1 * w /\ (rest + 1) * w <= cap * w
    BY <1>1, Products
  <2>2. QED BY <2>1 DEF size
<1>7. i < a + size => offset < 2 * size
  BY <1>2, <1>3, <1>6
<1>8. QED BY <1>2, <1>4, <1>5, <1>7 DEF size, c, rest

\* Chunks that hold n items, and the least multiple of m that is not below n.
LEMMA RoundingUp ==
  ASSUME NEW n \in Nat, NEW m \in Nat \ {0}
  PROVE  LET up == ((n + m - 1) \div m)
         IN  up \in Nat /\ n <= up * m
<1> DEFINE a == n + m - 1
           q == a \div m
<1>1. a \in Nat
  OBVIOUS
<1> HIDE DEF a
<1>2. q \in Nat /\ a % m \in 0 .. m - 1 /\ a = q * m + (a % m)
  BY <1>1, Division
<1>3. q * m \in Nat
  BY <1>2, Products
<1> HIDE DEF q
<1>4. n <= q * m
  BY <1>2, <1>3 DEF a
<1>5. QED BY <1>2, <1>4 DEF a, q

LEMMA RoundingOrder ==
  ASSUME NEW n \in Nat, NEW m \in Nat, n <= m, NEW w \in Nat \ {0}
  PROVE  n \div w <= m \div w
<1> DEFINE p == n \div w
           q == m \div w
<1>1. /\ p \in Nat /\ n = p * w + (n % w) /\ n % w \in 0 .. w - 1
      /\ q \in Nat /\ m = q * w + (m % w) /\ m % w \in 0 .. w - 1
  BY Division
<1> SUFFICES ASSUME q + 1 <= p PROVE FALSE
  BY <1>1
<1> HIDE DEF p, q
<1>2. (q + 1) * w <= p * w /\ (q + 1) * w = q * w + 1 * w /\ p * w \in Nat /\ q * w \in Nat
  BY <1>1, Products
<1>3. QED BY <1>1, <1>2

-----------------------------------------------------------------------------
(* The memory.                                                             *)

\* The types of the memory and of the addresses that threads keep.
MemoryTypes ==
  /\ base \in 0 .. Len(buffers)
  /\ \A b \in 1 .. Len(buffers) :
       /\ buffers[b].capacity \in Nat \ {0}
       /\ buffers[b].content \in
            [0 .. buffers[b].capacity * BlockWidth - 1 -> Items \union {Unwritten}]
       /\ buffers[b].freed \in Nat
  /\ seenConsumed \in [Threads -> Nat]
  /\ view \in [Threads -> Views]

\* Items of an invocation that ends within a buffer's length of the oldest item.
LEMMA WithinBuffer ==
  ASSUME NEW f \in Nat, NEW e \in Nat, NEW s \in Nat, NEW c \in Nat, NEW p \in Nat,
         NEW n \in Nat, e <= s + n, s <= c, c <= p, p <= f
  PROVE  \A i \in f .. e - 1 :
           /\ i \in Nat /\ f <= i /\ i < f + n /\ c <= i /\ i < c + n
           /\ i \in c .. c + n - 1
OBVIOUS

\* Appending leaves the elements of a sequence.
LEMMA Appended ==
  ASSUME NEW x, \E S : x \in Seq(S), NEW y
  PROVE  /\ Len(Append(x, y)) = Len(x) + 1 /\ Append(x, y)[Len(x) + 1] = y
         /\ \A i \in 1 .. Len(x) : Append(x, y)[i] = x[i]
<1>1. PICK S : x \in Seq(S)
  OBVIOUS
<1>2. x \in Seq(S \union {y}) /\ y \in S \union {y}
  BY <1>1
<1>3. QED BY <1>2

LEMMA BufferFacts ==
  ASSUME CountsBounded, BufferList, MemoryTypes
  PROVE  /\ BlockWidth \in Nat \ {0} /\ Len(buffers) \in Nat
         /\ DOMAIN buffers = 1 .. Len(buffers)
         /\ \A b \in 1 .. Len(buffers) :
              /\ buffers[b].capacity \in Nat \ {0} /\ buffers[b].freed \in Nat
              /\ Slots(b) = buffers[b].capacity * BlockWidth /\ Slots(b) \in Nat \ {0}
              /\ buffers[b].content \in [0 .. Slots(b) - 1 -> Items \union {Unwritten}]
<1>1. BlockWidth \in Nat \ {0}
  BY PipelineAssumption DEF CountsBounded, BlockWidth
<1>2. Len(buffers) \in Nat /\ DOMAIN buffers = 1 .. Len(buffers)
  <2>1. PICK S : buffers \in Seq([capacity : S, freed : Nat, content : S])
    BY DEF BufferList
  <2>2. QED BY <2>1
<1>3. ASSUME NEW b \in 1 .. Len(buffers)
      PROVE  Slots(b) \in Nat \ {0}
  <2>1. buffers[b].capacity \in Nat \ {0}
    BY DEF MemoryTypes
  <2>2. QED BY <1>1, <2>1, Products DEF Slots
<1>4. QED BY <1>1, <1>2, <1>3 DEF MemoryTypes, Slots

\* The step leaves the size and the content of buffer b alone.
Untouched(b) ==
  /\ buffers'[b].capacity = buffers[b].capacity
  /\ buffers'[b].content = buffers[b].content

LEMMA UnmappingLeavesContent ==
  ASSUME BufferList, NEW bs, buffers' = Unmapped(bs)
  PROVE  /\ BufferList' /\ Len(buffers') = Len(buffers)
         /\ \A b \in DOMAIN buffers :
              /\ Untouched(b)
              /\ b \notin bs => buffers'[b].freed = buffers[b].freed
              /\ buffers[b].freed \in Nat => buffers'[b].freed \in Nat
<1>1. PICK S : buffers \in Seq([capacity : S, freed : Nat, content : S])
  BY DEF BufferList
<1>2. BufferList' /\ DOMAIN buffers' = DOMAIN buffers
  BY UnmappingCounts
<1>3. PICK T : buffers' \in Seq([capacity : T, freed : Nat, content : T])
  BY <1>2 DEF BufferList
<1>4. Len(buffers') = Len(buffers)
  <2>1. /\ DOMAIN buffers = 1 .. Len(buffers) /\ Len(buffers) \in Nat
        /\ DOMAIN buffers' = 1 .. Len(buffers') /\ Len(buffers') \in Nat
    BY <1>1, <1>3
  <2>2. QED BY <1>2, <2>1
<1>5. ASSUME NEW b \in DOMAIN buffers
      PROVE  /\ Untouched(b)
             /\ b \notin bs => buffers'[b].freed = buffers[b].freed
             /\ buffers[b].freed \in Nat => buffers'[b].freed \in Nat
  <2>1. buffers[b] \in [capacity : S, freed : Nat, content : S]
    BY <1>1, SequenceElements, Zenon
  <2>2. buffers'[b] = IF b \in bs THEN [buffers[b] EXCEPT !.freed = @ + 1] ELSE buffers[b]
    BY DEF Unmapped
  <2>3. QED BY <2>1, <2>2 DEF Untouched
<1>6. QED BY <1>2, <1>4, <1>5

\* What is removed has been put up for deletion with a mark that the count
\* has passed.
LEMMA RemovedHavePassed ==
  ASSUME PendingShape, NEW c \in Nat, NEW b \in Removed(c), b # 0
  PROVE  \E e \in PendingEntries : e.buffer = b /\ e.mark < c
<1> DEFINE n == RemovableLinks(c)
           links == pending.links
           Stops == { i \in 0 .. Len(links) : i < Len(links) => links[i + 1].mark >= c }
<1>1. /\ links \in Seq(Entries) /\ Len(links) \in Nat /\ DOMAIN links = 1 .. Len(links)
      /\ \A i \in 1 .. Len(links) : links[i] \in Entries
      /\ pending.first \in Entries /\ pending.second \in Entries
      /\ pending.first.mark \in Nat /\ pending.second.mark \in Nat
      /\ n \in 0 .. Len(links)
  BY LinksInUse, RemovableLinksType DEF PendingShape, Entries
<1>2. \A i \in 1 .. n : links[i].mark < c
  <2>1. Stops \subseteq Nat /\ Len(links) \in Stops
    BY <1>1
  <2>2. n = Min(Stops)
    BY DEF RemovableLinks
  <2>3. \A i \in Stops : n <= i
    <3> HIDE DEF Stops
    <3>1. QED BY <2>1, <2>2, MinProperties, Zenon
  <2>4. ASSUME NEW i \in 1 .. n, ~ (links[i].mark < c)
        PROVE  FALSE
    <3>1. /\ i \in 1 .. Len(links) /\ i - 1 \in 0 .. Len(links) /\ (i - 1) + 1 = i
          /\ ~ (i <= i - 1)
      BY <1>1
    <3>4. links[i].mark \in Nat
      BY <1>1, <3>1 DEF Entries
    <3>2. i - 1 \in Stops
      BY <2>4, <3>1, <3>4
    <3> HIDE DEF n, Stops
    <3>3. n \in Nat /\ n <= i - 1 /\ i \in 1 .. n
      BY <1>1, <2>3, <3>2
    <3>5. QED BY <3>3
  <2>5. QED BY <2>4
<1>3. c > pending.first.mark
  BY <1>1 DEF Removed
<1>4. CASE b = pending.first.buffer
  BY <1>3, <1>4 DEF PendingEntries
<1>5. CASE b # pending.first.buffer
  <2>1. /\ ~ (pending.second.mark >= c)
        /\ b = pending.second.buffer \/ \E i \in 1 .. n : b = links[i].buffer
    BY <1>5 DEF Removed
  <2>2. CASE b = pending.second.buffer
    BY <1>1, <2>1, <2>2 DEF PendingEntries
  <2>3. CASE \E i \in 1 .. n : b = links[i].buffer
    BY <1>1, <1>2, <2>3 DEF PendingEntries
  <2>4. QED BY <2>1, <2>2, <2>3
<1>6. QED BY <1>4, <1>5

\* Removing and adding bring no entries but the empty one and the new one.
LEMMA RemovalBringsNone ==
  ASSUME PendingShape, NEW c, pending' = Remaining(c)
  PROVE  PendingEntries' \subseteq PendingEntries \union {Empty}
<1> DEFINE n == RemovableLinks(c)
           links == pending.links
           kept == SubSeq(links, n + 1, Len(links))
<1>1. /\ links \in Seq(Entries) /\ Len(links) \in Nat /\ DOMAIN links = 1 .. Len(links)
      /\ n \in 0 .. Len(links)
  BY LinksInUse, RemovableLinksType DEF PendingShape
<1>2. CASE c <= pending.first.mark
  BY <1>2 DEF Remaining, PendingEntries
<1>3. CASE ~ (c <= pending.first.mark) /\ pending.second.mark >= c
  <2>1. CASE links = <<>>
    <3>1. pending' = [first |-> pending.second, second |-> Empty, links |-> <<>>]
      BY <1>3, <2>1 DEF Remaining
    <3>2. QED BY <3>1 DEF PendingEntries
  <2>2. CASE links # <<>>
    <3> DEFINE tail == Tail(links)
    <3>1. pending' = [first |-> pending.second, second |-> Head(links), links |-> tail]
      BY <1>3, <2>2 DEF Remaining
    <3>2. /\ Head(links) = links[1] /\ 1 \in DOMAIN links
          /\ \A i \in DOMAIN tail : tail[i] = links[i + 1] /\ i + 1 \in DOMAIN links
      BY <1>1, <2>2
    <3> HIDE DEF tail
    <3>3. QED BY <3>1, <3>2 DEF PendingEntries
  <2>3. QED BY <2>1, <2>2
<1>4. CASE ~ (c <= pending.first.mark) /\ ~ (pending.second.mark >= c)
  <2>1. /\ kept \in Seq(Entries) /\ Len(kept) = Len(links) - n
        /\ \A i \in 1 .. Len(links) - n : kept[i] = links[n + i]
    BY <1>1
  <2>2. kept = <<>> => pending' = [pending EXCEPT !.second = Empty, !.links = <<>>]
    BY <1>4 DEF Remaining
  <2>3. kept # <<>> =>
          pending' = [first |-> kept[1],
                      second |-> IF Len(kept) = 1 THEN Empty ELSE kept[2],
                      links |-> SubSeq(kept, 3, Len(kept))]
    BY <1>4 DEF Remaining
  <2> HIDE DEF kept, n
  <2>4. CASE kept = <<>>
    <3>1. pending' = [first |-> pending.first, second |-> Empty, links |-> <<>>]
      BY <2>2, <2>4 DEF PendingShape
    <3>2. QED BY <3>1 DEF PendingEntries
  <2>5. CASE kept # <<>>
    <3> DEFINE rest == SubSeq(kept, 3, Len(kept))
               second == IF Len(kept) = 1 THEN Empty ELSE kept[2]
    <3>1. pending' = [first |-> kept[1], second |-> second, links |-> rest]
      BY <2>3, <2>5
    <3>k. PICK m \in Nat \ {0} : m = Len(kept)
      BY <2>1, <2>5
    <3>l. PICK l \in Nat : l = Len(links) /\ DOMAIN links = 1 .. l
      BY <1>1
    <3>n. n \in Nat /\ n + m = l
      BY <1>1, <2>1, <3>k, <3>l
    <3>3. /\ 1 \in 1 .. Len(kept)
          /\ Len(kept) # 1 => 2 \in 1 .. Len(kept)
          /\ \A i \in 1 .. Len(kept) : n + i \in DOMAIN links /\ kept[i] = links[n + i]
      <4>1. 1 \in 1 .. m /\ (m # 1 => 2 \in 1 .. m)
        OBVIOUS
      <4>2. \A i \in 1 .. m : n + i \in 1 .. l
        BY <3>n
      <4>3. \A i \in 1 .. m : kept[i] = links[n + i]
        BY <2>1, <3>k, <3>l, <3>n
      <4>4. QED BY <3>k, <3>l, <4>1, <4>2, <4>3
    <3>2. \A i \in 1 .. Len(kept) : kept[i] \in PendingEntries
      BY <3>3 DEF PendingEntries
    <3>4. \A i \in DOMAIN rest : rest[i] = kept[i + 2] /\ i + 2 \in 1 .. Len(kept)
      <4>1. /\ DOMAIN rest = 1 .. IF m < 3 THEN 0 ELSE m - 3 + 1
            /\ \A i \in DOMAIN rest : rest[i] = kept[3 + i - 1]
        BY <2>1, <3>k, EndOfList
      <4> HIDE DEF rest
      <4>2. \A i \in DOMAIN rest : 3 + i - 1 = i + 2 /\ i + 2 \in 1 .. m
        BY <4>1
      <4>3. QED BY <3>k, <4>1, <4>2
    <3>5. second \in PendingEntries \union {Empty}
      BY <3>2, <3>3
    <3> HIDE DEF rest, second
    <3>6. /\ pending'.first \in PendingEntries
          /\ pending'.second \in PendingEntries \union {Empty}
          /\ \A i \in DOMAIN pending'.links : pending'.links[i] \in PendingEntries
      BY <3>1, <3>2, <3>3, <3>4, <3>5
    <3>7. PendingEntries' = {pending'.first, pending'.second}
                              \union { pending'.links[i] : i \in DOMAIN pending'.links }
      BY DEF PendingEntries
    <3>8. QED BY <3>6, <3>7
  <2>6. QED BY <2>4, <2>5
<1>5. QED BY <1>2, <1>3, <1>4

LEMMA AdditionBringsOne ==
  ASSUME PendingShape, NEW entry \in Entries, pending' = Added(entry)
  PROVE  PendingEntries' \subseteq PendingEntries \union {entry}
<1>1. CASE pending.first.buffer = 0 \/ pending.second.buffer = 0
  BY <1>1 DEF PendingShape, PendingEntries, Added
<1>2. CASE pending.first.buffer # 0 /\ pending.second.buffer # 0
  <2> DEFINE links == pending.links
             more == Append(links, entry)
  <2>1. \A i \in DOMAIN more : more[i] = entry \/ (i \in DOMAIN links /\ more[i] = links[i])
    BY DEF PendingShape
  <2>2. pending' = [first |-> pending.first, second |-> pending.second, links |-> more]
    BY <1>2 DEF Added, PendingShape
  <2> HIDE DEF more
  <2>3. QED BY <2>1, <2>2 DEF PendingEntries
<1>3. QED BY <1>1, <1>2

LEMMA PendingBuffersOfEntries ==
  PendingBuffers = { e.buffer : e \in PendingEntries }
BY DEF PendingBuffers, PendingEntries

-----------------------------------------------------------------------------
(* What the steps keep.                                                    *)

\* Everything the invariant says while the handle has a buffer.
ContentState ==
  /\ Inv /\ CountInvariant /\ MemoryTypes
  /\ base # 0
  /\ CurrentIsLatest /\ RoomKept /\ NoGaps /\ ItemsInPlace /\ ViewsKept

LEMMA StateFacts ==
  ASSUME ContentState
  PROVE  /\ CountsBounded /\ CountState /\ MinimaInOrder /\ PendingShape /\ BufferList
         /\ InvocationsChained /\ 1 \in Kernels
         /\ consumed \in Nat /\ count[1] \in Nat /\ internal[1] \in Nat /\ ItemCount(1) \in Nat
         /\ consumed <= count[1] /\ count[1] <= ItemCount(1)
         /\ BlockWidth \in Nat \ {0}
         /\ base = Len(buffers) /\ base \in 1 .. Len(buffers) /\ Len(buffers) \in Nat
         /\ DOMAIN buffers = 1 .. Len(buffers)
<1>1. /\ CountsBounded /\ CountState /\ MinimaInOrder /\ PendingShape /\ BufferList
      /\ InvocationsChained
  BY CountParts DEF ContentState, Inv, ReclaimInvariant, CountState
<1>2. /\ consumed \in Nat /\ 1 \in Kernels \ stopped
      /\ count[1] \in Nat /\ internal[1] \in Nat
  <2>1. consumed \in Nat /\ 1 \in Kernels \ stopped
    BY <1>1, MinimaTypes
  <2>2. count \in [Kernels -> 0 .. MaxItems] /\ internal \in [Kernels -> 0 .. MaxItems]
        /\ MaxItems \in Nat
    BY <1>1, KernelBounds DEF CountsBounded
  <2>3. QED BY <2>1, <2>2
<1>3. consumed <= count[1]
  BY <1>1, <1>2 DEF MinimaInOrder
<1>4. ItemCount(1) \in Nat /\ count[1] <= ItemCount(1)
  BY <1>1, <1>2 DEF ItemCount, InvocationsChained
<1>5. BlockWidth \in Nat \ {0} /\ Len(buffers) \in Nat /\ DOMAIN buffers = 1 .. Len(buffers)
  BY <1>1, BufferFacts DEF ContentState
<1>6. base = Len(buffers) /\ base \in 1 .. Len(buffers)
  BY <1>5 DEF ContentState, CurrentIsLatest, MemoryTypes
<1>7. QED BY <1>1, <1>2, <1>3, <1>4, <1>5, <1>6

LEMMA ThreadFacts ==
  ASSUME ContentState, NEW t \in Threads
  PROVE  /\ from[t] \in Nat /\ to[t] \in Nat /\ avail[t] \in Nat /\ seenConsumed[t] \in Nat
         /\ segNo[t] \in Nat /\ kernelId[t] \in Kernels
         /\ avail[t] <= count[1]
         /\ InKernel(t, 1) => count[1] <= from[t] /\ from[t] <= to[t]
         /\ pc \in [Threads -> ControlPoints] /\ kernelId \in [Threads -> Kernels]
         /\ seenConsumed \in [Threads -> Nat] /\ view \in [Threads -> Views]
<1>1. /\ CountState /\ 1 \in Kernels /\ CountsBounded
  BY StateFacts
<1>2. /\ from[t] \in Nat /\ to[t] \in Nat /\ avail[t] \in Nat /\ segNo[t] \in Nat
      /\ kernelId[t] \in Kernels
  BY <1>1, CountTypes
<1>3. QED
  BY <1>1, <1>2 DEF CountState, InvocationsChained, ContentState, MemoryTypes, CountsBounded

\* What the readers of earlier segments need: no buffer shrinks, what is
\* neither consumed nor unreported stays where it is, a buffer with items left
\* to read stays mapped, and marks are not below what is produced.
LEMMA ViewsKeep ==
  ASSUME ContentState, BlockWidth' = BlockWidth,
         consumed' \in Nat, consumed <= consumed',
         Len(buffers') \in Nat, Len(buffers) <= Len(buffers'),
         \A b \in 1 .. Len(buffers) :
           /\ buffers'[b].capacity = buffers[b].capacity
           /\ \A i \in consumed' .. count[1] - 1 :
                HoldsItem(b, i) => buffers'[b].content[i % Slots(b)] = i,
         \A u \in Threads : Downstream(u) /\ consumed' < avail[u] =>
           buffers'[view[u].buffer].freed = 0,
         \A e \in PendingEntries' :
           e \in PendingEntries \/ e.buffer = 0 \/ (e.mark \in Nat /\ count[1] <= e.mark),
         \A u \in Threads : Downstream(u)' =>
           \/ ViewKept(u)'
           \/ /\ Downstream(u)
              /\ view'[u] = view[u] /\ seenConsumed'[u] = seenConsumed[u]
              /\ avail'[u] = avail[u]
  PROVE  ViewsKept'
<1> SUFFICES ASSUME NEW u \in Threads, Downstream(u),
                    view'[u] = view[u], seenConsumed'[u] = seenConsumed[u],
                    avail'[u] = avail[u]
             PROVE  ViewKept(u)'
  BY DEF ViewsKept
<1> DEFINE b == view[u].buffer
<1>1. ViewKept(u) /\ b \in 1 .. Len(buffers)
  BY DEF ContentState, ViewsKept, ViewKept
<1>2. /\ consumed \in Nat /\ count[1] \in Nat /\ Len(buffers) \in Nat
      /\ avail[u] \in Nat /\ seenConsumed[u] \in Nat /\ avail[u] <= count[1]
  BY StateFacts, ThreadFacts
<1>3. buffers'[b].capacity * BlockWidth' = Slots(b)
  BY <1>1 DEF Slots
<1>4. /\ view'[u].buffer \in 1 .. Len(buffers') /\ view'[u].at = seenConsumed'[u]
      /\ seenConsumed'[u] <= consumed'
      /\ avail'[u] <= seenConsumed'[u] + (buffers'[view'[u].buffer].capacity * BlockWidth')
  BY <1>1, <1>2, <1>3 DEF ViewKept
<1>5. ASSUME NEW i \in consumed' .. avail'[u] - 1
      PROVE  /\ buffers'[view'[u].buffer].freed = 0
             /\ buffers'[view'[u].buffer].content[i % Slots(b)] = i
  <2>1. i \in consumed .. avail[u] - 1 /\ i \in consumed' .. count[1] - 1
        /\ consumed' < avail[u]
    BY <1>2
  <2>2. HoldsItem(b, i)
    BY <1>1, <2>1 DEF ViewKept
  <2>3. QED BY <1>1, <2>1, <2>2
<1>6. ASSUME NEW e \in PendingEntries', e.buffer = view'[u].buffer
      PROVE  avail'[u] <= e.mark
  <2>1. CASE e \in PendingEntries
    BY <1>1, <1>6, <2>1 DEF ViewKept
  <2>2. CASE e.buffer = 0
    BY <1>1, <1>6, <2>2
  <2>3. CASE e.mark \in Nat /\ count[1] <= e.mark
    <3>1. PICK m \in Nat : m = e.mark
      BY <2>3
    <3>2. PICK c \in Nat : c = count[1]
      BY <1>2
    <3>3. PICK a \in Nat : a = avail[u]
      BY <1>2
    <3>4. a <= c /\ c <= m
      BY <1>2, <2>3, <3>1, <3>2, <3>3, Zenon
    <3>5. a <= m
      BY <3>4
    <3>6. QED BY <3>1, <3>3, <3>5, Zenon
  <2>4. QED BY <1>6, <2>1, <2>2, <2>3, Zenon
<1>7. \A i \in consumed' .. avail'[u] - 1 :
        buffers'[view'[u].buffer].freed = 0 /\ HoldsItem(view[u].buffer, i)'
  <2>1. view'[u].buffer = b
    OBVIOUS
  <2>2. \A i \in consumed' .. avail'[u] - 1 :
          buffers'[b].freed = 0 /\ buffers'[b].content[i % Slots(b)] = i
    BY <1>5, <2>1, Zenon
  <2>3. \A i \in consumed' .. avail'[u] - 1 :
          buffers'[b].content[i % (buffers'[b].capacity * BlockWidth')] = i
    BY <1>3, <2>2, Zenon
  <2>4. QED BY <2>1, <2>2, <2>3, Zenon DEF HoldsItem, Slots
<1>8. QED BY <1>4, <1>6, <1>7 DEF ViewKept, Slots

\* A buffer with items left to read is mapped.
LEMMA MappedForReaders ==
  ASSUME ContentState
  PROVE  \A u \in Threads : Downstream(u) /\ consumed < avail[u] =>
           buffers[view[u].buffer].freed = 0
<1> SUFFICES ASSUME NEW u \in Threads, Downstream(u), consumed < avail[u]
             PROVE  buffers[view[u].buffer].freed = 0
  OBVIOUS
<1>1. consumed \in consumed .. avail[u] - 1
  BY StateFacts, ThreadFacts
<1>2. QED BY <1>1 DEF ContentState, ViewsKept, ViewKept

Content ==
  CurrentIsLatest /\ RoomKept /\ NoGaps /\ ItemsInPlace /\ ViewsKept

\* The step leaves thread u where it is, with what it has read.
Still(u) ==
  /\ pc'[u] = pc[u] /\ kernelId'[u] = kernelId[u]
  /\ from'[u] = from[u] /\ to'[u] = to[u]
  /\ seenConsumed'[u] = seenConsumed[u] /\ view'[u] = view[u] /\ avail'[u] = avail[u]

\* A step of a thread that is not in the producer and does not get there.
LEMMA QuietContent ==
  ASSUME ContentState, UNCHANGED <<pipeline, memory>>,
         count'[1] = count[1], internal'[1] = internal[1],
         consumed' \in Nat, consumed <= consumed',
         NEW t \in Threads, \A u \in Threads \ {t} : Still(u),
         ~ InKernel(t, 1),
         \/ ~ Active(t)' \/ (pc'[t] = "acquire" /\ kernelId'[t] = 1)
         \/ /\ Downstream(t) /\ kernelId'[t] # 1 /\ pc'[t] # "expand"
            /\ view'[t] = view[t] /\ seenConsumed'[t] = seenConsumed[t]
            /\ avail'[t] = avail[t]
  PROVE  Content'
<1>1. /\ buffers' = buffers /\ base' = base /\ pending' = pending
      /\ BlockWidth' = BlockWidth /\ DataParallel' = DataParallel
      /\ ItemCount(1)' = ItemCount(1)
  BY DEF memory, BlockWidth, DataParallel, ItemCount
<1>2. /\ CurrentIsLatest /\ RoomKept /\ NoGaps /\ ItemsInPlace /\ ViewsKept
      /\ consumed \in Nat /\ count[1] \in Nat /\ Len(buffers) \in Nat
      /\ \A u \in Threads : avail[u] \in Nat /\ seenConsumed[u] \in Nat
  BY StateFacts, ThreadFacts DEF ContentState
<1>3. \A u \in Threads : ~ Active(u)' \/ (kernelId'[u] = 1 /\ pc'[u] = "acquire")
                           \/ (kernelId'[u] # 1 /\ pc'[u] # "expand")
                           \/ (u # t /\ Still(u))
  OBVIOUS
<1>4. \A u \in Threads : Publishing(u) \/ InKernel(u, 1) => u # t
  BY DEF Publishing, InKernel
<1>5. CurrentIsLatest'
  BY <1>1, <1>2 DEF CurrentIsLatest, PendingBuffers
<1>6. RoomKept'
  <2> SUFFICES ASSUME NEW u \in Threads, Producing(u)'
               PROVE  RoomFor(u)'
    BY DEF RoomKept
  <2>1. u # t /\ Still(u)
    BY <1>3 DEF Producing, At, Active
  <2>2. RoomFor(u)
    BY <1>2, <2>1 DEF RoomKept, Producing, Active, At, Still
  <2>3. Slots(base)' = Slots(base)
    BY <1>1 DEF Slots
  <2>4. QED BY <1>1, <1>2, <2>1, <2>2, <2>3 DEF RoomFor, Still, At
<1>7. \A i : BeingPublished(i) => BeingPublished(i)'
  BY <1>4 DEF BeingPublished, Publishing, Still
<1>8. NoGaps'
  <2>1. \A i \in count'[1] .. ItemCount(1)' - 1 : BeingPublished(i)'
    BY <1>1, <1>2, <1>7 DEF NoGaps
  <2>2. ASSUME NEW u \in Threads, InKernel(u, 1)'
        PROVE  \A i \in count'[1] .. from'[u] - 1 : BeingPublished(i)'
    <3>1. u # t /\ Still(u)
      BY <1>3, <2>2 DEF InKernel, Active
    <3>2. InKernel(u, 1) /\ from'[u] = from[u]
      BY <2>2, <3>1 DEF InKernel, Still
    <3>3. QED BY <1>2, <1>7, <3>2 DEF NoGaps
  <2>3. QED BY <2>1, <2>2 DEF NoGaps
<1>9. \A b, i : HoldsItem(b, i)' <=> HoldsItem(b, i)
  BY <1>1 DEF HoldsItem, Slots
<1>10. ItemsInPlace'
  <2>1. \A i \in consumed' .. count'[1] - 1 : HoldsItem(base, i)'
    BY <1>1, <1>2, <1>9 DEF ItemsInPlace
  <2>2. ASSUME NEW u \in Threads, kernelId'[u] = 1, At(u, "loopExit")'
        PROVE  \A i \in from'[u] .. to'[u] - 1 : HoldsItem(base, i)'
    <3>1. u # t /\ Still(u)
      BY <1>3, <2>2 DEF At, Active
    <3>2. QED BY <1>1, <1>2, <1>9, <2>2, <3>1 DEF ItemsInPlace, At, Still
  <2>3. QED BY <1>1, <2>1, <2>2 DEF ItemsInPlace
<1>11. ViewsKept'
  <2>1. \A b \in 1 .. Len(buffers) :
          /\ buffers'[b].capacity = buffers[b].capacity
          /\ \A i \in consumed' .. count[1] - 1 :
               HoldsItem(b, i) => buffers'[b].content[i % Slots(b)] = i
    BY <1>1 DEF HoldsItem
  <2>2. \A u \in Threads : Downstream(u) /\ consumed' < avail[u] =>
          buffers'[view[u].buffer].freed = 0
    BY <1>1, <1>2, MappedForReaders
  <2>3. PendingEntries' = PendingEntries
    BY <1>1 DEF PendingEntries
  <2>4. \A u \in Threads : Downstream(u)' =>
          /\ Downstream(u) /\ view'[u] = view[u] /\ seenConsumed'[u] = seenConsumed[u]
          /\ avail'[u] = avail[u]
    BY <1>3 DEF Downstream, Active, Still
  <2>5. QED BY <1>1, <1>2, <2>1, <2>2, <2>3, <2>4, ViewsKeep
<1>12. QED BY <1>5, <1>6, <1>8, <1>10, <1>11 DEF Content

\* Fetching and leaving, the consumers, and the ends of segments.
LEMMA QuietSteps ==
  ASSUME ContentState, NEW t \in Threads,
         \/ ObtainSegmentNumber(t) \/ Leave(t) \/ ConsumerStep(t)
         \/ KernelStep(t) /\ kernelId[t] # 1
         \/ ExitConsumer(t) \/ ExitLastKernel(t) \/ JumpStep(t)
  PROVE  Content'
<1>1. /\ pc \in [Threads -> ControlPoints] /\ kernelId \in [Threads -> Kernels]
      /\ from \in [Threads -> 0 .. MaxItems] /\ to \in [Threads -> 0 .. MaxItems]
      /\ avail \in [Threads -> 0 .. MaxItems]
      /\ seenConsumed \in [Threads -> Nat] /\ view \in [Threads -> Views]
      /\ target \in [Threads -> 1 .. NumKernels + 1]
      /\ count \in [Kernels -> 0 .. MaxItems] /\ internal \in [Kernels -> 0 .. MaxItems]
      /\ 1 \in Kernels /\ kernelId[t] \in Kernels /\ CountState /\ MinimaInOrder
      /\ consumed \in Nat /\ NumKernels # 1 /\ NumKernels \in Nat
  BY StateFacts, ThreadFacts, KernelBounds DEF CountState, CountsBounded
<1>2. CASE ObtainSegmentNumber(t) \/ Leave(t)
  <2>1. /\ UNCHANGED <<pipeline, memory, count, internal, consumed>>
        /\ \A u \in Threads \ {t} : Still(u)
        /\ ~ InKernel(t, 1)
        /\ ~ Active(t)' \/ (pc'[t] = "acquire" /\ kernelId'[t] = 1)
    <3>1. kernelId[t] = 1
      BY <1>1, <1>2, LockTypes DEF CountState, Holds, ObtainSegmentNumber, Leave, At
    <3>2. QED
      BY <1>1, <1>2, <3>1 DEF ObtainSegmentNumber, Leave, Goto, At, counts, locals, Still,
                              InKernel, Active
  <2>2. QED BY <1>1, <2>1, QuietContent
<1>3. CASE ConsumerStep(t)
  <2>1. /\ UNCHANGED <<pipeline, memory, count, internal, consumed>>
        /\ \A u \in Threads \ {t} : Still(u)
        /\ ~ InKernel(t, 1) /\ Downstream(t) /\ kernelId'[t] # 1 /\ pc'[t] # "expand"
        /\ UNCHANGED <<view, seenConsumed, avail>>
    BY <1>1, <1>3 DEF ConsumerStep, EnterConsumer, EnterShort, EnterStopped, Goto, At, counts,
                      locals, Still, InKernel, Active, Downstream
  <2>2. QED BY <1>1, <2>1, QuietContent
<1>4. CASE KernelStep(t) /\ kernelId[t] # 1
  <2>1. /\ UNCHANGED <<pipeline, memory, consumed>>
        /\ count'[1] = count[1] /\ internal'[1] = internal[1]
        /\ \A u \in Threads \ {t} : Still(u)
        /\ ~ InKernel(t, 1) /\ Downstream(t) /\ kernelId'[t] # 1 /\ pc'[t] # "expand"
        /\ UNCHANGED <<view, seenConsumed, avail>>
    BY <1>1, <1>4 DEF KernelStep, Invoke, Return, LoopExit, LoopExitStopping, Goto, At, counts,
                      locals, memory, Still, InKernel, Active, Downstream
  <2>2. QED BY <1>1, <2>1, QuietContent
<1>5. CASE ExitConsumer(t)
  <2>1. /\ UNCHANGED <<pipeline, memory, count, internal, consumed>>
        /\ \A u \in Threads \ {t} : Still(u)
        /\ ~ InKernel(t, 1) /\ Downstream(t) /\ kernelId'[t] # 1 /\ pc'[t] # "expand"
        /\ UNCHANGED <<view, seenConsumed, avail>>
    BY <1>1, <1>5 DEF ExitConsumer, Goto, At, counts, locals, Still, InKernel, Active, Downstream
  <2>2. QED BY <1>1, <2>1, QuietContent
<1>6. CASE ExitLastKernel(t)
  <2>1. consumed' \in Nat /\ consumed <= consumed'
    BY <1>1, <1>6, MinimaAtEnd DEF MinimaInOrder
  <2>2. /\ UNCHANGED <<pipeline, memory, count, internal>>
        /\ \A u \in Threads \ {t} : Still(u)
        /\ ~ InKernel(t, 1) /\ ~ Active(t)'
    BY <1>1, <1>6 DEF ExitLastKernel, ForgetLocals, Goto, At, Still, InKernel, Active
  <2>3. QED BY <1>1, <2>1, <2>2, QuietContent
<1>7. CASE JumpStep(t)
  <2>1. kernelId[t] # 1 /\ kernelId[t] < target[t] /\ At(t, "jump")
    <3>1. At(t, "jump")
      BY <1>7 DEF JumpStep, JumpWithin, JumpToEnd
    <3>2. ~ Producing(t)
      BY <3>1 DEF ContentState, RoomKept, RoomFor
    <3>3. QED BY <1>1, <3>1, <3>2, LockTypes DEF Producing, Active, At, CountState, Holds
  <2>2. kernelId[t] \in Nat /\ kernelId[t] >= 1 /\ target[t] # 1
    <3>1. kernelId[t] \in Nat /\ kernelId[t] >= 1
      BY <1>1, KernelFacts
    <3>2. target[t] \in 1 .. NumKernels + 1
      BY <1>1
    <3>3. QED BY <1>1, <2>1, <3>1, <3>2
  <2>3. /\ UNCHANGED <<pipeline, memory, count, internal, consumed>>
        /\ \A u \in Threads \ {t} : Still(u)
        /\ ~ InKernel(t, 1)
        /\ \/ ~ Active(t)'
           \/ /\ Downstream(t) /\ kernelId'[t] # 1 /\ pc'[t] # "expand"
              /\ UNCHANGED <<view, seenConsumed, avail>>
    BY <1>1, <1>7, <2>1, <2>2 DEF JumpStep, JumpWithin, JumpToEnd, ForgetLocals, Goto, At,
                                  counts, Still, InKernel, Active, Downstream
  <2>4. QED BY <1>1, <2>3, QuietContent
<1>8. QED BY <1>2, <1>3, <1>4, <1>5, <1>6, <1>7

LEMMA PendingTypes ==
  ASSUME PendingShape
  PROVE  PendingEntries \subseteq Entries
BY LinksInUse DEF PendingShape, PendingEntries

\* The current buffer is not among those put up for deletion.
LEMMA CurrentIsNotPending ==
  ASSUME ContentState
  PROVE  /\ \A e \in PendingEntries : e.buffer \in Nat /\ e.mark \in Nat /\ e.buffer < base
         /\ \A c \in Nat : base \notin Removed(c)
<1>1. PendingShape /\ base \in Nat /\ base # 0 /\ \A b \in PendingBuffers : b < base
  BY StateFacts DEF ContentState, CurrentIsLatest
<1>2. \A e \in PendingEntries : e.buffer \in Nat /\ e.mark \in Nat /\ e.buffer < base
  BY <1>1, PendingTypes, PendingBuffersOfEntries DEF Entries
<1>3. ASSUME NEW c \in Nat, base \in Removed(c) PROVE FALSE
  BY <1>1, <1>2, <1>3, RemovedHavePassed
<1>4. QED BY <1>2, <1>3

\* The producer hands its buffer to the consumers of its segment.
LEMMA ExitProducerContent ==
  ASSUME ContentState, NEW t \in Threads, ExitProducer(t)
  PROVE  Content'
<1>1. /\ buffers' = buffers /\ base' = base /\ pending' = pending
      /\ UNCHANGED <<pipeline, count, internal, consumed, from, to, seenConsumed, avail>>
      /\ At(t, "exit") /\ kernelId[t] = 1
      /\ pc' = [pc EXCEPT ![t] = "acquire"] /\ kernelId' = [kernelId EXCEPT ![t] = 2]
      /\ view' = [view EXCEPT ![t] = [buffer |-> base, at |-> seenConsumed[t]]]
  BY DEF ExitProducer, memory, counts, Goto
<1>2. /\ CurrentIsLatest /\ RoomKept /\ NoGaps /\ ItemsInPlace /\ ViewsKept
      /\ consumed \in Nat /\ count[1] \in Nat /\ Len(buffers) \in Nat
      /\ base \in 1 .. Len(buffers)
      /\ \A u \in Threads : avail[u] \in Nat /\ seenConsumed[u] \in Nat
      /\ pc \in [Threads -> ControlPoints] /\ kernelId \in [Threads -> Kernels]
      /\ view \in [Threads -> Views]
  BY StateFacts, ThreadFacts DEF ContentState
<1>3. /\ BlockWidth' = BlockWidth /\ DataParallel' = DataParallel
      /\ ItemCount(1)' = ItemCount(1)
      /\ \A b, i : HoldsItem(b, i)' <=> HoldsItem(b, i)
      /\ \A b : Slots(b)' = Slots(b)
      /\ PendingEntries' = PendingEntries
  BY <1>1 DEF BlockWidth, DataParallel, ItemCount, HoldsItem, Slots, PendingEntries
<1>4. /\ \A u \in Threads \ {t} : Still(u)
      /\ pc'[t] = "acquire" /\ kernelId'[t] = 2
      /\ view'[t].buffer = base /\ view'[t].at = seenConsumed[t]
      /\ ~ InKernel(t, 1)
  BY <1>1, <1>2 DEF Still, InKernel, At
<1>5. CurrentIsLatest'
  BY <1>1, <1>2 DEF CurrentIsLatest, PendingBuffers
<1>6. RoomKept'
  <2> SUFFICES ASSUME NEW u \in Threads, Producing(u)'
               PROVE  RoomFor(u)'
    BY DEF RoomKept
  <2>1. u # t /\ Still(u)
    BY <1>4 DEF Producing, At, Active
  <2>2. RoomFor(u)
    BY <1>2, <2>1 DEF RoomKept, Producing, Active, At, Still
  <2>3. Slots(base)' = Slots(base)
    BY <1>1 DEF Slots, BlockWidth
  <2>4. QED BY <1>1, <1>2, <2>1, <2>2, <2>3 DEF RoomFor, Still, At
<1>7. \A i : BeingPublished(i) => BeingPublished(i)'
  BY <1>4 DEF BeingPublished, Publishing, InKernel, Still
<1>8. NoGaps'
  <2>1. \A u \in Threads : InKernel(u, 1)' => InKernel(u, 1)
    BY <1>4 DEF InKernel, Still
  <2>2. QED BY <1>1, <1>2, <1>3, <1>7, <2>1 DEF NoGaps
<1>9. ItemsInPlace'
  <2>1. \A u \in Threads : kernelId'[u] = 1 /\ At(u, "loopExit")' =>
                           kernelId[u] = 1 /\ At(u, "loopExit")
    BY <1>4 DEF At, Still
  <2>2. QED BY <1>1, <1>2, <1>3, <2>1 DEF ItemsInPlace
<1>10. ViewKept(t)'
  <2>1. Producing(t)
    BY <1>1 DEF Producing, Active, At
  <2>2. /\ seenConsumed[t] <= consumed /\ avail[t] = to[t]
        /\ to[t] <= seenConsumed[t] + Slots(base)
    BY <1>1, <1>2, <2>1 DEF RoomKept, RoomFor, At
  <2>3. avail[t] <= count[1]
    BY ThreadFacts
  <2>4. \A i \in consumed .. avail[t] - 1 :
          buffers[base].freed = 0 /\ HoldsItem(base, i)
    BY <1>2, <2>3 DEF ItemsInPlace, CurrentIsLatest
  <2>5. \A e \in PendingEntries : e.buffer # base
    BY <1>2, CurrentIsNotPending
  <2>6. \A i : HoldsItem(view[t].buffer, i)' <=> HoldsItem(base, i)
    BY <1>1, <1>3, <1>4 DEF HoldsItem, Slots
  <2>7. Slots(view[t].buffer)' = Slots(base)
    BY <1>1, <1>3, <1>4 DEF Slots
  <2>8. QED BY <1>1, <1>2, <1>3, <1>4, <2>2, <2>4, <2>5, <2>6, <2>7 DEF ViewKept
<1>11. ViewsKept'
  <2>1. \A b \in 1 .. Len(buffers) :
          /\ buffers'[b].capacity = buffers[b].capacity
          /\ \A i \in consumed' .. count[1] - 1 :
               HoldsItem(b, i) => buffers'[b].content[i % Slots(b)] = i
    BY <1>1 DEF HoldsItem
  <2>2. \A u \in Threads : Downstream(u) /\ consumed' < avail[u] =>
          buffers'[view[u].buffer].freed = 0
    BY <1>1, MappedForReaders
  <2>3. \A u \in Threads : Downstream(u)' =>
          \/ ViewKept(u)'
          \/ /\ Downstream(u) /\ view'[u] = view[u] /\ seenConsumed'[u] = seenConsumed[u]
             /\ avail'[u] = avail[u]
    BY <1>4, <1>10 DEF Downstream, Active, Still
  <2>4. QED BY <1>1, <1>2, <1>3, <2>1, <2>2, <2>3, ViewsKeep
<1>12. QED BY <1>5, <1>6, <1>8, <1>9, <1>11 DEF Content

\* The space that the producer finds ends one buffer behind the consumed count.
LEMMA WritableBounded ==
  ASSUME ContentState, NEW n \in Nat, n - ItemCount(1) <= Writable(consumed)
  PROVE  n <= consumed + Slots(base)
<1>1. /\ consumed \in Nat /\ BlockWidth \in Nat \ {0} /\ ItemCount(1) \in Nat
      /\ Slots(base) \in Nat
  BY StateFacts, BufferFacts DEF ContentState
<1>2. Chunk(consumed) * BlockWidth \in Nat /\ Chunk(consumed) * BlockWidth <= consumed
  <2>1. /\ Chunk(consumed) \in Nat
        /\ consumed = Chunk(consumed) * BlockWidth + (consumed % BlockWidth)
        /\ consumed % BlockWidth \in 0 .. BlockWidth - 1
    BY <1>1, Division DEF Chunk
  <2>2. Chunk(consumed) * BlockWidth \in Nat
    BY <1>1, <2>1, Products
  <2>3. QED BY <1>1, <2>1, <2>2
<1>3. PICK r \in Nat : r <= consumed /\ Writable(consumed) = Slots(base) - (ItemCount(1) - r)
  <2>1. CASE pipeline.nonFixedRate
    BY <1>2, <2>1 DEF Writable
  <2>2. CASE ~ pipeline.nonFixedRate
    BY <1>1, <2>2 DEF Writable
  <2>3. QED BY <2>1, <2>2
<1>4. QED BY <1>1, <1>3

\* The producer enters and frees what no reader is left to read.
LEMMA EnterProducerContent ==
  ASSUME ContentState, NEW t \in Threads, EnterProducer(t)
  PROVE  Content'
<1>1. /\ buffers' = Unmapped(Removed(consumed)) /\ base' = base /\ pending' = Remaining(consumed)
      /\ UNCHANGED <<pipeline, count, internal, consumed, view, avail, kernelId>>
      /\ At(t, "acquire") /\ kernelId[t] = 1
      /\ seenConsumed' = [seenConsumed EXCEPT ![t] = consumed]
      /\ from' = [from EXCEPT ![t] = ItemCount(1)]
  BY DEF EnterProducer, counts
<1>2. /\ CurrentIsLatest /\ RoomKept /\ NoGaps /\ ItemsInPlace /\ ViewsKept
      /\ consumed \in Nat /\ count[1] \in Nat /\ Len(buffers) \in Nat
      /\ PendingShape /\ BufferList /\ ItemCount(1) \in Nat
      /\ base \in 1 .. Len(buffers) /\ base \in Nat /\ DOMAIN buffers = 1 .. Len(buffers)
      /\ \A u \in Threads : avail[u] \in Nat /\ seenConsumed[u] \in Nat
      /\ pc \in [Threads -> ControlPoints] /\ seenConsumed \in [Threads -> Nat]
      /\ from \in [Threads -> 0 .. MaxItems] /\ to \in [Threads -> 0 .. MaxItems]
      /\ \A u \in Threads : view[u].buffer \in Nat
  BY StateFacts, ThreadFacts DEF ContentState, CountsBounded, Views
<1>3. PICK n \in pipeline.segmentLengths :
        LET end == Min({ItemCount(1) + n, MaxItems}) IN
        /\ to' = [to EXCEPT ![t] = end]
        /\ Goto(t, IF end - ItemCount(1) <= Writable(consumed) THEN "ready" ELSE "expand")
  BY Zenon DEF EnterProducer
<1> DEFINE end == Min({ItemCount(1) + n, MaxItems})
<1>4. end \in Nat
  <2>1. n \in Nat
    BY StateFacts, PipelineAssumption DEF CountsBounded
  <2>2. ItemCount(1) + n \in Nat /\ MaxItems \in Nat
    BY <1>2, <2>1, KernelBounds
  <2>3. QED BY <2>2, MinOfTwo
<1>5. /\ \A u \in Threads \ {t} : Still(u)
      /\ to'[t] = end /\ from'[t] = ItemCount(1) /\ seenConsumed'[t] = consumed
      /\ pc'[t] = IF end - ItemCount(1) <= Writable(consumed) THEN "ready" ELSE "expand"
      /\ pc'[t] \in {"ready", "expand"}
      /\ ~ InKernel(t, 1)
  <2> HIDE DEF end
  <2>1. /\ to' = [to EXCEPT ![t] = end]
        /\ pc' = [pc EXCEPT ![t] =
                    IF end - ItemCount(1) <= Writable(consumed) THEN "ready" ELSE "expand"]
    BY <1>3 DEF end, Goto
  <2>2. QED BY <1>1, <1>2, <2>1 DEF Still, InKernel, At
<1> HIDE DEF end
<1>6. /\ Len(buffers') = Len(buffers)
      /\ \A b \in 1 .. Len(buffers) :
           /\ buffers'[b].capacity = buffers[b].capacity
           /\ buffers'[b].content = buffers[b].content
           /\ b \notin Removed(consumed) => buffers'[b].freed = buffers[b].freed
  BY <1>1, <1>2, UnmappingLeavesContent DEF Untouched
<1>7. PendingEntries' \subseteq PendingEntries \union {Empty} /\ Empty.buffer = 0
  BY <1>1, <1>2, RemovalBringsNone DEF Empty
<1>8. /\ BlockWidth' = BlockWidth /\ DataParallel' = DataParallel
      /\ ItemCount(1)' = ItemCount(1)
      /\ \A i : HoldsItem(base, i)' <=> HoldsItem(base, i)
      /\ Slots(base)' = Slots(base)
  BY <1>1, <1>2, <1>6 DEF BlockWidth, DataParallel, ItemCount, HoldsItem, Slots
<1>9. CurrentIsLatest'
  <2>1. \A e \in PendingEntries' : e.buffer < base
    BY <1>2, <1>7, CurrentIsNotPending
  <2>2. \A b \in PendingBuffers' : b < base
    BY <2>1, PendingBuffersOfEntries DEF PendingBuffers, PendingEntries
  <2>3. buffers'[base].freed = 0
    BY <1>2, <1>6, CurrentIsNotPending DEF CurrentIsLatest
  <2>4. QED BY <1>1, <1>2, <1>6, <2>2, <2>3 DEF CurrentIsLatest
<1>10. RoomKept'
  <2> SUFFICES ASSUME NEW u \in Threads, Producing(u)'
               PROVE  RoomFor(u)'
    BY DEF RoomKept
  <2>1. CASE u = t
    <3>1. pc'[t] = "ready" => end <= consumed + Slots(base)
      BY <1>4, <1>5, WritableBounded
    <3>2. QED BY <1>1, <1>2, <1>5, <1>8, <2>1, <3>1 DEF RoomFor, At
  <2>2. CASE u # t
    <3>1. Still(u)
      BY <1>5, <2>2
    <3>2. RoomFor(u)
      BY <1>2, <3>1 DEF RoomKept, Producing, Active, At, Still
    <3>3. QED BY <1>1, <1>8, <3>1, <3>2 DEF RoomFor, Still, At
  <2>3. QED BY <2>1, <2>2
<1>11. \A i : BeingPublished(i) => BeingPublished(i)'
  BY <1>5 DEF BeingPublished, Publishing, InKernel, Still
<1>12. NoGaps'
  <2>1. \A i \in count'[1] .. ItemCount(1)' - 1 : BeingPublished(i)'
    BY <1>1, <1>2, <1>8, <1>11 DEF NoGaps
  <2>2. ASSUME NEW u \in Threads, InKernel(u, 1)'
        PROVE  \A i \in count'[1] .. from'[u] - 1 : BeingPublished(i)'
    <3>1. CASE u = t
      BY <1>5, <1>8, <2>1, <3>1
    <3>2. CASE u # t
      <4>1. InKernel(u, 1) /\ from'[u] = from[u]
        BY <1>5, <2>2, <3>2 DEF InKernel, Still
      <4>2. QED BY <1>1, <1>2, <1>11, <4>1 DEF NoGaps
    <3>3. QED BY <3>1, <3>2
  <2>3. QED BY <2>1, <2>2 DEF NoGaps
<1>13. ItemsInPlace'
  <2>1. \A u \in Threads : kernelId'[u] = 1 /\ At(u, "loopExit")' =>
                           u # t /\ kernelId[u] = 1 /\ At(u, "loopExit") /\ Still(u)
    BY <1>5 DEF At, Still
  <2>2. QED BY <1>1, <1>2, <1>8, <2>1 DEF ItemsInPlace, Still
<1>14. ViewsKept'
  <2>1. \A b \in 1 .. Len(buffers) :
          /\ buffers'[b].capacity = buffers[b].capacity
          /\ \A i \in consumed' .. count[1] - 1 :
               HoldsItem(b, i) => buffers'[b].content[i % Slots(b)] = i
    BY <1>6 DEF HoldsItem
  <2>2. ASSUME NEW u \in Threads, Downstream(u), consumed < avail[u]
        PROVE  buffers'[view[u].buffer].freed = 0
    <3>1. buffers[view[u].buffer].freed = 0
      BY <2>2, MappedForReaders
    <3>2. /\ view[u].buffer \in 1 .. Len(buffers)
          /\ \A e \in PendingEntries : e.buffer = view[u].buffer => avail[u] <= e.mark
      BY <1>2, <2>2 DEF ViewsKept, ViewKept
    <3>3. view[u].buffer \notin Removed(consumed)
      <4> SUFFICES ASSUME view[u].buffer \in Removed(consumed)
                   PROVE  FALSE
        OBVIOUS
      <4>1. PICK e \in PendingEntries : e.buffer = view[u].buffer /\ e.mark < consumed
        <5>1. view[u].buffer # 0
          BY <1>2, <3>2
        <5>2. QED BY <1>2, <5>1, RemovedHavePassed
      <4>2. e.mark \in Nat /\ avail[u] <= e.mark /\ avail[u] \in Nat
        BY <1>2, <3>2, <4>1, CurrentIsNotPending
      <4>3. QED BY <1>2, <2>2, <4>1, <4>2
    <3>4. QED BY <1>6, <3>1, <3>2, <3>3
  <2>3. \A u \in Threads : Downstream(u)' =>
          /\ Downstream(u) /\ view'[u] = view[u] /\ seenConsumed'[u] = seenConsumed[u]
          /\ avail'[u] = avail[u]
    BY <1>1, <1>5 DEF Downstream, Active, Still
  <2>4. QED BY <1>1, <1>2, <1>6, <1>7, <1>8, <2>1, <2>2, <2>3, ViewsKeep
<1>15. QED BY <1>9, <1>10, <1>12, <1>13, <1>14 DEF Content

\* The producer that expands is alone in its kernel.
LEMMA ExpandAlone ==
  ASSUME ContentState, NEW t \in Threads, Expand(t)
  PROVE  /\ InKernel(t, 1) /\ RoomFor(t) /\ kernelId[t] = 1 /\ At(t, "expand")
         /\ \A u \in Threads \ {t} : ~ InKernel(u, 1)
<1>1. At(t, "expand") /\ MayExpand(t)
  BY DEF Expand
<1>2. RoomFor(t) /\ kernelId[t] = 1
  BY <1>1 DEF ContentState, RoomKept, Producing, RoomFor
<1>3. /\ Active(t) /\ InKernel(t, 1)
      /\ CountState /\ PositionsMatchCounters /\ Holds(t) /\ 1 \in Kernels
  BY <1>1, <1>2, StateFacts, LockTypes DEF Active, At, InKernel, CountState
<1>4. MayEnter(t, 1)
  BY <1>1, <1>2, <1>3 DEF Holds, At
<1>5. ASSUME NEW u \in Threads \ {t}, InKernel(u, 1)
      PROVE  FALSE
  <2>1. segNo[u] < segNo[t] /\ 1 \in DataParallel
    BY <1>3, <1>4, <1>5, EntryChain
  <2>2. MayExit(t, 1)
    BY <1>1, <2>1 DEF MayExpand
  <2>3. Active(u) /\ kernelId[u] = 1
    BY <1>5 DEF InKernel, Active
  <2>4. LetOut(u, 1)
    BY <1>3, <2>1, <2>2, <2>3, ExitOrder DEF EarlierOut
  <2>5. QED BY <2>3, <2>4 DEF LetOut
<1>6. QED BY <1>1, <1>2, <1>3, <1>5, Zenon

\* The new buffer is as large as the segment needs and has a copy of every item
\* that is not consumed.
LEMMA ExpansionCopies ==
  ASSUME ContentState, NEW t \in Threads, Expand(t)
  PROVE  LET new  == buffers'[Len(buffers) + 1]
             size == new.capacity * BlockWidth
         IN  /\ Len(buffers') = Len(buffers) + 1
             /\ \A b \in 1 .. Len(buffers) : buffers'[b] = buffers[b]
             /\ new.capacity \in Nat \ {0} /\ new.freed = 0 /\ size \in Nat
             /\ Slots(base) <= size
             /\ new.content \in [0 .. size - 1 -> Items \union {Unwritten}]
             /\ to[t] <= seenConsumed[t] + size
             /\ \A i \in consumed .. count[1] - 1 : new.content[i % size] = i
<1> DEFINE old == buffers[base]
           first == Chunk(seenConsumed[t])
           last == ChunksFor(from[t])
           end == ChunksFor(to[t])
           needed == end - first
           capacity == old.capacity + RoundUp(needed, old.capacity)
           size == capacity * BlockWidth
           copied == first * BlockWidth .. last * BlockWidth - 1
           content == [s \in 0 .. size - 1 |->
                         IF \E i \in copied : i % size = s
                           THEN old.content[(CHOOSE i \in copied : i % size = s) % Slots(base)]
                           ELSE Unwritten]
           new == [capacity |-> capacity, freed |-> 0, content |-> content]
<1>1. buffers' = Append(buffers, new)
  BY DEF Expand
<1>2. /\ BlockWidth \in Nat \ {0} /\ consumed \in Nat /\ count[1] \in Nat
      /\ consumed <= count[1]
      /\ from[t] \in Nat /\ to[t] \in Nat /\ seenConsumed[t] \in Nat
      /\ count[1] <= from[t] /\ from[t] <= to[t] /\ seenConsumed[t] <= consumed
      /\ base \in 1 .. Len(buffers)
  BY StateFacts, ThreadFacts, ExpandAlone DEF RoomFor
<1>3. /\ old.capacity \in Nat \ {0} /\ Slots(base) \in Nat \ {0}
      /\ old.content \in [0 .. Slots(base) - 1 -> Items \union {Unwritten}]
  BY <1>2, StateFacts, BufferFacts DEF ContentState
<1>4. /\ first \in Nat /\ first * BlockWidth \in Nat
      /\ first * BlockWidth <= seenConsumed[t]
  <2>1. /\ first \in Nat
        /\ seenConsumed[t] = first * BlockWidth + (seenConsumed[t] % BlockWidth)
        /\ seenConsumed[t] % BlockWidth \in 0 .. BlockWidth - 1
    BY <1>2, Division DEF Chunk
  <2> HIDE DEF first
  <2>2. first * BlockWidth \in Nat
    BY <1>2, <2>1, Products
  <2>3. QED BY <1>2, <2>1, <2>2
<1>5. /\ last \in Nat /\ from[t] <= last * BlockWidth
      /\ end \in Nat /\ to[t] <= end * BlockWidth
  BY <1>2, RoundingUp DEF ChunksFor
<1>6. first <= end /\ last <= end
  <2> DEFINE w == BlockWidth
             s == seenConsumed[t]
             f == from[t] + w - 1
             e == to[t] + w - 1
  <2>1. w \in Nat \ {0} /\ s \in Nat /\ f \in Nat /\ e \in Nat /\ s <= e /\ f <= e
    <3>a. PICK x \in Nat : x = from[t]
      BY <1>2
    <3>b. PICK y \in Nat : y = to[t]
      BY <1>2
    <3>c. PICK z \in Nat : z = seenConsumed[t]
      BY <1>2
    <3>d. PICK c \in Nat : c = count[1]
      BY <1>2
    <3>1. z <= consumed /\ consumed <= c /\ c <= x /\ x <= y
      BY <1>2, <3>a, <3>b, <3>c, <3>d, Zenon
    <3>2. w \in Nat \ {0} /\ consumed \in Nat
      BY <1>2
    <3>3. z <= y
      BY <3>1, <3>2
    <3> HIDE DEF w
    <3>4. /\ x + w - 1 \in Nat /\ y + w - 1 \in Nat
          /\ z <= y + w - 1 /\ x + w - 1 <= y + w - 1
      BY <3>1, <3>2, <3>3
    <3>5. QED BY <3>2, <3>4, <3>a, <3>b, <3>c, Zenon
  <2>2. first = s \div w /\ last = f \div w /\ end = e \div w
    BY DEF Chunk, ChunksFor
  <2> HIDE DEF w, s, f, e, first, last, end
  <2>3. QED BY <2>1, <2>2, RoundingOrder
<1> HIDE DEF first, last, end
<1>7. /\ capacity \in Nat \ {0} /\ old.capacity + needed <= capacity /\ needed \in Nat
  <2>1. needed \in Nat
    BY <1>4, <1>5, <1>6
  <2> HIDE DEF needed, old
  <2>2. /\ (needed + old.capacity - 1) \div old.capacity \in Nat
        /\ needed <= ((needed + old.capacity - 1) \div old.capacity) * old.capacity
    BY <1>3, <2>1, RoundingUp
  <2>3. RoundUp(needed, old.capacity) \in Nat /\ needed <= RoundUp(needed, old.capacity)
    BY <1>3, <2>2, Products DEF RoundUp
  <2>4. QED BY <1>3, <2>1, <2>3
<1> HIDE DEF capacity
<1>8. /\ size \in Nat \ {0}
      /\ end * BlockWidth <= first * BlockWidth + size
      /\ last * BlockWidth <= end * BlockWidth
      /\ last * BlockWidth \in Nat /\ end * BlockWidth \in Nat
  <2>1. needed <= capacity
    BY <1>3, <1>7
  <2>2. needed * BlockWidth <= size /\ size \in Nat \ {0}
    BY <1>2, <1>7, <2>1, Products
  <2>3. (needed + first) * BlockWidth = needed * BlockWidth + first * BlockWidth
        /\ needed * BlockWidth \in Nat
    BY <1>2, <1>4, <1>7, Products
  <2>4. needed + first = end
    BY <1>4, <1>5
  <2>5. end * BlockWidth = needed * BlockWidth + first * BlockWidth
    BY <2>3, <2>4
  <2>6. last * BlockWidth <= end * BlockWidth /\ last * BlockWidth \in Nat
        /\ end * BlockWidth \in Nat
    BY <1>2, <1>5, <1>6, Products
  <2> HIDE DEF needed, size
  <2>7. QED BY <1>4, <2>2, <2>3, <2>5, <2>6
<1>17. Slots(base) <= size
  <2>1. old.capacity <= capacity
    BY <1>3, <1>7
  <2> HIDE DEF needed
  <2>2. old.capacity * BlockWidth <= size
    BY <1>2, <1>3, <1>7, <2>1, Products
  <2>3. QED BY <2>2 DEF Slots
<1> HIDE DEF size, needed
<1>9. to[t] <= seenConsumed[t] + size
  <2> DEFINE p == first * BlockWidth
             q == end * BlockWidth
  <2>1. /\ p \in Nat /\ p <= seenConsumed[t] /\ q \in Nat /\ to[t] <= q
        /\ q <= p + size /\ size \in Nat
        /\ to[t] \in Nat /\ seenConsumed[t] \in Nat
    BY <1>2, <1>4, <1>5, <1>8
  <2> HIDE DEF p, q
  <2>2. QED BY <2>1
<1>10. ASSUME NEW i \in copied, NEW j \in copied, i % size = j % size
       PROVE  i = j
  <2>1. /\ i \in Nat /\ j \in Nat
        /\ first * BlockWidth <= i /\ i < first * BlockWidth + size
        /\ first * BlockWidth <= j /\ j < first * BlockWidth + size
    BY <1>4, <1>8
  <2>2. QED BY <1>4, <1>8, <1>10, <2>1, SameSlot
<1>11. \A i \in copied : i \in Nat
  BY <1>4
<1>12. content \in [0 .. size - 1 -> Items \union {Unwritten}]
  <2> SUFFICES ASSUME NEW s \in 0 .. size - 1
               PROVE  content[s] \in Items \union {Unwritten}
    OBVIOUS
  <2> DEFINE c == CHOOSE i \in copied : i % size = s
  <2>1. CASE \E i \in copied : i % size = s
    <3>1. c \in copied
      BY <2>1
    <3>2. c \in Nat
      BY <1>11, <3>1
    <3> HIDE DEF c
    <3>3. c % Slots(base) \in 0 .. Slots(base) - 1
      BY <1>3, <3>2, Division
    <3>4. old.content[c % Slots(base)] \in Items \union {Unwritten}
      BY <1>3, <3>3
    <3>5. QED BY <2>1, <3>4 DEF c
  <2>2. CASE ~ \E i \in copied : i % size = s
    BY <2>2
  <2>3. QED BY <2>1, <2>2
<1>13. ASSUME NEW i \in consumed .. count[1] - 1
       PROVE  content[i % size] = i
  <2>1. i \in Nat /\ first * BlockWidth <= i /\ i < last * BlockWidth
    BY <1>2, <1>4, <1>5, <1>8
  <2>2. i \in copied
    BY <1>4, <1>8, <2>1
  <2> DEFINE s == i % size
             c == CHOOSE j \in copied : j % size = s
  <2>3. c \in copied /\ c % size = s
    BY <2>2
  <2>4. c = i
    <3> HIDE DEF c, copied
    <3>1. QED BY <1>10, <2>2, <2>3
  <2>5. s \in 0 .. size - 1
    BY <1>8, <2>1, Division
  <2>6. content[s] = old.content[c % Slots(base)]
    BY <2>2, <2>5
  <2>7. HoldsItem(base, i)
    BY DEF ContentState, ItemsInPlace
  <2>8. QED BY <2>4, <2>6, <2>7 DEF HoldsItem
<1> HIDE DEF content
<1>14. /\ Len(buffers') = Len(buffers) + 1 /\ buffers'[Len(buffers) + 1] = new
       /\ \A b \in 1 .. Len(buffers) : buffers'[b] = buffers[b]
  <2>1. \E S : buffers \in Seq(S)
    BY StateFacts, Zenon DEF BufferList
  <2> HIDE DEF new
  <2>2. QED BY <1>1, <2>1, Appended
<1>15. new.capacity = capacity /\ new.freed = 0 /\ new.content = content
  OBVIOUS
<1> HIDE DEF new
<1>18. LET s == new.capacity * BlockWidth
       IN  /\ s = size /\ s \in Nat
           /\ \A i \in consumed .. count[1] - 1 : new.content[i % s] = i
  BY <1>8, <1>13, <1>15 DEF size
<1> HIDE DEF size
<1>16. QED BY <1>7, <1>9, <1>12, <1>14, <1>15, <1>17, <1>18

\* An expansion replaces the buffer, and readers keep the replaced one.
LEMMA ExpandContent ==
  ASSUME ContentState, NEW t \in Threads, Expand(t)
  PROVE  Content'
<1> DEFINE entry == [buffer |-> base, mark |-> SafeToDeleteAt(t)]
           size == buffers'[Len(buffers) + 1].capacity * BlockWidth
<1>1. /\ base' = Len(buffers) + 1 /\ pending' = Added(entry)
      /\ UNCHANGED <<pipeline, count, internal, consumed, kernelId>>
      /\ UNCHANGED <<from, to, seenConsumed, view, avail>>
      /\ pc' = [pc EXCEPT ![t] = "ready"]
  BY DEF Expand, counts, locals, Goto
<1>2. /\ CurrentIsLatest /\ RoomKept /\ NoGaps /\ ItemsInPlace /\ ViewsKept
      /\ consumed \in Nat /\ count[1] \in Nat /\ Len(buffers) \in Nat
      /\ PendingShape /\ BlockWidth \in Nat
      /\ base \in 1 .. Len(buffers) /\ base = Len(buffers)
      /\ \A u \in Threads : avail[u] \in Nat /\ seenConsumed[u] \in Nat /\ to[u] \in Nat
      /\ pc \in [Threads -> ControlPoints]
      /\ from[t] \in Nat /\ Slots(base) \in Nat
  BY StateFacts, ThreadFacts, BufferFacts DEF ContentState
<1>3. /\ Len(buffers') = Len(buffers) + 1
      /\ \A b \in 1 .. Len(buffers) : buffers'[b] = buffers[b]
      /\ buffers'[base'].freed = 0
      /\ size \in Nat /\ Slots(base) <= size
      /\ to[t] <= seenConsumed[t] + size
      /\ \A i \in consumed .. count[1] - 1 : buffers'[base'].content[i % size] = i
  BY <1>1, ExpansionCopies
<1>4. /\ InKernel(t, 1) /\ RoomFor(t) /\ kernelId[t] = 1 /\ count[1] <= from[t]
      /\ \A u \in Threads \ {t} : ~ InKernel(u, 1)
      /\ At(t, "expand")
  BY ExpandAlone, ThreadFacts
<1>5. pc'[t] = "ready" /\ \A u \in Threads \ {t} : Still(u)
  BY <1>1, <1>2 DEF Still
<1>6. /\ BlockWidth' = BlockWidth /\ DataParallel' = DataParallel
      /\ ItemCount(1)' = ItemCount(1) /\ Slots(base)' = size
      /\ \A i : HoldsItem(base, i)' <=> buffers'[base'].content[i % size] = i
  BY <1>1 DEF BlockWidth, DataParallel, ItemCount, Slots, HoldsItem
<1>7. /\ PendingEntries' \subseteq PendingEntries \union {entry}
      /\ entry.buffer = base /\ entry.mark \in Nat /\ count[1] <= entry.mark
  <2>1. entry.mark \in Nat /\ count[1] <= entry.mark /\ entry \in Entries
    BY <1>2, <1>4 DEF SafeToDeleteAt, Entries
  <2> HIDE DEF entry
  <2>2. PendingEntries' \subseteq PendingEntries \union {entry}
    BY <1>1, <1>2, <2>1, AdditionBringsOne
  <2>3. QED BY <2>1, <2>2 DEF entry
<1> HIDE DEF entry, size
<1>8. CurrentIsLatest'
  <2>1. \A e \in PendingEntries' : e.buffer < base'
    <3>1. \A e \in PendingEntries : e.buffer \in Nat /\ e.buffer < base
      BY CurrentIsNotPending
    <3>2. QED BY <1>1, <1>2, <1>7, <3>1
  <2>2. \A b \in PendingBuffers' : b < base'
    BY <2>1, PendingBuffersOfEntries DEF PendingBuffers, PendingEntries
  <2>3. QED BY <1>1, <1>3, <2>2 DEF CurrentIsLatest
<1>9. RoomKept'
  <2> SUFFICES ASSUME NEW u \in Threads, Producing(u)'
               PROVE  RoomFor(u)'
    BY DEF RoomKept
  <2>1. CASE u = t
    BY <1>1, <1>2, <1>3, <1>4, <1>5, <1>6, <2>1 DEF RoomFor, At
  <2>2. CASE u # t
    <3>1. Still(u) /\ ~ InKernel(u, 1)
      BY <1>4, <1>5, <2>2
    <3>2. RoomFor(u)
      BY <1>2, <3>1 DEF RoomKept, Producing, Active, At, Still
    <3>3. pc[u] \notin {"expand", "ready", "run", "loopExit"}
      BY <3>1, <3>2 DEF InKernel, RoomFor
    <3>4. /\ pc'[u] = pc[u] /\ kernelId'[u] = kernelId[u] /\ consumed' = consumed
          /\ seenConsumed'[u] = seenConsumed[u] /\ to'[u] = to[u] /\ avail'[u] = avail[u]
      BY <1>1, <3>1 DEF Still
    <3>5. to[u] <= seenConsumed[u] + Slots(base)
      BY <3>2, <3>3 DEF RoomFor
    <3>6. to[u] <= seenConsumed[u] + size
      BY <1>2, <1>3, <3>5
    <3>7. to'[u] <= seenConsumed'[u] + Slots(base)'
      BY <1>6, <3>4, <3>6, Zenon
    <3>8. QED BY <3>2, <3>3, <3>4, <3>7 DEF RoomFor, At
  <2>3. QED BY <2>1, <2>2
<1>10. \A i : BeingPublished(i) => BeingPublished(i)'
  BY <1>4, <1>5 DEF BeingPublished, Publishing, Still, At
<1>11. NoGaps'
  <2>1. \A u \in Threads : InKernel(u, 1)' => InKernel(u, 1)
    BY <1>4, <1>5 DEF InKernel, Still
  <2>2. QED BY <1>1, <1>2, <1>6, <1>10, <2>1 DEF NoGaps
<1>12. ItemsInPlace'
  <2>1. \A i \in consumed' .. count'[1] - 1 : HoldsItem(base, i)'
    BY <1>1, <1>3, <1>6
  <2>2. ASSUME NEW u \in Threads, kernelId'[u] = 1, At(u, "loopExit")'
        PROVE  FALSE
    BY <1>4, <1>5, <2>2 DEF InKernel, Still, At
  <2>3. QED BY <2>1, <2>2 DEF ItemsInPlace
<1>13. ViewsKept'
  <2>1. \A b \in 1 .. Len(buffers) :
          /\ buffers'[b].capacity = buffers[b].capacity
          /\ \A i \in consumed' .. count[1] - 1 :
               HoldsItem(b, i) => buffers'[b].content[i % Slots(b)] = i
    BY <1>3 DEF HoldsItem
  <2>2. ASSUME NEW u \in Threads, Downstream(u), consumed < avail[u]
        PROVE  buffers'[view[u].buffer].freed = 0
    <3>1. view[u].buffer \in 1 .. Len(buffers) /\ buffers[view[u].buffer].freed = 0
      BY <1>2, <2>2, MappedForReaders DEF ViewsKept, ViewKept
    <3>2. QED BY <1>3, <3>1
  <2>3. \A u \in Threads : Downstream(u)' => Downstream(u)
    BY <1>1, <1>4, <1>5 DEF Downstream, Active, Still, At
  <2>4. QED BY <1>1, <1>2, <1>3, <1>6, <1>7, <2>1, <2>2, <2>3, ViewsKeep
<1>14. QED BY <1>8, <1>9, <1>11, <1>12, <1>13 DEF Content

\* A producer that is invoked takes over the items up to the end of its segment.
LEMMA InvokeContent ==
  ASSUME ContentState, NEW t \in Threads, Invoke(t), kernelId[t] = 1
  PROVE  Content'
<1>1. /\ buffers' = buffers /\ base' = base /\ pending' = pending
      /\ UNCHANGED <<pipeline, count, consumed, from, to, seenConsumed, avail, kernelId>>
      /\ At(t, "ready") /\ pc' = [pc EXCEPT ![t] = "run"]
      /\ internal' = IF 1 \in DataParallel THEN [internal EXCEPT ![1] = to[t]] ELSE internal
      /\ view' = [view EXCEPT ![t] = [buffer |-> base, at |-> from[t]]]
  BY DEF Invoke, memory, Goto
<1>2. /\ CurrentIsLatest /\ RoomKept /\ NoGaps /\ ItemsInPlace /\ ViewsKept
      /\ consumed \in Nat /\ count[1] \in Nat /\ Len(buffers) \in Nat
      /\ \A u \in Threads : from[u] \in Nat /\ to[u] \in Nat
      /\ pc \in [Threads -> ControlPoints] /\ view \in [Threads -> Views]
      /\ internal \in [Kernels -> 0 .. MaxItems] /\ 1 \in Kernels
  BY StateFacts, ThreadFacts DEF ContentState, CountsBounded
<1>3. /\ BlockWidth' = BlockWidth /\ DataParallel' = DataParallel
      /\ \A b, i : HoldsItem(b, i)' <=> HoldsItem(b, i)
      /\ \A b : Slots(b)' = Slots(b)
      /\ PendingEntries' = PendingEntries
  BY <1>1 DEF BlockWidth, DataParallel, HoldsItem, Slots, PendingEntries
<1>4. /\ \A u \in Threads \ {t} : Still(u)
      /\ pc'[t] = "run" /\ view'[t] = [buffer |-> base, at |-> from[t]]
      /\ InKernel(t, 1) /\ Producing(t)
  BY <1>1, <1>2 DEF Still, InKernel, At, Producing, Active
<1>5. CurrentIsLatest'
  BY <1>1, <1>2 DEF CurrentIsLatest, PendingBuffers
<1>6. RoomKept'
  <2> SUFFICES ASSUME NEW u \in Threads, Producing(u)'
               PROVE  RoomFor(u)'
    BY DEF RoomKept
  <2>1. Slots(base)' = Slots(base)
    BY <1>1 DEF Slots, BlockWidth
  <2>2. CASE u = t
    <3>1. RoomFor(t)
      BY <1>2, <1>4 DEF RoomKept
    <3>2. QED BY <1>1, <1>4, <2>1, <2>2, <3>1 DEF RoomFor, At
  <2>3. CASE u # t
    <3>1. Still(u)
      BY <1>4, <2>3
    <3>2. RoomFor(u)
      BY <1>2, <3>1 DEF RoomKept, Producing, Active, At, Still
    <3>3. QED BY <1>1, <2>1, <3>1, <3>2 DEF RoomFor, Still, At
  <2>4. QED BY <2>2, <2>3
<1>7. \A i : BeingPublished(i) => BeingPublished(i)'
  BY <1>1, <1>4 DEF BeingPublished, Publishing, Still
<1>8. NoGaps'
  <2>1. \A i \in from[t] .. to[t] - 1 : BeingPublished(i)'
    BY <1>1, <1>2, <1>4 DEF BeingPublished, Publishing, InKernel
  <2>2. \A i \in count[1] .. from[t] - 1 : BeingPublished(i)'
    BY <1>2, <1>4, <1>7 DEF NoGaps
  <2>3. \A i \in count[1] .. to[t] - 1 : BeingPublished(i)'
    BY <1>2, <2>1, <2>2
  <2>4. \A i \in count'[1] .. ItemCount(1)' - 1 : BeingPublished(i)'
    <3>1. CASE 1 \in DataParallel
      <4>1. ItemCount(1)' = to[t]
        BY <1>1, <1>2, <1>3, <3>1 DEF ItemCount
      <4>2. QED BY <1>1, <2>3, <4>1
    <3>2. CASE 1 \notin DataParallel
      BY <1>1, <1>2, <1>3, <3>2 DEF ItemCount
    <3>3. QED BY <3>1, <3>2
  <2>5. \A u \in Threads : InKernel(u, 1)' => InKernel(u, 1)
    BY <1>4 DEF InKernel, Still
  <2>6. QED BY <1>1, <1>2, <1>7, <2>4, <2>5 DEF NoGaps
<1>9. ItemsInPlace'
  <2>1. \A u \in Threads : kernelId'[u] = 1 /\ At(u, "loopExit")' =>
                           kernelId[u] = 1 /\ At(u, "loopExit")
    BY <1>4 DEF At, Still
  <2>2. QED BY <1>1, <1>2, <1>3, <2>1 DEF ItemsInPlace
<1>10. ViewsKept'
  <2>1. \A b \in 1 .. Len(buffers) :
          /\ buffers'[b].capacity = buffers[b].capacity
          /\ \A i \in consumed' .. count[1] - 1 :
               HoldsItem(b, i) => buffers'[b].content[i % Slots(b)] = i
    BY <1>1 DEF HoldsItem
  <2>2. \A u \in Threads : Downstream(u) /\ consumed' < avail[u] =>
          buffers'[view[u].buffer].freed = 0
    BY <1>1, MappedForReaders
  <2>3. \A u \in Threads : Downstream(u)' =>
          /\ Downstream(u) /\ view'[u] = view[u] /\ seenConsumed'[u] = seenConsumed[u]
          /\ avail'[u] = avail[u]
    BY <1>1, <1>4 DEF Downstream, Active, Still
  <2>4. QED BY <1>1, <1>2, <1>3, <2>1, <2>2, <2>3, ViewsKeep
<1>11. QED BY <1>5, <1>6, <1>8, <1>9, <1>10 DEF Content

\* An item that is not before the one an address was computed at, and less than
\* a buffer behind it, is mapped, and at its own slot.
LEMMA OffsetsInViews ==
  ASSUME CountsBounded, BufferList, MemoryTypes,
         NEW v \in Views, v.buffer \in 1 .. Len(buffers), NEW i \in Nat, v.at <= i
  PROVE  /\ Offset(v, i) \in Nat
         /\ Offset(v, i) % Slots(v.buffer) = i % Slots(v.buffer)
         /\ i < v.at + Slots(v.buffer) /\ buffers[v.buffer].freed = 0 => Mapped(v, i)
<1> DEFINE b == v.buffer
           cap == buffers[b].capacity
           w == BlockWidth
           a == v.at
<1>1. /\ a \in Nat /\ w \in Nat \ {0} /\ cap \in Nat \ {0} /\ Slots(b) = cap * w
      /\ b # 0
  BY BufferFacts DEF Views
<1>2. Offset(v, i) = ((a \div w) % cap) * w + i - (a \div w) * w
  BY DEF Offset, Chunk
<1>3. Mapped(v, i) <=> /\ buffers[b].freed = 0 /\ i >= (a \div w) * w
                       /\ Offset(v, i) < 2 * Slots(b)
  BY <1>1 DEF Mapped, Chunk
<1> HIDE DEF b, cap, w, a
<1>4. /\ ((a \div w) % cap) * w + i - (a \div w) * w \in Nat
      /\ (a \div w) * w <= i /\ (a \div w) * w \in Nat
      /\ (((a \div w) % cap) * w + i - (a \div w) * w) % (cap * w) = i % (cap * w)
      /\ i < a + cap * w =>
           ((a \div w) % cap) * w + i - (a \div w) * w < 2 * (cap * w)
  <2>1. a <= i
    BY DEF a
  <2>2. a \div w \in Nat
    BY <1>1, Division
  <2>3. (a \div w) * w \in Nat
    BY <1>1, <2>2, Products
  <2>4. QED BY <1>1, <2>1, <2>3, AddressedSlot
<1>5. QED BY <1>1, <1>2, <1>3, <1>4 DEF b, a

\* Storing the items of an invocation of the producer.
LEMMA StoredItems ==
  ASSUME ContentState, NEW t \in Threads, At(t, "run"), kernelId[t] = 1,
         buffers' = Stored(view[t], from[t], to[t])
  PROVE  /\ Len(buffers') = Len(buffers)
         /\ \A b \in 1 .. Len(buffers) :
              /\ buffers'[b].capacity = buffers[b].capacity
              /\ buffers'[b].freed = buffers[b].freed
              /\ b # base => buffers'[b].content = buffers[b].content
         /\ buffers'[base].content \in [0 .. Slots(base) - 1 -> Items \union {Unwritten}]
         /\ \A i \in from[t] .. to[t] - 1 : buffers'[base].content[i % Slots(base)] = i
         /\ \A i \in consumed .. consumed + Slots(base) - 1 :
              HoldsItem(base, i) => buffers'[base].content[i % Slots(base)] = i
<1> DEFINE v == view[t]
           size == Slots(base)
           stored == { i \in from[t] .. to[t] - 1 : Mapped(v, i) }
           old == buffers[base].content
           new == [s \in DOMAIN old |->
                     IF \E i \in stored : Offset(v, i) % size = s
                       THEN CHOOSE i \in stored : Offset(v, i) % size = s
                       ELSE old[s]]
<1>1. /\ v = [buffer |-> base, at |-> from[t]]
      /\ to[t] <= seenConsumed[t] + size /\ seenConsumed[t] <= consumed
  <2>1. Producing(t)
    BY DEF Producing, Active, At
  <2>2. QED BY <2>1 DEF ContentState, RoomKept, RoomFor, At
<1>2. /\ from[t] \in Nat /\ to[t] \in Nat /\ seenConsumed[t] \in Nat
      /\ consumed \in Nat /\ count[1] \in Nat
      /\ consumed <= count[1] /\ count[1] <= from[t] /\ from[t] <= to[t]
      /\ base \in 1 .. Len(buffers) /\ Len(buffers) \in Nat
      /\ buffers[base].freed = 0 /\ to[t] <= MaxItems /\ MaxItems \in Nat
      /\ DOMAIN buffers = 1 .. Len(buffers)
  <2>1. InKernel(t, 1)
    BY DEF InKernel, At
  <2>2. to[t] \in 0 .. MaxItems /\ MaxItems \in Nat
    BY StateFacts, KernelBounds DEF CountsBounded
  <2>3. QED BY <2>1, <2>2, StateFacts, ThreadFacts DEF ContentState, CurrentIsLatest
<1>3. /\ size \in Nat \ {0} /\ old \in [0 .. size - 1 -> Items \union {Unwritten}]
  BY <1>2, StateFacts, BufferFacts DEF ContentState
<1>16. \A i \in from[t] .. to[t] - 1 :
         /\ i \in Nat /\ from[t] <= i /\ i < from[t] + size
         /\ consumed <= i /\ i < consumed + size
         /\ i \in consumed .. consumed + size - 1
  <2>1. size \in Nat
    BY <1>3, Zenon
  <2> HIDE DEF size
  <2>2. /\ to[t] <= seenConsumed[t] + size /\ seenConsumed[t] <= consumed
        /\ consumed <= count[1] /\ count[1] <= from[t]
    BY <1>1, <1>2, Zenon
  <2>3. /\ from[t] \in Nat /\ to[t] \in Nat /\ seenConsumed[t] \in Nat
        /\ consumed \in Nat /\ count[1] \in Nat
    BY <1>2, Zenon
  <2>4. QED BY <2>1, <2>2, <2>3, WithinBuffer
<1>4. ASSUME NEW i \in from[t] .. to[t] - 1
      PROVE  Mapped(v, i) /\ Offset(v, i) % size = i % size /\ i \in Nat
  <2>1. i \in Nat /\ from[t] <= i /\ i < from[t] + size
    BY <1>16
  <2>2. v \in Views /\ v.buffer = base /\ v.at = from[t]
    BY <1>1, <1>2 DEF Views
  <2> HIDE DEF v, size
  <2>3. /\ Offset(v, i) % Slots(v.buffer) = i % Slots(v.buffer)
        /\ i < v.at + Slots(v.buffer) /\ buffers[v.buffer].freed = 0 => Mapped(v, i)
    BY <1>2, <2>1, <2>2, StateFacts, OffsetsInViews DEF ContentState
  <2>4. QED BY <1>2, <2>1, <2>2, <2>3 DEF size
<1>5. stored = from[t] .. to[t] - 1
  BY <1>4
<1>6. buffers' = [buffers EXCEPT ![base].content = new]
  BY <1>1 DEF Stored
<1>7. new = [s \in 0 .. size - 1 |->
               IF \E i \in from[t] .. to[t] - 1 : i % size = s
                 THEN CHOOSE i \in from[t] .. to[t] - 1 : i % size = s
                 ELSE old[s]]
  <2>1. DOMAIN old = 0 .. size - 1
    BY <1>3
  <2>2. ASSUME NEW s
        PROVE  /\ (\E i \in stored : Offset(v, i) % size = s)
                    <=> (\E i \in from[t] .. to[t] - 1 : i % size = s)
               /\ (CHOOSE i \in stored : Offset(v, i) % size = s)
                    = (CHOOSE i \in from[t] .. to[t] - 1 : i % size = s)
    <3> HIDE DEF v, size
    <3>1. \A i : (i \in stored /\ Offset(v, i) % size = s)
                   <=> (i \in from[t] .. to[t] - 1 /\ i % size = s)
      BY <1>4, <1>5
    <3> HIDE DEF stored
    <3>2. QED BY <3>1
  <2> HIDE DEF old, stored, size, v
  <2>3. QED BY <2>1, <2>2
<1> HIDE DEF v, stored
<1>8. ASSUME NEW i \in Nat, consumed <= i, i < consumed + size,
             NEW j \in from[t] .. to[t] - 1, j % size = i % size
      PROVE  j = i
  <2>1. j \in Nat /\ consumed <= j /\ j < consumed + size
    BY <1>16
  <2>2. QED BY <1>2, <1>3, <1>8, <2>1, SameSlot
<1> DEFINE c(s) == CHOOSE i \in from[t] .. to[t] - 1 : i % size = s
<1>9. \A s \in 0 .. size - 1 :
        /\ (\E i \in from[t] .. to[t] - 1 : i % size = s) =>
             /\ new[s] = c(s)
             /\ c(s) \in from[t] .. to[t] - 1 /\ c(s) % size = s
        /\ ~ (\E i \in from[t] .. to[t] - 1 : i % size = s) => new[s] = old[s]
  BY <1>7
<1>10. new \in [0 .. size - 1 -> Items \union {Unwritten}]
  <2>1. from[t] .. to[t] - 1 \subseteq Items
    BY <1>2 DEF Items
  <2>2. \A s \in 0 .. size - 1 : new[s] \in Items \union {Unwritten}
    <3> HIDE DEF new, c, old
    <3>1. QED BY <1>3, <1>9, <2>1
  <2>3. QED BY <1>7, <2>2
<1> HIDE DEF new, c, old
<1>11. ASSUME NEW i \in consumed .. consumed + size - 1,
              i \in from[t] .. to[t] - 1 \/ old[i % size] = i
       PROVE  new[i % size] = i
  <2>1. i \in Nat /\ i % size \in 0 .. size - 1 /\ consumed <= i /\ i < consumed + size
    <3>1. i \in Nat /\ consumed <= i /\ i < consumed + size
      BY <1>2, <1>3
    <3>2. i % size \in 0 .. size - 1
      BY <1>3, <3>1, Division
    <3>3. QED BY <3>1, <3>2
  <2>2. CASE \E j \in from[t] .. to[t] - 1 : j % size = i % size
    BY <1>8, <1>9, <2>1, <2>2
  <2>3. CASE ~ \E j \in from[t] .. to[t] - 1 : j % size = i % size
    BY <1>9, <1>11, <2>1, <2>3
  <2>4. QED BY <2>2, <2>3
<1>12. \A i \in from[t] .. to[t] - 1 : new[i % size] = i
  <2>1. \A i \in from[t] .. to[t] - 1 : i \in consumed .. consumed + size - 1
    BY <1>16
  <2>2. QED BY <1>11, <2>1
<1>13. \A i \in consumed .. consumed + size - 1 : HoldsItem(base, i) => new[i % size] = i
  BY <1>11 DEF HoldsItem, old
<1>14. /\ Len(buffers') = Len(buffers)
       /\ buffers'[base].content = new
       /\ \A b \in 1 .. Len(buffers) :
            /\ buffers'[b].capacity = buffers[b].capacity
            /\ buffers'[b].freed = buffers[b].freed
            /\ b # base => buffers'[b].content = buffers[b].content
  <2>1. PICK S : buffers \in Seq([capacity : S, freed : Nat, content : S])
    BY StateFacts DEF BufferList
  <2>2. \A b \in DOMAIN buffers : buffers[b] \in [capacity : S, freed : Nat, content : S]
    BY <2>1, SequenceElements, Zenon
  <2>3. /\ DOMAIN buffers' = DOMAIN buffers
        /\ \A b \in DOMAIN buffers :
             buffers'[b] = IF b = base THEN [buffers[b] EXCEPT !.content = new] ELSE buffers[b]
    BY <1>6
  <2>4. Len(buffers') = Len(buffers)
    BY <1>6, <2>1
  <2>5. QED BY <1>2, <2>2, <2>3, <2>4
<1>15. QED BY <1>10, <1>12, <1>13, <1>14

\* The producer stores its items and nothing else that matters.
LEMMA ReturnContent ==
  ASSUME ContentState, NEW t \in Threads, Return(t), kernelId[t] = 1
  PROVE  Content'
<1>1. /\ base' = base /\ pending' = pending /\ At(t, "run")
      /\ buffers' = Stored(view[t], from[t], to[t])
      /\ UNCHANGED <<pipeline, count, internal, consumed, kernelId>>
      /\ UNCHANGED <<from, to, seenConsumed, view, avail>>
      /\ pc' = [pc EXCEPT ![t] = "loopExit"]
  BY DEF Return, counts, locals, Goto
<1>2. /\ CurrentIsLatest /\ RoomKept /\ NoGaps /\ ItemsInPlace /\ ViewsKept
      /\ consumed \in Nat /\ count[1] \in Nat /\ Len(buffers) \in Nat
      /\ consumed <= count[1]
      /\ base \in 1 .. Len(buffers) /\ Slots(base) \in Nat
      /\ \A u \in Threads : from[u] \in Nat /\ to[u] \in Nat /\ seenConsumed[u] \in Nat
      /\ pc \in [Threads -> ControlPoints]
  <2>1. Slots(base) \in Nat
    BY StateFacts, BufferFacts DEF ContentState
  <2>2. QED BY <2>1, StateFacts, ThreadFacts DEF ContentState
<1>3. /\ Len(buffers') = Len(buffers)
      /\ \A b \in 1 .. Len(buffers) :
           /\ buffers'[b].capacity = buffers[b].capacity
           /\ buffers'[b].freed = buffers[b].freed
           /\ b # base => buffers'[b].content = buffers[b].content
      /\ \A i \in from[t] .. to[t] - 1 : buffers'[base].content[i % Slots(base)] = i
      /\ \A i \in consumed .. consumed + Slots(base) - 1 :
           HoldsItem(base, i) => buffers'[base].content[i % Slots(base)] = i
  BY <1>1, StoredItems, Zenon
<1>4. /\ BlockWidth' = BlockWidth /\ DataParallel' = DataParallel
      /\ ItemCount(1)' = ItemCount(1)
      /\ Slots(base)' = Slots(base)
      /\ \A i : HoldsItem(base, i)' <=> buffers'[base].content[i % Slots(base)] = i
      /\ PendingEntries' = PendingEntries /\ PendingBuffers' = PendingBuffers
  BY <1>1, <1>2, <1>3 DEF BlockWidth, DataParallel, ItemCount, HoldsItem, Slots, PendingEntries,
                          PendingBuffers
<1>5. /\ \A u \in Threads \ {t} : Still(u)
      /\ pc'[t] = "loopExit" /\ InKernel(t, 1) /\ Producing(t)
  BY <1>1, <1>2 DEF Still, InKernel, At, Producing, Active
\* Items up to the end of any invocation are within one buffer.
<1>6. ASSUME NEW u \in Threads, InKernel(u, 1), ~ At(u, "expand"), kernelId[u] = 1
      PROVE  /\ consumed <= from[u] /\ count[1] <= from[u] /\ from[u] <= to[u]
             /\ to[u] <= consumed + Slots(base)
  <2>1. Producing(u)
    BY <1>6 DEF Producing, InKernel, Active
  <2>2. RoomFor(u)
    BY <1>2, <2>1 DEF RoomKept
  <2>3. count[1] <= from[u] /\ from[u] <= to[u]
    BY <1>6, ThreadFacts
  <2>4. QED BY <1>2, <1>6, <2>2, <2>3 DEF RoomFor, At
<1>7. \A i \in consumed .. count[1] - 1 : HoldsItem(base, i) =>
        buffers'[base].content[i % Slots(base)] = i
  <2>1. count[1] <= from[t] /\ from[t] <= to[t] /\ to[t] <= consumed + Slots(base)
    BY <1>1, <1>5, <1>6 DEF At
  <2>2. count[1] <= consumed + Slots(base)
    BY <1>2, <2>1
  <2>3. \A i \in consumed .. count[1] - 1 : i \in consumed .. consumed + Slots(base) - 1
    BY <1>2, <2>2
  <2>4. QED BY <1>3, <2>3, Zenon
<1>8. CurrentIsLatest'
  BY <1>1, <1>2, <1>3, <1>4 DEF CurrentIsLatest
<1>9. RoomKept'
  <2> SUFFICES ASSUME NEW u \in Threads, Producing(u)'
               PROVE  RoomFor(u)'
    BY DEF RoomKept
  <2>1. CASE u = t
    <3>1. RoomFor(t)
      BY <1>2, <1>5 DEF RoomKept
    <3>2. QED BY <1>1, <1>4, <1>5, <2>1, <3>1 DEF RoomFor, At
  <2>2. CASE u # t
    <3>1. Still(u)
      BY <1>5, <2>2
    <3>2. RoomFor(u)
      BY <1>2, <3>1 DEF RoomKept, Producing, Active, At, Still
    <3>3. QED BY <1>1, <1>4, <3>1, <3>2 DEF RoomFor, Still, At
  <2>3. QED BY <2>1, <2>2
<1>10. \A i : BeingPublished(i) => BeingPublished(i)'
  BY <1>1, <1>5 DEF BeingPublished, Publishing, Still
<1>11. NoGaps'
  <2>1. \A u \in Threads : InKernel(u, 1)' => InKernel(u, 1)
    BY <1>5 DEF InKernel, Still
  <2>2. QED BY <1>1, <1>2, <1>4, <1>10, <2>1 DEF NoGaps
<1>12. ItemsInPlace'
  <2>1. \A i \in consumed' .. count'[1] - 1 : HoldsItem(base, i)'
    BY <1>1, <1>2, <1>4, <1>7 DEF ItemsInPlace
  <2>2. ASSUME NEW u \in Threads, kernelId'[u] = 1, At(u, "loopExit")'
        PROVE  \A i \in from'[u] .. to'[u] - 1 : HoldsItem(base, i)'
    <3>1. CASE u = t
      BY <1>1, <1>3, <1>4, <3>1
    <3>2. CASE u # t
      <4>1. kernelId[u] = 1 /\ At(u, "loopExit") /\ InKernel(u, 1) /\ ~ At(u, "expand")
        BY <1>5, <2>2, <3>2 DEF Still, At, InKernel
      <4>2. \A i \in from[u] .. to[u] - 1 :
              HoldsItem(base, i) /\ i \in consumed .. consumed + Slots(base) - 1
        <5>1. \A i \in from[u] .. to[u] - 1 : HoldsItem(base, i)
          BY <1>2, <4>1 DEF ItemsInPlace
        <5>2. consumed <= from[u] /\ to[u] <= consumed + Slots(base)
          BY <1>6, <4>1
        <5>3. PICK f \in Nat : f = from[u]
          BY <1>2
        <5>4. PICK x \in Nat : x = to[u]
          BY <1>2
        <5>5. PICK n \in Nat : n = Slots(base)
          BY <1>2
        <5>6. consumed \in Nat /\ consumed <= f /\ x <= consumed + n
          BY <1>2, <5>2, <5>3, <5>4, <5>5
        <5>7. \A i \in f .. x - 1 : i \in consumed .. consumed + n - 1
          BY <5>6
        <5>8. QED BY <5>1, <5>3, <5>4, <5>5, <5>7, Zenon
      <4>3. QED BY <1>1, <1>3, <1>4, <4>2
    <3>3. QED BY <3>1, <3>2
  <2>3. QED BY <2>1, <2>2 DEF ItemsInPlace
<1>13. ViewsKept'
  <2>1. ASSUME NEW b \in 1 .. Len(buffers)
        PROVE  \A i \in consumed .. count[1] - 1 :
                 HoldsItem(b, i) => buffers'[b].content[i % Slots(b)] = i
    <3>1. CASE b = base
      BY <1>7, <3>1
    <3>2. CASE b # base
      BY <1>3, <3>2 DEF HoldsItem
    <3>3. QED BY <3>1, <3>2
  <2>2. ASSUME NEW u \in Threads, Downstream(u), consumed < avail[u]
        PROVE  buffers'[view[u].buffer].freed = 0
    <3>1. view[u].buffer \in 1 .. Len(buffers) /\ buffers[view[u].buffer].freed = 0
      BY <1>2, <2>2, MappedForReaders DEF ViewsKept, ViewKept
    <3>2. QED BY <1>3, <3>1
  <2>3. \A u \in Threads : Downstream(u)' => Downstream(u)
    BY <1>1, <1>5 DEF Downstream, Active, Still
  <2>4. QED BY <1>1, <1>2, <1>3, <1>4, <2>1, <2>2, <2>3, ViewsKeep
<1>14. QED BY <1>8, <1>9, <1>11, <1>12, <1>13 DEF Content

\* The producer reports its items, and all items before them are reported too.
LEMMA LoopExitContent ==
  ASSUME ContentState, NEW t \in Threads, LoopExit(t), kernelId[t] = 1
  PROVE  Content'
<1>1. /\ buffers' = buffers /\ base' = base /\ pending' = pending
      /\ UNCHANGED <<pipeline, internal, consumed, kernelId>>
      /\ UNCHANGED <<from, to, seenConsumed, view>>
      /\ At(t, "loopExit") /\ pc' = [pc EXCEPT ![t] = "exit"]
      /\ count' = [count EXCEPT ![1] = to[t]]
      /\ avail' = [avail EXCEPT ![t] = to[t]]
  BY DEF LoopExit, memory, Goto
<1>2. /\ CurrentIsLatest /\ RoomKept /\ NoGaps /\ ItemsInPlace /\ ViewsKept
      /\ CountState /\ 1 \in Kernels
      /\ consumed \in Nat /\ count[1] \in Nat /\ Len(buffers) \in Nat
      /\ internal[1] \in Nat
      /\ \A u \in Threads : from[u] \in Nat /\ to[u] \in Nat
      /\ pc \in [Threads -> ControlPoints] /\ avail \in [Threads -> 0 .. MaxItems]
      /\ count \in [Kernels -> 0 .. MaxItems]
  BY StateFacts, ThreadFacts DEF ContentState, CountsBounded
<1>3. /\ BlockWidth' = BlockWidth /\ DataParallel' = DataParallel
      /\ \A i : HoldsItem(base, i)' <=> HoldsItem(base, i)
      /\ PendingEntries' = PendingEntries
  BY <1>1 DEF BlockWidth, DataParallel, HoldsItem, Slots, PendingEntries
<1>4. /\ \A u \in Threads \ {t} : Still(u)
      /\ pc'[t] = "exit" /\ count'[1] = to[t] /\ avail'[t] = to[t]
      /\ Producing(t) /\ Active(t) /\ InKernel(t, 1)
      /\ count[1] <= from[t] /\ from[t] <= to[t]
  <2>1. InKernel(t, 1) /\ Producing(t) /\ Active(t)
    BY <1>1 DEF InKernel, At, Producing, Active
  <2>2. QED BY <1>1, <1>2, <2>1, ThreadFacts DEF Still
<1>5. \A u \in Threads \ {t} : InKernel(u, 1) => to[t] <= from[u]
  <2>1. MayExit(t, 1)
    BY <1>2, LoopExitChain
  <2>2. QED BY <1>2, <1>4, <2>1, ExitChain
<1>6. CurrentIsLatest'
  BY <1>1, <1>2 DEF CurrentIsLatest, PendingBuffers
<1>7. RoomKept'
  <2> SUFFICES ASSUME NEW u \in Threads, Producing(u)'
               PROVE  RoomFor(u)'
    BY DEF RoomKept
  <2>1. Slots(base)' = Slots(base)
    BY <1>1 DEF Slots, BlockWidth
  <2>2. CASE u = t
    <3>1. RoomFor(t)
      BY <1>2, <1>4 DEF RoomKept
    <3>2. QED BY <1>1, <1>4, <2>1, <2>2, <3>1 DEF RoomFor, At
  <2>3. CASE u # t
    <3>1. Still(u)
      BY <1>4, <2>3
    <3>2. RoomFor(u)
      BY <1>2, <3>1 DEF RoomKept, Producing, Active, At, Still
    <3>3. QED BY <1>1, <2>1, <3>1, <3>2 DEF RoomFor, Still, At
  <2>4. QED BY <2>2, <2>3
<1>8. ASSUME NEW i, BeingPublished(i), i \in Nat, to[t] <= i
      PROVE  BeingPublished(i)'
  <2>1. PICK u \in Threads : Publishing(u) /\ from[u] <= i /\ i < to[u]
    BY <1>8 DEF BeingPublished
  <2>2. u # t
    BY <1>2, <1>8, <2>1
  <2>3. QED BY <1>1, <1>4, <2>1, <2>2 DEF BeingPublished, Publishing, Still
<1>9. NoGaps'
  <2>1. \A i \in count'[1] .. ItemCount(1)' - 1 : BeingPublished(i)'
    <3>1. CASE 1 \in DataParallel
      <4>1. ItemCount(1)' = ItemCount(1) /\ ItemCount(1) \in Nat
        BY <1>1, <1>2, <1>3, <3>1 DEF ItemCount
      <4>2. \A i \in to[t] .. ItemCount(1) - 1 :
              BeingPublished(i) /\ i \in Nat /\ to[t] <= i
        BY <1>2, <1>4, <4>1 DEF NoGaps
      <4>3. QED BY <1>4, <1>8, <4>1, <4>2
    <3>2. CASE 1 \notin DataParallel
      <4>1. ItemCount(1)' = to[t]
        BY <1>3, <1>4, <3>2 DEF ItemCount
      <4>2. QED BY <1>2, <1>4, <4>1
    <3>3. QED BY <3>1, <3>2
  <2>2. ASSUME NEW u \in Threads, InKernel(u, 1)'
        PROVE  \A i \in count'[1] .. from'[u] - 1 : BeingPublished(i)'
    <3>1. InKernel(u, 1) /\ from'[u] = from[u]
      BY <1>1, <1>4, <2>2 DEF InKernel, Still
    <3>2. \A i \in to[t] .. from[u] - 1 : BeingPublished(i) /\ i \in Nat /\ to[t] <= i
      BY <1>2, <1>4, <3>1 DEF NoGaps
    <3>3. QED BY <1>4, <1>8, <3>1, <3>2
  <2>3. QED BY <2>1, <2>2 DEF NoGaps
<1>10. ItemsInPlace'
  <2>1. ASSUME NEW i \in consumed .. to[t] - 1
        PROVE  HoldsItem(base, i)
    <3>1. CASE i < count[1]
      BY <1>2, <3>1 DEF ItemsInPlace
    <3>2. CASE from[t] <= i
      BY <1>1, <1>2, <3>2 DEF ItemsInPlace
    <3>3. CASE count[1] <= i /\ i < from[t]
      <4>1. BeingPublished(i)
        BY <1>2, <1>4, <3>3 DEF NoGaps
      <4>2. PICK u \in Threads : Publishing(u) /\ from[u] <= i /\ i < to[u]
        BY <4>1 DEF BeingPublished
      <4>3. InKernel(u, 1)
        BY <4>2 DEF Publishing, InKernel
      <4>4. to[t] <= from[u] \/ u = t
        BY <1>5, <4>3
      <4>5. QED BY <1>2, <1>4, <3>3, <4>2, <4>4
    <3>4. QED BY <1>2, <3>1, <3>2, <3>3
  <2>2. \A i \in consumed' .. count'[1] - 1 : HoldsItem(base, i)'
    BY <1>1, <1>3, <1>4, <2>1
  <2>3. \A u \in Threads : kernelId'[u] = 1 /\ At(u, "loopExit")' =>
                           kernelId[u] = 1 /\ At(u, "loopExit")
    BY <1>4 DEF At, Still
  <2>4. \A u \in Threads : kernelId'[u] = 1 /\ At(u, "loopExit")' =>
          \A i \in from'[u] .. to'[u] - 1 : HoldsItem(base, i)'
    BY <1>1, <1>2, <1>3, <2>3 DEF ItemsInPlace
  <2>5. QED BY <2>2, <2>4 DEF ItemsInPlace
<1>11. ViewsKept'
  <2>1. \A b \in 1 .. Len(buffers) :
          /\ buffers'[b].capacity = buffers[b].capacity
          /\ \A i \in consumed' .. count[1] - 1 :
               HoldsItem(b, i) => buffers'[b].content[i % Slots(b)] = i
    BY <1>1 DEF HoldsItem
  <2>2. \A u \in Threads : Downstream(u) /\ consumed' < avail[u] =>
          buffers'[view[u].buffer].freed = 0
    BY <1>1, MappedForReaders
  <2>3. \A u \in Threads : Downstream(u)' =>
          /\ Downstream(u) /\ view'[u] = view[u] /\ seenConsumed'[u] = seenConsumed[u]
          /\ avail'[u] = avail[u]
    <3>1. ~ Downstream(t)'
      BY <1>1 DEF Downstream, LoopExit
    <3>2. QED BY <1>1, <1>4, <3>1 DEF Downstream, Active, Still
  <2>4. QED BY <1>1, <1>2, <1>3, <2>1, <2>2, <2>3, ViewsKeep
<1>12. QED BY <1>6, <1>7, <1>9, <1>10, <1>11 DEF Content

-----------------------------------------------------------------------------
(* Types.                                                                  *)

LEMMA SameMemoryTypes ==
  ASSUME MemoryTypes, UNCHANGED <<pipeline, memory>>,
         seenConsumed' \in [Threads -> Nat], view' \in [Threads -> Views]
  PROVE  MemoryTypes'
<1>1. buffers' = buffers /\ base' = base /\ BlockWidth' = BlockWidth
  BY DEF memory, BlockWidth
<1>2. QED BY <1>1 DEF MemoryTypes

\* Unmapping leaves what buffers are.
LEMMA UnmappedTypes ==
  ASSUME MemoryTypes, BufferList, NEW bs, buffers' = Unmapped(bs), BlockWidth' = BlockWidth,
         base' \in {0, base},
         seenConsumed' \in [Threads -> Nat], view' \in [Threads -> Views]
  PROVE  MemoryTypes'
<1>1. /\ Len(buffers') = Len(buffers)
      /\ \A b \in DOMAIN buffers :
           /\ Untouched(b) /\ (buffers[b].freed \in Nat => buffers'[b].freed \in Nat)
  BY UnmappingLeavesContent
<1>2. DOMAIN buffers = 1 .. Len(buffers) /\ Len(buffers) \in Nat
  <2>1. PICK S : buffers \in Seq([capacity : S, freed : Nat, content : S])
    BY DEF BufferList
  <2>2. QED BY <2>1
<1>3. \A b \in 1 .. Len(buffers) :
        /\ buffers'[b].capacity = buffers[b].capacity
        /\ buffers'[b].content = buffers[b].content
        /\ buffers[b].freed \in Nat => buffers'[b].freed \in Nat
  BY <1>1, <1>2 DEF Untouched
<1>4. base' \in 0 .. Len(buffers)
  BY <1>2 DEF MemoryTypes
<1>5. ASSUME NEW b \in 1 .. Len(buffers)
      PROVE  /\ buffers'[b].capacity \in Nat \ {0}
             /\ buffers'[b].content \in
                  [0 .. buffers'[b].capacity * BlockWidth - 1 -> Items \union {Unwritten}]
             /\ buffers'[b].freed \in Nat
  BY <1>3 DEF MemoryTypes
<1>6. QED BY <1>1, <1>4, <1>5 DEF MemoryTypes

LEMMA MemoryTypesStep ==
  ASSUME ContentState, NEW t \in Threads, ThreadStep(t)
  PROVE  MemoryTypes'
<1>1. /\ MemoryTypes /\ BufferList /\ consumed \in Nat
      /\ base \in 1 .. Len(buffers) /\ base \in Nat /\ Len(buffers) \in Nat
      /\ seenConsumed \in [Threads -> Nat] /\ view \in [Threads -> Views]
      /\ from[t] \in Nat /\ seenConsumed[t] \in Nat /\ BlockWidth \in Nat
  BY StateFacts, ThreadFacts DEF ContentState
<1>2. CASE EnterProducer(t)
  <2>1. /\ buffers' = Unmapped(Removed(consumed)) /\ base' = base
        /\ UNCHANGED <<pipeline, view>>
        /\ seenConsumed' = [seenConsumed EXCEPT ![t] = consumed]
    BY <1>2 DEF EnterProducer
  <2>2. BlockWidth' = BlockWidth /\ seenConsumed' \in [Threads -> Nat]
    BY <1>1, <2>1 DEF BlockWidth
  <2>3. QED BY <1>1, <2>1, <2>2, UnmappedTypes
<1>3. CASE Expand(t)
  <2> DEFINE new == buffers'[Len(buffers) + 1]
  <2>1. /\ base' = Len(buffers) + 1 /\ UNCHANGED <<seenConsumed, view>>
        /\ BlockWidth' = BlockWidth
    BY <1>3 DEF Expand, locals, BlockWidth
  <2>2. /\ Len(buffers') = Len(buffers) + 1
        /\ \A b \in 1 .. Len(buffers) : buffers'[b] = buffers[b]
        /\ new.capacity \in Nat \ {0} /\ new.freed \in Nat
        /\ new.content \in [0 .. new.capacity * BlockWidth - 1 -> Items \union {Unwritten}]
    BY <1>3, ExpansionCopies
  <2>3. \A b \in 1 .. Len(buffers') : b \in 1 .. Len(buffers) \/ b = Len(buffers) + 1
    <3>1. Len(buffers') = Len(buffers) + 1 /\ Len(buffers) \in Nat
      BY <1>1, <2>2
    <3> HIDE DEF new
    <3>2. QED BY <3>1
  <2>4. ASSUME NEW b \in 1 .. Len(buffers')
        PROVE  /\ buffers'[b].capacity \in Nat \ {0}
               /\ buffers'[b].content \in
                    [0 .. buffers'[b].capacity * BlockWidth - 1 -> Items \union {Unwritten}]
               /\ buffers'[b].freed \in Nat
    <3>1. CASE b \in 1 .. Len(buffers)
      BY <1>1, <2>2, <3>1 DEF MemoryTypes
    <3>2. CASE b = Len(buffers) + 1
      BY <2>2, <3>2
    <3>3. QED BY <2>3, <3>1, <3>2
  <2>5. base' \in 0 .. Len(buffers')
    BY <1>1, <2>1, <2>2
  <2> HIDE DEF new
  <2>6. seenConsumed' \in [Threads -> Nat] /\ view' \in [Threads -> Views]
    BY <1>1, <2>1
  <2>8. BlockWidth' = BlockWidth
    BY <2>1, Zenon
  <2>9. \A b \in 1 .. Len(buffers') :
          /\ buffers'[b].capacity \in Nat \ {0}
          /\ buffers'[b].content \in
               [0 .. buffers'[b].capacity * BlockWidth' - 1 -> Items \union {Unwritten}]
          /\ buffers'[b].freed \in Nat
    BY <2>4, <2>8, Zenon
  <2>7. QED BY <2>5, <2>6, <2>9, Zenon DEF MemoryTypes, Items
<1>4. CASE Return(t) /\ kernelId[t] = 1
  <2>1. /\ base' = base /\ UNCHANGED <<seenConsumed, view>> /\ BlockWidth' = BlockWidth
        /\ At(t, "run") /\ buffers' = Stored(view[t], from[t], to[t])
    BY <1>4 DEF Return, locals, BlockWidth
  <2>2. /\ Len(buffers') = Len(buffers)
        /\ \A b \in 1 .. Len(buffers) :
             /\ buffers'[b].capacity = buffers[b].capacity
             /\ buffers'[b].freed = buffers[b].freed
             /\ b # base => buffers'[b].content = buffers[b].content
        /\ buffers'[base].content \in [0 .. Slots(base) - 1 -> Items \union {Unwritten}]
    BY <1>4, <2>1, StoredItems
  <2>3. \A b \in 1 .. Len(buffers) :
          buffers'[b].content \in
            [0 .. buffers[b].capacity * BlockWidth - 1 -> Items \union {Unwritten}]
    BY <1>1, <2>2 DEF MemoryTypes, Slots
  <2>4. QED BY <1>1, <2>1, <2>2, <2>3 DEF MemoryTypes
<1>5. CASE ~ (EnterProducer(t) \/ Expand(t) \/ (Return(t) /\ kernelId[t] = 1))
  <2>1. NoView \in Views /\ [buffer |-> base, at |-> from[t]] \in Views
        /\ [buffer |-> base, at |-> seenConsumed[t]] \in Views
    BY <1>1 DEF NoView, Views
  <2>2. CASE ObtainSegmentNumber(t) \/ Leave(t) \/ ConsumerStep(t)
    <3>1. UNCHANGED <<pipeline, memory, seenConsumed, view>>
      BY <2>2 DEF ObtainSegmentNumber, Leave, ConsumerStep, EnterConsumer, EnterShort,
                  EnterStopped, locals
    <3>2. QED BY <1>1, <3>1, SameMemoryTypes
  <2>3. CASE KernelStep(t)
    <3>1. /\ UNCHANGED <<pipeline, memory, seenConsumed>>
          /\ \/ view' = view
             \/ view' = [view EXCEPT ![t] = [buffer |-> base, at |-> from[t]]]
      BY <1>5, <2>3 DEF KernelStep, Invoke, Return, LoopExit, LoopExitStopping, locals, memory
    <3>2. view' \in [Threads -> Views]
      BY <1>1, <2>1, <3>1
    <3>3. QED BY <1>1, <3>1, <3>2, SameMemoryTypes
  <2>4. CASE ExitStep(t) \/ JumpStep(t)
    <3>1. /\ UNCHANGED <<pipeline, memory>>
          /\ \/ seenConsumed' = seenConsumed
             \/ seenConsumed' = [seenConsumed EXCEPT ![t] = 0]
          /\ \/ view' = view
             \/ view' = [view EXCEPT ![t] = NoView]
             \/ view' = [view EXCEPT ![t] = [buffer |-> base, at |-> seenConsumed[t]]]
      BY <2>4 DEF ExitStep, ExitProducer, ExitConsumer, ExitLastKernel, JumpStep, JumpWithin,
                  JumpToEnd, ForgetLocals, locals
    <3>2. seenConsumed' \in [Threads -> Nat]
      BY <1>1, <3>1
    <3>4. view' \in [Threads -> Views]
      BY <1>1, <2>1, <3>1
    <3>3. QED BY <1>1, <3>1, <3>2, <3>4, SameMemoryTypes
  <2>5. QED BY <1>5, <2>2, <2>3, <2>4 DEF ThreadStep, ProducerStep
<1>6. QED BY <1>2, <1>3, <1>4, <1>5

-----------------------------------------------------------------------------
(* The invariant.                                                          *)

WholeInvariant == Inv /\ CountInvariant /\ MemoryTypes /\ ContentInvariant

LEMMA InitWhole == Init => WholeInvariant
<1> SUFFICES ASSUME Init PROVE WholeInvariant
  OBVIOUS
<1>1. Inv /\ CountInvariant
  BY InitInv, InitCounts
<1> DEFINE size == InitialCapacity * BlockWidth
           content == [s \in 0 .. size - 1 |-> Unwritten]
           new == [capacity |-> InitialCapacity, freed |-> 0, content |-> content]
<1>2. /\ buffers = << new >> /\ base = 1
      /\ pending = [first |-> Empty, second |-> Empty, links |-> <<>>]
      /\ consumed = 0
      /\ \A k \in Kernels : count[k] = 0 /\ internal[k] = 0
      /\ \A t \in Threads : pc[t] = "fetch" /\ kernelId[t] = 1
      /\ seenConsumed = [t \in Threads |-> 0] /\ view = [t \in Threads |-> NoView]
  BY DEF Init
<1>3. content \in [0 .. size - 1 -> Items \union {Unwritten}]
  OBVIOUS
<1>4. /\ new.capacity = InitialCapacity /\ new.freed = 0 /\ new.content = content
  OBVIOUS
<1> HIDE DEF content, new
<1>5. /\ Len(buffers) = 1 /\ buffers[1] = new
  BY <1>2
<1>6. MemoryTypes
  <2>1. NoView \in Views /\ InitialCapacity \in Nat \ {0}
    BY BoundAssumption DEF NoView, Views
  <2>2. base \in 0 .. Len(buffers) /\ \A b \in 1 .. Len(buffers) : buffers[b] = new
    BY <1>2, <1>5
  <2>3. seenConsumed \in [Threads -> Nat] /\ view \in [Threads -> Views]
    BY <1>2, <2>1
  <2>4. QED BY <1>3, <1>4, <2>1, <2>2, <2>3 DEF MemoryTypes
<1>7. ContentInvariant
  <2>1. 1 \in Kernels
    BY KernelBounds
  <2>2. CurrentIsLatest
    BY <1>2, <1>4, <1>5 DEF CurrentIsLatest, PendingBuffers, Empty
  <2>3. RoomKept /\ ViewsKept
    BY <1>2 DEF RoomKept, ViewsKept, Producing, Downstream, Active, At
  <2>4. NoGaps
    BY <1>2, <2>1 DEF NoGaps, ItemCount, InKernel
  <2>5. ItemsInPlace
    BY <1>2, <2>1 DEF ItemsInPlace, At
  <2>6. QED BY <2>2, <2>3, <2>4, <2>5 DEF ContentInvariant
<1>8. QED BY <1>1, <1>6, <1>7 DEF WholeInvariant

LEMMA ThreadStepContent ==
  ASSUME ContentState, NEW t \in Threads, ThreadStep(t)
  PROVE  Content'
<1>1. CASE EnterProducer(t)
  BY <1>1, EnterProducerContent
<1>2. CASE Expand(t)
  BY <1>2, ExpandContent
<1>3. CASE ExitProducer(t)
  BY <1>3, ExitProducerContent
<1>4. CASE KernelStep(t) /\ kernelId[t] = 1
  <2>1. ~ LoopExitStopping(t)
    <3>1. 1 \notin Consumers
      BY KernelFacts
    <3>2. QED BY <1>4, <3>1, StateFacts, StoppingKernels
  <2>2. QED BY <1>4, <2>1, InvokeContent, ReturnContent, LoopExitContent DEF KernelStep
<1>5. QED
  BY <1>1, <1>2, <1>3, <1>4, QuietSteps DEF ThreadStep, ProducerStep, ExitStep

LEMMA StepWhole ==
  ASSUME WholeInvariant, [Next]_vars
  PROVE  WholeInvariant'
<1>1. Inv' /\ CountInvariant' /\ Inv /\ CountInvariant /\ MemoryTypes /\ ContentInvariant
  BY StepInv, StepCounts DEF WholeInvariant
<1>2. ASSUME NEW t \in Threads, ThreadStep(t)
      PROVE  MemoryTypes' /\ ContentInvariant'
  <2>1. pc[t] # "done"
    BY <1>2 DEF ThreadStep, ObtainSegmentNumber, Leave, ProducerStep, EnterProducer, Expand,
                ConsumerStep, EnterConsumer, EnterShort, EnterStopped, KernelStep, Invoke,
                Return, LoopExit, LoopExitStopping, ExitStep, ExitProducer, ExitConsumer,
                ExitLastKernel, JumpStep, JumpWithin, JumpToEnd, At
  <2>2. ContentState
    BY <1>1, <2>1, RunningThread DEF ContentState, ContentInvariant, MemoryInvariant
  <2>3. MemoryTypes' /\ Content'
    BY <1>2, <2>2, MemoryTypesStep, ThreadStepContent, Zenon
  <2>4. Content' => ContentInvariant'
    BY Zenon DEF ContentInvariant, Content
  <2>5. QED BY <2>3, <2>4, Zenon
<1>3. CASE ReleaseBuffer
  <2>1. /\ buffers' = Unmapped(ReleasedBuffers) /\ base' = 0 /\ BlockWidth' = BlockWidth
        /\ UNCHANGED <<seenConsumed, view>>
    BY <1>3 DEF ReleaseBuffer, locals, BlockWidth
  <2>2. BufferList /\ seenConsumed \in [Threads -> Nat] /\ view \in [Threads -> Views]
    BY <1>1 DEF Inv, MemoryTypes
  <2>3. MemoryTypes'
    BY <1>1, <2>1, <2>2, UnmappedTypes
  <2>4. ContentInvariant'
    BY <2>1 DEF ContentInvariant
  <2>5. QED BY <1>1, <2>3, <2>4 DEF WholeInvariant
<1>4. CASE Returned \/ UNCHANGED vars
  <2>1. UNCHANGED vars
    BY <1>4 DEF Returned
  <2>2. /\ UNCHANGED <<pipeline, count, internal, consumed, buffers, base, pending>>
        /\ UNCHANGED <<pc, kernelId, from, to, seenConsumed, view, avail>>
    BY <2>1 DEF vars, counts, memory, control, locals
  <2>3. MemoryTypes'
    <3>1. UNCHANGED <<pipeline, memory>>
      BY <2>2 DEF memory
    <3>2. MemoryTypes /\ seenConsumed \in [Threads -> Nat] /\ view \in [Threads -> Views]
      BY <1>1 DEF MemoryTypes
    <3>3. seenConsumed' \in [Threads -> Nat] /\ view' \in [Threads -> Views]
      BY <2>2, <3>2, Zenon
    <3>4. QED BY <3>1, <3>2, <3>3, SameMemoryTypes, Zenon
  <2>4. ContentInvariant'
    <3>1. CurrentIsLatest => CurrentIsLatest'
      BY <2>2 DEF CurrentIsLatest, PendingBuffers
    <3>2. RoomKept => RoomKept'
      BY <2>2 DEF RoomKept, RoomFor, Producing, Active, At, Slots, BlockWidth
    <3>3. NoGaps => NoGaps'
      <4>1. \A i : BeingPublished(i)' <=> BeingPublished(i)
        BY <2>2 DEF BeingPublished, Publishing
      <4>2. ItemCount(1)' = ItemCount(1)
        BY <2>2 DEF ItemCount, DataParallel
      <4>3. QED BY <2>2, <4>1, <4>2 DEF NoGaps, InKernel
    <3>4. ItemsInPlace => ItemsInPlace'
      BY <2>2 DEF ItemsInPlace, HoldsItem, Slots, BlockWidth, At
    <3>5. ViewsKept => ViewsKept'
      <4>1. PendingEntries' = PendingEntries
        BY <2>2 DEF PendingEntries
      <4>2. \A b, i : HoldsItem(b, i)' <=> HoldsItem(b, i)
        BY <2>2 DEF HoldsItem, Slots, BlockWidth
      <4>3. ASSUME NEW t \in Threads PROVE ViewKept(t) => ViewKept(t)'
        BY <2>2, <4>1, <4>2 DEF ViewKept, Slots, BlockWidth
      <4>4. QED BY <2>2, <4>3 DEF ViewsKept, Downstream, Active
    <3>6. QED BY <1>1, <2>2, <3>1, <3>2, <3>3, <3>4, <3>5 DEF ContentInvariant
  <2>5. QED BY <1>1, <2>3, <2>4 DEF WholeInvariant
<1>5. QED
  <2>1. ASSUME NEW t \in Threads, ThreadStep(t) PROVE WholeInvariant'
    BY <1>1, <1>2, <2>1 DEF WholeInvariant
  <2>2. QED BY <1>3, <1>4, <2>1 DEF Next

LEMMA WholeHolds == Spec => []WholeInvariant
BY InitWhole, StepWhole, PTL DEF Spec

\* The invariant of the run: the counts of kernels and segments are in order
\* and the current buffer and every buffer a thread still reads have what is
\* left to read of them (computeMinimumConsumedItemCounts,
\* ensureSufficientOutputSpace, reserveCapacity).
THEOREM StreamInvariantHolds == Spec => []StreamInvariant
<1>1. WholeInvariant => StreamInvariant
  BY DEF WholeInvariant, StreamInvariant
<1>2. QED BY <1>1, WholeHolds, PTL

-----------------------------------------------------------------------------
(* What follows for the readers, the writer and the copies.                *)

LEMMA RunningState ==
  ASSUME WholeInvariant, NEW t \in Threads, ~ At(t, "done")
  PROVE  ContentState
BY RunningThread DEF WholeInvariant, ContentState, ContentInvariant, Inv, ReclaimInvariant

LEMMA TypesFollow ==
  ASSUME WholeInvariant
  PROVE  TypeOK
<1>1. /\ CountsBounded /\ PendingShape /\ PositionsMatchCounters /\ InvocationsChained
      /\ MinimaInOrder /\ MemoryTypes
  BY DEF WholeInvariant, Inv, ReclaimInvariant, CountInvariant
<1>2. /\ pipeline \in Pipelines /\ nextSegNo \in Nat
      /\ pc \in [Threads -> ControlPoints] /\ kernelId \in [Threads -> Kernels]
      /\ target \in [Threads -> 1 .. NumKernels + 1] /\ segNo \in [Threads -> Nat]
      /\ consumed \in Nat /\ transitory \in [Threads -> Nat]
  BY <1>1 DEF CountsBounded, PositionsMatchCounters, MinimaInOrder
<1>3. /\ pre \in [Kernels -> Nat] /\ post \in [Kernels -> Nat]
      /\ internal \in [Kernels -> Nat] /\ count \in [Kernels -> Nat]
      /\ from \in [Threads -> Nat] /\ to \in [Threads -> Nat] /\ avail \in [Threads -> Nat]
  BY <1>1, <1>2, KernelBounds DEF CountsBounded, PositionsMatchCounters
<1>4. stopped \subseteq Consumers
  BY <1>1, <1>2, PipelineAssumption DEF InvocationsChained
<1>5. /\ pending.first \in Entries /\ pending.second \in Entries
      /\ pending.links \in Seq(Entries)
  BY <1>1 DEF PendingShape
<1>6. QED BY <1>1, <1>2, <1>3, <1>4, <1>5 DEF TypeOK, MemoryTypes, BlockWidth

LEMMA ReadersFindItems ==
  ASSUME WholeInvariant, NEW t \in Threads, At(t, "run"), kernelId[t] # 1,
         NEW i \in from[t] .. to[t] - 1
  PROVE  Mapped(view[t], i) /\ Load(view[t], i) = i
<1> DEFINE k == kernelId[t]
           v == view[t]
<1>1. ContentState
  BY RunningState DEF At
<1>2. Downstream(t) /\ InKernel(t, k)
  BY DEF Downstream, Active, InKernel, At
<1>3. /\ k \in Kernels /\ k \notin stopped /\ count[k] <= from[t] /\ to[t] <= avail[t]
  BY <1>1, <1>2, StateFacts, ThreadFacts DEF InvocationsChained
<1>4. consumed <= count[k]
  BY <1>1, <1>3, StateFacts DEF MinimaInOrder
<1>5. /\ consumed \in Nat /\ from[t] \in Nat /\ to[t] \in Nat /\ avail[t] \in Nat
      /\ seenConsumed[t] \in Nat /\ count[k] \in Nat /\ v \in Views
  <2>1. CountState
    BY <1>1, StateFacts
  <2>2. count[k] \in Nat
    BY <1>3, <2>1, CountTypes
  <2>3. v \in Views
    BY <1>1, ThreadFacts
  <2>4. QED BY <1>1, <2>2, <2>3, StateFacts, ThreadFacts
<1>6. ViewKept(t)
  BY <1>1, <1>2 DEF ContentState, ViewsKept
<1>7. /\ v.buffer \in 1 .. Len(buffers) /\ v.at = seenConsumed[t]
      /\ seenConsumed[t] <= consumed /\ avail[t] <= seenConsumed[t] + Slots(v.buffer)
  BY <1>6 DEF ViewKept
<1>8. i \in Nat /\ i \in consumed .. avail[t] - 1 /\ v.at <= i
  <2>1. PICK f \in Nat : f = from[t]
    BY <1>5
  <2>2. PICK e \in Nat : e = to[t]
    BY <1>5
  <2>3. PICK a \in Nat : a = avail[t]
    BY <1>5
  <2>4. PICK s \in Nat : s = seenConsumed[t]
    BY <1>5
  <2>5. PICK c \in Nat : c = count[k]
    BY <1>5
  <2> HIDE DEF v, k
  <2>6. v.at = s /\ s <= consumed /\ consumed <= c /\ c <= f /\ e <= a /\ consumed \in Nat
    BY <1>3, <1>4, <1>5, <1>7, <2>1, <2>2, <2>3, <2>4, <2>5, Zenon
  <2>7. i \in f .. e - 1
    BY <2>1, <2>2
  <2>8. i \in Nat /\ i \in consumed .. a - 1 /\ s <= i
    BY <2>6, <2>7
  <2>9. QED BY <2>3, <2>6, <2>8
<1>9. buffers[v.buffer].freed = 0 /\ HoldsItem(v.buffer, i)
  BY <1>6, <1>8 DEF ViewKept
<1>10. Slots(v.buffer) \in Nat
  BY <1>1, <1>7, BufferFacts, StateFacts DEF ContentState
<1>11. i < v.at + Slots(v.buffer)
  BY <1>5, <1>7, <1>8, <1>10
<1> HIDE DEF v, k
<1>12. Mapped(v, i) /\ Offset(v, i) % Slots(v.buffer) = i % Slots(v.buffer)
  BY <1>1, <1>5, <1>7, <1>8, <1>9, <1>11, OffsetsInViews, StateFacts DEF ContentState
<1>13. Load(v, i) = i
  BY <1>9, <1>12 DEF Load, HoldsItem
<1>14. QED BY <1>12, <1>13 DEF v

LEMMA StoresFollow ==
  ASSUME WholeInvariant, NEW t \in Threads, At(t, "run"), kernelId[t] = 1
  PROVE  /\ view[t].buffer = base
         /\ to[t] - consumed <= Slots(base)
         /\ \A i \in from[t] .. to[t] - 1 : Mapped(view[t], i)
<1>1. ContentState
  BY RunningState DEF At
<1>2. RoomFor(t)
  BY <1>1 DEF Producing, Active, At, ContentState, RoomKept
<1>3. /\ view[t] = [buffer |-> base, at |-> from[t]] /\ seenConsumed[t] <= consumed
      /\ to[t] <= seenConsumed[t] + Slots(base)
  BY <1>2 DEF RoomFor, At
<1>4. /\ from[t] \in Nat /\ to[t] \in Nat /\ seenConsumed[t] \in Nat /\ consumed \in Nat
      /\ count[1] \in Nat /\ consumed <= count[1] /\ view[t] \in Views
      /\ base \in 1 .. Len(buffers) /\ buffers[base].freed = 0
      /\ count[1] <= from[t]
  BY <1>1, StateFacts, ThreadFacts DEF ContentState, CurrentIsLatest, InKernel, At
<1>5. Slots(base) \in Nat
  BY <1>1, <1>4, BufferFacts, StateFacts DEF ContentState
<1>6. view[t].buffer = base /\ view[t].at = from[t]
  BY <1>3
<1>7. ASSUME NEW i \in from[t] .. to[t] - 1
      PROVE  Mapped(view[t], i)
  <2>1. i \in Nat /\ from[t] <= i /\ i < from[t] + Slots(base)
    <3>1. /\ from[t] \in Nat /\ to[t] \in Nat /\ seenConsumed[t] \in Nat
          /\ consumed \in Nat /\ count[1] \in Nat
      BY <1>4, Zenon
    <3>2. /\ to[t] <= seenConsumed[t] + Slots(base) /\ seenConsumed[t] <= consumed
          /\ consumed <= count[1] /\ count[1] <= from[t]
      BY <1>3, <1>4, Zenon
    <3>3. \A j \in from[t] .. to[t] - 1 :
            j \in Nat /\ from[t] <= j /\ j < from[t] + Slots(base)
      BY <1>5, <3>1, <3>2, WithinBuffer
    <3>4. QED BY <3>3, Zenon
  <2>2. QED BY <1>1, <1>4, <1>6, <2>1, OffsetsInViews, StateFacts DEF ContentState
<1>8. to[t] - consumed <= Slots(base)
  <2>1. PICK e \in Nat : e = to[t]
    BY <1>4
  <2>2. PICK s \in Nat : s = seenConsumed[t]
    BY <1>4
  <2>3. PICK n \in Nat : n = Slots(base)
    BY <1>5
  <2>4. consumed \in Nat /\ e <= s + n /\ s <= consumed
    BY <1>3, <1>4, <2>1, <2>2, <2>3
  <2>5. e - consumed <= n
    BY <2>4
  <2>6. QED BY <2>1, <2>3, <2>5, Zenon
<1>9. QED BY <1>6, <1>7, <1>8

\* The types of the shared state and of each thread's locals, of buffers of
\* every capacity (MultithreadedThreadStruct, ManagedDynamicBuffer's handle).
THEOREM BufferTypesCorrect == Spec => []TypeOK
BY TypesFollow, WholeHolds, PTL

\* A running consumer finds each item where its own virtual base address says,
\* in memory that is mapped, however often the producers of later segments
\* have replaced the buffer since (updateLocalDynamicBufferStructsUntil,
\* getVirtualBasePtr, removeFromPendingDeletions).
THEOREM ReadersSeeItems == Spec => []ReadsWhatWasProduced
<1>1. WholeInvariant => ReadsWhatWasProduced
  BY ReadersFindItems DEF ReadsWhatWasProduced
<1>2. QED BY <1>1, WholeHolds, PTL

\* No expansion loses an item that is not yet consumed, or leaves it out of
\* the copy (reserveCapacity).
THEOREM UnreadItemsKept == Spec => []UnreadKept
<1>1. WholeInvariant => UnreadKept
  BY DEF WholeInvariant, ContentInvariant, CurrentIsLatest, ItemsInPlace, HoldsItem,
         UnreadKept
<1>2. QED BY <1>1, WholeHolds, PTL

\* The producer stores into the current buffer, in mapped memory, and never
\* over an item that some consumer has yet to pass (getWritableOutputItems,
\* ensureSufficientOutputSpace).
THEOREM StoresAlwaysFit == Spec => []StoresFit
<1>1. WholeInvariant => StoresFit
  BY StoresFollow DEF StoresFit
<1>2. QED BY <1>1, WholeHolds, PTL

-----------------------------------------------------------------------------
(* No deadlock.                                                            *)

\* A thread spins: on the entry counter of its kernel, in
\* ensureSufficientOutputSpace, before it writes its item counts, or on the
\* counter of the jump's target.
Waits(t) ==
  \/ At(t, "acquire") /\ ~MayEnter(t, kernelId[t])
  \/ At(t, "expand") /\ ~MayExpand(t)
  \/ At(t, "loopExit") /\ kernelId[t] \in DataParallel /\ ~MayExit(t, kernelId[t])
  \/ At(t, "jump") /\ target[t] <= NumKernels /\ ~MayEnter(t, target[t])
  \/ At(t, "jump") /\ target[t] > NumKernels /\ ~MayExit(t, NumKernels)

\* A segment number that was given out is in the hands of a thread or has
\* passed every counter.
SegmentsCarried ==
  \A s \in Nat : s < nextSegNo =>
    \/ \E t \in Threads : Active(t) /\ segNo[t] = s
    \/ /\ \A k \in Kernels : s < post[k]
       /\ \A k \in DataParallel : s < pre[k]

\* The thread with the earliest segment waits for nobody.
EarliestNeverWaits ==
  \A t \in Threads :
    Active(t) /\ (\A u \in Threads : Active(u) => segNo[t] <= segNo[u]) => ~Waits(t)

\* As long as a thread is inside a segment, one of those threads does not wait.
SomeThreadGoesOn ==
  (\E t \in Threads : Active(t)) => \E t \in Threads : Active(t) /\ ~Waits(t)

\* The order of kernel numbers, as it is used of threads' positions.
LEMMA KernelOrder ==
  ASSUME NEW k \in Kernels, NEW j \in Kernels
  PROVE  /\ ~(k < k) /\ ~(k < 1) /\ ~(NumKernels < k)
         /\ k <= j <=> ~(j < k)
         /\ k < j => k # j /\ ~(j < k)
<1>1. k \in Nat /\ j \in Nat /\ NumKernels \in Nat /\ 1 <= k /\ k <= NumKernels
  BY KernelFacts
<1>2. QED BY <1>1

\* Inside a segment a thread releases only counters that it has not released,
\* and it leaves the segment having released all of them.
LEMMA CounterMoves ==
  ASSUME CountState, NEW t \in Threads, ThreadStep(t), Active(t)
  PROVE  /\ UNCHANGED <<pipeline, nextSegNo, segNo>>
         /\ \A u \in Threads \ {t} : pc'[u] = pc[u]
         /\ \A k \in Kernels :
              post'[k] = post[k] \/ (post'[k] = segNo[t] + 1 /\ ~LetOut(t, k))
         /\ \A k \in DataParallel :
              pre'[k] = pre[k] \/ (pre'[k] = segNo[t] + 1 /\ ~LetIn(t, k))
         /\ \/ Active(t)'
            \/ /\ \A k \in Kernels : LetOut(t, k) \/ post'[k] = segNo[t] + 1
               /\ \A k \in DataParallel : LetIn(t, k) \/ pre'[k] = segNo[t] + 1
<1>1. /\ pre \in [Kernels -> Nat] /\ post \in [Kernels -> Nat]
      /\ kernelId[t] \in Kernels /\ pc \in [Threads -> ControlPoints]
      /\ DataParallel \subseteq Kernels /\ Holds(t) /\ target[t] \in 1 .. NumKernels + 1
  BY LockTypes, PipelineFacts DEF CountState
<1>2. ~ObtainSegmentNumber(t) /\ ~Leave(t)
  BY DEF ObtainSegmentNumber, Leave, Active, At
<1>3. \A label : Goto(t, label) => pc'[t] = label /\ \A u \in Threads \ {t} : pc'[u] = pc[u]
  BY <1>1 DEF Goto
<1>4. ~LetOut(t, kernelId[t])
  BY <1>1, KernelOrder, Zenon DEF LetOut
<1>5. CASE ProducerStep(t) \/ EnterConsumer(t) \/ EnterStopped(t) \/ Return(t) \/ LoopExit(t)
           \/ LoopExitStopping(t)
  <2>1. UNCHANGED <<pipeline, locks, segNo>>
    BY <1>5, Zenon DEF ProducerStep, EnterProducer, Expand, EnterConsumer, EnterStopped,
                       Return, LoopExit, LoopExitStopping
  <2>2. \E label \in {"ready", "expand", "jump", "exit", "loopExit"} : Goto(t, label)
    BY <1>5, Zenon DEF ProducerStep, EnterProducer, Expand, EnterConsumer, EnterStopped,
                       Return, LoopExit, LoopExitStopping
  <2>3. Active(t)' /\ \A u \in Threads \ {t} : pc'[u] = pc[u]
    BY <1>3, <2>2 DEF Active
  <2>4. UNCHANGED <<nextSegNo, pre, post>>
    BY <2>1 DEF locks
  <2>5. QED BY <2>1, <2>3, <2>4
<1>6. CASE EnterShort(t) \/ Invoke(t)
  <2>1. /\ UNCHANGED <<pipeline, nextSegNo, segNo, post>> /\ pre' \in {pre, ReleasePre(t)}
        /\ \E label \in {"jump", "run"} : Goto(t, label)
        /\ pc[t] \in {"acquire", "ready"}
    BY <1>6 DEF EnterShort, Invoke, At
  <2>2. Active(t)' /\ \A u \in Threads \ {t} : pc'[u] = pc[u]
    BY <1>3, <2>1 DEF Active
  <2>3. ~LetIn(t, kernelId[t])
    BY <1>4, <2>1 DEF LetIn, LetOut, At
  <2>4. ASSUME NEW k \in DataParallel
        PROVE  pre'[k] = pre[k] \/ (pre'[k] = segNo[t] + 1 /\ ~LetIn(t, k))
    BY <1>1, <2>1, <2>3 DEF ReleasePre
  <2>5. QED BY <2>1, <2>2, <2>4
<1>7. CASE ExitProducer(t) \/ ExitConsumer(t)
  <2>1. /\ UNCHANGED <<pipeline, nextSegNo, segNo, pre>> /\ Goto(t, "acquire")
        /\ post' = [post EXCEPT ![kernelId[t]] = segNo[t] + 1]
    BY <1>7 DEF ExitProducer, ExitConsumer
  <2>2. Active(t)' /\ \A u \in Threads \ {t} : pc'[u] = pc[u]
    BY <1>3, <2>1 DEF Active
  <2>3. ASSUME NEW k \in Kernels
        PROVE  post'[k] = post[k] \/ (post'[k] = segNo[t] + 1 /\ ~LetOut(t, k))
    BY <1>1, <1>4, <2>1
  <2>4. QED BY <2>1, <2>2, <2>3
<1>8. CASE ExitLastKernel(t)
  <2>1. /\ UNCHANGED <<pipeline, nextSegNo, segNo, pre>> /\ Goto(t, "fetch")
        /\ post' = [post EXCEPT ![NumKernels] = segNo[t] + 1]
        /\ kernelId[t] = NumKernels /\ At(t, "exit")
    BY <1>8, Zenon DEF ExitLastKernel
  <2>2. ASSUME NEW k \in Kernels
        PROVE  /\ post'[k] = post[k] \/ (post'[k] = segNo[t] + 1 /\ ~LetOut(t, k))
               /\ LetOut(t, k) \/ post'[k] = segNo[t] + 1
               /\ LetIn(t, k)
    <3>1. k = NumKernels \/ k < NumKernels
      BY KernelFacts
    <3>2. CASE k = NumKernels
      BY <1>1, <1>4, <2>1, <3>2 DEF LetIn, At
    <3>3. CASE k < NumKernels
      <4>1. k # NumKernels
        BY <3>3, KernelFacts
      <4>2. k < kernelId[t]
        BY <2>1, <3>3
      <4>3. post'[k] = post[k]
        BY <1>1, <2>1, <4>1
      <4>4. QED BY <4>2, <4>3 DEF LetIn, LetOut
    <3>4. QED BY <3>1, <3>2, <3>3
  <2>3. QED BY <1>1, <1>3, <2>1, <2>2
<1>9. CASE JumpStep(t)
  <2>1. /\ UNCHANGED <<pipeline, nextSegNo, segNo>> /\ At(t, "jump")
        /\ post' = ReleasedUntil(post, t, Kernels)
    BY <1>9 DEF JumpStep, JumpWithin, JumpToEnd
  <2>2. ASSUME NEW k \in Kernels
        PROVE  post'[k] = post[k] \/ (post'[k] = segNo[t] + 1 /\ ~LetOut(t, k))
    <3>1. ~(kernelId[t] <= k /\ k < target[t]) => post'[k] = post[k]
      BY <2>1, Zenon DEF ReleasedUntil
    <3>2. kernelId[t] <= k /\ k < target[t] => post'[k] = segNo[t] + 1
      BY <2>1, Zenon DEF ReleasedUntil
    <3>3. kernelId[t] <= k => ~LetOut(t, k)
      BY <1>1, KernelFacts DEF LetOut
    <3>4. QED BY <3>1, <3>2, <3>3
  <2>3. CASE JumpWithin(t)
    <3>1. /\ target[t] <= NumKernels /\ pre' = ReleasedUntil(pre, t, DataParallel)
          /\ Goto(t, "acquire")
      BY <2>3, Zenon DEF JumpWithin
    <3>2. Active(t)' /\ \A u \in Threads \ {t} : pc'[u] = pc[u]
      BY <1>3, <3>1 DEF Active
    <3>3. ~LetIn(t, kernelId[t])
      <4>1. ~(target[t] > NumKernels)
        BY <1>1, <3>1, KernelFacts
      <4>2. QED BY <1>4, <2>1, <4>1 DEF LetIn, LetOut, At
    <3>4. ASSUME NEW k \in DataParallel
          PROVE  pre'[k] = pre[k] \/ (pre'[k] = segNo[t] + 1 /\ ~LetIn(t, k))
      <4>1. ~(kernelId[t] <= k /\ k < target[t]) => pre'[k] = pre[k]
        BY <1>1, <3>1, Zenon DEF ReleasedUntil
      <4>2. kernelId[t] <= k /\ k < target[t] => pre'[k] = segNo[t] + 1
        BY <1>1, <3>1, Zenon DEF ReleasedUntil
      <4>3. kernelId[t] <= k => ~(k < kernelId[t])
        BY <1>1, KernelOrder, Zenon
      <4>4. kernelId[t] <= k => ~LetIn(t, k)
        BY <3>3, <4>3 DEF LetIn
      <4>5. QED BY <4>1, <4>2, <4>4
    <3>5. QED BY <2>1, <2>2, <3>2, <3>4
  <2>4. CASE JumpToEnd(t)
    <3>1. /\ target[t] > NumKernels /\ Goto(t, "fetch")
          /\ pre' = ReleasedUntil(pre, t, DataParallel \ {kernelId[t]})
      BY <2>4, Zenon DEF JumpToEnd
    <3>2. LetIn(t, kernelId[t])
      BY <2>1, <3>1 DEF LetIn
    <3>3. ASSUME NEW k \in Kernels
          PROVE  k < target[t] /\ (kernelId[t] <= k \/ k < kernelId[t])
      <4>1. kernelId[t] <= k \/ k < kernelId[t]
        BY <1>1, <3>3, KernelOrder, Zenon
      <4>2. PICK j \in Nat : j = target[t] /\ j > NumKernels
        <5>1. target[t] \in Nat
          BY <1>1, KernelFacts
        <5>2. QED BY <3>1, <5>1
      <4>3. k < j
        BY <3>3, <4>2, KernelFacts
      <4>4. QED BY <4>1, <4>2, <4>3
    <3>4. ASSUME NEW k \in Kernels
          PROVE  LetOut(t, k) \/ post'[k] = segNo[t] + 1
      <4>1. kernelId[t] <= k /\ k < target[t] => post'[k] = segNo[t] + 1
        BY <2>1, Zenon DEF ReleasedUntil
      <4>2. QED BY <3>3, <4>1 DEF LetOut
    <3>5. ASSUME NEW k \in DataParallel
          PROVE  /\ pre'[k] = pre[k] \/ (pre'[k] = segNo[t] + 1 /\ ~LetIn(t, k))
                 /\ LetIn(t, k) \/ pre'[k] = segNo[t] + 1
      <4>1. k \in Kernels
        BY <1>1
      <4>2. CASE k = kernelId[t]
        <5>1. pre'[k] = pre[k]
          BY <3>1, <4>1, <4>2, Zenon DEF ReleasedUntil
        <5>2. QED BY <3>2, <4>2, <5>1
      <4>3. CASE k < kernelId[t]
        <5>1. ~(kernelId[t] <= k)
          BY <1>1, <4>1, <4>3, KernelOrder, Zenon
        <5>2. pre'[k] = pre[k]
          BY <3>1, <4>1, <5>1, Zenon DEF ReleasedUntil
        <5>3. QED BY <4>3, <5>2 DEF LetIn
      <4>4. CASE k # kernelId[t] /\ ~(k < kernelId[t])
        <5>1. k \in DataParallel \ {kernelId[t]} /\ kernelId[t] <= k /\ k < target[t]
          BY <3>3, <4>1, <4>4
        <5>2. pre'[k] = segNo[t] + 1
          BY <3>1, <4>1, <5>1, Zenon DEF ReleasedUntil
        <5>3. QED BY <4>4, <5>2 DEF LetIn
      <4>5. QED BY <4>2, <4>3, <4>4
    <3>6. \A u \in Threads \ {t} : pc'[u] = pc[u]
      BY <1>3, <3>1
    <3>7. QED BY <2>1, <2>2, <3>4, <3>5, <3>6
  <2>5. QED BY <1>9, <2>3, <2>4 DEF JumpStep
<1>10. QED
  BY <1>2, <1>5, <1>6, <1>7, <1>8, <1>9, Zenon DEF ThreadStep, ConsumerStep, KernelStep, ExitStep

\* No step loses a segment.
LEMMA CarriedKeeps ==
  ASSUME CountState, SegmentsCarried, NEW t \in Threads, ThreadStep(t)
  PROVE  SegmentsCarried'
<1>1. /\ PositionsMatchCounters /\ DataParallel \subseteq Kernels /\ nextSegNo \in Nat
      /\ pre \in [Kernels -> Nat] /\ post \in [Kernels -> Nat] /\ segNo \in [Threads -> Nat]
      /\ pc \in [Threads -> ControlPoints] /\ segNo[t] \in Nat
  BY LockTypes, PipelineFacts DEF CountState, PositionsMatchCounters
<1>2. SUFFICES ASSUME NEW s \in Nat, s < nextSegNo'
               PROVE  \/ \E u \in Threads : Active(u)' /\ segNo'[u] = s
                      \/ /\ \A k \in Kernels : s < post'[k]
                         /\ \A k \in DataParallel' : s < pre'[k]
  BY DEF SegmentsCarried
<1>3. CASE ~Active(t)
  <2>1. ObtainSegmentNumber(t) \/ Leave(t)
    <3>1. pc[t] \in {"fetch", "done"}
      BY <1>3 DEF Active
    <3>2. QED
      BY <3>1 DEF ThreadStep, ProducerStep, ConsumerStep, KernelStep, ExitStep, JumpStep,
         EnterProducer, Expand, EnterConsumer, EnterShort, EnterStopped, Invoke, Return,
         LoopExit, LoopExitStopping, ExitProducer, ExitConsumer, ExitLastKernel, JumpWithin,
         JumpToEnd, At
  <2>2. /\ UNCHANGED <<pipeline, pre, post>> /\ \A u \in Threads \ {t} : pc'[u] = pc[u]
        /\ \/ nextSegNo' = nextSegNo /\ segNo' = segNo
           \/ /\ nextSegNo' = nextSegNo + 1 /\ segNo' = [segNo EXCEPT ![t] = nextSegNo]
              /\ pc'[t] = "acquire"
    BY <1>1, <2>1 DEF ObtainSegmentNumber, Leave, Goto, locks
  <2>3. CASE s < nextSegNo
    <3>1. CASE \E u \in Threads : Active(u) /\ segNo[u] = s
      <4>1. PICK u \in Threads : Active(u) /\ segNo[u] = s
        BY <3>1
      <4>2. u # t
        BY <1>3, <4>1
      <4>3. Active(u)' /\ segNo'[u] = s
        BY <1>1, <2>2, <4>1, <4>2 DEF Active
      <4>4. QED BY <4>3
    <3>2. CASE ~\E u \in Threads : Active(u) /\ segNo[u] = s
      BY <2>2, <2>3, <3>2 DEF SegmentsCarried, DataParallel
    <3>3. QED BY <3>1, <3>2
  <2>4. CASE ~(s < nextSegNo)
    <3>1. /\ nextSegNo' = nextSegNo + 1 /\ segNo' = [segNo EXCEPT ![t] = nextSegNo]
          /\ pc'[t] = "acquire"
      BY <1>2, <2>2, <2>4
    <3>2. s = nextSegNo
      <4>1. nextSegNo \in Nat /\ s < nextSegNo + 1
        BY <1>1, <1>2, <3>1
      <4>2. QED BY <2>4, <4>1
    <3>3. segNo'[t] = s
      BY <1>1, <3>1, <3>2, Zenon
    <3>4. Active(t)'
      BY <3>1 DEF Active
    <3>5. QED BY <3>3, <3>4
  <2>5. QED BY <2>3, <2>4
<1>4. CASE Active(t)
  <2>1. /\ nextSegNo' = nextSegNo /\ segNo' = segNo /\ DataParallel' = DataParallel
        /\ \A u \in Threads \ {t} : pc'[u] = pc[u]
    BY <1>4, CounterMoves DEF DataParallel
  <2>2. \A k \in Kernels :
          post'[k] = post[k] \/ (post'[k] = segNo[t] + 1 /\ ~LetOut(t, k))
    BY <1>4, CounterMoves
  <2>3. \A k \in DataParallel :
          pre'[k] = pre[k] \/ (pre'[k] = segNo[t] + 1 /\ ~LetIn(t, k))
    BY <1>4, CounterMoves
  <2>4. CASE \E u \in Threads : Active(u) /\ segNo[u] = s
    <3>1. PICK u \in Threads : Active(u) /\ segNo[u] = s
      BY <2>4
    <3>2. CASE Active(u)'
      BY <2>1, <3>1, <3>2
    <3>3. CASE ~Active(u)'
      <4>1. u = t
        BY <2>1, <3>1, <3>3 DEF Active
      <4>2. /\ \A k \in Kernels : LetOut(t, k) \/ post'[k] = segNo[t] + 1
            /\ \A k \in DataParallel : LetIn(t, k) \/ pre'[k] = segNo[t] + 1
        BY <1>4, <3>3, <4>1, CounterMoves
      <4>3. ASSUME NEW k \in Kernels PROVE s < post'[k]
        <5>1. LetOut(t, k) => post[k] > segNo[t]
          BY <1>1, <1>4 DEF PositionsMatchCounters
        <5>2. QED BY <1>1, <2>2, <3>1, <4>1, <4>2, <5>1
      <4>4. ASSUME NEW k \in DataParallel PROVE s < pre'[k]
        <5>1. LetIn(t, k) => pre[k] > segNo[t]
          BY <1>1, <1>4 DEF PositionsMatchCounters
        <5>2. QED BY <1>1, <2>3, <3>1, <4>1, <4>2, <5>1
      <4>5. QED BY <2>1, <4>3, <4>4
    <3>4. QED BY <3>2, <3>3
  <2>5. CASE ~\E u \in Threads : Active(u) /\ segNo[u] = s
    <3>1. (\A k \in Kernels : s < post[k]) /\ (\A k \in DataParallel : s < pre[k])
      BY <1>2, <2>1, <2>5 DEF SegmentsCarried
    <3>2. ASSUME NEW k \in Kernels PROVE s < post'[k]
      <4>1. ~LetOut(t, k) => ~(post[k] > segNo[t])
        BY <1>1, <1>4 DEF PositionsMatchCounters
      <4>2. s < post[k] /\ post[k] \in Nat
        BY <1>1, <3>1
      <4>3. QED BY <1>1, <2>2, <4>1, <4>2
    <3>3. ASSUME NEW k \in DataParallel PROVE s < pre'[k]
      <4>1. ~LetIn(t, k) => ~(pre[k] > segNo[t])
        BY <1>1, <1>4 DEF PositionsMatchCounters
      <4>2. s < pre[k] /\ pre[k] \in Nat
        BY <1>1, <3>1
      <4>3. QED BY <1>1, <2>3, <4>1, <4>2
    <3>4. QED BY <2>1, <3>2, <3>3
  <2>6. QED BY <2>4, <2>5
<1>5. QED BY <1>3, <1>4

\* A counter that the thread with the earliest segment has still to acquire
\* holds its number: every earlier segment has passed it.
LEMMA EarliestMayGo ==
  ASSUME CountState, SegmentsCarried, NEW t \in Threads, Active(t),
         \A u \in Threads : Active(u) => segNo[t] <= segNo[u],
         At(t, "expand") => kernelId[t] = 1
  PROVE  ~Waits(t)
<1>1. /\ PositionsMatchCounters /\ Holds(t) /\ DataParallel \subseteq Kernels
      /\ pre \in [Kernels -> Nat] /\ post \in [Kernels -> Nat]
      /\ segNo[t] \in Nat /\ nextSegNo \in Nat /\ segNo \in [Threads -> Nat]
      /\ kernelId[t] \in Kernels /\ target[t] \in 1 .. NumKernels + 1
  BY LockTypes, PipelineFacts DEF CountState, PositionsMatchCounters
<1>2. segNo[t] < nextSegNo
  BY <1>1 DEF PositionsMatchCounters
<1>3. ASSUME NEW s \in Nat, s < segNo[t]
      PROVE  /\ \A k \in Kernels : s < post[k]
             /\ \A k \in DataParallel : s < pre[k]
  <2>1. s < nextSegNo
    BY <1>1, <1>2, <1>3
  <2>2. ~\E u \in Threads : Active(u) /\ segNo[u] = s
    <3>1. ASSUME NEW u \in Threads, Active(u), segNo[u] = s PROVE FALSE
      <4>1. segNo[t] <= segNo[u]
        BY <3>1
      <4>2. QED BY <1>1, <1>3, <3>1, <4>1
    <3>2. QED BY <3>1
  <2>3. QED BY <2>1, <2>2 DEF SegmentsCarried
<1>4. ASSUME NEW k \in Kernels PROVE ~LetOut(t, k) => MayExit(t, k)
  <2>1. post[k] \in Nat /\ (~LetOut(t, k) => ~(post[k] > segNo[t]))
    BY <1>1 DEF PositionsMatchCounters
  <2>2. ~(post[k] < segNo[t])
    BY <1>3, <2>1
  <2>3. QED BY <1>1, <2>1, <2>2 DEF MayExit
<1>5. ASSUME NEW k \in Kernels PROVE ~LetIn(t, k) => MayEnter(t, k)
  <2>1. CASE k \in DataParallel
    <3>1. pre[k] \in Nat /\ (~LetIn(t, k) => ~(pre[k] > segNo[t]))
      BY <1>1, <2>1 DEF PositionsMatchCounters
    <3>2. ~(pre[k] < segNo[t])
      BY <1>3, <2>1, <3>1
    <3>3. QED BY <1>1, <2>1, <3>1, <3>2 DEF MayEnter, EntryCount
  <2>2. CASE k \notin DataParallel
    BY <1>4, <2>2 DEF MayEnter, MayExit, EntryCount, LetIn, LetOut
  <2>3. QED BY <2>1, <2>2
<1>6. ~(kernelId[t] < kernelId[t]) /\ ~LetOut(t, kernelId[t])
  BY <1>1, KernelOrder, Zenon DEF LetOut
<1>7. MayExit(t, kernelId[t]) /\ (At(t, "acquire") => MayEnter(t, kernelId[t]))
  <2>1. MayExit(t, kernelId[t])
    BY <1>1, <1>4, <1>6
  <2>2. At(t, "acquire") => ~LetIn(t, kernelId[t])
    BY <1>6 DEF LetIn, At
  <2>3. QED BY <1>1, <1>5, <2>1, <2>2
<1>8. At(t, "expand") => MayExpand(t)
  <2>1. At(t, "expand") => ~LetOut(t, 1)
    BY <1>6
  <2>2. QED BY <1>4, <2>1, KernelFacts DEF MayExpand
<1>9. ASSUME At(t, "jump"), target[t] <= NumKernels PROVE MayEnter(t, target[t])
  <2>1. target[t] \in Kernels /\ kernelId[t] < target[t]
    BY <1>1, <1>9 DEF Kernels, Holds
  <2>2. ~(target[t] < kernelId[t]) /\ target[t] # kernelId[t]
    BY <1>1, <2>1, KernelOrder, Zenon
  <2>3. ~LetIn(t, target[t])
    BY <2>2 DEF LetIn
  <2>4. QED BY <1>5, <2>1, <2>3
<1>10. MayExit(t, NumKernels)
  <2>1. ~LetOut(t, NumKernels)
    BY <1>1, KernelOrder, Zenon DEF LetOut
  <2>2. QED BY <1>4, <2>1, KernelFacts
<1>11. QED BY <1>7, <1>8, <1>9, <1>10 DEF Waits

\* The part of the invariant that these lemmas need; only the producer
\* expands.
LEMMA WholeState ==
  ASSUME WholeInvariant
  PROVE  CountState /\ \A t \in Threads : At(t, "expand") => kernelId[t] = 1
<1>1. Inv /\ CountInvariant /\ ContentInvariant
  BY DEF WholeInvariant
<1>2. CountState
  BY <1>1, CountParts DEF Inv, ReclaimInvariant
<1>3. ASSUME NEW t \in Threads, At(t, "expand") PROVE kernelId[t] = 1
  <2>1. base # 0
    BY <1>1, <1>3 DEF Inv, ReclaimInvariant, At
  <2>2. RoomFor(t)
    BY <1>1, <1>3, <2>1, Zenon DEF ContentInvariant, RoomKept, Producing
  <2>3. QED BY <2>2 DEF RoomFor
<1>4. QED BY <1>2, <1>3

\* Every segment number that was given out is carried by one thread until all
\* counters have passed it: none is missing from the order that the locks
\* enforce.
THEOREM NoSegmentIsLost == Spec => []SegmentsCarried
<1>1. Init => SegmentsCarried
  BY DEF Init, SegmentsCarried
<1>2. WholeInvariant /\ SegmentsCarried /\ [Next]_vars => SegmentsCarried'
  <2> SUFFICES ASSUME WholeInvariant, SegmentsCarried, [Next]_vars
               PROVE  SegmentsCarried'
    OBVIOUS
  <2>1. CountState
    BY WholeState
  <2>2. CASE \E t \in Threads : ThreadStep(t)
    BY <2>1, <2>2, CarriedKeeps
  <2>3. CASE UNCHANGED <<pipeline, locks, control>>
    BY <2>3 DEF SegmentsCarried, Active, DataParallel, locks, control
  <2>4. CASE ReleaseBuffer \/ Returned \/ UNCHANGED vars
    BY <2>3, <2>4 DEF ReleaseBuffer, Returned, vars
  <2>5. QED BY <2>2, <2>4 DEF Next
<1>3. QED BY <1>1, <1>2, WholeHolds, PTL DEF Spec

\* A producer that waits in ensureSufficientOutputSpace holds the counter that
\* later segments wait for, and waits for earlier ones; the thread with the
\* earliest segment is past all waiting.
THEOREM EarliestSegmentAdvances == Spec => []EarliestNeverWaits
<1>1. WholeInvariant /\ SegmentsCarried => EarliestNeverWaits
  <2> SUFFICES ASSUME WholeInvariant, SegmentsCarried PROVE EarliestNeverWaits
    OBVIOUS
  <2>1. CountState
    BY WholeState
  <2>2. QED BY <2>1, WholeState, EarliestMayGo DEF EarliestNeverWaits
<1>2. QED BY <1>1, WholeHolds, NoSegmentIsLost, PTL

\* So the threads never all wait for one another, whatever jumps, expansions
\* and terminated consumers do to the counters.
THEOREM NoDeadlock == Spec => []SomeThreadGoesOn
<1>1. WholeInvariant /\ SegmentsCarried => SomeThreadGoesOn
  <2> SUFFICES ASSUME WholeInvariant, SegmentsCarried,
                      \E t \in Threads : Active(t)
               PROVE  \E t \in Threads : Active(t) /\ ~Waits(t)
    BY DEF SomeThreadGoesOn
  <2>1. CountState
    BY WholeState
  <2> DEFINE Carried == { segNo[t] : t \in { u \in Threads : Active(u) } }
  <2>2. Carried \subseteq Nat /\ Carried # {}
    BY <2>1 DEF CountState, LockState, PositionsMatchCounters
  <2>3. Min(Carried) \in Carried /\ \A n \in Carried : Min(Carried) <= n
    <3> HIDE DEF Carried
    <3>1. QED BY <2>2, MinProperties
  <2>4. PICK t \in Threads : Active(t) /\ segNo[t] = Min(Carried)
    <3> DEFINE least == Min(Carried)
    <3>1. least \in Carried
      BY <2>3
    <3> HIDE DEF least
    <3>2. \E u \in Threads : Active(u) /\ segNo[u] = least
      BY <3>1
    <3>3. QED BY <3>2 DEF least
  <2>5. \A u \in Threads : Active(u) => segNo[t] <= segNo[u]
    <3> DEFINE least == Min(Carried)
    <3>1. segNo[t] = least /\ \A n \in Carried : least <= n
      BY <2>3, <2>4
    <3> HIDE DEF least
    <3>2. QED BY <3>1
  <2>6. QED BY <2>1, <2>4, <2>5, WholeState, EarliestMayGo
<1>2. QED BY <1>1, WholeHolds, NoSegmentIsLost, PTL
=============================================================================
