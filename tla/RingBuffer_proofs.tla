------------------------- MODULE RingBuffer_proofs --------------------------
(***************************************************************************)
(* The circular array is the bounded queue BoundedFifo, whatever the       *)
(* chunks, the first capacity and the two limits are.  The proof works on  *)
(* records: a lemma for each operation of the array says that the result   *)
(* is Sound, and which chunks it holds, from the oldest on.                *)
(***************************************************************************)
EXTENDS RingBuffer, SequenceTheorems, FiniteSetTheorems, WellFoundedInduction, TLAPS

(***************************************************************************)
(* Natural numbers and queues of chunks.                                   *)
(***************************************************************************)

LEMMA LeastNat ==
    ASSUME NEW S \in SUBSET Nat, S # {}
    PROVE  \E m \in S : \A k \in S : m <= k
<1> DEFINE R == {p \in Nat \X Nat : p[1] < p[2]}
<1>1. IsWellFoundedOn(R, Nat)
  <2>1. R = OpToRel(<, Nat)
    BY DEF OpToRel
  <2> QED BY <2>1, NatLessThanWellFounded
<1> HIDE DEF R
<1>2. PICK m \in S : \A y \in S : ~ (<<y, m>> \in R)
  BY <1>1, WFMin
<1>3. \A y \in S : m <= y
  <2> TAKE y \in S
  <2>1. y \in Nat /\ m \in Nat /\ ~(y < m)
    BY <1>2 DEF R
  <2> QED BY <2>1
<1> QED BY <1>3

\* The positions of the bytes of one chunk.
LEMMA RowFinite ==
    ASSUME NEW S, NEW c \in Seq(S), NEW i
    PROVE  IsFiniteSet({i} \X DOMAIN c) /\ Cardinality({i} \X DOMAIN c) = Len(c)
<1>1. DOMAIN c = 1..Len(c) /\ Len(c) \in Nat
  OBVIOUS
<1>2. IsFiniteSet(DOMAIN c) /\ Cardinality(DOMAIN c) = Len(c)
  BY <1>1, FS_Interval, SMTT(30)
<1>3. IsFiniteSet({i}) /\ Cardinality({i}) = 1
  BY FS_Singleton
<1>4. /\ IsFiniteSet({i} \X DOMAIN c)
      /\ Cardinality({i} \X DOMAIN c) = Cardinality({i}) * Cardinality(DOMAIN c)
  BY <1>2, <1>3, FS_Product
<1> QED BY <1>1, <1>2, <1>3, <1>4

\* A queue of chunks has a finite number of bytes: if not, there is a shortest
\* prefix that has infinitely many, and without its last chunk it has not.
LEMMA PositionsFinite ==
    ASSUME NEW S, NEW q \in Seq(Seq(S))
    PROVE  IsFiniteSet(Positions(q)) /\ ByteCount(q) \in Nat
<1> DEFINE P(n) == UNION {{i} \X DOMAIN q[i] : i \in 1..n}
           Bad == {n \in 0..Len(q) : ~IsFiniteSet(P(n))}
<1>1. Bad = {}
  <2> SUFFICES ASSUME Bad # {} PROVE FALSE
    OBVIOUS
  <2>1. Bad \in SUBSET Nat
    OBVIOUS
  <2>2. PICK m \in Bad : \A k \in Bad : m <= k
    BY <2>1, LeastNat
  <2>3. CASE m = 0
    <3>1. P(0) = {}
      OBVIOUS
    <3> QED BY <2>3, <3>1, FS_EmptySet
  <2>4. CASE m # 0
    <3>1. m - 1 \in 0..Len(q) /\ m \in 1..Len(q) /\ ~(m <= m - 1)
      BY <2>4
    <3>2. IsFiniteSet(P(m - 1))
      BY <2>2, <3>1
    <3>3. IsFiniteSet({m} \X DOMAIN q[m])
      <4>1. q[m] \in Seq(S)
        BY <3>1
      <4> QED BY <4>1, RowFinite
    <3>4. 1..m = (1..(m - 1)) \cup {m}
      BY <3>1
    <3>5. P(m) = P(m - 1) \cup ({m} \X DOMAIN q[m])
      BY <3>4
    <3>6. IsFiniteSet(P(m))
      <4> DEFINE Row == {m} \X DOMAIN q[m]
      <4>1. IsFiniteSet(Row) /\ P(m) = P(m - 1) \cup Row
        BY <3>3, <3>5
      <4> HIDE DEF P, Row
      <4>2. IsFiniteSet(P(m - 1) \cup Row)
        BY <3>2, <4>1, FS_Union
      <4> QED BY <4>1, <4>2
    <3> QED BY <3>6
  <2> QED BY <2>3, <2>4
<1>2. Len(q) \in 0..Len(q) /\ DOMAIN q = 1..Len(q)
  OBVIOUS
<1>3. IsFiniteSet(P(Len(q)))
  BY <1>1, <1>2
<1>4. Positions(q) = P(Len(q))
  BY <1>2 DEF Positions
<1> QED BY <1>3, <1>4, FS_CardinalityType DEF ByteCount

\* An empty queue has none.
LEMMA NoBytes == ByteCount(<<>>) = 0
<1>1. Positions(<<>>) = {}
  BY DEF Positions
<1> QED BY <1>1, FS_EmptySet DEF ByteCount

\* A chunk more has its length in bytes more.
LEMMA BytesAppended ==
    ASSUME NEW S, NEW q \in Seq(Seq(S)), NEW c \in Seq(S)
    PROVE  ByteCount(Append(q, c)) = ByteCount(q) + Len(c)
<1> DEFINE n == Len(q) + 1
           Row == {n} \X DOMAIN c
<1>1. /\ DOMAIN Append(q, c) = DOMAIN q \cup {n} /\ n \notin DOMAIN q
      /\ \A i \in DOMAIN q : Append(q, c)[i] = q[i]
      /\ Append(q, c)[n] = c
  OBVIOUS
<1>2. Positions(Append(q, c)) = Positions(q) \cup Row
  BY <1>1 DEF Positions
<1>3. Positions(q) \cap Row = {}
  BY <1>1 DEF Positions
<1>4. IsFiniteSet(Positions(q)) /\ Cardinality(Positions(q)) \in Nat
  BY PositionsFinite, FS_CardinalityType
<1>5. IsFiniteSet(Row) /\ Cardinality(Row) = Len(c) /\ Len(c) \in Nat
  <2> HIDE DEF n
  <2>1. Len(c) \in Nat
    OBVIOUS
  <2> QED BY <2>1, RowFinite
<1> HIDE DEF Row
<1>6. Cardinality(Positions(q) \cap Row) = 0
  BY <1>3, FS_EmptySet
<1>7. Cardinality(Positions(q) \cup Row)
        = Cardinality(Positions(q)) + Cardinality(Row) - Cardinality(Positions(q) \cap Row)
  BY <1>4, <1>5, FS_Union
<1>8. Cardinality(Positions(Append(q, c))) = Cardinality(Positions(q)) + Len(c)
  BY <1>2, <1>4, <1>5, <1>6, <1>7
<1> QED BY <1>8 DEF ByteCount

\* A queue that is cut has the bytes of its two parts: if not, there is a first
\* place of the second part up to which it has not.
LEMMA BytesOfParts ==
    ASSUME NEW S, NEW q \in Seq(Seq(S)), NEW n \in 0..Len(q)
    PROVE  ByteCount(q) = ByteCount(SubSeq(q, 1, n)) + ByteCount(SubSeq(q, n + 1, Len(q)))
<1> DEFINE Upto(m) == SubSeq(q, 1, m)
           From(m) == SubSeq(q, n + 1, m)
           Bad == {m \in n..Len(q) : ByteCount(Upto(m)) # ByteCount(Upto(n)) + ByteCount(From(m))}
<1>1. Bad = {}
  <2> SUFFICES ASSUME Bad # {} PROVE FALSE
    OBVIOUS
  <2>1. Bad \in SUBSET Nat
    OBVIOUS
  <2>2. PICK m \in Bad : \A k \in Bad : m <= k
    BY <2>1, LeastNat
  <2>3. /\ Upto(n) \in Seq(Seq(S))
        /\ \A k \in n..Len(q) : Upto(k) \in Seq(Seq(S)) /\ From(k) \in Seq(Seq(S))
    OBVIOUS
  <2>4. CASE m = n
    <3>1. From(n) = <<>>
      OBVIOUS
    <3>2. ByteCount(From(n)) = 0 /\ ByteCount(Upto(n)) \in Nat
      BY <3>1, <2>3, NoBytes, PositionsFinite
    <3> QED BY <2>4, <3>2
  <2>5. CASE m # n
    <3>1. m - 1 \in n..Len(q) /\ m \in 1..Len(q) /\ ~(m <= m - 1)
      BY <2>5
    <3>2. ByteCount(Upto(m - 1)) = ByteCount(Upto(n)) + ByteCount(From(m - 1))
      BY <2>2, <3>1
    <3>3. q[m] \in Seq(S) /\ Len(q[m]) \in Nat
      BY <3>1
    <3>4. Upto(m) = Append(Upto(m - 1), q[m])
      BY <3>1, SMTT(30)
    <3>5. From(m) = Append(From(m - 1), q[m])
      BY <3>1, SMTT(30)
    <3> DEFINE u == Upto(m - 1)
               f == From(m - 1)
    <3>6. u \in Seq(Seq(S)) /\ f \in Seq(Seq(S))
      BY <2>3, <3>1
    <3>7. ByteCount(Upto(m)) = ByteCount(Append(u, q[m])) /\ ByteCount(From(m)) = ByteCount(Append(f, q[m]))
      BY <3>4, <3>5
    <3>8. ByteCount(Upto(n)) \in Nat
      BY <2>3, PositionsFinite
    <3>9. ByteCount(u) = ByteCount(Upto(n)) + ByteCount(f)
      BY <3>2
    <3>10. ByteCount(Upto(m)) # ByteCount(Upto(n)) + ByteCount(From(m))
      OBVIOUS
    <3> HIDE DEF u, f, Upto, From
    <3>11. /\ ByteCount(Append(u, q[m])) = ByteCount(u) + Len(q[m])
           /\ ByteCount(Append(f, q[m])) = ByteCount(f) + Len(q[m])
           /\ ByteCount(f) \in Nat
      BY <3>3, <3>6, BytesAppended, PositionsFinite
    <3> QED BY <3>3, <3>7, <3>8, <3>9, <3>10, <3>11
  <2> QED BY <2>4, <2>5
<1>2. Len(q) \in n..Len(q) /\ Upto(Len(q)) = q
  OBVIOUS
<1> QED BY <1>1, <1>2

(***************************************************************************)
(* The array.                                                              *)
(***************************************************************************)

\* The slot k places behind the head h of an array of c slots.
LEMMA Wrapped ==
    ASSUME NEW c \in Nat \ {0}, NEW h \in 0..(c - 1), NEW k \in 0..c
    PROVE  /\ (h + k) % c = IF h + k < c THEN h + k ELSE h + k - c
           /\ (h + k) % c \in 0..(c - 1)
<1>1. CASE h + k < c
  BY <1>1
<1>2. CASE ~(h + k < c)
  <2>1. h + k >= c /\ h + k < c + c /\ h + k \in Nat
    BY <1>2
  <2> QED BY <2>1, <1>2
<1> QED BY <1>1, <1>2

\* Places are counted from a head that moved as from where it was, and two
\* places within one round are two slots.
LEMMA Slides ==
    ASSUME NEW c \in Nat \ {0}, NEW h \in 0..(c - 1), NEW n \in 0..c, NEW k \in 0..c,
           n + k <= c
    PROVE  (((h + n) % c) + k) % c = (h + (n + k)) % c
<1> DEFINE g == (h + n) % c
<1>1. g = (IF h + n < c THEN h + n ELSE h + n - c) /\ g \in 0..(c - 1)
  BY Wrapped
<1> HIDE DEF g
<1>2. (g + k) % c = IF g + k < c THEN g + k ELSE g + k - c
  BY <1>1, Wrapped
<1>3. n + k \in 0..c
  OBVIOUS
<1>4. (h + (n + k)) % c = IF h + (n + k) < c THEN h + (n + k) ELSE h + (n + k) - c
  BY <1>3, Wrapped
<1>5. (g + k) % c = (h + (n + k)) % c
  BY <1>1, <1>2, <1>4
<1> QED BY <1>5 DEF g

LEMMA Apart ==
    ASSUME NEW c \in Nat \ {0}, NEW h \in 0..(c - 1), NEW j \in 0..(c - 1), NEW k \in 0..(c - 1),
           (h + j) % c = (h + k) % c
    PROVE  j = k
<1>1. j \in 0..c /\ k \in 0..c
  OBVIOUS
<1>2. /\ (h + j) % c = IF h + j < c THEN h + j ELSE h + j - c
      /\ (h + k) % c = IF h + k < c THEN h + k ELSE h + k - c
  BY <1>1, Wrapped
<1>3. (IF h + j < c THEN h + j ELSE h + j - c) = (IF h + k < c THEN h + k ELSE h + k - c)
  BY <1>2
<1> QED BY <1>3

\* A ring between two operations, with every book in step.
Sound(r) ==
    /\ r = [slots |-> r.slots, cap |-> r.cap, head |-> r.head, tail |-> r.tail,
            size |-> r.size, byteTotal |-> r.byteTotal]
    /\ r.cap \in Nat \ {0}
    /\ r.slots \in [0..(r.cap - 1) -> Chunks \cup {Nil}]
    /\ r.head \in 0..(r.cap - 1) /\ r.size \in 0..r.cap
    /\ r.tail = (r.head + r.size) % r.cap
    /\ \A i \in 0..(r.cap - 1) :
         (r.slots[i] # Nil) <=> \E k \in 0..(r.size - 1) : i = (r.head + k) % r.cap
    /\ r.byteTotal = ByteCount(Oldest(r, r.size))

Contents(r) == Oldest(r, r.size)

LEMMA ChunksAreBytes == Seq(Chunks) \subseteq Seq(Seq(Nat))
<1>1. Chunks \subseteq Seq(Nat)
  BY RingAssumption
<1> SUFFICES ASSUME NEW q \in Seq(Chunks) PROVE q \in Seq(Seq(Nat))
  OBVIOUS
<1>2. \A i \in 1..Len(q) : q[i] \in Seq(Nat)
  BY <1>1
<1>3. q = [i \in 1..Len(q) |-> q[i]] /\ Len(q) \in Nat
  OBVIOUS
<1> QED BY <1>2, <1>3

\* The oldest chunks of a ring are a queue of chunks, the first of its contents.
LEMMA OldestIs ==
    ASSUME NEW r, Sound(r), NEW n \in 0..r.size
    PROVE  /\ Oldest(r, n) \in Seq(Chunks) /\ Len(Oldest(r, n)) = n
           /\ \A k \in 1..n : Oldest(r, n)[k] = r.slots[(r.head + k - 1) % r.cap]
           /\ Oldest(r, n) = SubSeq(Contents(r), 1, n)
<1>1. ASSUME NEW k \in 1..r.size
      PROVE  r.slots[(r.head + k - 1) % r.cap] \in Chunks
  <2> DEFINE j == k - 1
             i == (r.head + j) % r.cap
  <2>1. j \in 0..r.cap /\ j \in 0..(r.size - 1) /\ r.head + k - 1 = r.head + j
    BY DEF Sound
  <2> HIDE DEF j
  <2>2. i \in 0..(r.cap - 1)
    BY <2>1, Wrapped DEF Sound
  <2>3. r.slots[i] # Nil
    BY <2>1, <2>2 DEF Sound
  <2>4. r.slots[i] \in Chunks \cup {Nil}
    BY <2>2 DEF Sound
  <2> QED BY <2>1, <2>3, <2>4
<1>2. n \in Nat /\ r.size \in Nat /\ n <= r.size
  BY DEF Sound
<1> DEFINE g(k) == r.slots[(r.head + k - 1) % r.cap]
<1>3. \A k \in 1..r.size : g(k) \in Chunks
  BY <1>1
<1>4. Oldest(r, n) = [k \in 1..n |-> g(k)] /\ Contents(r) = [k \in 1..r.size |-> g(k)]
  BY DEF Oldest, Contents
<1> HIDE DEF g
<1>5. [k \in 1..n |-> g(k)] \in Seq(Chunks)
  BY <1>2, <1>3
<1>6. [k \in 1..r.size |-> g(k)] \in Seq(Chunks)
  BY <1>2, <1>3
<1>7. Len([k \in 1..n |-> g(k)]) = n /\ Len([k \in 1..r.size |-> g(k)]) = r.size
  BY <1>2, <1>5, <1>6
<1>8. [k \in 1..n |-> g(k)] = SubSeq([k \in 1..r.size |-> g(k)], 1, n)
  BY <1>2, <1>3, <1>6, <1>7
<1>9. \A k \in 1..n : Oldest(r, n)[k] = g(k)
  BY <1>4
<1> QED BY <1>4, <1>5, <1>7, <1>8, <1>9 DEF g

\* A slot is in the window of a ring for one place only.
LEMMA OnePlace ==
    ASSUME NEW r, Sound(r), NEW j \in 0..(r.size - 1), NEW k \in 0..(r.size - 1),
           (r.head + j) % r.cap = (r.head + k) % r.cap
    PROVE  j = k
<1>1. j \in 0..(r.cap - 1) /\ k \in 0..(r.cap - 1)
  BY SMTT(30) DEF Sound
<1> QED BY <1>1, Apart DEF Sound

\* A ring with four of its fields replaced.
LEMMA FourReplaced ==
    ASSUME NEW r, NEW s, NEW h, NEW z, NEW b,
           r = [slots |-> r.slots, cap |-> r.cap, head |-> r.head, tail |-> r.tail,
                size |-> r.size, byteTotal |-> r.byteTotal]
    PROVE  [r EXCEPT !.slots = s, !.head = h, !.size = z, !.byteTotal = b]
             = [slots |-> s, cap |-> r.cap, head |-> h, tail |-> r.tail, size |-> z, byteTotal |-> b]
<1> DEFINE x == [r EXCEPT !.slots = s, !.head = h, !.size = z, !.byteTotal = b]
           F == {"slots", "cap", "head", "tail", "size", "byteTotal"}
<1>1. DOMAIN r = F /\ r = [f \in F |-> r[f]]
  <2> DEFINE v == [slots |-> r.slots, cap |-> r.cap, head |-> r.head, tail |-> r.tail,
                   size |-> r.size, byteTotal |-> r.byteTotal]
  <2>1. DOMAIN v = F /\ v = [f \in F |-> v[f]]
    OBVIOUS
  <2>2. r = v
    OBVIOUS
  <2> HIDE DEF v
  <2> QED BY <2>1, <2>2
<1>2. x = [f \in F |-> x[f]]
  BY <1>1
<1>3. /\ x.slots = s /\ x.cap = r.cap /\ x.head = h /\ x.tail = r.tail
      /\ x.size = z /\ x.byteTotal = b
  BY <1>1
<1> HIDE DEF x
<1>4. x = [slots |-> s, cap |-> r.cap, head |-> h, tail |-> r.tail, size |-> z, byteTotal |-> b]
  BY <1>2, <1>3
<1> QED BY <1>4 DEF x

LEMMA FourGrown ==
    ASSUME NEW r, NEW c, NEW h, NEW t, NEW s,
           r = [slots |-> r.slots, cap |-> r.cap, head |-> r.head, tail |-> r.tail,
                size |-> r.size, byteTotal |-> r.byteTotal]
    PROVE  [r EXCEPT !.cap = c, !.head = h, !.tail = t, !.slots = s]
             = [slots |-> s, cap |-> c, head |-> h, tail |-> t, size |-> r.size, byteTotal |-> r.byteTotal]
<1> DEFINE x == [r EXCEPT !.cap = c, !.head = h, !.tail = t, !.slots = s]
           F == {"slots", "cap", "head", "tail", "size", "byteTotal"}
<1>1. DOMAIN r = F /\ r = [f \in F |-> r[f]]
  <2> DEFINE v == [slots |-> r.slots, cap |-> r.cap, head |-> r.head, tail |-> r.tail,
                   size |-> r.size, byteTotal |-> r.byteTotal]
  <2>1. DOMAIN v = F /\ v = [f \in F |-> v[f]]
    OBVIOUS
  <2>2. r = v
    OBVIOUS
  <2> HIDE DEF v
  <2> QED BY <2>1, <2>2
<1>2. x = [f \in F |-> x[f]]
  BY <1>1
<1>3. /\ x.slots = s /\ x.cap = c /\ x.head = h /\ x.tail = t
      /\ x.size = r.size /\ x.byteTotal = r.byteTotal
  BY <1>1
<1> HIDE DEF x
<1>4. x = [slots |-> s, cap |-> c, head |-> h, tail |-> t, size |-> r.size, byteTotal |-> r.byteTotal]
  BY <1>2, <1>3
<1> QED BY <1>4 DEF x

LEMMA FourStored ==
    ASSUME NEW r, NEW s, NEW t, NEW z, NEW b,
           r = [slots |-> r.slots, cap |-> r.cap, head |-> r.head, tail |-> r.tail,
                size |-> r.size, byteTotal |-> r.byteTotal]
    PROVE  [r EXCEPT !.slots = s, !.tail = t, !.size = z, !.byteTotal = b]
             = [slots |-> s, cap |-> r.cap, head |-> r.head, tail |-> t, size |-> z, byteTotal |-> b]
<1> DEFINE x == [r EXCEPT !.slots = s, !.tail = t, !.size = z, !.byteTotal = b]
           F == {"slots", "cap", "head", "tail", "size", "byteTotal"}
<1>1. DOMAIN r = F /\ r = [f \in F |-> r[f]]
  <2> DEFINE v == [slots |-> r.slots, cap |-> r.cap, head |-> r.head, tail |-> r.tail,
                   size |-> r.size, byteTotal |-> r.byteTotal]
  <2>1. DOMAIN v = F /\ v = [f \in F |-> v[f]]
    OBVIOUS
  <2>2. r = v
    OBVIOUS
  <2> HIDE DEF v
  <2> QED BY <2>1, <2>2
<1>2. x = [f \in F |-> x[f]]
  BY <1>1
<1>3. /\ x.slots = s /\ x.cap = r.cap /\ x.head = r.head /\ x.tail = t
      /\ x.size = z /\ x.byteTotal = b
  BY <1>1
<1> HIDE DEF x
<1>4. x = [slots |-> s, cap |-> r.cap, head |-> r.head, tail |-> t, size |-> z, byteTotal |-> b]
  BY <1>2, <1>3
<1> QED BY <1>4 DEF x

\* Taking the n oldest chunks leaves a ring that holds the others.
LEMMA WithoutOldestIs ==
    ASSUME NEW r, Sound(r), NEW n \in 0..r.size
    PROVE  /\ Sound(WithoutOldest(r, n))
           /\ WithoutOldest(r, n).size = r.size - n
           /\ Contents(WithoutOldest(r, n)) = SubSeq(Contents(r), n + 1, Len(Contents(r)))
           /\ WithoutOldest(r, n).byteTotal = ByteCount(SubSeq(Contents(r), n + 1, Len(Contents(r))))
<1> DEFINE w == WithoutOldest(r, n)
           c == r.cap
           h == r.head
           left == r.size - n
<1>1. /\ c \in Nat \ {0} /\ h \in 0..(c - 1) /\ r.size \in 0..c /\ n \in 0..c /\ left \in 0..c
      /\ n \in Nat /\ r.size \in Nat /\ left \in Nat /\ n + left = r.size
  BY DEF Sound
<1>1a. r = [slots |-> r.slots, cap |-> r.cap, head |-> r.head, tail |-> r.tail,
            size |-> r.size, byteTotal |-> r.byteTotal]
  BY DEF Sound
<1> DEFINE S == [i \in 0..(r.cap - 1) |->
                   IF \E k \in 0..(n - 1) : i = (r.head + k) % r.cap THEN Nil ELSE r.slots[i]]
           H == (r.head + n) % r.cap
           Z == r.size - n
           B == r.byteTotal - ByteCount(Oldest(r, n))
<1>1b. w = [slots |-> S, cap |-> r.cap, head |-> H, tail |-> r.tail, size |-> Z, byteTotal |-> B]
  <2>1. w = [r EXCEPT !.slots = S, !.head = H, !.size = Z, !.byteTotal = B]
    BY DEF WithoutOldest
  <2> HIDE DEF w, S, H, Z, B
  <2> QED BY <1>1a, <2>1, FourReplaced
<1>2. /\ w = [slots |-> w.slots, cap |-> w.cap, head |-> w.head, tail |-> w.tail,
              size |-> w.size, byteTotal |-> w.byteTotal]
      /\ w.cap = c /\ w.tail = r.tail /\ w.size = left
      /\ w.head = (h + n) % c
      /\ w.byteTotal = r.byteTotal - ByteCount(Oldest(r, n))
      /\ w.slots = [i \in 0..(c - 1) |->
                      IF \E k \in 0..(n - 1) : i = (h + k) % c THEN Nil ELSE r.slots[i]]
  BY <1>1b
<1>3. r.slots \in [0..(c - 1) -> Chunks \cup {Nil}]
  BY DEF Sound
<1>4. \A i \in 0..(c - 1) : (r.slots[i] # Nil) <=> \E k \in 0..(r.size - 1) : i = (h + k) % c
  BY DEF Sound
<1>5. \A j, k \in 0..(r.size - 1) : (h + j) % c = (h + k) % c => j = k
  BY OnePlace
<1>6. r.tail = (h + r.size) % c /\ r.byteTotal = ByteCount(Contents(r))
  BY DEF Sound, Contents
<1>6a. r.size \in 0..r.size
  BY <1>1
<1>7. /\ Contents(r) \in Seq(Chunks) /\ Len(Contents(r)) = r.size
      /\ \A k \in 1..r.size : Contents(r)[k] = r.slots[(h + k - 1) % c]
      /\ Oldest(r, n) = SubSeq(Contents(r), 1, n)
  BY <1>6a, OldestIs DEF Contents
<1>8. Contents(w) = [k \in 1..left |-> w.slots[(w.head + k - 1) % c]]
  BY <1>2 DEF Contents, Oldest
<1>8a. Sound(w) <=>
      /\ w.cap \in Nat \ {0}
      /\ w.slots \in [0..(w.cap - 1) -> Chunks \cup {Nil}]
      /\ w.head \in 0..(w.cap - 1) /\ w.size \in 0..w.cap
      /\ w.tail = (w.head + w.size) % w.cap
      /\ \A i \in 0..(w.cap - 1) :
           (w.slots[i] # Nil) <=> \E k \in 0..(w.size - 1) : i = (w.head + k) % w.cap
      /\ w.byteTotal = ByteCount(Contents(w))
  BY <1>2 DEF Sound, Contents
<1> HIDE DEF w, c, h, left
<1>9. \A k \in 0..left : (w.head + k) % c = (h + (n + k)) % c
  <2> TAKE k \in 0..left
  <2>1. k \in 0..c /\ n + k <= c
    BY <1>1
  <2>2. (((h + n) % c) + k) % c = (h + (n + k)) % c
    BY <2>1, <1>1, Slides
  <2> QED BY <2>2, <1>2
<1>10. \A k \in 0..c : (h + k) % c \in 0..(c - 1)
  BY <1>1, Wrapped
<1>11. w.head \in 0..(c - 1)
  BY <1>2, <1>10, <1>1
<1>12. w.slots \in [0..(c - 1) -> Chunks \cup {Nil}]
  BY <1>2, <1>3, ZenonT(30)
<1>13. w.tail = (w.head + left) % c
  <2>1. left \in 0..left
    BY <1>1
  <2> QED BY <1>2, <1>6, <1>9, <1>1, <2>1
<1>14. ASSUME NEW i \in 0..(c - 1)
       PROVE  (w.slots[i] # Nil) <=> \E k \in 0..(left - 1) : i = (w.head + k) % c
  <2>1. ASSUME w.slots[i] # Nil
        PROVE  \E k \in 0..(left - 1) : i = (w.head + k) % c
    <3>1. r.slots[i] # Nil /\ ~ \E k \in 0..(n - 1) : i = (h + k) % c
      BY <2>1, <1>2
    <3>2. PICK k \in 0..(r.size - 1) : i = (h + k) % c
      BY <3>1, <1>4
    <3>3. ~(k < n)
      BY <3>1, <3>2, <1>1
    <3>4. k - n \in 0..(left - 1) /\ k - n \in 0..left /\ n + (k - n) = k
      BY <3>3, <1>1
    <3>5. (w.head + (k - n)) % c = (h + (n + (k - n))) % c
      BY <3>4, <1>9
    <3> QED BY <3>2, <3>4, <3>5
  <2>2. ASSUME NEW k \in 0..(left - 1), i = (w.head + k) % c
        PROVE  w.slots[i] # Nil
    <3>1. k \in 0..left /\ n + k \in 0..(r.size - 1)
      BY <1>1
    <3>2. i = (h + (n + k)) % c
      BY <2>2, <3>1, <1>9
    <3>3. r.slots[i] # Nil
      BY <3>1, <3>2, <1>4
    <3>4. ASSUME NEW j \in 0..(n - 1), i = (h + j) % c
          PROVE  FALSE
      <4>1. j \in 0..(r.size - 1)
        BY <1>1
      <4>2. j = n + k
        BY <3>1, <3>2, <3>4, <4>1, <1>5
      <4> QED BY <4>2, <1>1
    <3> QED BY <3>3, <3>4, <1>2
  <2> QED BY <2>1, <2>2
<1>15. Contents(w) = SubSeq(Contents(r), n + 1, r.size)
  <2>1. ASSUME NEW k \in 1..left
        PROVE  w.slots[(w.head + k - 1) % c] = Contents(r)[n + k]
    <3> DEFINE i == (w.head + (k - 1)) % c
    <3>1. k - 1 \in 0..left /\ k - 1 \in 0..(left - 1) /\ n + k \in 1..r.size
      BY <1>1
    <3>2. w.head + k - 1 = w.head + (k - 1) /\ h + (n + k) - 1 = h + (n + (k - 1))
      BY <1>11, <1>1
    <3>3. i = (h + (n + (k - 1))) % c
      BY <3>1, <1>9
    <3>4. Contents(r)[n + k] = r.slots[i]
      BY <3>1, <3>2, <3>3, <1>7
    <3>5. n + (k - 1) \in 0..c /\ w.head \in 0..(c - 1) /\ k - 1 \in 0..c
      BY <3>1, <1>1, <1>11
    <3>6. i \in 0..(c - 1)
      BY <3>3, <3>5, <1>10
    <3>7. w.slots[i] # Nil
      BY <3>1, <3>6, <1>14
    <3>8. w.slots[i] = r.slots[i]
      BY <3>6, <3>7, <1>2
    <3> QED BY <3>2, <3>4, <3>8
  <2>2. Contents(w) = [k \in 1..left |-> Contents(r)[n + k]]
    BY <2>1, <1>8
  <2>3. SubSeq(Contents(r), n + 1, r.size) = [k \in 1..left |-> Contents(r)[n + k]]
    <3> DEFINE s == SubSeq(Contents(r), n + 1, r.size)
    <3>1. s \in Seq(Chunks) /\ Len(s) = left
      BY <1>1, <1>7, SMTT(30)
    <3>2. \A k \in 1..left : s[k] = Contents(r)[n + k]
      BY <1>1, <1>7
    <3> HIDE DEF s
    <3>3. s = [k \in 1..left |-> s[k]]
      BY <3>1
    <3>4. s = [k \in 1..left |-> Contents(r)[n + k]]
      BY <3>2, <3>3
    <3> QED BY <3>4 DEF s
  <2> QED BY <2>2, <2>3
<1>16. w.byteTotal = ByteCount(Contents(w))
  <2>1. Contents(r) \in Seq(Seq(Nat)) /\ n \in 0..Len(Contents(r))
    BY <1>1, <1>7, ChunksAreBytes
  <2>2. ByteCount(Contents(r)) = ByteCount(SubSeq(Contents(r), 1, n)) + ByteCount(SubSeq(Contents(r), n + 1, r.size))
    BY <2>1, <1>7, BytesOfParts
  <2>3. SubSeq(Contents(r), 1, n) \in Seq(Seq(Nat)) /\ SubSeq(Contents(r), n + 1, r.size) \in Seq(Seq(Nat))
    BY <2>1, <1>1, <1>7
  <2>4. ByteCount(SubSeq(Contents(r), 1, n)) \in Nat /\ ByteCount(SubSeq(Contents(r), n + 1, r.size)) \in Nat
    BY <2>3, PositionsFinite
  <2>5. w.byteTotal = ByteCount(Contents(r)) - ByteCount(SubSeq(Contents(r), 1, n))
    BY <1>2, <1>6, <1>7
  <2> QED BY <2>2, <2>4, <2>5, <1>15
<1>17. Sound(w)
  BY <1>8a, <1>1, <1>2, <1>11, <1>12, <1>13, <1>14, <1>16, SMTT(30)
<1>18. /\ Sound(w) /\ w.size = left
       /\ Contents(w) = SubSeq(Contents(r), n + 1, Len(Contents(r)))
       /\ w.byteTotal = ByteCount(SubSeq(Contents(r), n + 1, Len(Contents(r))))
  BY <1>2, <1>7, <1>15, <1>16, <1>17
<1> QED BY <1>18 DEF w, left

\* The closed form of the eviction is the code's loop: no call of EvictOne leaves
\* the ring, and one call more leaves what one chunk less leaves.
LEMMA NoneEvicted ==
    ASSUME NEW r, Sound(r)
    PROVE  WithoutOldest(r, 0) = r
<1> DEFINE S == [i \in 0..(r.cap - 1) |->
                   IF \E k \in 0..(0 - 1) : i = (r.head + k) % r.cap THEN Nil ELSE r.slots[i]]
           H == (r.head + 0) % r.cap
           Z == r.size - 0
           B == r.byteTotal - ByteCount(Oldest(r, 0))
<1>1. r = [slots |-> r.slots, cap |-> r.cap, head |-> r.head, tail |-> r.tail,
           size |-> r.size, byteTotal |-> r.byteTotal]
  BY DEF Sound
<1>2. /\ r.cap \in Nat \ {0} /\ r.head \in 0..(r.cap - 1) /\ r.size \in Nat
      /\ r.slots \in [0..(r.cap - 1) -> Chunks \cup {Nil}]
  BY DEF Sound
<1>3. S = r.slots
  BY <1>2
<1>4. H = r.head /\ Z = r.size
  BY <1>2, SMTT(30)
<1>5. B = r.byteTotal
  <2>1. Oldest(r, 0) = <<>>
    BY DEF Oldest
  <2>2. Contents(r) \in Seq(Chunks)
    <3>1. r.size \in 0..r.size
      BY <1>2
    <3> QED BY <3>1, OldestIs DEF Contents
  <2>3. r.byteTotal \in Nat
    BY <2>2, ChunksAreBytes, PositionsFinite DEF Sound, Contents
  <2> QED BY <2>1, <2>3, NoBytes
<1>6. WithoutOldest(r, 0) = [r EXCEPT !.slots = S, !.head = H, !.size = Z, !.byteTotal = B]
  BY DEF WithoutOldest
<1> HIDE DEF S, H, Z, B
<1>7. WithoutOldest(r, 0) = [slots |-> S, cap |-> r.cap, head |-> H, tail |-> r.tail, size |-> Z, byteTotal |-> B]
  BY <1>1, <1>6, FourReplaced
<1> QED BY <1>1, <1>3, <1>4, <1>5, <1>7

LEMMA OneMoreEvicted ==
    ASSUME NEW r, Sound(r), NEW n \in 0..(r.size - 1)
    PROVE  EvictOne(WithoutOldest(r, n)) = WithoutOldest(r, n + 1)
<1> DEFINE S(m) == [i \in 0..(r.cap - 1) |->
                      IF \E k \in 0..(m - 1) : i = (r.head + k) % r.cap THEN Nil ELSE r.slots[i]]
           H(m) == (r.head + m) % r.cap
           Z(m) == r.size - m
           B(m) == r.byteTotal - ByteCount(Oldest(r, m))
           w == WithoutOldest(r, n)
           v == WithoutOldest(r, n + 1)
           c == r.cap
           h == r.head
           last == r.slots[(h + n) % c]
<1>1. /\ c \in Nat \ {0} /\ h \in 0..(c - 1) /\ r.size \in 0..c
      /\ n \in Nat /\ n \in 0..r.size /\ n + 1 \in 0..r.size /\ n \in 0..(c - 1) /\ n \in 0..c
      /\ n + 1 <= c /\ 1 \in 0..c /\ r.size \in Nat
      /\ r.slots \in [0..(c - 1) -> Chunks \cup {Nil}]
  BY DEF Sound
<1>2. r = [slots |-> r.slots, cap |-> r.cap, head |-> r.head, tail |-> r.tail,
           size |-> r.size, byteTotal |-> r.byteTotal]
  BY DEF Sound
<1>3. ASSUME NEW m
      PROVE  WithoutOldest(r, m) = [slots |-> S(m), cap |-> c, head |-> H(m), tail |-> r.tail,
                                    size |-> Z(m), byteTotal |-> B(m)]
  <2>1. WithoutOldest(r, m) = [r EXCEPT !.slots = S(m), !.head = H(m), !.size = Z(m), !.byteTotal = B(m)]
    BY DEF WithoutOldest
  <2> HIDE DEF S, H, Z, B
  <2> QED BY <1>2, <2>1, FourReplaced
<1>4. EvictOne(w) = [slots |-> [w.slots EXCEPT ![w.head] = Nil], cap |-> w.cap, head |-> (w.head + 1) % w.cap,
                     tail |-> w.tail, size |-> w.size - 1, byteTotal |-> w.byteTotal - Len(w.slots[w.head])]
  <2> DEFINE s2 == [w.slots EXCEPT ![w.head] = Nil]
             h2 == (w.head + 1) % w.cap
             z2 == w.size - 1
             b2 == w.byteTotal - Len(w.slots[w.head])
  <2>1. EvictOne(w) = [w EXCEPT !.slots = s2, !.head = h2, !.size = z2, !.byteTotal = b2]
    BY DEF EvictOne
  <2>2. w = [slots |-> w.slots, cap |-> w.cap, head |-> w.head, tail |-> w.tail,
             size |-> w.size, byteTotal |-> w.byteTotal]
    <3> HIDE DEF S, H, Z, B
    <3> QED BY <1>3
  <2> HIDE DEF s2, h2, z2, b2, w
  <2>3. EvictOne(w) = [slots |-> s2, cap |-> w.cap, head |-> h2, tail |-> w.tail, size |-> z2, byteTotal |-> b2]
    BY <2>1, <2>2, FourReplaced
  <2> QED BY <2>3 DEF s2, h2, z2, b2
<1>5. w.slots = S(n) /\ w.cap = c /\ w.head = H(n) /\ w.tail = r.tail /\ w.size = Z(n) /\ w.byteTotal = B(n)
  <2> HIDE DEF S, H, Z, B, c
  <2> QED BY <1>3
<1> HIDE DEF w, v
<1>6. H(n) \in 0..(c - 1) /\ \A k \in 0..(n - 1) : (h + k) % c # H(n)
  <2>1. H(n) \in 0..(c - 1)
    BY <1>1, Wrapped
  <2>2. ASSUME NEW k \in 0..(n - 1)
        PROVE  (h + k) % c # H(n)
    <3>1. k \in 0..(c - 1) /\ k # n
      BY <1>1
    <3> QED BY <3>1, <1>1, Apart
  <2> QED BY <2>1, <2>2
<1>7. S(n)[H(n)] = last
  BY <1>6
<1>8. [S(n) EXCEPT ![H(n)] = Nil] = S(n + 1)
  <2> DEFINE a == [S(n) EXCEPT ![H(n)] = Nil]
  <2>1. a = [i \in 0..(c - 1) |-> IF i = H(n) THEN Nil ELSE S(n)[i]]
    OBVIOUS
  <2>2. ASSUME NEW i \in 0..(c - 1)
        PROVE  (IF i = H(n) THEN Nil ELSE S(n)[i]) = S(n + 1)[i]
    <3>1. 0..((n + 1) - 1) = 0..(n - 1) \cup {n}
      BY <1>1
    <3> QED BY <3>1
  <2>3. S(n + 1) = [i \in 0..(c - 1) |-> S(n + 1)[i]]
    OBVIOUS
  <2> HIDE DEF S, H
  <2> QED BY <2>1, <2>2, <2>3
<1>9. (H(n) + 1) % c = H(n + 1)
  BY <1>1, Slides
<1>10. Z(n) - 1 = Z(n + 1)
  BY <1>1
<1>11. B(n) - Len(last) = B(n + 1)
  <2> DEFINE p == Oldest(r, n)
             q == Oldest(r, n + 1)
  <2>1. p \in Seq(Chunks) /\ Len(p) = n /\ \A k \in 1..n : p[k] = r.slots[(h + k - 1) % c]
    BY <1>1, OldestIs
  <2>2. /\ q \in Seq(Chunks) /\ Len(q) = n + 1
        /\ \A k \in 1..(n + 1) : q[k] = r.slots[(h + k - 1) % c]
    BY <1>1, OldestIs
  <2>3. r.byteTotal \in Nat
    <3>1. r.size \in 0..r.size
      BY <1>1
    <3>2. Contents(r) \in Seq(Chunks)
      BY <3>1, OldestIs DEF Contents
    <3> QED BY <3>2, ChunksAreBytes, PositionsFinite DEF Sound, Contents
  <2> HIDE DEF p, q
  <2>4. h + (n + 1) - 1 = h + n /\ n + 1 \in 1..(n + 1)
    BY <1>1
  <2>5. q[n + 1] = last
    BY <2>2, <2>4
  <2>6. last \in Chunks
    BY <2>2, <2>4, <2>5
  <2> HIDE DEF last, c, h
  <2>7. q = Append(p, last)
    <3>1. \A k \in 1..n : q[k] = p[k]
      <4> TAKE k \in 1..n
      <4>1. k \in 1..(n + 1)
        BY <1>1
      <4> QED BY <4>1, <2>1, <2>2
    <3> QED BY <1>1, <2>1, <2>2, <2>5, <2>6, <3>1
  <2>8. p \in Seq(Seq(Nat)) /\ last \in Seq(Nat) /\ Len(last) \in Nat
    BY <2>1, <2>6, ChunksAreBytes, RingAssumption
  <2>9. ByteCount(q) = ByteCount(p) + Len(last) /\ ByteCount(p) \in Nat
    BY <2>7, <2>8, BytesAppended, PositionsFinite
  <2>10. r.byteTotal - ByteCount(p) - Len(last) = r.byteTotal - ByteCount(q)
    BY <2>3, <2>8, <2>9
  <2> QED BY <2>10 DEF p, q
<1>12. v = [slots |-> S(n + 1), cap |-> c, head |-> H(n + 1), tail |-> r.tail,
            size |-> Z(n + 1), byteTotal |-> B(n + 1)]
  BY <1>3 DEF v
<1> HIDE DEF S, H, Z, B, last, c
<1>13. EvictOne(w) = v
  BY <1>4, <1>5, <1>7, <1>8, <1>9, <1>10, <1>11, <1>12
<1> QED BY <1>13 DEF w, v

\* Growing keeps the chunks, in a ring that has room for one more.
LEMMA GrownIs ==
    ASSUME NEW r, Sound(r)
    PROVE  /\ Sound(Grown(r)) /\ Grown(r).size = r.size /\ Grown(r).size < Grown(r).cap
           /\ Contents(Grown(r)) = Contents(r)
<1>1. CASE r.cap > r.size
  <2>1. Grown(r) = r
    BY <1>1 DEF Grown
  <2> QED BY <1>1, <2>1 DEF Sound
<1>2. CASE ~(r.cap > r.size)
  <2> DEFINE c == r.cap
             h == r.head
             S == [i \in 0..(2 * r.cap - 1) |->
                     IF i < r.size THEN r.slots[(r.head + i) % r.cap] ELSE Nil]
             g == Grown(r)
  <2>1. r.size = c /\ c \in Nat \ {0} /\ h \in 0..(c - 1)
    BY <1>2 DEF Sound
  <2>2. /\ Contents(r) \in Seq(Chunks) /\ Len(Contents(r)) = r.size
        /\ \A k \in 1..r.size : Contents(r)[k] = r.slots[(h + k - 1) % c]
    <3>1. r.size \in 0..r.size
      BY <2>1
    <3> QED BY <3>1, OldestIs DEF Contents
  <2>3. g = [r EXCEPT !.cap = 2 * r.cap, !.head = 0, !.tail = r.size, !.slots = S]
    BY <1>2 DEF Grown
  <2>4. r = [slots |-> r.slots, cap |-> r.cap, head |-> r.head, tail |-> r.tail,
             size |-> r.size, byteTotal |-> r.byteTotal]
    BY DEF Sound
  <2>5. r.byteTotal = ByteCount(Contents(r))
    BY DEF Sound, Contents
  <2> HIDE DEF S
  <2>6. g = [slots |-> S, cap |-> 2 * c, head |-> 0, tail |-> r.size, size |-> r.size,
             byteTotal |-> r.byteTotal]
    <3> DEFINE d == 2 * c
    <3>1. g = [r EXCEPT !.cap = d, !.head = 0, !.tail = r.size, !.slots = S]
      BY <2>3
    <3> HIDE DEF g, c, d
    <3>2. g = [slots |-> S, cap |-> d, head |-> 0, tail |-> r.size, size |-> r.size,
               byteTotal |-> r.byteTotal]
      BY <2>4, <3>1, FourGrown
    <3> QED BY <3>2 DEF d
  <2>7. Sound(g) <=>
          /\ g.cap \in Nat \ {0}
          /\ g.slots \in [0..(g.cap - 1) -> Chunks \cup {Nil}]
          /\ g.head \in 0..(g.cap - 1) /\ g.size \in 0..g.cap
          /\ g.tail = (g.head + g.size) % g.cap
          /\ \A i \in 0..(g.cap - 1) :
               (g.slots[i] # Nil) <=> \E k \in 0..(g.size - 1) : i = (g.head + k) % g.cap
          /\ g.byteTotal = ByteCount(Contents(g))
    BY <2>6 DEF Sound, Contents
  <2>8. Contents(g) = [k \in 1..g.size |-> g.slots[(g.head + k - 1) % g.cap]]
    BY DEF Contents, Oldest
  <2>9. /\ g.cap = 2 * c /\ g.head = 0 /\ g.tail = c /\ g.size = c /\ g.slots = S
        /\ g.byteTotal = r.byteTotal
    BY <2>1, <2>6
  <2>10. \A i \in 0..(2 * c - 1) : S[i] = IF i < c THEN r.slots[(h + i) % c] ELSE Nil
    BY <2>1 DEF S
  <2>11. DOMAIN S = 0..(2 * c - 1) /\ S = [i \in 0..(2 * c - 1) |-> S[i]]
    BY DEF S
  <2> HIDE DEF g, c, h
  <2>12. \A i \in 0..(c - 1) : S[i] = Contents(r)[i + 1]
    <3> TAKE i \in 0..(c - 1)
    <3>1. i + 1 \in 1..r.size /\ h + (i + 1) - 1 = h + i /\ i \in 0..(2 * c - 1) /\ i < c
      BY <2>1
    <3> QED BY <3>1, <2>2, <2>10
  <2>13. \A i \in 0..(c - 1) : S[i] \in Chunks
    <3> TAKE i \in 0..(c - 1)
    <3>1. i + 1 \in 1..Len(Contents(r))
      BY <2>1, <2>2
    <3>2. Contents(r)[i + 1] \in Chunks
      BY <3>1, <2>2
    <3> QED BY <3>2, <2>12
  <2>14. \A i \in 0..(2 * c - 1) : ~(i \in 0..(c - 1)) => S[i] = Nil
    BY <2>1, <2>10
  <2>15. S \in [0..(2 * c - 1) -> Chunks \cup {Nil}]
    <3>1. \A i \in 0..(2 * c - 1) : S[i] \in Chunks \cup {Nil}
      BY <2>13, <2>14
    <3> QED BY <2>11, <3>1
  <2>16. \A k \in 0..(2 * c - 1) : (0 + k) % (2 * c) = k
    BY <2>1
  <2>17. ASSUME NEW i \in 0..(2 * c - 1)
         PROVE  (S[i] # Nil) <=> \E k \in 0..(c - 1) : i = (0 + k) % (2 * c)
    <3>1. i \in 0..(c - 1) <=> \E k \in 0..(c - 1) : i = (0 + k) % (2 * c)
      BY <2>1, <2>16
    <3>2. i \in 0..(c - 1) <=> S[i] # Nil
      BY <2>13, <2>14, RingAssumption
    <3> QED BY <3>1, <3>2
  <2>18. Contents(g) = Contents(r)
    <3>1. Contents(g) = [k \in 1..c |-> S[(0 + k - 1) % (2 * c)]]
      BY <2>8, <2>9
    <3>2. \A k \in 1..c : S[(0 + k - 1) % (2 * c)] = Contents(r)[k]
      <4> TAKE k \in 1..c
      <4>1. k - 1 \in 0..(c - 1) /\ k - 1 \in 0..(2 * c - 1) /\ 0 + k - 1 = 0 + (k - 1) /\ (k - 1) + 1 = k
        BY <2>1
      <4> QED BY <4>1, <2>12, <2>16
    <3>3. Contents(r) = [k \in 1..c |-> Contents(r)[k]]
      BY <2>1, <2>2
    <3> QED BY <3>1, <3>2, <3>3
  <2>19. c = (0 + c) % (2 * c)
    <3>1. c \in 0..(2 * c - 1)
      BY <2>1
    <3> QED BY <3>1, <2>16
  <2>20. 0 \in 0..(2 * c - 1) /\ c \in 0..(2 * c) /\ 2 * c \in Nat \ {0} /\ c < 2 * c
    BY <2>1
  <2>21. Sound(g)
    BY <2>5, <2>7, <2>9, <2>15, <2>17, <2>18, <2>19, <2>20
  <2> QED BY <2>1, <2>9, <2>18, <2>20, <2>21 DEF g
<1> QED BY <1>1, <1>2

\* Storing a chunk where there is room puts it behind the others.
LEMMA StoredIs ==
    ASSUME NEW r, Sound(r), r.size < r.cap, NEW chunk \in Chunks
    PROVE  /\ Sound(Stored(r, chunk)) /\ Stored(r, chunk).size = r.size + 1
           /\ Contents(Stored(r, chunk)) = Append(Contents(r), chunk)
<1> DEFINE c == r.cap
           h == r.head
           t == r.tail
           z == r.size
           S == [r.slots EXCEPT ![r.tail] = chunk]
           T == (r.tail + 1) % r.cap
           Z == r.size + 1
           B == r.byteTotal + Len(chunk)
           w == Stored(r, chunk)
<1>1. /\ c \in Nat \ {0} /\ h \in 0..(c - 1) /\ z \in 0..c /\ z < c
      /\ t = (h + z) % c
      /\ r.slots \in [0..(c - 1) -> Chunks \cup {Nil}]
  BY DEF Sound
<1>2. \A i \in 0..(c - 1) : (r.slots[i] # Nil) <=> \E k \in 0..(z - 1) : i = (h + k) % c
  BY DEF Sound
<1>3. r.byteTotal = ByteCount(Contents(r))
  BY DEF Sound, Contents
<1>4. /\ Contents(r) \in Seq(Chunks) /\ Len(Contents(r)) = z
      /\ \A k \in 1..z : Contents(r)[k] = r.slots[(h + k - 1) % c]
  <2>1. r.size \in 0..r.size
    BY <1>1
  <2> QED BY <2>1, OldestIs DEF Contents
<1>5. r = [slots |-> r.slots, cap |-> r.cap, head |-> r.head, tail |-> r.tail,
           size |-> r.size, byteTotal |-> r.byteTotal]
  BY DEF Sound
<1>6. w = [slots |-> S, cap |-> c, head |-> h, tail |-> T, size |-> Z, byteTotal |-> B]
  <2>1. w = [r EXCEPT !.slots = S, !.tail = T, !.size = Z, !.byteTotal = B]
    BY DEF Stored
  <2> HIDE DEF w, S, T, Z, B
  <2> QED BY <1>5, <2>1, FourStored
<1>7. Sound(w) <=>
        /\ w.cap \in Nat \ {0}
        /\ w.slots \in [0..(w.cap - 1) -> Chunks \cup {Nil}]
        /\ w.head \in 0..(w.cap - 1) /\ w.size \in 0..w.cap
        /\ w.tail = (w.head + w.size) % w.cap
        /\ \A i \in 0..(w.cap - 1) :
             (w.slots[i] # Nil) <=> \E k \in 0..(w.size - 1) : i = (w.head + k) % w.cap
        /\ w.byteTotal = ByteCount(Contents(w))
  BY <1>6 DEF Sound, Contents
<1>8. Contents(w) = [k \in 1..w.size |-> w.slots[(w.head + k - 1) % w.cap]]
  BY DEF Contents, Oldest
<1>9. /\ w.slots = S /\ w.cap = c /\ w.head = h /\ w.tail = T /\ w.size = Z /\ w.byteTotal = B
      /\ Z = z + 1 /\ T = (t + 1) % c /\ B = ByteCount(Contents(r)) + Len(chunk)
  BY <1>3, <1>6
<1> HIDE DEF w, T, Z, B, c, h, z
<1>10. t \in 0..(c - 1)
  BY <1>1, Wrapped
<1>11. S \in [0..(c - 1) -> Chunks \cup {Nil}] /\ S[t] = chunk
       /\ \A i \in 0..(c - 1) : i # t => S[i] = r.slots[i]
  BY <1>1, <1>10 DEF c
<1> HIDE DEF S, t
<1>12. ASSUME NEW j \in 0..(z - 1)
       PROVE  (h + j) % c # t /\ (h + j) % c \in 0..(c - 1)
  <2>1. j \in 0..(c - 1) /\ z \in 0..(c - 1) /\ j # z /\ j \in 0..c
    BY <1>1
  <2>2. (h + j) % c # (h + z) % c
    BY <2>1, <1>1, Apart
  <2> QED BY <2>1, <2>2, <1>1, Wrapped
<1>13. T = (h + Z) % c
  <2>1. z \in 0..c /\ 1 \in 0..c /\ z + 1 <= c
    BY <1>1
  <2>2. (((h + z) % c) + 1) % c = (h + (z + 1)) % c
    BY <2>1, <1>1, Slides
  <2> QED BY <2>2, <1>1, <1>9
<1>14. chunk # Nil
  BY RingAssumption
<1>15. ASSUME NEW i \in 0..(c - 1)
       PROVE  (S[i] # Nil) <=> \E k \in 0..(Z - 1) : i = (h + k) % c
  <2>1. Z - 1 = z /\ z \in Nat /\ 0..z = 0..(z - 1) \cup {z}
    BY <1>1, <1>9
  <2>2. CASE i = t
    <3>1. z \in 0..(Z - 1) /\ i = (h + z) % c
      BY <2>1, <2>2, <1>1
    <3>2. S[i] # Nil
      BY <2>2, <1>11, <1>14
    <3> QED BY <3>1, <3>2
  <2>3. CASE i # t
    <3>1. S[i] = r.slots[i]
      BY <2>3, <1>11
    <3>2. i # (h + z) % c
      BY <2>3, <1>1
    <3>3. (\E k \in 0..(z - 1) : i = (h + k) % c) <=> \E k \in 0..(Z - 1) : i = (h + k) % c
      BY <2>1, <3>2
    <3> QED BY <3>1, <3>3, <1>2
  <2> QED BY <2>2, <2>3
<1>16. Contents(w) = Append(Contents(r), chunk)
  <2>1. ASSUME NEW k \in 1..Z
        PROVE  S[(h + k - 1) % c] = Append(Contents(r), chunk)[k]
    <3>1. k - 1 \in Nat /\ h + k - 1 = h + (k - 1) /\ z \in Nat
      BY <1>1, <1>9
    <3>2. CASE k - 1 = z
      <4>1. (h + k - 1) % c = t /\ k = Len(Contents(r)) + 1
        BY <3>1, <3>2, <1>1, <1>4
      <4>2. Append(Contents(r), chunk)[k] = chunk
        BY <4>1, <1>4
      <4> QED BY <4>1, <4>2, <1>11
    <3>3. CASE k - 1 # z
      <4>1. k - 1 \in 0..(z - 1) /\ k \in 1..z
        BY <3>1, <3>3, <1>9
      <4>2. (h + (k - 1)) % c # t /\ (h + (k - 1)) % c \in 0..(c - 1)
        BY <4>1, <1>12
      <4>3. S[(h + k - 1) % c] = Contents(r)[k]
        BY <4>1, <4>2, <3>1, <1>4, <1>11
      <4>4. Append(Contents(r), chunk)[k] = Contents(r)[k]
        BY <4>1, <1>4
      <4> QED BY <4>3, <4>4
    <3> QED BY <3>2, <3>3
  <2>2. Contents(w) = [k \in 1..Z |-> S[(h + k - 1) % c]]
    BY <1>8, <1>9
  <2> DEFINE a == Append(Contents(r), chunk)
  <2>3. a \in Seq(Chunks) /\ Len(a) = Z
    BY <1>4, <1>9
  <2> HIDE DEF a
  <2>4. a = [k \in 1..Z |-> a[k]]
    BY <2>3
  <2> QED BY <2>1, <2>2, <2>4 DEF a
<1>17. B = ByteCount(Contents(w))
  <2>1. Contents(r) \in Seq(Seq(Nat)) /\ chunk \in Seq(Nat)
    BY <1>4, ChunksAreBytes, RingAssumption
  <2>2. ByteCount(Append(Contents(r), chunk)) = ByteCount(Contents(r)) + Len(chunk)
    BY <2>1, BytesAppended
  <2> QED BY <2>2, <1>9, <1>16
<1>18. Z \in 0..c
  BY <1>1, <1>9
<1>19. Sound(w)
  BY <1>7, <1>1, <1>9, <1>11, <1>13, <1>15, <1>17, <1>18, SMTT(30)
<1> QED BY <1>9, <1>16, <1>19 DEF w, z

\* The eviction loop leaves the longest suffix that fits, or the newest chunk.
LEMMA EvictedIs ==
    ASSUME NEW r, Sound(r), r.size > 0
    PROVE  /\ Sound(Evicted(r))
           /\ Contents(Evicted(r)) = Trim(Contents(r))
<1> DEFINE q == Contents(r)
           z == r.size
           Over(n) == OverBudget(WithoutOldest(r, n))
           Round(n) == ~Over(n) /\ \A k \in 0..(n - 1) : Over(k)
           Ok(k) == k = Len(q) \/ Fits(SubSeq(q, k, Len(q)))
           First(k) == Ok(k) /\ \A j \in 1..(k - 1) : ~Ok(j)
           n == CHOOSE m \in 0..z : Round(m)
           f == CHOOSE k \in 1..Len(q) : First(k)
<1>1. z \in Nat /\ z > 0
  BY DEF Sound
<1>2. q \in Seq(Chunks) /\ Len(q) = z /\ q # <<>>
  <2>1. z \in 0..z
    BY <1>1
  <2>2. q \in Seq(Chunks) /\ Len(q) = z
    BY <2>1, OldestIs DEF Contents
  <2> QED BY <2>2, <1>1
<1>3. Evicted(r) = WithoutOldest(r, n)
  BY DEF Evicted
<1>4. Trim(q) = SubSeq(q, f, Len(q))
  BY <1>2 DEF Trim
<1>5. ASSUME NEW m \in 0..(z - 1)
      PROVE  ~Over(m) <=> Ok(m + 1)
  <2> DEFINE s == SubSeq(q, m + 1, Len(q))
             w == WithoutOldest(r, m)
  <2>1. m \in 0..z /\ m \in Nat
    BY <1>1
  <2>2. w.size = z - m /\ w.byteTotal = ByteCount(s)
    BY <2>1, WithoutOldestIs
  <2>3. s \in Seq(Chunks) /\ Len(s) = z - m
    BY <1>1, <1>2, <2>1
  <2>4. ByteCount(s) \in Nat
    BY <2>3, ChunksAreBytes, PositionsFinite
  <2>5. Over(m) <=> ((w.byteTotal >= MaxBytes \/ w.size > MaxCount) /\ w.size > 1)
    BY DEF OverBudget
  <2>6. Ok(m + 1) <=> (m + 1 = z \/ (ByteCount(s) < MaxBytes /\ Len(s) <= MaxCount))
    BY <1>2 DEF Fits
  <2> HIDE DEF s, w, Over, Ok
  <2>7. ((w.byteTotal >= MaxBytes \/ w.size > MaxCount) /\ w.size > 1)
          <=> ~(m + 1 = z \/ (ByteCount(s) < MaxBytes /\ Len(s) <= MaxCount))
    <3>1. w.size > 1 <=> m + 1 # z
      BY <1>1, <2>1, <2>2
    <3>2. w.byteTotal >= MaxBytes <=> ~(ByteCount(s) < MaxBytes)
      BY <2>2, <2>4, RingAssumption
    <3>3. w.size > MaxCount <=> ~(Len(s) <= MaxCount)
      BY <1>1, <2>1, <2>2, <2>3, RingAssumption, SMTT(30)
    <3> QED BY <3>1, <3>2, <3>3
  <2> QED BY <2>5, <2>6, <2>7
<1> HIDE DEF Over, Ok, q, z
<1>6. Ok(z)
  BY <1>2 DEF Ok
<1>7. ~Over(z - 1)
  <2>1. z - 1 \in 0..(z - 1) /\ (z - 1) + 1 = z
    BY <1>1
  <2> QED BY <2>1, <1>5, <1>6
<1>8. \E m \in 0..z : Round(m)
  <2> DEFINE U == {m \in 0..z : ~Over(m)}
  <2>1. z - 1 \in U /\ U \in SUBSET Nat
    BY <1>1, <1>7
  <2>2. PICK m \in U : \A k \in U : m <= k
    <3> HIDE DEF U
    <3> QED BY <2>1, LeastNat
  <2>3. \A k \in 0..(m - 1) : k \in 0..z /\ ~(m <= k)
    BY <1>1
  <2>4. \A k \in 0..(m - 1) : Over(k)
    BY <2>2, <2>3
  <2> QED BY <2>4
<1>9. n \in 0..z /\ Round(n)
  BY <1>8
<1> HIDE DEF n
<1>10. n \in 0..(z - 1)
  <2>1. CASE n = z
    <3>1. z - 1 \in 0..(n - 1)
      BY <2>1, <1>1
    <3> QED BY <3>1, <1>7, <1>9
  <2>2. CASE n # z
    BY <2>2, <1>1, <1>9
  <2> QED BY <2>1, <2>2
<1>11. n + 1 \in 1..Len(q) /\ First(n + 1)
  <2>1. n + 1 \in 1..Len(q)
    BY <1>1, <1>2, <1>10
  <2>2. Ok(n + 1)
    BY <1>5, <1>9, <1>10
  <2>3. ASSUME NEW j \in 1..((n + 1) - 1)
        PROVE  ~Ok(j)
    <3>1. j - 1 \in 0..(n - 1) /\ j - 1 \in 0..(z - 1) /\ (j - 1) + 1 = j
      BY <1>1, <1>10
    <3> QED BY <3>1, <1>5, <1>9
  <2> QED BY <2>1, <2>2, <2>3
<1>12. \A k \in 1..Len(q) : First(k) => k = n + 1
  <2> SUFFICES ASSUME NEW k \in 1..Len(q), First(k) PROVE k = n + 1
    OBVIOUS
  <2>1. CASE k < n + 1
    <3>1. k \in 1..((n + 1) - 1)
      BY <2>1, <1>10
    <3> QED BY <3>1, <1>11
  <2>2. CASE n + 1 < k
    <3>1. n + 1 \in 1..(k - 1)
      BY <2>2, <1>10
    <3> QED BY <3>1, <1>11
  <2> QED BY <2>1, <2>2, <1>10
<1>13. f = n + 1
  <2> HIDE DEF First
  <2>1. f \in 1..Len(q) /\ First(f)
    BY <1>11
  <2> QED BY <2>1, <1>12
<1>14. /\ Sound(WithoutOldest(r, n))
       /\ Contents(WithoutOldest(r, n)) = SubSeq(q, n + 1, Len(q))
  BY <1>9, WithoutOldestIs DEF q, z
<1> QED BY <1>3, <1>4, <1>13, <1>14 DEF q

(***************************************************************************)
(* The specification.                                                      *)
(***************************************************************************)

LEMMA RingFields ==
    /\ Ring = [slots |-> Ring.slots, cap |-> Ring.cap, head |-> Ring.head, tail |-> Ring.tail,
               size |-> Ring.size, byteTotal |-> Ring.byteTotal]
    /\ Ring.slots = slots /\ Ring.cap = cap /\ Ring.head = head /\ Ring.tail = tail
    /\ Ring.size = size /\ Ring.byteTotal = byteTotal
  BY DEF Ring

\* What the fields of a sound ring say.
LEMMA SoundRing ==
    ASSUME Sound(Ring)
    PROVE  /\ TypeOK /\ RingConsistent
           /\ Snapshot = Contents(Ring) /\ Snapshot \in Seq(Chunks) /\ Len(Snapshot) = size
<1>1. Snapshot = Contents(Ring)
  BY RingFields DEF Snapshot, Contents
<1>2. /\ cap \in Nat \ {0} /\ slots \in [0..(cap - 1) -> Chunks \cup {Nil}]
      /\ head \in 0..(cap - 1) /\ size \in 0..cap
      /\ tail = (head + size) % cap
      /\ \A i \in 0..(cap - 1) :
           (slots[i] # Nil) <=> \E k \in 0..(size - 1) : i = (head + k) % cap
      /\ byteTotal = ByteCount(Snapshot)
  BY <1>1, RingFields DEF Sound, Contents
<1>3. Snapshot \in Seq(Chunks) /\ Len(Snapshot) = size
  <2>1. Ring.size \in 0..Ring.size
    BY <1>2, RingFields
  <2> QED BY <2>1, <1>1, OldestIs, RingFields DEF Contents
<1>4. tail \in 0..(cap - 1)
  BY <1>2, Wrapped
<1>5. byteTotal \in Nat
  BY <1>2, <1>3, ChunksAreBytes, PositionsFinite
<1>6. TypeOK
  BY <1>2, <1>4, <1>5 DEF TypeOK
<1>7. RingConsistent
  BY <1>2 DEF RingConsistent, WindowConsistent, BytesCounted
<1> QED BY <1>1, <1>3, <1>6, <1>7

\* The ring of the next state.
LEMMA Becoming ==
    ASSUME NEW r, Sound(r), Becomes(r)
    PROVE  Sound(Ring)' /\ Snapshot' = Contents(r)
<1>1. r = [slots |-> r.slots, cap |-> r.cap, head |-> r.head, tail |-> r.tail,
           size |-> r.size, byteTotal |-> r.byteTotal]
  BY DEF Sound
<1>2. Ring' = r
  BY <1>1 DEF Becomes, Ring
<1>3. Sound(Ring)' <=> Sound(Ring')
  BY DEF Sound, Oldest
<1>4. Snapshot' = Contents(Ring')
  BY DEF Snapshot, Contents, Oldest, Ring
<1> QED BY <1>2, <1>3, <1>4

\* The empty array is a sound ring without chunks.
LEMMA EmptyRing ==
    ASSUME Init
    PROVE  Sound(Ring) /\ Snapshot = <<>>
<1>1. /\ cap = InitialCap /\ InitialCap \in Nat \ {0}
      /\ slots = [i \in 0..(InitialCap - 1) |-> Nil]
      /\ head = 0 /\ tail = 0 /\ size = 0 /\ byteTotal = 0
  BY RingAssumption DEF Init
<1>2. Oldest(Ring, 0) = <<>>
  BY DEF Oldest
<1>3. Snapshot = <<>>
  BY <1>1, <1>2 DEF Snapshot
<1>4. tail = (head + size) % cap
  BY <1>1
<1>5. \A i \in 0..(cap - 1) : (slots[i] # Nil) <=> \E k \in 0..(size - 1) : i = (head + k) % cap
  BY <1>1
<1>6. byteTotal = ByteCount(Oldest(Ring, size))
  BY <1>1, <1>2, NoBytes
<1>7. /\ cap \in Nat \ {0} /\ slots \in [0..(cap - 1) -> Chunks \cup {Nil}]
      /\ head \in 0..(cap - 1) /\ size \in 0..cap
  BY <1>1
<1>8. Sound(Ring)
  BY <1>4, <1>5, <1>6, <1>7, RingFields DEF Sound
<1> QED BY <1>3, <1>8

\* A push grows, stores and evicts: the queue's push.
LEMMA PushIs ==
    ASSUME Sound(Ring), NEW chunk \in Chunks, Push(chunk)
    PROVE  Sound(Ring)' /\ Fifo!Push(chunk)
<1> DEFINE g == Grown(Ring)
           s == Stored(g, chunk)
           e == Evicted(s)
<1>1. Sound(g) /\ g.size < g.cap /\ Contents(g) = Contents(Ring)
  BY GrownIs
<1>2. g.size \in Nat
  BY <1>1 DEF Sound
<1>3. Sound(s) /\ s.size = g.size + 1 /\ Contents(s) = Append(Contents(g), chunk)
  <2> HIDE DEF g
  <2> QED BY <1>1, StoredIs
<1>4. s.size > 0
  <2> HIDE DEF s, g
  <2> QED BY <1>2, <1>3
<1>5. Sound(e) /\ Contents(e) = Trim(Contents(s))
  <2> HIDE DEF s
  <2> QED BY <1>3, <1>4, EvictedIs
<1>6. Becomes(e)
  BY DEF Push
<1>7. Sound(Ring)' /\ Snapshot' = Contents(e)
  <2> HIDE DEF e
  <2> QED BY <1>5, <1>6, Becoming
<1>8. Snapshot' = Trim(Append(Snapshot, chunk))
  BY <1>1, <1>3, <1>5, <1>7, SoundRing
<1>9. \A c : Fifo!Trim(c) = Trim(c)
  BY Zenon DEF Fifo!Trim, Fifo!Fits, Fifo!ByteCount, Fifo!Positions, Fifo!Cardinality,
               Trim, Fits, ByteCount, Positions, Cardinality
<1>10. Fifo!Push(chunk)
  BY <1>8, <1>9, Zenon DEF Fifo!Push, Fifo!Pushed
<1> QED BY <1>7, <1>10

\* A shift takes the oldest chunk: the queue's shift.
LEMMA ShiftIs ==
    ASSUME Sound(Ring), Shift
    PROVE  Sound(Ring)' /\ Fifo!Shift
<1> DEFINE w == EvictOne(Ring)
<1>1. Snapshot = Contents(Ring) /\ Snapshot \in Seq(Chunks) /\ Len(Snapshot) = size
  BY SoundRing
<1>2. size > 0 /\ Becomes(w)
  BY DEF Shift
<1>3. 1 \in 0..Ring.size /\ Ring.size \in Nat
  <2>1. size \in Nat
    BY SoundRing DEF TypeOK
  <2> QED BY <1>2, <2>1, RingFields
<1>4. Sound(w) /\ Contents(w) = SubSeq(Snapshot, 2, Len(Snapshot))
  <2>1. 0 \in 0..(Ring.size - 1) /\ 0 + 1 = 1 /\ 1 + 1 = 2
    BY <1>3
  <2>2. EvictOne(WithoutOldest(Ring, 0)) = WithoutOldest(Ring, 1)
    BY <2>1, OneMoreEvicted
  <2>3. w = WithoutOldest(Ring, 1)
    BY <2>2, NoneEvicted
  <2> HIDE DEF w
  <2> QED BY <1>1, <1>3, <2>1, <2>3, WithoutOldestIs
<1>5. Sound(Ring)' /\ Snapshot' = Contents(w)
  <2> HIDE DEF w
  <2> QED BY <1>2, <1>4, Becoming
<1>6. Snapshot # <<>> /\ Tail(Snapshot) = SubSeq(Snapshot, 2, Len(Snapshot))
  BY <1>1, <1>2
<1>7. Fifo!Shift
  BY <1>4, <1>5, <1>6 DEF Fifo!Shift
<1> QED BY <1>5, <1>7

\* The ring buffer is the bounded queue: a push or a shift of the array, whether
\* it grows, wraps around or evicts, is that push or shift of the queue of its
\* newest chunks, and head, tail, size and byteTotal never disagree with it.
THEOREM RingImplementsFifo == Spec => RingIsFifo
<1>1. Init => Sound(Ring) /\ Fifo!Init
  BY EmptyRing DEF Fifo!Init
<1>2. Sound(Ring) /\ [Next]_vars => Sound(Ring)' /\ [Fifo!Next]_Snapshot
  <2> SUFFICES ASSUME Sound(Ring), [Next]_vars
               PROVE  Sound(Ring)' /\ [Fifo!Next]_Snapshot
    OBVIOUS
  <2>1. CASE Shift
    BY <2>1, ShiftIs DEF Fifo!Next
  <2>2. ASSUME NEW chunk \in Chunks, Push(chunk)
        PROVE  Sound(Ring)' /\ [Fifo!Next]_Snapshot
    BY <2>2, PushIs DEF Fifo!Next
  <2>3. CASE UNCHANGED vars
    <3>1. Ring' = Ring /\ Snapshot' = Snapshot
      BY <2>3 DEF vars, Ring, Snapshot, Oldest
    <3>2. Sound(Ring)' <=> Sound(Ring')
      BY DEF Sound, Oldest
    <3> QED BY <3>1, <3>2
  <2> QED BY <2>1, <2>2, <2>3 DEF Next
<1>3. Sound(Ring) => TypeOK /\ RingConsistent
  BY SoundRing
<1> HIDE DEF Sound
<1> QED BY <1>1, <1>2, <1>3, PTL DEF Spec, RingIsFifo, ImplementsBoundedFifo, Fifo!Spec
=============================================================================
