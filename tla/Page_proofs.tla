---------------------------- MODULE Page_proofs -----------------------------
(***************************************************************************)
(* Safety of the parts of the page, whatever their sizes and however long  *)
(* the page runs.  A behaviour is one of one part (PartAlone); every part  *)
(* has an inductive invariant Inv, which its module states, and here three *)
(* lemmas: it holds at first, every step keeps it, and it implies what the *)
(* part promises.  The lemmas before them are about the part's operators.  *)
(***************************************************************************)
EXTENDS Page, SequenceTheorems, WellFoundedInduction, TLAPS

\* A step of the page is one of the part that runs.
LEMMA PartAlone ==
    [Next]_vars =>
        /\ part' = part
        /\ part = "screen"   => [Screens!Next]_x
        /\ part = "claims"   => [Sizes!Next]_x
        /\ part = "prompt"   => [Field!Next]_x
        /\ part = "dialogs"  => [Stack!Next]_x
        /\ part = "gestures" => [Touch!Next]_x
        /\ part = "newShell" => [Chain!Next]_x
        /\ part = "bell"     => [Ring!Next]_x
        /\ part = "search"   => [Finder!Next]_x
        /\ part = "paste"    => [Clipboard!Next]_x
        /\ part = "locking"  => [Locks!Next]_x
        /\ part = "update"   => [Versions!Next]_x
  BY DEF Next, vars

\* The last of a queue stays the last when the first is taken.
LEMMA LastStays ==
    ASSUME NEW S, NEW q \in Seq(S), q # <<>>
    PROVE  /\ Tail(q) \in Seq(S) /\ Head(q) \in S
           /\ Tail(q) = <<>> => q[Len(q)] = Head(q)
           /\ Tail(q) # <<>> => Tail(q)[Len(Tail(q))] = q[Len(q)]
<1>1. Len(q) \in Nat \ {0}
  BY LenProperties
<1>2. /\ Tail(q) \in Seq(S) /\ Head(q) \in S /\ Len(Tail(q)) = Len(q) - 1
      /\ \A i \in 1..Len(Tail(q)) : Tail(q)[i] = q[i + 1]
  BY <1>1, HeadTailProperties
<1>3. ASSUME Tail(q) = <<>>
      PROVE  q[Len(q)] = Head(q)
  <2> DEFINE n == Len(q)
             m == Len(Tail(q))
  <2>1. m = 0
    <3>1. Len(<<>>) = 0
      OBVIOUS
    <3> QED BY <1>3, <3>1, Zenon
  <2>2. n \in Nat /\ m = n - 1
    BY <1>1, <1>2
  <2> HIDE DEF n, m
  <2>3. n = 1
    BY <2>1, <2>2
  <2> QED BY <2>3 DEF n
<1>4. ASSUME Tail(q) # <<>>
      PROVE  Tail(q)[Len(Tail(q))] = q[Len(q)]
  <2>1. Len(Tail(q)) \in 1..Len(Tail(q))
    BY <1>2, <1>4, LenProperties
  <2>2. Tail(q)[Len(Tail(q))] = q[Len(Tail(q)) + 1]
    BY <1>2, <2>1
  <2>3. Len(Tail(q)) + 1 = Len(q)
    BY <1>1, <1>2
  <2> QED BY <2>2, <2>3
<1> QED BY <1>2, <1>3, <1>4

\* What is put into a queue is its last.
LEMMA LastAppended ==
    ASSUME NEW S, NEW q \in Seq(S), NEW e \in S
    PROVE  LET r == Append(q, e) IN r \in Seq(S) /\ r # <<>> /\ r[Len(r)] = e
<1>1. Len(q) \in Nat
  BY LenProperties
<1>2. /\ Append(q, e) \in Seq(S) /\ Len(Append(q, e)) = Len(q) + 1
      /\ Append(q, e)[Len(q) + 1] = e
  BY AppendProperties
<1>3. Append(q, e) # <<>>
  BY <1>1, <1>2
<1> QED BY <1>2, <1>3

\* r has the entries of q but the k-th, and no more.
LacksOne(q, k, r) ==
    /\ \A i \in DOMAIN q : i # k => \E j \in DOMAIN r : r[j] = q[i]
    /\ \A j \in DOMAIN r : \E i \in DOMAIN q : i # k /\ r[j] = q[i]
    /\ (\A i, j \in DOMAIN q : q[i] = q[j] => i = j) =>
         (\A i, j \in DOMAIN r : r[i] = r[j] => i = j)

\* One entry is taken from a sequence: the others stay.
LEMMA OneTaken ==
    ASSUME NEW S, NEW q \in Seq(S), NEW k \in DOMAIN q
    PROVE  LET r == SubSeq(q, 1, k - 1) \o SubSeq(q, k + 1, Len(q))
           IN  r \in Seq(S) /\ LacksOne(q, k, r)
<1> DEFINE a == SubSeq(q, 1, k - 1)
           b == SubSeq(q, k + 1, Len(q))
           z == a \o b
<1> HIDE DEF z
<1>1. k \in 1..Len(q) /\ Len(q) \in Nat /\ DOMAIN q = 1..Len(q)
  OBVIOUS
<1>2. /\ a \in Seq(S) /\ Len(a) = k - 1
      /\ \A i \in 1..(k - 1) : a[i] = q[i]
  <2>1. \A i \in 1..(k - 1) : q[i] \in S
    BY <1>1
  <2>2. 1 \in Int /\ k - 1 \in Int
    BY <1>1
  <2>3. /\ a \in Seq(S) /\ Len(a) = IF 1 <= k - 1 THEN (k - 1) - 1 + 1 ELSE 0
        /\ \A i \in 1..(k - 1) - 1 + 1 : a[i] = q[1 + i - 1]
    BY <2>1, <2>2, SubSeqProperties
  <2> QED BY <1>1, <2>3
<1>3. /\ b \in Seq(S) /\ Len(b) = Len(q) - k
      /\ \A i \in 1..(Len(q) - k) : b[i] = q[k + i]
  <2>1. \A i \in (k + 1)..Len(q) : q[i] \in S
    BY <1>1
  <2> DEFINE m == k + 1
             n == Len(q)
  <2>2. m \in Int /\ n \in Int /\ b = SubSeq(q, m, n) /\ n - m + 1 = Len(q) - k
    BY <1>1
  <2>3. \A i \in 1..(Len(q) - k) : m + i - 1 = k + i
    BY <1>1
  <2>4. m <= n + 1 /\ k <= n
    BY <1>1
  <2> HIDE DEF m, b
  <2>5. /\ b \in Seq(S) /\ Len(b) = IF m <= n THEN n - m + 1 ELSE 0
        /\ \A i \in 1..(n - m + 1) : b[i] = q[m + i - 1]
    <3> HIDE DEF n
    <3>1. \A i \in m..n : q[i] \in S
      BY <2>1 DEF m, n
    <3> QED BY <3>1, <2>2, SubSeqProperties
  <2>6. Len(b) = Len(q) - k
    <3> HIDE DEF n
    <3>1. CASE m <= n
      BY <3>1, <2>2, <2>5
    <3>2. CASE ~(m <= n)
      <4>1. m = n + 1
        BY <3>2, <2>2, <2>4
      <4>2. n - m + 1 = 0
        BY <4>1, <2>2
      <4> QED BY <4>2, <3>2, <2>2, <2>5
    <3> QED BY <3>1, <3>2
  <2> QED BY <2>2, <2>3, <2>5, <2>6
<1> HIDE DEF a, b
<1>4. /\ z \in Seq(S) /\ Len(z) = Len(a) + Len(b)
      /\ \A i \in 1..(Len(a) + Len(b)) : z[i] = IF i <= Len(a) THEN a[i] ELSE b[i - Len(a)]
  BY <1>2, <1>3, ConcatProperties DEF z
<1>5. Len(a) + Len(b) = Len(q) - 1
  BY <1>1, <1>2, <1>3
<1>6. \A i \in 1..(Len(q) - 1) : z[i] = IF i <= k - 1 THEN a[i] ELSE b[i - (k - 1)]
  <2> DEFINE l == Len(a)
  <2>1. l = k - 1
    BY <1>2
  <2>2. \A i \in 1..(Len(q) - 1) : z[i] = IF i <= l THEN a[i] ELSE b[i - l]
    BY <1>4, <1>5
  <2> HIDE DEF l
  <2> QED BY <2>1, <2>2
<1>7. /\ DOMAIN z = 1..(Len(q) - 1)
      /\ \A i \in 1..(Len(q) - 1) : z[i] = IF i < k THEN q[i] ELSE q[i + 1]
  <2>1. Len(z) = Len(q) - 1 /\ DOMAIN z = 1..Len(z)
    BY <1>4, <1>5
  <2>2. ASSUME NEW i \in 1..(Len(q) - 1)
        PROVE  z[i] = IF i < k THEN q[i] ELSE q[i + 1]
    <3>1. CASE i < k
      <4>1. i <= k - 1 /\ i \in 1..(k - 1)
        BY <3>1, <2>2, <1>1
      <4> QED BY <4>1, <3>1, <2>2, <1>2, <1>6
    <3>2. CASE ~(i < k)
      <4> DEFINE j == i - (k - 1)
      <4>1. j \in 1..(Len(q) - k) /\ k + j = i + 1 /\ ~(i <= k - 1)
        BY <3>2, <2>2, <1>1
      <4>2. z[i] = b[j]
        BY <4>1, <2>2, <1>6
      <4> HIDE DEF j
      <4> QED BY <4>1, <4>2, <3>2, <1>3
    <3> QED BY <3>1, <3>2
  <2> QED BY <2>1, <2>2
<1>8. ASSUME NEW i \in DOMAIN q, i # k
      PROVE  \E j \in DOMAIN z : z[j] = q[i]
  <2>1. CASE i < k
    <3>1. i \in DOMAIN z /\ z[i] = q[i]
      BY <2>1, <1>1, <1>7
    <3> QED BY <3>1
  <2>2. CASE ~(i < k)
    <3>1. i - 1 \in 1..(Len(q) - 1) /\ ~(i - 1 < k) /\ (i - 1) + 1 = i
      BY <1>1, <1>8, <2>2
    <3>2. i - 1 \in DOMAIN z /\ z[i - 1] = q[i]
      BY <3>1, <1>7
    <3> QED BY <3>2
  <2> QED BY <2>1, <2>2
<1> DEFINE at(n) == IF n < k THEN n ELSE n + 1
<1>9. \A j \in DOMAIN z : at(j) \in DOMAIN q /\ at(j) # k /\ z[j] = q[at(j)]
  BY <1>1, <1>7
<1>10. \A j \in DOMAIN z : \E i \in DOMAIN q : i # k /\ z[j] = q[i]
  <2> HIDE DEF at
  <2> QED BY <1>9
<1>11. ASSUME \A i, j \in DOMAIN q : q[i] = q[j] => i = j
       PROVE  \A i, j \in DOMAIN z : z[i] = z[j] => i = j
  <2> SUFFICES ASSUME NEW i \in DOMAIN z, NEW j \in DOMAIN z, z[i] = z[j]
               PROVE  i = j
    OBVIOUS
  <2>1. at(i) = at(j)
    <3> HIDE DEF at
    <3> QED BY <1>9, <1>11
  <2> QED BY <2>1, <1>1, <1>7
<1>12. z \in Seq(S)
  BY <1>4
<1> HIDE DEF at
<1>13. LacksOne(q, k, z)
  BY <1>8, <1>10, <1>11, Zenon DEF LacksOne
<1> QED BY <1>12, <1>13 DEF z, a, b

-----------------------------------------------------------------------------
\* Screen: which tiles are fullscreen, which sleep, and what the server knows.

\* A deletion takes one entry from a sequence and leaves the order of the rest.
LEMMA WithoutOne ==
    ASSUME NEW q \in Seq(Tiles), NEW t
    PROVE  LET r == Screens!Without(q, t)
           IN  /\ r \in Seq(Tiles)
               /\ Screens!ToSet(q) \ {t} \subseteq Screens!ToSet(r)
               /\ (\A i, j \in DOMAIN q : q[i] = q[j] => i = j) =>
                    (\A i, j \in DOMAIN r : r[i] = r[j] => i = j)
<1> DEFINE r == Screens!Without(q, t)
           k == CHOOSE i \in DOMAIN q : q[i] = t
<1>1. CASE t \notin Screens!ToSet(q)
  BY <1>1 DEF Screens!Without
<1>2. CASE t \in Screens!ToSet(q)
  <2>1. k \in DOMAIN q /\ q[k] = t
    BY <1>2 DEF Screens!ToSet
  <2>2. r = SubSeq(q, 1, k - 1) \o SubSeq(q, k + 1, Len(q))
    BY <1>2 DEF Screens!Without, Screens!RemoveAt
  <2> HIDE DEF r, k
  <2>3. r \in Seq(Tiles) /\ LacksOne(q, k, r)
    BY <2>1, <2>2, OneTaken
  <2>4. Screens!ToSet(q) \ {t} \subseteq Screens!ToSet(r)
    BY <2>1, <2>3 DEF LacksOne, Screens!ToSet
  <2> QED BY <2>3, <2>4 DEF r, LacksOne
<1> QED BY <1>1, <1>2

\* What updateSleepState leaves asleep is hidden, and the server hears of it.
LEMMA SleepFollows ==
    ASSUME NEW s, Screens!Typed(s), Screens!Single(s), Screens!Told(s)
    PROVE  LET r == Screens!UpdateSleepState(s)
           IN  /\ Screens!Typed(r) /\ Screens!Single(r) /\ Screens!Told(r) /\ Screens!Sleeping(r)
               /\ Screens!Tabbed(s) => Screens!Tabbed(r)
               /\ r.tiles = s.tiles /\ r.mobile = s.mobile /\ r.full = s.full
<1> DEFINE r == Screens!UpdateSleepState(s)
           H == Screens!Hidden(s)
<1>1. /\ DOMAIN r = Screens!Fields /\ r.tiles = s.tiles /\ r.attaching = s.attaching
      /\ r.active = s.active /\ r.full = s.full /\ r.bar = s.bar /\ r.asleep = H
      /\ r.online = s.online /\ r.mobile = s.mobile /\ r.stale = FALSE /\ r.doubled = s.doubled
      /\ r.paused = IF s.online THEN (s.paused \cup (H \ s.asleep)) \ (s.asleep \ H) ELSE s.paused
  BY DEF Screens!UpdateSleepState, Screens!Typed, Screens!Fields
<1>2. H \subseteq Screens!Listed(s) /\ Screens!Listed(s) \subseteq Tiles
  BY DEF Screens!Hidden, Screens!Listed, Screens!ToSet, Screens!Typed
<1>3. Screens!Hidden(r) = H /\ Screens!Listed(r) = Screens!Listed(s)
  BY <1>1 DEF Screens!Hidden, Screens!Covering, Screens!Listed
<1> HIDE DEF r, H
<1>4. Screens!Typed(r)
  BY <1>1, <1>2, <1>3 DEF Screens!Typed
<1>5. Screens!Single(r)
  BY <1>1 DEF Screens!Single
<1>6. Screens!Told(r)
  BY <1>1 DEF Screens!Told, Screens!Typed
<1>7. Screens!Sleeping(r)
  BY <1>1, <1>3 DEF Screens!Sleeping
<1>8. Screens!Tabbed(s) => Screens!Tabbed(r)
  BY <1>1, <1>3 DEF Screens!Tabbed
<1> QED BY <1>1, <1>4, <1>5, <1>6, <1>7, <1>8 DEF r

\* A tile that gets the class names every session in its bar.
LEMMA TileToggles ==
    ASSUME NEW s, Screens!Typed(s), Screens!Single(s), Screens!Told(s),
           NEW t \in Screens!Listed(s)
    PROVE  LET r == Screens!ToggleFullscreen(s, t)
           IN  /\ Screens!Typed(r) /\ Screens!Single(r) /\ Screens!Told(r) /\ Screens!Sleeping(r)
               /\ Screens!Tabbed(s) => Screens!Tabbed(r)
               /\ r.tiles = s.tiles
<1> DEFINE out == [s EXCEPT !.full = @ \ {t}, !.bar[t] = {}]
           in  == Screens!RenderFsTabs([s EXCEPT !.full = @ \cup {t},
                                                 !.doubled = @ \/ s.full # {}], t)
           r   == IF t \in s.full THEN out ELSE in
<1>0. t \in Tiles /\ Screens!Listed(s) \subseteq Tiles
  BY DEF Screens!Listed, Screens!ToSet, Screens!Typed
<1>1. /\ DOMAIN r = Screens!Fields /\ r.tiles = s.tiles /\ r.attaching = s.attaching
      /\ r.active = s.active /\ r.asleep = s.asleep /\ r.paused = s.paused
      /\ r.online = s.online /\ r.mobile = s.mobile /\ r.stale = s.stale
  BY DEF Screens!RenderFsTabs, Screens!Typed, Screens!Fields
<1>2. CASE t \in s.full
  <2>1. /\ r.full = s.full \ {t} /\ r.doubled = s.doubled
        /\ r.bar = [s.bar EXCEPT ![t] = {}]
    BY <1>2 DEF Screens!Typed, Screens!Fields
  <2>2. \A u \in Tiles : u # t => r.bar[u] = s.bar[u]
    BY <2>1 DEF Screens!Typed
  <2>3. DOMAIN s.bar = Tiles
    BY DEF Screens!Typed
  <2>4. r.bar = [u \in Tiles |-> r.bar[u]]
    BY <2>1, <2>3
  <2>5. Screens!Listed(r) = Screens!Listed(s)
    BY <1>1 DEF Screens!Listed
  <2> HIDE DEF r, out, in
  <2>6. Screens!Typed(r)
    BY <1>1, <2>1, <2>4, <2>5 DEF Screens!Typed
  <2>7. Screens!Single(r) /\ Screens!Told(r)
    BY <1>1, <2>1 DEF Screens!Single, Screens!Told
  <2>8. Screens!Tabbed(s) => Screens!Tabbed(r)
    <3> SUFFICES ASSUME Screens!Tabbed(s), ~r.doubled, Len(r.tiles) > 1, NEW u \in r.full
                 PROVE  r.bar[u] = Screens!Listed(r)
      BY DEF Screens!Tabbed
    <3>1. u \in s.full /\ u # t /\ u \in Tiles
      BY <2>1, <1>0 DEF Screens!Typed
    <3>2. s.bar[u] = Screens!Listed(s)
      BY <3>1, <2>1, <1>1 DEF Screens!Tabbed
    <3> QED BY <3>1, <3>2, <2>2, <2>5
  <2>9. r = out
    BY <1>2 DEF r
  <2>10. Screens!ToggleFullscreen(s, t) = Screens!UpdateSleepState(r)
    BY <1>2, <2>9 DEF Screens!ToggleFullscreen, out
  <2> QED BY <1>1, <2>6, <2>7, <2>8, <2>10, SleepFollows
<1>3. CASE t \notin s.full
  <2> DEFINE b == IF Len(s.tiles) <= 1 THEN s.bar[t] ELSE Screens!Listed(s)
  <2>0. Screens!Listed([s EXCEPT !.full = @ \cup {t}, !.doubled = @ \/ s.full # {}])
          = Screens!Listed(s)
    BY DEF Screens!Listed, Screens!Typed, Screens!Fields
  <2>1. /\ r.full = s.full \cup {t} /\ r.doubled = (s.doubled \/ s.full # {})
        /\ r.bar = [s.bar EXCEPT ![t] = b]
    BY <1>3, <2>0 DEF Screens!RenderFsTabs, Screens!Typed, Screens!Fields
  <2>2. \A u \in Tiles : u # t => r.bar[u] = s.bar[u]
    BY <2>1 DEF Screens!Typed
  <2>3. DOMAIN s.bar = Tiles
    BY DEF Screens!Typed
  <2>4. r.bar = [u \in Tiles |-> r.bar[u]] /\ r.bar[t] = b
    BY <2>1, <2>3, <1>0
  <2>5. Screens!Listed(r) = Screens!Listed(s)
    BY <1>1 DEF Screens!Listed
  <2>9. r = in
    BY <1>3 DEF r
  <2>10. Screens!ToggleFullscreen(s, t) = Screens!UpdateSleepState(r)
    BY <1>3, <2>9 DEF Screens!ToggleFullscreen, in
  <2>11. s.doubled \in BOOLEAN /\ r.doubled \in BOOLEAN
    BY <2>1 DEF Screens!Typed
  <2> HIDE DEF r, out, in
  <2>6. Screens!Typed(r)
    BY <1>1, <2>1, <2>4, <2>5, <2>11 DEF Screens!Typed
  <2>7. Screens!Single(r) /\ Screens!Told(r)
    BY <1>1, <2>1, <2>11 DEF Screens!Single, Screens!Told
  <2>8. Screens!Tabbed(r)
    <3> SUFFICES ASSUME ~r.doubled, Len(r.tiles) > 1, NEW u \in r.full
                 PROVE  r.bar[u] = Screens!Listed(r)
      BY DEF Screens!Tabbed
    <3>1. u = t
      BY <2>1, <2>11
    <3>2. Len(s.tiles) \in Nat
      BY LenProperties DEF Screens!Typed
    <3>3. b = Screens!Listed(s)
      BY <3>2, <1>1
    <3> QED BY <3>1, <3>3, <2>4, <2>5
  <2> QED BY <1>1, <2>6, <2>7, <2>8, <2>10, SleepFollows
<1> QED BY <1>2, <1>3

\* Full screen moves along with the selection, whoever is selected.
LEMMA SelectionMoves ==
    ASSUME NEW s, Screens!Typed(s), Screens!Single(s), Screens!Told(s), NEW t, NEW slides
    PROVE  LET r == Screens!SetActive(s, t, slides)
           IN  /\ Screens!Typed(r) /\ Screens!Single(r) /\ Screens!Told(r) /\ Screens!Sleeping(r)
               /\ Screens!Tabbed(s) => Screens!Tabbed(r)
               /\ r.tiles = s.tiles
<1> DEFINE was  == s.active \in s.full \cap Screens!Listed(s)
           s1   == [s EXCEPT !.active = t]
           bare == [s1 EXCEPT !.full = {}, !.bar = [u \in Tiles |-> {}], !.doubled = FALSE]
           slid == [bare EXCEPT !.full = {t},
                      !.sliding = IF slides /\ s.active # t THEN @ \cup {s.active} ELSE @]
           s2   == IF ~was THEN s1
                   ELSE IF t \notin Screens!Listed(s) THEN bare
                   ELSE Screens!RenderFsTabs(slid, t)
           s3   == Screens!UpdateSleepState(s2)
           r    == Screens!EnsureFullscreenMobile(s3, t)
<1>1. Screens!SetActive(s, t, slides) = r
  BY DEF Screens!SetActive
<1>2. /\ DOMAIN s2 = Screens!Fields /\ s2.tiles = s.tiles /\ s2.attaching = s.attaching
      /\ s2.asleep = s.asleep /\ s2.paused = s.paused
      /\ s2.online = s.online /\ s2.mobile = s.mobile /\ s2.stale = s.stale
  BY SMTT(30) DEF Screens!RenderFsTabs, Screens!Typed, Screens!Fields
<1>3. Screens!Listed(s2) = Screens!Listed(s) /\ Screens!Listed(s) \subseteq Tiles
  BY <1>2 DEF Screens!Listed, Screens!ToSet, Screens!Typed
<1>4. \/ s2.full = s.full /\ s2.bar = s.bar /\ s2.doubled = s.doubled
      \/ s2.full = {} /\ s2.bar = [u \in Tiles |-> {}] /\ s2.doubled = FALSE
      \/ /\ t \in Screens!Listed(s) /\ s2.full = {t} /\ s2.doubled = FALSE
         /\ s2.bar = [u \in Tiles |-> IF u = t /\ ~(Len(s.tiles) <= 1)
                                      THEN Screens!Listed(s) ELSE {}]
  <2>1. CASE ~was
    BY <2>1 DEF Screens!Typed, Screens!Fields
  <2>2. CASE was /\ t \notin Screens!Listed(s)
    BY <2>2 DEF Screens!Typed, Screens!Fields
  <2>3. CASE was /\ t \in Screens!Listed(s)
    <3>1. /\ DOMAIN slid = Screens!Fields /\ slid.tiles = s.tiles /\ slid.full = {t}
          /\ slid.bar = [u \in Tiles |-> {}] /\ slid.doubled = FALSE
      BY DEF Screens!Typed, Screens!Fields
    <3>2. s2 = Screens!RenderFsTabs(slid, t)
      BY <2>3
    <3> HIDE DEF s2, slid
    <3>3. /\ s2.full = {t} /\ s2.doubled = FALSE
          /\ s2.bar = [slid.bar EXCEPT ![t] = IF Len(s.tiles) <= 1 THEN @
                                              ELSE Screens!Listed(slid)]
      BY <3>1, <3>2 DEF Screens!RenderFsTabs, Screens!Fields
    <3>4. Screens!Listed(slid) = Screens!Listed(s)
      BY <3>1 DEF Screens!Listed
    <3>5. s2.bar = [u \in Tiles |-> IF u = t /\ ~(Len(s.tiles) <= 1)
                                    THEN Screens!Listed(s) ELSE {}]
      BY <3>1, <3>3, <3>4, <2>3, <1>3
    <3> QED BY <2>3, <3>3, <3>5
  <2> QED BY <2>1, <2>2, <2>3
<1> HIDE DEF s2
<1>5. Screens!Typed(s2)
  BY <1>2, <1>3, <1>4 DEF Screens!Typed
<1>6. Screens!Single(s2) /\ Screens!Told(s2)
  BY <1>2, <1>4 DEF Screens!Single, Screens!Told
<1>7. Screens!Tabbed(s) => Screens!Tabbed(s2)
  <2>1. Len(s.tiles) \in Nat
    BY LenProperties DEF Screens!Typed
  <2> QED BY <2>1, <1>2, <1>3, <1>4 DEF Screens!Tabbed
<1>8. /\ Screens!Typed(s3) /\ Screens!Single(s3) /\ Screens!Told(s3) /\ Screens!Sleeping(s3)
      /\ Screens!Tabbed(s2) => Screens!Tabbed(s3)
      /\ s3.tiles = s.tiles
  BY <1>2, <1>5, <1>6, SleepFollows
<1> HIDE DEF s3
<1>9. CASE s3.mobile /\ Len(s3.tiles) > 1 /\ t \in Screens!Listed(s3) \ s3.full
  <2>1. r = Screens!ToggleFullscreen(s3, t)
    BY <1>9 DEF Screens!EnsureFullscreenMobile
  <2> HIDE DEF r
  <2> QED BY <2>1, <1>1, <1>7, <1>8, <1>9, TileToggles
<1>10. CASE ~(s3.mobile /\ Len(s3.tiles) > 1 /\ t \in Screens!Listed(s3) \ s3.full)
  <2>1. r = s3
    BY <1>10 DEF Screens!EnsureFullscreenMobile
  <2> HIDE DEF r
  <2> QED BY <2>1, <1>1, <1>7, <1>8
<1> QED BY <1>9, <1>10

\* When the list of sessions changed, the bar of the fullscreen tile follows.
LEMMA TabsRefreshed ==
    ASSUME NEW s, Screens!Typed(s), Screens!Single(s), Screens!Told(s), Screens!Sleeping(s)
    PROVE  Screens!Inv(Screens!RefreshFsTabs(s))
<1> DEFINE r == Screens!RefreshFsTabs(s)
           F == Screens!FirstFull(s)
<1>1. /\ DOMAIN r = Screens!Fields /\ r.tiles = s.tiles /\ r.attaching = s.attaching
      /\ r.active = s.active /\ r.full = s.full /\ r.asleep = s.asleep /\ r.paused = s.paused
      /\ r.online = s.online /\ r.mobile = s.mobile /\ r.stale = s.stale /\ r.doubled = s.doubled
      /\ r.bar = [t \in Tiles |-> IF t \notin F THEN s.bar[t]
                                  ELSE IF Len(s.tiles) <= 1 THEN {} ELSE Screens!Listed(s)]
  BY DEF Screens!RefreshFsTabs, Screens!Typed, Screens!Fields
<1>2. /\ Screens!Listed(r) = Screens!Listed(s) /\ Screens!Listed(s) \subseteq Tiles
      /\ Screens!Hidden(r) = Screens!Hidden(s)
  BY <1>1 DEF Screens!Hidden, Screens!Covering, Screens!Listed, Screens!ToSet, Screens!Typed
<1>3. ASSUME ~s.doubled, NEW t \in s.full
      PROVE  t \in F
  <2>1. PICK i \in DOMAIN s.tiles : s.tiles[i] = t
    BY DEF Screens!Typed, Screens!Listed, Screens!ToSet
  <2>2. ASSUME NEW j \in DOMAIN s.tiles, s.tiles[j] \in s.full
        PROVE  j = i
    BY <1>3, <2>1, <2>2 DEF Screens!Typed, Screens!Single
  <2>3. DOMAIN s.tiles \subseteq Nat
    <3>1. s.tiles \in Seq(Tiles)
      BY DEF Screens!Typed
    <3>2. DOMAIN s.tiles = 1..Len(s.tiles) /\ Len(s.tiles) \in Nat
      BY <3>1, LenProperties
    <3> QED BY <3>2
  <2>4. \A j \in DOMAIN s.tiles : s.tiles[j] \in s.full => i <= j
    BY <2>1, <2>2, <2>3
  <2> QED BY <2>1, <2>4 DEF Screens!FirstFull
<1> HIDE DEF r, F
<1>4. Screens!Typed(r)
  BY <1>1, <1>2 DEF Screens!Typed
<1>5. Screens!Single(r) /\ Screens!Told(r) /\ Screens!Sleeping(r)
  BY <1>1, <1>2 DEF Screens!Single, Screens!Told, Screens!Sleeping
<1>6. Screens!Tabbed(r)
  <2> SUFFICES ASSUME ~r.doubled, Len(r.tiles) > 1, NEW t \in r.full
               PROVE  r.bar[t] = Screens!Listed(r)
    BY DEF Screens!Tabbed
  <2>1. t \in F /\ t \in Tiles
    BY <1>1, <1>2, <1>3 DEF Screens!Typed
  <2>2. Len(s.tiles) \in Nat /\ ~(Len(s.tiles) <= 1)
    BY <1>1, LenProperties DEF Screens!Typed
  <2> QED BY <2>1, <2>2, <1>1, <1>2
<1> QED BY <1>4, <1>5, <1>6 DEF Screens!Inv, r

\* A new tile is awake, and covered if there is a tile that covers.
LEMMA TileMounts ==
    ASSUME NEW s, Screens!Inv(s), NEW t \in Tiles \ Screens!Listed(s)
    PROVE  Screens!Inv(Screens!Mount(s, t))
<1> DEFINE r == [s EXCEPT !.tiles = Append(@, t),
                          !.attaching = IF @ = <<>> THEN @ ELSE Append(@, t)]
<1>1. /\ DOMAIN r = Screens!Fields /\ r.tiles = Append(s.tiles, t)
      /\ r.attaching = (IF s.attaching = <<>> THEN s.attaching ELSE Append(s.attaching, t))
      /\ r.active = s.active /\ r.full = s.full /\ r.bar = s.bar /\ r.asleep = s.asleep
      /\ r.paused = s.paused /\ r.online = s.online /\ r.mobile = s.mobile
      /\ r.stale = s.stale /\ r.doubled = s.doubled
  BY DEF Screens!Inv, Screens!Typed, Screens!Fields
<1>2. Screens!Mount(s, t) = Screens!RefreshFsTabs(r)
  BY DEF Screens!Mount
<1> HIDE DEF r
<1>3. /\ r.tiles \in Seq(Tiles) /\ DOMAIN r.tiles = 1..(Len(s.tiles) + 1)
      /\ DOMAIN s.tiles = 1..Len(s.tiles) /\ Len(s.tiles) \in Nat
      /\ \A i \in 1..Len(s.tiles) : r.tiles[i] = s.tiles[i]
      /\ r.tiles[Len(s.tiles) + 1] = t
  <2>1. s.tiles \in Seq(Tiles)
    BY DEF Screens!Inv, Screens!Typed
  <2> QED BY <2>1, <1>1, AppendProperties, LenProperties
<1>4. Screens!Listed(r) = Screens!Listed(s) \cup {t}
  BY <1>3, SMTT(30) DEF Screens!Listed, Screens!ToSet
<1>5. \A i, j \in DOMAIN r.tiles : r.tiles[i] = r.tiles[j] => i = j
  <2>1. \A i \in 1..Len(s.tiles) : s.tiles[i] # t
    BY <1>3 DEF Screens!Listed, Screens!ToSet
  <2>2. \A i, j \in 1..Len(s.tiles) : s.tiles[i] = s.tiles[j] => i = j
    BY <1>3 DEF Screens!Inv, Screens!Typed
  <2>3. \A i \in DOMAIN r.tiles : i \in 1..Len(s.tiles) \/ i = Len(s.tiles) + 1
    BY <1>3
  <2> QED BY <1>3, <2>1, <2>2, <2>3
<1>6. /\ r.attaching \in Seq(Tiles)
      /\ Screens!ToSet(s.attaching) \subseteq Screens!ToSet(r.attaching)
  <2>1. s.attaching \in Seq(Tiles)
    BY DEF Screens!Inv, Screens!Typed
  <2>2. CASE s.attaching = <<>>
    BY <2>1, <2>2, <1>1
  <2>3. CASE s.attaching # <<>>
    <3>1. /\ r.attaching \in Seq(Tiles) /\ DOMAIN r.attaching = 1..(Len(s.attaching) + 1)
          /\ DOMAIN s.attaching = 1..Len(s.attaching) /\ Len(s.attaching) \in Nat
          /\ \A i \in 1..Len(s.attaching) : r.attaching[i] = s.attaching[i]
      BY <2>1, <2>3, <1>1, AppendProperties, LenProperties
    <3> QED BY <3>1 DEF Screens!ToSet
  <2> QED BY <2>2, <2>3
<1>7. Screens!Typed(r)
  BY <1>1, <1>3, <1>4, <1>5, <1>6 DEF Screens!Inv, Screens!Typed
<1>8. Screens!Single(r)
  BY <1>1 DEF Screens!Inv, Screens!Single
<1>9. Screens!Told(r)
  BY <1>1, <1>6 DEF Screens!Inv, Screens!Told
<1>10. Screens!Sleeping(r)
  <2>1. Screens!Covering(r) = Screens!Covering(s)
    BY <1>1, <1>4 DEF Screens!Covering, Screens!Inv, Screens!Typed
  <2>2. Screens!Hidden(s) \subseteq Screens!Hidden(r)
    BY <2>1, <1>4 DEF Screens!Hidden
  <2> QED BY <2>2, <1>1 DEF Screens!Sleeping, Screens!Inv
<1> QED BY <1>2, <1>7, <1>8, <1>9, <1>10, TabsRefreshed

\* A tile that goes takes its entries along; the selection moves if it was there.
LEMMA TileGoes ==
    ASSUME NEW s, Screens!Inv(s), NEW t \in Screens!Listed(s), NEW s1, NEW u,
           DOMAIN s1 = Screens!Fields, s1.tiles = Screens!Without(s.tiles, t),
           s1.attaching = Screens!Without(s.attaching, t),
           s1.full = s.full \ {t}, s1.bar = [s.bar EXCEPT ![t] = {}],
           s1.asleep = s.asleep \ {t}, s1.paused = s.paused \ {t}, s1.active = s.active,
           s1.online = s.online, s1.mobile = s.mobile, s1.stale = s.stale,
           s1.doubled = s.doubled
    PROVE  Screens!Inv(Screens!RefreshFsTabs(
               IF s.active = t THEN Screens!SetActive(s1, u, FALSE) ELSE s1))
<1>1. /\ s1.tiles \in Seq(Tiles) /\ s1.attaching \in Seq(Tiles)
      /\ Screens!Listed(s) \ {t} \subseteq Screens!Listed(s1)
      /\ Screens!ToSet(s.attaching) \ {t} \subseteq Screens!ToSet(s1.attaching)
      /\ \A i, j \in DOMAIN s1.tiles : s1.tiles[i] = s1.tiles[j] => i = j
  <2>1. s.tiles \in Seq(Tiles) /\ s.attaching \in Seq(Tiles)
    BY DEF Screens!Inv, Screens!Typed
  <2>2. \A i, j \in DOMAIN s.tiles : s.tiles[i] = s.tiles[j] => i = j
    BY DEF Screens!Inv, Screens!Typed
  <2> QED BY <2>1, <2>2, WithoutOne, SMTT(30) DEF Screens!Listed
<1>2. s1.bar = [v \in Tiles |-> s1.bar[v]]
  BY DEF Screens!Inv, Screens!Typed
<1>3. Screens!Typed(s1)
  BY <1>1, <1>2 DEF Screens!Inv, Screens!Typed
<1>4. Screens!Single(s1)
  BY DEF Screens!Inv, Screens!Single
<1>5. Screens!Told(s1)
  BY <1>1 DEF Screens!Inv, Screens!Told
<1>6. CASE s.active = t
  <2> DEFINE r == Screens!SetActive(s1, u, FALSE)
  <2>1. Screens!Typed(r) /\ Screens!Single(r) /\ Screens!Told(r) /\ Screens!Sleeping(r)
    BY <1>3, <1>4, <1>5, SelectionMoves
  <2> HIDE DEF r
  <2>2. Screens!Inv(Screens!RefreshFsTabs(r))
    BY <2>1, TabsRefreshed
  <2> QED BY <2>2, <1>6 DEF r
<1>7. CASE s.active # t
  <2>1. Screens!Sleeping(s1)
    <3> SUFFICES ASSUME ~s.stale, NEW v \in s.asleep, v # t
                 PROVE  v \in Screens!Hidden(s1)
      BY DEF Screens!Sleeping
    <3>1. v \in Screens!Hidden(s)
      BY DEF Screens!Inv, Screens!Sleeping
    <3>2. Screens!Covering(s) # {} /\ v \in Screens!Listed(s) \ Screens!Covering(s)
      BY <3>1 DEF Screens!Hidden
    <3>3. s.active \in s.full \cap Screens!Listed(s) /\ v # s.active
      BY <3>2 DEF Screens!Covering
    <3>4. v \in Screens!Listed(s1) /\ s1.active \in s1.full \cap Screens!Listed(s1)
      BY <3>2, <3>3, <1>1, <1>7
    <3>5. Screens!Covering(s1) = {s.active}
      BY <3>4 DEF Screens!Covering
    <3> QED BY <3>3, <3>4, <3>5 DEF Screens!Hidden
  <2>2. Screens!Inv(Screens!RefreshFsTabs(s1))
    BY <2>1, <1>3, <1>4, <1>5, TabsRefreshed
  <2> QED BY <2>2, <1>7
<1> QED BY <1>6, <1>7

\* What concerns neither tiles nor sleep: the switcher, the master, the layout.
LEMMA ScreenStays ==
    ASSUME NEW s, Screens!Inv(s), NEW r, DOMAIN r = Screens!Fields, r.tiles = s.tiles,
           r.attaching = s.attaching, r.active = s.active, r.full = s.full, r.bar = s.bar,
           r.asleep = s.asleep, r.paused = s.paused, r.online = s.online,
           r.mobile \in BOOLEAN, r.stale = s.stale, r.doubled = s.doubled
    PROVE  Screens!Inv(r)
<1>1. Screens!Listed(r) = Screens!Listed(s) /\ Screens!Hidden(r) = Screens!Hidden(s)
  BY DEF Screens!Listed, Screens!Hidden, Screens!Covering
<1> QED BY <1>1 DEF Screens!Inv, Screens!Typed, Screens!Single, Screens!Told,
                    Screens!Sleeping, Screens!Tabbed

\* The class goes and updateSleepState does not hear of it.
LEMMA ClassGoes ==
    ASSUME NEW s, Screens!Inv(s), NEW D, NEW r, DOMAIN r = Screens!Fields, r.tiles = s.tiles,
           r.attaching = s.attaching, r.active = s.active, r.full = s.full \ D,
           r.bar = [t \in Tiles |-> r.bar[t]], \A t \in r.full : r.bar[t] = s.bar[t],
           r.asleep = s.asleep, r.paused = s.paused, r.online = s.online, r.mobile \in BOOLEAN,
           r.stale = (s.stale \/ Screens!Covering(s) \cap D # {}),
           r.doubled = s.doubled \/ (r.doubled = FALSE /\ r.full = {})
    PROVE  Screens!Inv(r)
<1>1. Screens!Listed(r) = Screens!Listed(s)
  BY DEF Screens!Listed
<1>2. Screens!Typed(r)
  BY <1>1 DEF Screens!Inv, Screens!Typed
<1>3. Screens!Single(r) /\ Screens!Told(r)
  BY DEF Screens!Inv, Screens!Single, Screens!Told
<1>4. Screens!Tabbed(r)
  BY <1>1 DEF Screens!Inv, Screens!Tabbed
<1>5. Screens!Sleeping(r)
  <2> SUFFICES ASSUME ~s.stale, Screens!Covering(s) \cap D = {}
               PROVE  Screens!Hidden(r) = Screens!Hidden(s)
    BY DEF Screens!Inv, Screens!Sleeping, Screens!Typed
  <2>1. Screens!Covering(r) = Screens!Covering(s)
    BY <1>1 DEF Screens!Covering
  <2> QED BY <2>1, <1>1 DEF Screens!Hidden
<1> QED BY <1>2, <1>3, <1>4, <1>5 DEF Screens!Inv

\* No tile is there at first.
LEMMA ScreenInit == Screens!Init => Screens!Inv(x)
  BY DEF Screens!Init, Screens!Inv, Screens!Typed, Screens!Fields, Screens!Single, Screens!Told,
         Screens!Sleeping, Screens!Tabbed, Screens!Listed, Screens!ToSet

\* Every tap, slide, timer and message keeps the invariant.
LEMMA ScreenStep == Screens!Inv(x) /\ [Screens!Next]_x => Screens!Inv(x)'
<1> SUFFICES ASSUME Screens!Inv(x), [Screens!Next]_x PROVE Screens!Inv(x')
  BY DEF Screens!Inv, Screens!Typed, Screens!Single, Screens!Told, Screens!Sleeping,
         Screens!Tabbed, Screens!Listed, Screens!ToSet, Screens!Hidden, Screens!Covering
<1>0. DOMAIN x = Screens!Fields /\ x.mobile \in BOOLEAN /\ x.bar = [t \in Tiles |-> x.bar[t]]
      /\ Screens!Listed(x) \subseteq Tiles
      /\ Screens!Typed(x) /\ Screens!Single(x) /\ Screens!Told(x) /\ Screens!Tabbed(x)
  BY DEF Screens!Inv, Screens!Typed, Screens!Listed, Screens!ToSet
<1>m. ASSUME NEW r, Screens!Inv(r), Screens!Moves(r)
      PROVE  Screens!Inv(x')
  <2>1. DOMAIN r = Screens!Fields /\ r.mobile \in BOOLEAN
    BY <1>m DEF Screens!Inv, Screens!Typed
  <2>2. x' = [r EXCEPT !.moves = @ + 1]
    BY <1>m DEF Screens!Moves
  <2> QED BY <2>1, <2>2, <1>m, ScreenStays DEF Screens!Fields
<1>s. ASSUME NEW t, NEW slides
      PROVE  Screens!Inv(Screens!SetActive(x, t, slides))
  BY <1>0, SelectionMoves DEF Screens!Inv
<1>t. ASSUME NEW s, Screens!Inv(s), NEW t \in Screens!Listed(s)
      PROVE  Screens!Inv(Screens!ToggleFullscreen(s, t))
  BY <1>t, TileToggles DEF Screens!Inv
<1>1. ASSUME NEW t \in Tiles, Screens!Created(t)
      PROVE  Screens!Inv(x')
  BY <1>1, <1>m, TileMounts DEF Screens!Created
<1>2. ASSUME NEW t \in Tiles, Screens!Create(t)
      PROVE  Screens!Inv(x')
  <2> DEFINE m == Screens!Mount(x, t)
             s == [m EXCEPT !.master = IF @ = None THEN t ELSE @]
             r == Screens!SetActive(s, t, FALSE)
  <2>1. Screens!Inv(m)
    BY <1>2, TileMounts DEF Screens!Create
  <2>2. DOMAIN m = Screens!Fields /\ m.mobile \in BOOLEAN
    BY <2>1 DEF Screens!Inv, Screens!Typed
  <2> HIDE DEF m
  <2>3. Screens!Inv(s)
    BY <2>1, <2>2, ScreenStays DEF Screens!Fields
  <2> HIDE DEF s
  <2>4. Screens!Inv(r)
    BY <2>3, SelectionMoves DEF Screens!Inv
  <2>5. Screens!Moves(r)
    BY <1>2 DEF Screens!Create, r, s, m
  <2> HIDE DEF r
  <2> QED BY <2>4, <2>5, <1>m
<1>3. ASSUME NEW t \in Tiles, Screens!Destroy(t)
      PROVE  Screens!Inv(x')
  <2> DEFINE rest == Screens!Without(x.tiles, t)
             u    == Screens!Last1(rest)
             s1   == [x EXCEPT !.tiles = rest, !.full = @ \ {t}, !.auto = @ \ {t},
                               !.bar[t] = {}, !.asleep = @ \ {t}, !.paused = @ \ {t},
                               !.master = IF @ = t THEN u ELSE @,
                               !.attaching = Screens!Without(@, t),
                               !.sliding = @ \ {t}, !.later = @ \ {t}]
             r    == Screens!RefreshFsTabs(
                        IF x.active = t THEN Screens!SetActive(s1, u, FALSE) ELSE s1)
  <2>1. /\ DOMAIN s1 = Screens!Fields /\ s1.tiles = Screens!Without(x.tiles, t)
        /\ s1.attaching = Screens!Without(x.attaching, t)
        /\ s1.full = x.full \ {t} /\ s1.bar = [x.bar EXCEPT ![t] = {}]
        /\ s1.asleep = x.asleep \ {t} /\ s1.paused = x.paused \ {t} /\ s1.active = x.active
        /\ s1.online = x.online /\ s1.mobile = x.mobile /\ s1.stale = x.stale
        /\ s1.doubled = x.doubled
    BY <1>0 DEF Screens!Fields
  <2>2. Screens!Moves(r) /\ t \in Screens!Listed(x)
    BY <1>3 DEF Screens!Destroy
  <2> HIDE DEF s1, u
  <2>3. Screens!Inv(r)
    BY <2>1, <2>2, TileGoes
  <2> HIDE DEF r
  <2> QED BY <2>2, <2>3, <1>m
<1>4. ASSUME NEW t \in Tiles, Screens!Select(t)
      PROVE  Screens!Inv(x')
  BY <1>4, <1>m, <1>s DEF Screens!Select
<1>5. ASSUME NEW t \in Tiles, Screens!SlideEnds(t)
      PROVE  Screens!Inv(x')
  <2>1. x' = [x EXCEPT !.sliding = @ \ {t}, !.full = @ \ {t},
                       !.stale = @ \/ t \in Screens!Covering(x)]
    BY <1>5 DEF Screens!SlideEnds
  <2>2. /\ DOMAIN x' = Screens!Fields /\ x'.tiles = x.tiles /\ x'.attaching = x.attaching
        /\ x'.active = x.active /\ x'.full = x.full \ {t} /\ x'.bar = x.bar
        /\ x'.asleep = x.asleep /\ x'.paused = x.paused /\ x'.online = x.online
        /\ x'.mobile = x.mobile /\ x'.doubled = x.doubled
        /\ x'.stale = (x.stale \/ t \in Screens!Covering(x))
    BY <2>1, <1>0 DEF Screens!Fields
  <2>3. x'.stale = (x.stale \/ Screens!Covering(x) \cap {t} # {})
    BY <2>2
  <2>4. x'.bar = [u \in Tiles |-> x'.bar[u]] /\ x'.mobile \in BOOLEAN
    BY <2>2, <1>0
  <2> QED BY <2>2, <2>3, <2>4, ClassGoes
<1>6. ASSUME NEW t \in Tiles, Screens!PromoteToMaster(t)
      PROVE  Screens!Inv(x')
  <2> DEFINE r == [x EXCEPT !.master = t]
  <2>1. Screens!Inv(r)
    BY <1>0, ScreenStays DEF Screens!Fields
  <2>2. Screens!Moves(r)
    BY <1>6 DEF Screens!PromoteToMaster
  <2> HIDE DEF r
  <2> QED BY <2>1, <2>2, <1>m
<1>7. ASSUME NEW t \in Tiles, Screens!DoubleTap(t)
      PROVE  Screens!Inv(x')
  <2> DEFINE s == Screens!SetActive(x, t, FALSE)
             q == Screens!ToggleFullscreen(s, t)
             r == [q EXCEPT !.auto = {t}]
  <2>1. Screens!Inv(s) /\ s.tiles = x.tiles
    BY <1>0, <1>s, SelectionMoves, ZenonT(30)
  <2>2. Screens!Moves(r) /\ x.tiles = <<t>>
    BY <1>7 DEF Screens!DoubleTap
  <2> HIDE DEF s
  <2>3. t \in Screens!Listed(s)
    BY <2>1, <2>2 DEF Screens!Listed, Screens!ToSet
  <2>4. Screens!Inv(q)
    BY <2>1, <2>3, <1>t
  <2>5. DOMAIN q = Screens!Fields /\ q.mobile \in BOOLEAN
    BY <2>4 DEF Screens!Inv, Screens!Typed
  <2> HIDE DEF q
  <2>6. Screens!Inv(r)
    BY <2>4, <2>5, ScreenStays DEF Screens!Fields
  <2> HIDE DEF r
  <2> QED BY <2>2, <2>6, <1>m
<1>8. ASSUME NEW t \in Tiles, Screens!SelectCard(t)
      PROVE  Screens!Inv(x')
  <2> DEFINE s == Screens!SetActive(x, t, FALSE)
             r == [s EXCEPT !.cards = {},
                            !.later = IF s.mobile /\ t \in Screens!Listed(s) \ s.full
                                      THEN @ \cup {t} ELSE @]
  <2>1. Screens!Inv(s)
    BY <1>s
  <2>2. DOMAIN s = Screens!Fields /\ s.mobile \in BOOLEAN
    BY <2>1 DEF Screens!Inv, Screens!Typed
  <2>3. Screens!Moves(r)
    BY <1>8 DEF Screens!SelectCard
  <2> HIDE DEF s
  <2>4. Screens!Inv(r)
    BY <2>1, <2>2, ScreenStays DEF Screens!Fields
  <2> HIDE DEF r
  <2> QED BY <2>3, <2>4, <1>m
<1>9. ASSUME NEW t \in Tiles, Screens!Later(t)
      PROVE  Screens!Inv(x')
  <2> DEFINE s == [x EXCEPT !.later = @ \ {t}]
  <2>1. Screens!Inv(s)
    BY <1>0, ScreenStays DEF Screens!Fields
  <2>2. x' = IF t \in Screens!Listed(s) \ s.full THEN Screens!ToggleFullscreen(s, t) ELSE s
    BY <1>9 DEF Screens!Later
  <2> HIDE DEF s
  <2>3. CASE t \in Screens!Listed(s) \ s.full
    BY <2>1, <2>2, <2>3, <1>t
  <2>4. CASE t \notin Screens!Listed(s) \ s.full
    BY <2>1, <2>2, <2>4
  <2> QED BY <2>3, <2>4
<1>10. ASSUME NEW d, Screens!Step(d)
       PROVE  Screens!Inv(x')
  <2>1. \E t : Screens!Moves(Screens!SetActive(x, t, TRUE))
    BY <1>10 DEF Screens!Step
  <2> QED BY <2>1, <1>m, <1>s
<1>11. ASSUME Screens!ShowSwitcher \/ Screens!HideSwitcher
       PROVE  Screens!Inv(x')
  <2>1. PICK C : Screens!Moves([x EXCEPT !.cards = C])
    BY <1>11 DEF Screens!ShowSwitcher, Screens!HideSwitcher
  <2> DEFINE r == [x EXCEPT !.cards = C]
  <2>2. Screens!Inv(r)
    BY <1>0, ScreenStays DEF Screens!Fields
  <2> HIDE DEF r
  <2> QED BY <2>1, <2>2, <1>m DEF r
<1>12. ASSUME Screens!Toggle
       PROVE  Screens!Inv(x')
  BY <1>12, <1>m, <1>t DEF Screens!Toggle
<1>13. ASSUME Screens!ViewportGrows
       PROVE  Screens!Inv(x')
  <2> DEFINE r == [x EXCEPT !.full = @ \ x.auto, !.auto = {},
                            !.stale = @ \/ Screens!Covering(x) \cap x.auto # {}]
  <2>1. /\ DOMAIN r = Screens!Fields /\ r.tiles = x.tiles /\ r.attaching = x.attaching
        /\ r.active = x.active /\ r.full = x.full \ x.auto /\ r.bar = x.bar
        /\ r.asleep = x.asleep /\ r.paused = x.paused /\ r.online = x.online
        /\ r.mobile = x.mobile /\ r.doubled = x.doubled
        /\ r.stale = (x.stale \/ Screens!Covering(x) \cap x.auto # {})
    BY <1>0 DEF Screens!Fields
  <2>2. Screens!Moves(r)
    BY <1>13 DEF Screens!ViewportGrows
  <2> HIDE DEF r
  <2>3. Screens!Inv(r)
    <3>1. r.bar = [u \in Tiles |-> r.bar[u]] /\ r.mobile \in BOOLEAN
      BY <2>1, <1>0
    <3> QED BY <2>1, <3>1, ClassGoes
  <2> QED BY <2>2, <2>3, <1>m
<1>14. ASSUME Screens!Resize
       PROVE  Screens!Inv(x')
  <2> DEFINE leave == [x EXCEPT !.mobile = FALSE, !.full = {}, !.doubled = FALSE,
                            !.bar = [t \in Tiles |-> IF t \in x.full THEN {} ELSE @[t]],
                            !.stale = @ \/ Screens!Covering(x) # {}]
             enter == [x EXCEPT !.mobile = TRUE]
             r == IF x.mobile THEN leave ELSE enter
  <2>1. Screens!Moves(r)
    BY <1>14 DEF Screens!Resize
  <2>2. /\ DOMAIN leave = Screens!Fields /\ leave.tiles = x.tiles
        /\ leave.attaching = x.attaching /\ leave.active = x.active /\ leave.full = {}
        /\ leave.bar = [t \in Tiles |-> IF t \in x.full THEN {} ELSE x.bar[t]]
        /\ leave.asleep = x.asleep /\ leave.paused = x.paused /\ leave.online = x.online
        /\ leave.mobile = FALSE /\ leave.doubled = FALSE
        /\ leave.stale = (x.stale \/ Screens!Covering(x) # {})
    BY <1>0 DEF Screens!Fields
  <2>3. Screens!Inv(enter)
    BY <1>0, ScreenStays DEF Screens!Fields
  <2> HIDE DEF leave, enter
  <2>4. Screens!Covering(x) \cap x.full = Screens!Covering(x)
    BY DEF Screens!Covering
  <2>5. leave.full = x.full \ x.full /\ leave.bar = [t \in Tiles |-> leave.bar[t]]
    BY <2>2
  <2>6. Screens!Inv(leave)
    <3>1. leave.stale = (x.stale \/ Screens!Covering(x) \cap x.full # {})
      BY <2>2, <2>4
    <3>2. leave.mobile \in BOOLEAN /\ leave.doubled = FALSE /\ leave.full = {}
          /\ \A t \in leave.full : leave.bar[t] = x.bar[t]
      BY <2>2
    <3> QED BY <2>2, <2>5, <3>1, <3>2, ClassGoes
  <2>7. Screens!Inv(r)
    BY <2>3, <2>6
  <2> HIDE DEF r
  <2> QED BY <2>1, <2>7, <1>m
<1>15. ASSUME Screens!Lose
       PROVE  Screens!Inv(x')
  <2> DEFINE r == [x EXCEPT !.online = FALSE, !.attaching = <<>>, !.paused = {}]
  <2>1. /\ DOMAIN r = Screens!Fields /\ r.tiles = x.tiles /\ r.attaching = <<>>
        /\ r.active = x.active /\ r.full = x.full /\ r.bar = x.bar /\ r.asleep = x.asleep
        /\ r.paused = {} /\ r.online = FALSE /\ r.mobile = x.mobile
        /\ r.doubled = x.doubled /\ r.stale = x.stale
    BY <1>0 DEF Screens!Fields
  <2>2. Screens!Moves(r)
    BY <1>15 DEF Screens!Lose
  <2> HIDE DEF r
  <2>3. <<>> \in Seq(Tiles)
    OBVIOUS
  <2>4. Screens!Listed(r) = Screens!Listed(x) /\ Screens!Hidden(r) = Screens!Hidden(x)
    BY <2>1 DEF Screens!Listed, Screens!Hidden, Screens!Covering
  <2>5. Screens!Inv(r)
    BY <2>1, <2>3, <2>4 DEF Screens!Inv, Screens!Typed, Screens!Single, Screens!Told,
                            Screens!Sleeping, Screens!Tabbed
  <2> QED BY <2>2, <2>5, <1>m
<1>16. ASSUME Screens!Reconnect
       PROVE  Screens!Inv(x')
  <2>1. /\ DOMAIN x' = Screens!Fields /\ x'.tiles = x.tiles /\ x'.attaching = x.tiles
        /\ x'.active = x.active /\ x'.full = x.full /\ x'.bar = x.bar /\ x'.asleep = x.asleep
        /\ x'.paused = {} /\ x'.online = TRUE /\ x'.mobile = x.mobile
        /\ x'.doubled = x.doubled /\ x'.stale = x.stale
    BY <1>0, <1>16 DEF Screens!Fields, Screens!Reconnect
  <2>2. Screens!Listed(x') = Screens!Listed(x) /\ Screens!Hidden(x') = Screens!Hidden(x)
    BY <2>1 DEF Screens!Listed, Screens!Hidden, Screens!Covering
  <2>3. Screens!Told(x')
    BY <2>1 DEF Screens!Told, Screens!Inv, Screens!Typed, Screens!Listed
  <2>4. Screens!Typed(x')
    BY <2>1, <2>2, ZenonT(30) DEF Screens!Inv, Screens!Typed
  <2>5. Screens!Single(x') /\ Screens!Sleeping(x') /\ Screens!Tabbed(x')
    BY <2>1, <2>2 DEF Screens!Inv, Screens!Single, Screens!Sleeping, Screens!Tabbed
  <2> QED BY <2>3, <2>4, <2>5 DEF Screens!Inv
<1>17. ASSUME Screens!AttachAgain
       PROVE  Screens!Inv(x')
  <2> DEFINE t == Head(x.attaching)
  <2>1. /\ DOMAIN x' = Screens!Fields /\ x'.tiles = x.tiles /\ x'.attaching = Tail(x.attaching)
        /\ x'.active = x.active /\ x'.full = x.full /\ x'.bar = x.bar /\ x'.asleep = x.asleep
        /\ x'.paused = (IF t \in x.asleep THEN x.paused \cup {t} ELSE x.paused \ {t})
        /\ x'.online = x.online /\ x'.mobile = x.mobile
        /\ x'.doubled = x.doubled /\ x'.stale = x.stale
    BY <1>0, <1>17 DEF Screens!Fields, Screens!AttachAgain
  <2>2. Screens!Listed(x') = Screens!Listed(x) /\ Screens!Hidden(x') = Screens!Hidden(x)
    BY <2>1 DEF Screens!Listed, Screens!Hidden, Screens!Covering
  <2>3. /\ x'.attaching \in Seq(Tiles) /\ t \in Tiles
        /\ Screens!ToSet(x.attaching) \ {t} \subseteq Screens!ToSet(x'.attaching)
    <3>1. x.attaching \in Seq(Tiles) /\ x.attaching # <<>>
      BY <1>17 DEF Screens!AttachAgain, Screens!Inv, Screens!Typed
    <3>2. /\ x'.attaching \in Seq(Tiles) /\ t \in Tiles
          /\ DOMAIN x'.attaching = 1..(Len(x.attaching) - 1) /\ Len(x.attaching) \in Nat
          /\ DOMAIN x.attaching = 1..Len(x.attaching) /\ t = x.attaching[1]
          /\ \A i \in 1..(Len(x.attaching) - 1) : x'.attaching[i] = x.attaching[i + 1]
      BY <2>1, <3>1, HeadTailProperties, LenProperties
    <3>3. ASSUME NEW i \in DOMAIN x.attaching, x.attaching[i] # t
          PROVE  x.attaching[i] \in Screens!ToSet(x'.attaching)
      <4>1. i - 1 \in DOMAIN x'.attaching /\ (i - 1) + 1 = i
        BY <3>2, <3>3
      <4>2. x'.attaching[i - 1] = x.attaching[i]
        BY <3>2, <4>1
      <4> QED BY <4>1, <4>2 DEF Screens!ToSet
    <3> QED BY <3>2, <3>3 DEF Screens!ToSet
  <2> HIDE DEF t
  <2>4. Screens!Told(x')
    BY <2>1, <2>3 DEF Screens!Told, Screens!Inv
  <2> QED BY <2>1, <2>2, <2>3, <2>4 DEF Screens!Inv, Screens!Typed, Screens!Single,
                                  Screens!Sleeping, Screens!Tabbed
<1>18. CASE UNCHANGED x
  BY <1>18
<1> QED BY <1>1, <1>2, <1>3, <1>4, <1>5, <1>6, <1>7, <1>8, <1>9, <1>10, <1>11, <1>12, <1>13,
           <1>14, <1>15, <1>16, <1>17, <1>18 DEF Screens!Next

\* What is hidden is not seen, and a bar that is kept is complete.
LEMMA ScreenHolds == Screens!Inv(x) => Screens!ShownRuns /\ Screens!TabsComplete
<1> SUFFICES ASSUME Screens!Inv(x) PROVE Screens!ShownRuns /\ Screens!TabsComplete
  OBVIOUS
<1>1. x.stale \/ x.active \notin x.asleep
  BY DEF Screens!Inv, Screens!Typed, Screens!Sleeping, Screens!Hidden, Screens!Covering
<1>2. x.stale \/ x.doubled \/ Screens!Shown \cap x.asleep = {}
  BY DEF Screens!Inv, Screens!Typed, Screens!Single, Screens!Sleeping, Screens!Hidden,
         Screens!Covering, Screens!Shown
<1>3. (x.online /\ x.attaching = <<>>) => x.paused = x.asleep
  <2> SUFFICES ASSUME x.online, x.attaching = <<>> PROVE x.paused = x.asleep
    OBVIOUS
  <2>1. Screens!ToSet(x.attaching) = {}
    BY DEF Screens!ToSet
  <2>2. x.asleep \subseteq Tiles
    BY DEF Screens!Inv, Screens!Typed, Screens!Listed, Screens!ToSet
  <2> QED BY <2>1, <2>2 DEF Screens!Inv, Screens!Typed, Screens!Told
<1>4. Screens!TabsComplete
  BY DEF Screens!Inv, Screens!Tabbed, Screens!TabsComplete
<1> QED BY <1>1, <1>2, <1>3, <1>4 DEF Screens!ShownRuns

\* Screen!ShownRuns: the active terminal is never asleep, and none that is seen
\* is, with the exceptions named there (setActive, updateSleepState).
THEOREM ShownTerminalsRun == Spec => []ShownRuns
<1> DEFINE I == part = "screen" => Screens!Inv(x)
<1>1. Init => I
  BY ScreenInit DEF Init
<1>2. I /\ [Next]_vars => I'
  BY PartAlone, ScreenStep
<1>3. I => ShownRuns
  BY ScreenHolds DEF ShownRuns
<1> HIDE DEF I
<1> QED BY <1>1, <1>2, <1>3, PTL DEF Spec

\* Screen!TabsComplete: the bar of the fullscreen tile names every session,
\* however sessions come and go (_renderFsTabs, _refreshFsTabs).
THEOREM TabsAreComplete == Spec => []TabsComplete
<1> DEFINE I == part = "screen" => Screens!Inv(x)
<1>1. Init => I
  BY ScreenInit DEF Init
<1>2. I /\ [Next]_vars => I'
  BY PartAlone, ScreenStep
<1>3. I => TabsComplete
  BY ScreenHolds DEF TabsComplete
<1> HIDE DEF I
<1> QED BY <1>1, <1>2, <1>3, PTL DEF Spec

-----------------------------------------------------------------------------
\* Claims: who rules the size of a terminal.

\* A step that sends nothing and learns nothing; frames and throttling.
LEMMA ClaimsStay ==
    ASSUME NEW s, Sizes!Inv(s), NEW r, DOMAIN r = Sizes!Fields,
           r.belief = s.belief, r.role = s.role, r.down = s.down, r.up = s.up,
           r.going = s.going, r.misled = s.misled,
           r.mounted = s.mounted, r.reclaim = s.reclaim, r.recent \in BOOLEAN,
           r.swallowed = s.swallowed, r.attached = s.attached, r.scaled \in BOOLEAN,
           s.belief = "yes" => r.scaled = s.scaled
    PROVE  Sizes!Inv(r)
<1>1. Sizes!Typed(r)
  BY DEF Sizes!Inv, Sizes!Typed
<1>2. Sizes!ToldOrClaimed(r)
  BY DEF Sizes!Inv, Sizes!ToldOrClaimed, Sizes!WillBelieve
<1> QED BY <1>1, <1>2 DEF Sizes!Inv

\* A claim is on its way or remembered as kept back (_claimActiveIfNeeded).
LEMMA ClaimKeeps ==
    ASSUME NEW s, Sizes!Inv(s)
    PROVE  Sizes!Inv(Sizes!ClaimActiveIfNeeded(s))
<1> DEFINE r == Sizes!ClaimActiveIfNeeded(s)
           sent == ~s.recent /\ s.attached
<1>1. CASE ~s.mounted \/ s.belief = "yes"
  BY <1>1 DEF Sizes!ClaimActiveIfNeeded
<1>2. CASE s.mounted /\ s.belief # "yes"
  <2>1. /\ DOMAIN r = Sizes!Fields /\ r.belief = "yes" /\ r.scaled = FALSE /\ r.recent = TRUE
        /\ r.up = (IF sent THEN s.up + 1 ELSE s.up) /\ r.swallowed = ~sent
        /\ r.role = s.role /\ r.down = s.down /\ r.mounted = s.mounted
        /\ r.reclaim = s.reclaim /\ r.attached = s.attached
        /\ r.going = s.going /\ r.misled = s.misled
    BY <1>2 DEF Sizes!ClaimActiveIfNeeded, Sizes!Inv, Sizes!Typed, Sizes!Fields
  <2> HIDE DEF r
  <2>2. s.up \in Nat /\ sent \in BOOLEAN
    BY DEF Sizes!Inv, Sizes!Typed
  <2>3. r.up \in Nat /\ (sent => r.up > 0) /\ (s.up > 0 => r.up > 0)
    BY <2>1, <2>2
  <2>4. Sizes!Typed(r)
    BY <2>1, <2>2, <2>3 DEF Sizes!Inv, Sizes!Typed
  <2>5. Sizes!ToldOrClaimed(r)
    BY <2>1, <2>3 DEF Sizes!Inv, Sizes!ToldOrClaimed, Sizes!WillBelieve
  <2>6. Sizes!Inv(r)
    BY <2>1, <2>4, <2>5 DEF Sizes!Inv
  <2> QED BY <2>6 DEF r
<1> QED BY <1>1, <1>2

\* An attach is answered with the role it gave (handleAttach).
LEMMA AttachTells ==
    ASSUME NEW s, Sizes!Typed(s), s.mounted, s.belief = "yes" => ~s.scaled, Sizes!Attached(s)
    PROVE  Sizes!Inv(x')
<1>1. PICK first \in BOOLEAN :
        x' = [s EXCEPT !.attached = TRUE, !.role = IF first THEN "me" ELSE s.role,
                       !.down = Append(@, (IF first THEN "me" ELSE s.role) = "me")]
  BY DEF Sizes!Attached
<1> DEFINE r == IF first THEN "me" ELSE s.role
           e == r = "me"
<1>2. /\ DOMAIN x' = Sizes!Fields /\ x'.attached = TRUE /\ x'.role = r
      /\ x'.down = Append(s.down, e) /\ x'.belief = s.belief /\ x'.up = s.up
      /\ x'.going = s.going /\ x'.misled = s.misled
      /\ x'.mounted = s.mounted /\ x'.reclaim = s.reclaim /\ x'.recent = s.recent
      /\ x'.swallowed = s.swallowed /\ x'.scaled = s.scaled
  BY <1>1 DEF Sizes!Typed, Sizes!Fields
<1>3. s.down \in Seq(BOOLEAN) /\ e \in BOOLEAN /\ (e <=> r = "me")
  BY DEF Sizes!Typed
<1> HIDE DEF e, r
<1>4. x'.down \in Seq(BOOLEAN) /\ x'.down # <<>> /\ x'.down[Len(x'.down)] = e
  BY <1>2, <1>3, LastAppended
<1>5. Sizes!Typed(x')
  BY <1>2, <1>4 DEF Sizes!Typed
<1>6. Sizes!ToldOrClaimed(x')
  BY <1>2, <1>3, <1>4 DEF Sizes!ToldOrClaimed, Sizes!WillBelieve
<1> QED BY <1>2, <1>5, <1>6 DEF Sizes!Inv

\* Nothing has been claimed yet.
LEMMA ClaimsInit == Sizes!Init => Sizes!Inv(x)
  BY DEF Sizes!Init, Sizes!Inv, Sizes!Typed, Sizes!ToldOrClaimed, Sizes!Fields

\* Every step of a browser, its server and the others keeps the invariant.
LEMMA ClaimsStep == Sizes!Inv(x) /\ [Sizes!Next]_x => Sizes!Inv(x)'
<1> SUFFICES ASSUME Sizes!Inv(x), [Sizes!Next]_x PROVE Sizes!Inv(x')
  OBVIOUS
<1>t. /\ Sizes!Typed(x) /\ Sizes!ToldOrClaimed(x) /\ (x.belief = "yes" => ~x.scaled)
      /\ DOMAIN x = Sizes!Fields
  BY DEF Sizes!Inv, Sizes!Typed
<1>h. ASSUME NEW s, Sizes!Inv(s), Sizes!Happens(s)
      PROVE  Sizes!Inv(x')
  <2>1. x' = [s EXCEPT !.moves = s.moves + 1] /\ Sizes!Typed(s)
    BY <1>h DEF Sizes!Happens, Sizes!Inv
  <2>2. /\ DOMAIN x' = Sizes!Fields /\ x'.belief = s.belief /\ x'.role = s.role
        /\ x'.down = s.down /\ x'.up = s.up /\ x'.mounted = s.mounted
        /\ x'.going = s.going /\ x'.misled = s.misled
        /\ x'.reclaim = s.reclaim /\ x'.recent = s.recent /\ x'.swallowed = s.swallowed
        /\ x'.attached = s.attached /\ x'.scaled = s.scaled
    BY <2>1 DEF Sizes!Typed, Sizes!Fields
  <2>3. s.recent \in BOOLEAN /\ s.scaled \in BOOLEAN
    BY <2>1 DEF Sizes!Typed
  <2> QED BY <1>h, <2>2, <2>3, ClaimsStay
<1>1. CASE Sizes!Mount
  <2> DEFINE s == [x EXCEPT !.mounted = TRUE]
  <2>1. Sizes!Attached(s)
    BY <1>1 DEF Sizes!Mount
  <2>2. /\ DOMAIN s = Sizes!Fields /\ s.mounted = TRUE /\ s.belief = x.belief
        /\ s.down = x.down /\ s.up = x.up /\ s.reclaim = x.reclaim
        /\ s.recent = x.recent /\ s.swallowed = x.swallowed /\ s.scaled = x.scaled
        /\ s.attached = x.attached /\ s.going = x.going /\ s.misled = x.misled
    BY <1>t DEF Sizes!Fields
  <2> HIDE DEF s
  <2>3. Sizes!Typed(s)
    BY <1>t, <2>2 DEF Sizes!Typed
  <2> QED BY <1>t, <2>1, <2>2, <2>3, AttachTells
<1>2. CASE Sizes!Arrives
  <2> DEFINE s  == [x EXCEPT !.down = Tail(@)]
             b  == Head(x.down)
             s1 == [s EXCEPT !.belief = IF b THEN "yes" ELSE "no", !.swallowed = FALSE,
                             !.scaled = @ /\ ~b, !.frames = IF b THEN @ ELSE @ + 1,
                             !.reclaim = FALSE]
  <2>1. /\ x.down # <<>>
        /\ x' = IF s.reclaim /\ ~b THEN Sizes!ClaimActiveIfNeeded(s1) ELSE s1
    BY <1>2 DEF Sizes!Arrives, Sizes!HandlePtySize
  <2>2. /\ DOMAIN s = Sizes!Fields /\ s.down = Tail(x.down) /\ s.role = x.role
        /\ s.up = x.up /\ s.mounted = x.mounted /\ s.recent = x.recent
        /\ s.attached = x.attached /\ s.scaled = x.scaled
        /\ s.going = x.going /\ s.misled = x.misled
    BY <1>t DEF Sizes!Fields
  <2> HIDE DEF s
  <2>3. /\ DOMAIN s1 = Sizes!Fields /\ s1.belief = (IF b THEN "yes" ELSE "no")
        /\ s1.swallowed = FALSE /\ s1.scaled = (s.scaled /\ ~b) /\ s1.reclaim = FALSE
        /\ s1.down = s.down /\ s1.role = s.role /\ s1.up = s.up /\ s1.mounted = s.mounted
        /\ s1.recent = s.recent /\ s1.attached = s.attached
        /\ s1.going = s.going /\ s1.misled = s.misled
    BY <2>2 DEF Sizes!Fields
  <2> HIDE DEF s1
  <2>4. /\ b \in BOOLEAN /\ Tail(x.down) \in Seq(BOOLEAN)
        /\ Tail(x.down) = <<>> => x.down[Len(x.down)] = b
        /\ Tail(x.down) # <<>> => Tail(x.down)[Len(Tail(x.down))] = x.down[Len(x.down)]
    <3>1. x.down \in Seq(BOOLEAN)
      BY <1>t DEF Sizes!Typed
    <3> QED BY <2>1, <3>1, LastStays
  <2> HIDE DEF b
  <2>5. Sizes!Typed(s1)
    BY <1>t, <2>2, <2>3, <2>4 DEF Sizes!Typed
  <2>6. Sizes!WillBelieve(s1) => x.down[Len(x.down)]
    <3>1. CASE Tail(x.down) = <<>>
      BY <2>2, <2>3, <2>4, <3>1 DEF Sizes!WillBelieve
    <3>2. CASE Tail(x.down) # <<>>
      BY <2>2, <2>3, <2>4, <3>2 DEF Sizes!WillBelieve
    <3> QED BY <3>1, <3>2
  <2>7. Sizes!WillBelieve(s1) => Sizes!WillBelieve(x)
    BY <2>1, <2>6 DEF Sizes!WillBelieve
  <2>8. Sizes!ToldOrClaimed(s1)
    BY <1>t, <2>2, <2>3, <2>7 DEF Sizes!ToldOrClaimed
  <2>9. Sizes!Inv(s1)
    BY <2>3, <2>4, <2>5, <2>8 DEF Sizes!Inv
  <2> QED BY <2>1, <2>9, ClaimKeeps
<1>3. CASE Sizes!Touch
  BY <1>3, <1>h, ClaimKeeps DEF Sizes!Touch
<1>4. CASE Sizes!Cool \/ Sizes!Frame
  <2>1. /\ DOMAIN x' = Sizes!Fields /\ x'.belief = x.belief /\ x'.role = x.role
        /\ x'.down = x.down /\ x'.up = x.up /\ x'.mounted = x.mounted
        /\ x'.going = x.going /\ x'.misled = x.misled
        /\ x'.reclaim = x.reclaim /\ x'.swallowed = x.swallowed /\ x'.attached = x.attached
        /\ x'.recent \in BOOLEAN /\ x'.scaled \in BOOLEAN
        /\ (x.belief = "yes" => x'.scaled = x.scaled)
    <3>1. CASE Sizes!Cool
      BY <1>t, <3>1 DEF Sizes!Cool, Sizes!Typed, Sizes!Fields
    <3>2. CASE Sizes!Frame
      <4>1. PICK small \in BOOLEAN :
              x' = [x EXCEPT !.frames = @ - 1,
                             !.scaled = IF x.belief = "yes" THEN @ ELSE small]
        BY <3>2 DEF Sizes!Frame
      <4>2. x'.scaled = (IF x.belief = "yes" THEN x.scaled ELSE small) /\ x'.recent = x.recent
        BY <1>t, <4>1 DEF Sizes!Fields
      <4>3. x.scaled \in BOOLEAN /\ x.recent \in BOOLEAN
        BY <1>t DEF Sizes!Typed
      <4>4. x'.scaled \in BOOLEAN /\ (x.belief = "yes" => x'.scaled = x.scaled)
        BY <4>2, <4>3
      <4> QED BY <1>t, <4>1, <4>2, <4>3, <4>4 DEF Sizes!Fields
    <3> QED BY <1>4, <3>1, <3>2
  <2> QED BY <2>1, ClaimsStay
<1>5. CASE Sizes!ServerClaimed
  <2>1. x.up > 0 /\ x' = [x EXCEPT !.up = @ - 1, !.role = "me", !.misled = FALSE]
    BY <1>5 DEF Sizes!ServerClaimed
  <2>2. /\ DOMAIN x' = Sizes!Fields /\ x'.up = x.up - 1 /\ x'.role = "me"
        /\ x'.misled = FALSE /\ x'.going = x.going
        /\ x'.down = x.down /\ x'.belief = x.belief /\ x'.mounted = x.mounted
        /\ x'.reclaim = x.reclaim /\ x'.recent = x.recent /\ x'.swallowed = x.swallowed
        /\ x'.scaled = x.scaled /\ x'.attached = x.attached
    BY <1>t, <2>1 DEF Sizes!Fields
  <2>3. x.up \in Nat
    BY <1>t DEF Sizes!Typed
  <2>4. x'.up \in Nat
    BY <2>1, <2>2, <2>3
  <2>5. Sizes!Typed(x')
    BY <1>t, <2>2, <2>4 DEF Sizes!Typed
  <2> QED BY <1>t, <2>2, <2>5 DEF Sizes!Inv, Sizes!ToldOrClaimed
<1>6. ASSUME NEW s, DOMAIN s = Sizes!Fields, x.going \subseteq s.going,
             s.going \subseteq BOOLEAN, s.down = x.down, s.misled = x.misled,
             s.up = x.up, s.belief = x.belief, s.mounted = x.mounted,
             s.reclaim = x.reclaim, s.recent = x.recent, s.swallowed = x.swallowed,
             s.scaled = x.scaled, s.attached = x.attached, Sizes!Happens(s),
             x.role = "me" /\ x.attached => s.role = "me" \/ FALSE \in s.going
      PROVE  Sizes!Inv(x')
  <2>1. Sizes!Typed(s)
    BY <1>t, <1>6 DEF Sizes!Typed
  <2>2. Sizes!ToldOrClaimed(s)
    BY <1>t, <1>6 DEF Sizes!ToldOrClaimed, Sizes!WillBelieve
  <2>3. Sizes!Inv(s)
    BY <1>t, <1>6, <2>1, <2>2 DEF Sizes!Inv
  <2> QED BY <1>6, <2>3, <1>h
<1>g. x.going \subseteq BOOLEAN /\ TRUE \in BOOLEAN /\ FALSE \in BOOLEAN
  BY <1>t DEF Sizes!Typed
<1>11. CASE Sizes!OtherClaims
  <2> DEFINE g == IF x.attached THEN x.going \cup {FALSE} ELSE x.going
             s == [x EXCEPT !.role = "other", !.going = g]
  <2>1. Sizes!Happens(s)
    BY <1>11 DEF Sizes!OtherClaims
  <2>2. g \subseteq BOOLEAN /\ x.going \subseteq g /\ (x.attached => FALSE \in g)
    BY <1>g
  <2> HIDE DEF g
  <2>3. /\ DOMAIN s = Sizes!Fields /\ s.going = g /\ s.down = x.down
        /\ s.misled = x.misled /\ s.up = x.up /\ s.belief = x.belief
        /\ s.mounted = x.mounted /\ s.reclaim = x.reclaim /\ s.recent = x.recent
        /\ s.swallowed = x.swallowed /\ s.scaled = x.scaled /\ s.attached = x.attached
    BY <1>t DEF Sizes!Fields
  <2> HIDE DEF s
  <2> QED BY <2>1, <2>2, <2>3, <1>6
<1>12. CASE Sizes!OtherResizes
  <2> DEFINE g == x.going \cup {x.role = "me"}
             s == [x EXCEPT !.going = g]
  <2>1. Sizes!Happens(s)
    BY <1>12 DEF Sizes!OtherResizes
  <2>2. g \subseteq BOOLEAN /\ x.going \subseteq g
    BY <1>g
  <2> HIDE DEF g
  <2>3. /\ DOMAIN s = Sizes!Fields /\ s.going = g /\ s.down = x.down /\ s.role = x.role
        /\ s.misled = x.misled /\ s.up = x.up /\ s.belief = x.belief
        /\ s.mounted = x.mounted /\ s.reclaim = x.reclaim /\ s.recent = x.recent
        /\ s.swallowed = x.swallowed /\ s.scaled = x.scaled /\ s.attached = x.attached
    BY <1>t DEF Sizes!Fields
  <2> HIDE DEF s
  <2> QED BY <2>1, <2>2, <2>3, <1>6
<1>13. CASE Sizes!OtherLeaves
  <2> DEFINE s == [x EXCEPT !.leaving = TRUE]
  <2>1. Sizes!Happens(s)
    BY <1>13 DEF Sizes!OtherLeaves
  <2>2. /\ DOMAIN s = Sizes!Fields /\ s.going = x.going /\ s.down = x.down
        /\ s.misled = x.misled /\ s.up = x.up /\ s.belief = x.belief /\ s.role = x.role
        /\ s.mounted = x.mounted /\ s.reclaim = x.reclaim /\ s.recent = x.recent
        /\ s.swallowed = x.swallowed /\ s.scaled = x.scaled /\ s.attached = x.attached
    BY <1>t DEF Sizes!Fields
  <2> HIDE DEF s
  <2>3. s.recent \in BOOLEAN /\ s.scaled \in BOOLEAN
    BY <1>t, <2>2 DEF Sizes!Typed
  <2>4. Sizes!Inv(s)
    BY <2>2, <2>3, ClaimsStay
  <2> QED BY <2>1, <2>4, <1>h
<1>14. CASE Sizes!RoleCleared
  <2>1. x' = [x EXCEPT !.leaving = FALSE, !.role = None, !.misled = @ \/ x.role = "me"]
    BY <1>14 DEF Sizes!RoleCleared
  <2>2. /\ DOMAIN x' = Sizes!Fields /\ x'.role = None
        /\ x'.misled = (x.misled \/ x.role = "me")
        /\ x'.going = x.going /\ x'.down = x.down /\ x'.up = x.up /\ x'.belief = x.belief
        /\ x'.mounted = x.mounted /\ x'.reclaim = x.reclaim /\ x'.recent = x.recent
        /\ x'.swallowed = x.swallowed /\ x'.scaled = x.scaled /\ x'.attached = x.attached
    BY <1>t, <2>1 DEF Sizes!Fields
  <2>3. x'.misled \in BOOLEAN
    BY <2>2, Zenon
  <2>4. Sizes!Typed(x')
    BY <1>t, <2>2, <2>3 DEF Sizes!Typed
  <2>5. ~x'.misled => ~x.misled /\ x.role # "me"
    BY <2>2
  <2>6. Sizes!ToldOrClaimed(x')
    BY <1>t, <2>2, <2>5 DEF Sizes!ToldOrClaimed, Sizes!WillBelieve
  <2> QED BY <1>t, <2>2, <2>4, <2>6 DEF Sizes!Inv
<1>7. CASE Sizes!Lose
  <2> DEFINE s == [x EXCEPT !.attached = FALSE, !.down = <<>>, !.up = 0, !.going = {},
                            !.misled = FALSE, !.role = IF @ = "me" THEN "other" ELSE @]
  <2>1. Sizes!Happens(s)
    BY <1>7 DEF Sizes!Lose
  <2>2. /\ DOMAIN s = Sizes!Fields /\ s.attached = FALSE /\ s.down = <<>> /\ s.up = 0
        /\ s.going = {} /\ s.misled = FALSE
        /\ s.belief = x.belief /\ s.mounted = x.mounted /\ s.reclaim = x.reclaim
        /\ s.recent = x.recent /\ s.swallowed = x.swallowed /\ s.scaled = x.scaled
    BY <1>t DEF Sizes!Fields
  <2> HIDE DEF s
  <2>3. s.down \in Seq(BOOLEAN)
    BY <2>2, EmptySeq
  <2>4. Sizes!Typed(s)
    <3>1. s.up \in Nat /\ s.going \subseteq BOOLEAN
      BY <2>2
    <3>2. {s.mounted, s.reclaim, s.recent, s.swallowed, s.scaled, s.attached, s.misled}
            \subseteq BOOLEAN
      BY <1>t, <2>2 DEF Sizes!Typed
    <3> QED BY <2>2, <2>3, <3>1, <3>2 DEF Sizes!Typed
  <2>5. Sizes!Inv(s)
    BY <1>t, <2>2, <2>4 DEF Sizes!Inv, Sizes!ToldOrClaimed
  <2> QED BY <2>1, <2>5, <1>h
<1>8. CASE Sizes!Reattach
  BY <1>t, <1>8, AttachTells DEF Sizes!Reattach
<1>9. ASSUME NEW b \in BOOLEAN, Sizes!Broadcast(b)
      PROVE  Sizes!Inv(x')
  <2>1. x' = [x EXCEPT !.going = @ \ {b}, !.down = Append(@, b),
                       !.misled = b /\ x.role # "me"]
    BY <1>9 DEF Sizes!Broadcast
  <2>2. /\ DOMAIN x' = Sizes!Fields /\ x'.going = x.going \ {b}
        /\ x'.down = Append(x.down, b) /\ x'.misled = (b /\ x.role # "me")
        /\ x'.role = x.role /\ x'.up = x.up /\ x'.belief = x.belief
        /\ x'.mounted = x.mounted /\ x'.reclaim = x.reclaim /\ x'.recent = x.recent
        /\ x'.swallowed = x.swallowed /\ x'.scaled = x.scaled /\ x'.attached = x.attached
    BY <1>t, <2>1 DEF Sizes!Fields
  <2>3. x.down \in Seq(BOOLEAN)
    BY <1>t DEF Sizes!Typed
  <2>4. x'.down \in Seq(BOOLEAN) /\ x'.down # <<>> /\ x'.down[Len(x'.down)] = b
    BY <2>2, <2>3, LastAppended
  <2>5. Sizes!Typed(x')
    BY <1>t, <2>2, <2>4 DEF Sizes!Typed
  <2>6. Sizes!ToldOrClaimed(x')
    BY <2>2, <2>4 DEF Sizes!ToldOrClaimed, Sizes!WillBelieve
  <2> QED BY <1>t, <2>2, <2>5, <2>6 DEF Sizes!Inv
<1>10. CASE x' = x
  BY <1>10
<1> QED BY <1>1, <1>2, <1>3, <1>4, <1>5, <1>7, <1>8, <1>9, <1>10, <1>11, <1>12, <1>13, <1>14
         DEF Sizes!Next

\* The invariant holds what is claimed of belief and scaling.
LEMMA ClaimsHold == Sizes!Inv(x) => Sizes!ActiveNotScaled /\ Sizes!BelieverIsActive
<1>1. Sizes!Inv(x) => ~(x.up > 0 /\ x.up = 0)
  BY DEF Sizes!Inv, Sizes!Typed
<1> QED BY <1>1 DEF Sizes!Inv, Sizes!ActiveNotScaled, Sizes!BelieverIsActive,
                   Sizes!ToldOrClaimed, Sizes!WillBelieve

\* Claims!ActiveNotScaled: no tile is scaled while its browser is active, however
\* many frames that would scale it are queued (_claimActiveIfNeeded).
THEOREM ActiveIsNotScaled == Spec => []ActiveNotScaled
<1> DEFINE I == part = "claims" => Sizes!Inv(x)
<1>1. Init => I
  BY ClaimsInit DEF Init
<1>2. I /\ [Next]_vars => I'
  BY PartAlone, ClaimsStep
<1>3. I => ActiveNotScaled
  BY ClaimsHold DEF ActiveNotScaled
<1> HIDE DEF I
<1> QED BY <1>1, <1>2, <1>3, PTL DEF Spec

\* Claims!BelieverIsActive: with nothing on its way, a browser that believes to be
\* active is the server's active client, however often the role changed hands and
\* whatever crossed (_handlePtySize, handleClaimActive).
THEOREM BelieversAreActive == Spec => []BelieverIsActive
<1> DEFINE I == part = "claims" => Sizes!Inv(x)
<1>1. Init => I
  BY ClaimsInit DEF Init
<1>2. I /\ [Next]_vars => I'
  BY PartAlone, ClaimsStep
<1>3. I => BelieverIsActive
  BY ClaimsHold DEF BelieverIsActive
<1> HIDE DEF I
<1> QED BY <1>1, <1>2, <1>3, PTL DEF Spec

-----------------------------------------------------------------------------
\* Prompt: the suggestions of a text.

\* A user who acts is counted, and what was asked for is not touched.
LEMMA PromptStays ==
    ASSUME NEW s, Field!Inv(s), NEW r, DOMAIN r = Field!Fields,
           r.asked = s.asked, r.removed = s.removed, r.deleting \in SUBSET Deletable,
           Field!Settled(r) => /\ Field!Settled(s) /\ r.text = s.text
                               /\ r.list = s.list /\ r.late = s.late
    PROVE  Field!Inv(r)
<1>1. Field!Typed(r)
  BY DEF Field!Inv, Field!Typed
<1>2. Field!Fits(r)
  BY DEF Field!Inv, Field!Fits
<1> QED BY <1>1, <1>2 DEF Field!Inv

\* Requests that are overtaken are all old.
LEMMA OvertakenAreOld ==
    ASSUME NEW q \in Seq(Field!Answers)
    PROVE  LET o == Field!Overtaken(q)
           IN  /\ o \in Seq(Field!Answers) /\ Len(o) = Len(q)
               /\ \A i \in 1..Len(o) : o[i].old = TRUE
<1>1. Len(q) \in Nat /\ DOMAIN q = 1..Len(q) /\ \A i \in 1..Len(q) : q[i] \in Field!Answers
  BY LenProperties, ElementOfSeq
<1> DEFINE e(i) == [q[i] EXCEPT !.old = TRUE]
<1>2. \A i \in 1..Len(q) : e(i) \in Field!Answers /\ e(i).old = TRUE
  <2> DEFINE L == {Field!Complete(t, r) : t \in Texts, r \in SUBSET Deletable}
  <2>1. Field!Answers = [list : L, old : BOOLEAN]
    BY DEF Field!Answers
  <2> HIDE DEF L
  <2> QED BY <1>1, <2>1
<1>3. Field!Overtaken(q) = [i \in 1..Len(q) |-> e(i)]
  BY <1>1 DEF Field!Overtaken
<1> HIDE DEF e
<1>4. [i \in 1..Len(q) |-> e(i)] \in Seq(Field!Answers)
  BY <1>1, <1>2, IsASeq
<1>5. Len([i \in 1..Len(q) |-> e(i)]) = Len(q)
  BY <1>1
<1> QED BY <1>1, <1>2, <1>3, <1>4, <1>5

\* A text that is completed has an answer (autocomplete).
LEMMA CompletionIsAnswer ==
    ASSUME NEW t \in Texts, NEW r \in SUBSET Deletable
    PROVE  [list |-> Field!Complete(t, r), old |-> FALSE] \in Field!Answers
  BY DEF Field!Answers

\* After a request the suggestions are, or will be, those of the text
\* (updateSuggestions).
LEMMA SuggestionsFollow ==
    ASSUME NEW s, Field!Typed(s)
    PROVE  Field!Inv(Field!UpdateSuggestions(s))
<1> DEFINE r == Field!UpdateSuggestions(s)
           s1 == [s EXCEPT !.list = IF @ = <<>> THEN @ ELSE <<Field!Loading>>,
                           !.at = 0, !.dismissed = FALSE]
           c == Field!Complete(s.text, s.removed)
           a == [list |-> c, old |-> FALSE]
<1>1. /\ DOMAIN s1 = Field!Fields /\ s1.asked = s.asked /\ s1.removed = s.removed
      /\ s1.deleting = s.deleting /\ s1.text = s.text
  BY DEF Field!Typed, Field!Fields
<1>2. r = IF s.text \in Remote THEN [s1 EXCEPT !.asked = Append(@, a)]
          ELSE [s1 EXCEPT !.list = c, !.asked = Field!Overtaken(@), !.late = FALSE]
  BY DEF Field!UpdateSuggestions
<1> HIDE DEF s1
<1>3. s.asked \in Seq(Field!Answers) /\ {s.deleting, s.removed} \subseteq SUBSET Deletable
  BY DEF Field!Typed
<1>4. CASE s.text \in Remote
  <2>1. /\ DOMAIN r = Field!Fields /\ r.asked = Append(s.asked, a) /\ r.removed = s.removed
        /\ r.deleting = s.deleting /\ r.text = s.text
    BY <1>1, <1>2, <1>4 DEF Field!Fields
  <2>2. a \in Field!Answers
    BY <1>3, <1>4, CompletionIsAnswer, PageAssumption
  <2>3. a.list = c
    OBVIOUS
  <2> HIDE DEF r, a
  <2>4. r.asked \in Seq(Field!Answers) /\ r.asked # <<>> /\ r.asked[Len(r.asked)] = a
    BY <1>3, <2>1, <2>2, LastAppended
  <2>5. Field!Typed(r)
    BY <1>3, <2>1, <2>4 DEF Field!Typed
  <2>6. Field!Inv(r)
    BY <2>1, <2>3, <2>4, <2>5 DEF Field!Inv, Field!Fits
  <2> QED BY <2>6 DEF r
<1>5. CASE s.text \notin Remote
  <2>1. /\ DOMAIN r = Field!Fields /\ r.asked = Field!Overtaken(s.asked)
        /\ r.removed = s.removed /\ r.deleting = s.deleting /\ r.text = s.text /\ r.list = c
    BY <1>1, <1>2, <1>5 DEF Field!Fields
  <2> HIDE DEF r
  <2>2. /\ r.asked \in Seq(Field!Answers)
        /\ \A i \in 1..Len(r.asked) : r.asked[i].old = TRUE
    BY <1>3, <2>1, OvertakenAreOld
  <2>3. r.asked # <<>> => r.asked[Len(r.asked)].old = TRUE
    <3>1. r.asked # <<>> => Len(r.asked) \in Nat \ {0}
      BY <2>2, EmptySeq
    <3> QED BY <2>2, <3>1
  <2>4. Field!Typed(r)
    BY <1>3, <2>1, <2>2 DEF Field!Typed
  <2>5. Field!Inv(r)
    BY <2>1, <2>3, <2>4 DEF Field!Inv, Field!Fits
  <2> QED BY <2>5 DEF r
<1> QED BY <1>4, <1>5

\* An answer that comes makes those before it old, and leaves those after it.
LEMMA AnswerTaken ==
    ASSUME NEW q \in Seq(Field!Answers), NEW i \in 1..Len(q)
    PROVE  LET r == Field!Overtaken(SubSeq(q, 1, i - 1)) \o SubSeq(q, i + 1, Len(q))
           IN  /\ r \in Seq(Field!Answers)
               /\ r = <<>> => i = Len(q)
               /\ r # <<>> /\ i # Len(q) => r[Len(r)] = q[Len(q)]
               /\ r # <<>> /\ i = Len(q) => r[Len(r)].old = TRUE
<1> DEFINE b == SubSeq(q, 1, i - 1)
           o == Field!Overtaken(b)
           a == SubSeq(q, i + 1, Len(q))
           r == o \o a
<1>1. Len(q) \in Nat /\ i \in Nat /\ 1 <= i /\ i <= Len(q)
  BY LenProperties
<1>2. b \in Seq(Field!Answers) /\ Len(b) = i - 1
  BY <1>1, SubSeqProperties, ElementOfSeq
<1>3. /\ a \in Seq(Field!Answers) /\ Len(a) = Len(q) - i
      /\ \A k \in 1..Len(a) : a[k] = q[k + i]
  BY <1>1, SubSeqProperties, ElementOfSeq
<1>4. /\ o \in Seq(Field!Answers) /\ Len(o) = i - 1
      /\ \A k \in 1..Len(o) : o[k].old = TRUE
  BY <1>2, OvertakenAreOld
<1> HIDE DEF b, o, a
<1>5. /\ r \in Seq(Field!Answers) /\ Len(r) = Len(o) + Len(a)
      /\ \A k \in 1..Len(r) : r[k] = IF k <= Len(o) THEN o[k] ELSE a[k - Len(o)]
  <2>1. o \o a \in Seq(Field!Answers) /\ Len(o \o a) = Len(o) + Len(a)
    BY <1>3, <1>4, ConcatProperties
  <2>2. \A k \in 1..Len(o) + Len(a) :
            (o \o a)[k] = IF k <= Len(o) THEN o[k] ELSE a[k - Len(o)]
    BY <1>3, <1>4, ConcatProperties
  <2> QED BY <2>1, <2>2
<1> HIDE DEF r
<1>6. Len(r) = Len(q) - 1
  BY <1>1, <1>3, <1>4, <1>5
<1>7. r = <<>> => i = Len(q)
  <2> DEFINE n == Len(q)
             m == Len(r)
  <2>1. r = <<>> => m = 0
    OBVIOUS
  <2>2. n \in Nat /\ i \in Nat /\ 1 <= i /\ i <= n /\ m = n - 1
    BY <1>1, <1>6
  <2> HIDE DEF n, m
  <2>3. r = <<>> => i = n
    BY <2>1, <2>2
  <2> QED BY <2>3 DEF n
<1>8. ASSUME r # <<>>
      PROVE  Len(r) \in 1..Len(r)
  BY <1>5, <1>8, EmptySeq
<1>9. ASSUME r # <<>>, i # Len(q)
      PROVE  r[Len(r)] = q[Len(q)]
  <2>1. r[Len(r)] = a[Len(r) - Len(o)] /\ Len(r) - Len(o) = Len(a) /\ Len(a) \in 1..Len(a)
    BY <1>1, <1>3, <1>4, <1>5, <1>6, <1>8, <1>9, SMTT(30)
  <2>2. a[Len(a)] = q[Len(a) + i]
    BY <1>3, <2>1
  <2>3. Len(a) + i = Len(q)
    BY <1>1, <1>3
  <2> QED BY <2>1, <2>2, <2>3
<1>10. ASSUME r # <<>>, i = Len(q)
       PROVE  r[Len(r)].old = TRUE
  <2>1. Len(r) = Len(o)
    BY <1>1, <1>4, <1>6, <1>10
  <2>2. r[Len(r)] = o[Len(o)] /\ Len(o) \in 1..Len(o)
    BY <1>4, <1>5, <1>8, <1>10, <2>1
  <2> QED BY <1>4, <2>2
<1> QED BY <1>5, <1>7, <1>9, <1>10 DEF r, o, a, b

\* The dialog opens with the suggestions of the empty field.
LEMMA PromptInit == Field!Init => Field!Inv(x)
<1> SUFFICES ASSUME Field!Init PROVE Field!Inv(x)
  OBVIOUS
<1>1. /\ DOMAIN x = Field!Fields /\ x.asked = <<>> /\ x.deleting = {} /\ x.removed = {}
      /\ x.text = "" /\ x.list = Field!Complete("", {})
  BY DEF Field!Init, Field!Fields
<1>2. Field!Typed(x)
  BY <1>1, EmptySeq DEF Field!Typed
<1> QED BY <1>1, <1>2 DEF Field!Inv, Field!Fits

\* Every key, answer and deletion keeps the invariant.
LEMMA PromptStep == Field!Inv(x) /\ [Field!Next]_x => Field!Inv(x)'
<1> SUFFICES ASSUME Field!Inv(x), [Field!Next]_x PROVE Field!Inv(x')
  OBVIOUS
<1>t. Field!Typed(x) /\ DOMAIN x = Field!Fields /\ x.asked \in Seq(Field!Answers)
      /\ x.deleting \in SUBSET Deletable /\ x.removed \in SUBSET Deletable
  BY DEF Field!Inv, Field!Typed
\* A user who acts is counted.
<1>k. ASSUME NEW s, Field!Inv(s), Field!Key(s)
      PROVE  Field!Inv(x')
  <2>1. x' = [s EXCEPT !.keys = s.keys + 1] /\ DOMAIN s = Field!Fields
        /\ s.deleting \in SUBSET Deletable
    BY <1>k DEF Field!Key, Field!Inv, Field!Typed
  <2>2. /\ DOMAIN x' = Field!Fields /\ x'.asked = s.asked /\ x'.removed = s.removed
        /\ x'.deleting = s.deleting /\ x'.text = s.text /\ x'.list = s.list
        /\ x'.late = s.late /\ x'.open = s.open /\ x'.timer = s.timer
        /\ x'.dismissed = s.dismissed
    BY <2>1 DEF Field!Fields
  <2> QED BY <1>k, <2>1, <2>2, PromptStays DEF Field!Settled
\* A dialog that is closed, dismissed or waiting shows nothing that must fit.
<1>u. ASSUME NEW s, DOMAIN s = Field!Fields, s.asked = x.asked, s.removed = x.removed,
             s.deleting \in SUBSET Deletable, ~Field!Settled(s)
      PROVE  Field!Inv(s)
  BY <1>u, PromptStays
<1>1. ASSUME NEW t \in Texts, Field!Type(t)
      PROVE  Field!Inv(x')
  <2> DEFINE s == [x EXCEPT !.text = t, !.at = 0, !.timer = TRUE]
  <2>1. Field!Key(s)
    BY <1>1 DEF Field!Type
  <2>2. /\ DOMAIN s = Field!Fields /\ s.asked = x.asked /\ s.removed = x.removed
        /\ s.deleting = x.deleting /\ s.timer = TRUE
    BY <1>t DEF Field!Fields
  <2> HIDE DEF s
  <2> QED BY <1>t, <1>k, <1>u, <2>1, <2>2 DEF Field!Settled
<1>2. CASE Field!Focus
  BY <1>t, <1>2, <1>k, SuggestionsFollow DEF Field!Focus
<1>3. CASE Field!Debounced
  <2> DEFINE s == [x EXCEPT !.timer = FALSE]
  <2>1. x' = Field!UpdateSuggestions(s)
    BY <1>3 DEF Field!Debounced
  <2>2. Field!Typed(s)
    BY <1>t DEF Field!Typed, Field!Fields
  <2> QED BY <2>1, <2>2, SuggestionsFollow
<1>4. ASSUME NEW i \in DOMAIN x.asked, Field!Answered(i)
      PROVE  Field!Inv(x')
  <2> DEFINE q == x.asked
             r == Field!Overtaken(SubSeq(q, 1, i - 1)) \o SubSeq(q, i + 1, Len(q))
  <2>1. x' = [x EXCEPT !.list = q[i].list, !.at = 0, !.late = q[i].old, !.asked = r]
    BY <1>4 DEF Field!Answered
  <2>2. /\ DOMAIN x' = Field!Fields /\ x'.asked = r /\ x'.removed = x.removed
        /\ x'.deleting = x.deleting /\ x'.text = x.text /\ x'.list = q[i].list
        /\ x'.late = q[i].old /\ x'.open = x.open /\ x'.timer = x.timer
        /\ x'.dismissed = x.dismissed
    BY <1>t, <2>1 DEF Field!Fields
  <2>3. q \in Seq(Field!Answers) /\ i \in 1..Len(q)
    BY <1>t, LenProperties
  <2>4. /\ r \in Seq(Field!Answers)
        /\ r = <<>> => i = Len(q)
        /\ r # <<>> /\ i # Len(q) => r[Len(r)] = q[Len(q)]
        /\ r # <<>> /\ i = Len(q) => r[Len(r)].old = TRUE
    BY <2>3, AnswerTaken
  <2>5. q # <<>>
    BY <2>3, EmptySeq
  <2> HIDE DEF r, q
  <2>6. Field!Typed(x')
    BY <1>t, <2>2, <2>4 DEF Field!Typed
  <2>7. Field!Settled(x') => Field!Settled(x)
    BY <2>2 DEF Field!Settled
  <2>8. Field!Settled(x) /\ ~q[Len(q)].old => q[Len(q)].list = Field!Complete(x.text, x.removed)
    BY <2>5 DEF Field!Inv, Field!Fits, q
  <2>9. Field!Fits(x')
    BY <2>2, <2>4, <2>7, <2>8 DEF Field!Fits
  <2> QED BY <2>6, <2>9 DEF Field!Inv
\* What confirms or cancels closes the dialog.
<1>c. ASSUME NEW t, NEW a, Field!Key([Field!Confirm(x, t) EXCEPT !.answer = a])
      PROVE  Field!Inv(x')
  <2> DEFINE s == [Field!Confirm(x, t) EXCEPT !.answer = a]
  <2>1. /\ DOMAIN s = Field!Fields /\ s.asked = x.asked /\ s.removed = x.removed
        /\ s.deleting = x.deleting /\ s.open = FALSE
    BY <1>t DEF Field!Fields, Field!Confirm
  <2>2. Field!Key(s)
    BY <1>c
  <2> HIDE DEF s
  <2> QED BY <1>t, <1>k, <1>u, <2>1, <2>2 DEF Field!Settled
<1>d. ASSUME NEW t, Field!Key(Field!Confirm(x, t))
      PROVE  Field!Inv(x')
  <2>1. Field!Confirm(x, t) = [Field!Confirm(x, t) EXCEPT !.answer = t]
    BY <1>t DEF Field!Confirm, Field!Fields
  <2> QED BY <1>c, <1>d, <2>1
<1>5. CASE Field!Enter
  BY <1>5, <1>d DEF Field!Enter
<1>6. ASSUME NEW i \in DOMAIN x.list, Field!Click(i)
      PROVE  Field!Inv(x')
  BY <1>6, <1>d DEF Field!Click
<1>7. CASE Field!Cancel
  BY <1>7, <1>c DEF Field!Cancel
<1>8. CASE Field!Down \/ Field!Up
  <2>1. PICK n : Field!Key([x EXCEPT !.at = n])
    BY <1>8 DEF Field!Down, Field!Up
  <2> DEFINE s == [x EXCEPT !.at = n]
  <2>2. /\ DOMAIN s = Field!Fields /\ s.asked = x.asked /\ s.removed = x.removed
        /\ s.deleting = x.deleting /\ s.text = x.text /\ s.list = x.list
        /\ s.late = x.late /\ s.open = x.open /\ s.timer = x.timer
        /\ s.dismissed = x.dismissed
    BY <1>t DEF Field!Fields
  <2>3. Field!Key(s)
    BY <2>1
  <2> HIDE DEF s
  <2>4. Field!Inv(s)
    BY <1>t, <2>2, PromptStays DEF Field!Settled
  <2> QED BY <1>k, <2>3, <2>4
<1>9. CASE Field!Tab
  <2>1. CASE Field!Pick \in Folders
    <3> DEFINE s == [x EXCEPT !.text = Field!Pick]
    <3>1. Field!Typed(s)
      BY <1>t DEF Field!Typed, Field!Fields
    <3>2. Field!Key(Field!UpdateSuggestions(s))
      BY <1>9, <2>1 DEF Field!Tab
    <3> HIDE DEF s
    <3> QED BY <1>k, <3>1, <3>2, SuggestionsFollow
  <2>2. CASE Field!Pick \notin Folders
    <3> DEFINE s == [x EXCEPT !.text = Field!Pick, !.list = <<>>, !.at = 0, !.dismissed = TRUE]
    <3>1. Field!Key(s)
      BY <1>9, <2>2 DEF Field!Tab
    <3>2. /\ DOMAIN s = Field!Fields /\ s.asked = x.asked /\ s.removed = x.removed
          /\ s.deleting = x.deleting /\ s.dismissed = TRUE
      BY <1>t DEF Field!Fields
    <3> HIDE DEF s
    <3> QED BY <1>t, <1>k, <1>u, <3>1, <3>2 DEF Field!Settled
  <2> QED BY <2>1, <2>2
<1>10. ASSUME NEW t \in Texts, Field!Delete(t)
       PROVE  Field!Inv(x')
  <2> DEFINE s == [x EXCEPT !.deleting = @ \cup {t}]
  <2>1. Field!Key(s) /\ t \in Deletable
    BY <1>10 DEF Field!Delete
  <2>2. /\ DOMAIN s = Field!Fields /\ s.asked = x.asked /\ s.removed = x.removed
        /\ s.deleting = x.deleting \cup {t}
    BY <1>t DEF Field!Fields
  <2> HIDE DEF s
  <2> QED BY <1>t, <1>k, <1>u, <2>1, <2>2 DEF Field!Settled
<1>11. ASSUME NEW t \in Texts, Field!Deleted(t)
       PROVE  Field!Inv(x')
  <2> DEFINE s == [x EXCEPT !.deleting = @ \ {t}, !.removed = @ \cup {t}]
  <2>1. x' = Field!UpdateSuggestions(s) /\ t \in x.deleting
    BY <1>11 DEF Field!Deleted
  <2>2. /\ DOMAIN s = Field!Fields /\ s.asked = x.asked
        /\ s.removed = x.removed \cup {t} /\ s.deleting = x.deleting \ {t}
    BY <1>t DEF Field!Fields
  <2> HIDE DEF s
  <2>3. Field!Typed(s)
    BY <1>t, <2>1, <2>2 DEF Field!Typed
  <2> QED BY <2>1, <2>3, SuggestionsFollow
<1>12. CASE x' = x
  BY <1>12
<1> QED BY <1>1, <1>2, <1>3, <1>4, <1>5, <1>6, <1>7, <1>8, <1>9, <1>10, <1>11, <1>12
    DEF Field!Next

\* The invariant holds what is claimed of the suggestions.
LEMMA PromptFits == Field!Inv(x) => Field!SuggestionsFit
  BY DEF Field!Inv, Field!Fits, Field!Settled, Field!SuggestionsFit

\* Prompt!SuggestionsFit: what is shown is what the text suggests, for every way
\* to complete and whatever order the answers come in (updateSuggestions).
THEOREM ShownSuggestionsFit == Spec => []SuggestionsFit
<1> DEFINE I == part = "prompt" => Field!Inv(x)
<1>1. Init => I
  BY PromptInit DEF Init
<1>2. I /\ [Next]_vars => I'
  BY PartAlone, PromptStep
<1>3. I => SuggestionsFit
  BY PromptFits DEF SuggestionsFit
<1> HIDE DEF I
<1> QED BY <1>1, <1>2, <1>3, PTL DEF Spec

-----------------------------------------------------------------------------
\* Dialogs: the stack of dialogs.

\* Dialogs that go are answered, all at once or one at a time (_cleanup).
LEMMA DialogsGo ==
    ASSUME NEW s, Stack!Inv(s), NEW D \in SUBSET s.open
    PROVE  Stack!Inv(Stack!CloseAll(s, D))
<1> DEFINE r == Stack!CloseAll(s, D)
<1>1. /\ DOMAIN r = Stack!Fields /\ r.kind = s.kind /\ r.open = s.open \ D
      /\ r.escapes = s.escapes \ D /\ r.listens = s.listens \ D
      /\ r.answers = [i \in Stack!Ids |-> IF i \in D THEN s.answers[i] + 1 ELSE s.answers[i]]
  BY DEF Stack!Inv, Stack!Fields, Stack!CloseAll
<1> HIDE DEF r
<1>2. r.answers = [i \in Stack!Ids |-> IF i \in DOMAIN r.kind \ r.open THEN 1 ELSE 0]
  <2>1. \A i \in Stack!Ids : s.answers[i] = IF i \in DOMAIN s.kind \ s.open THEN 1 ELSE 0
    BY DEF Stack!Inv
  <2>2. D \subseteq DOMAIN s.kind
    BY DEF Stack!Inv
  <2> QED BY <1>1, <2>1, <2>2
<1>3. Stack!Inv(r)
  BY <1>1, <1>2 DEF Stack!Inv
<1> QED BY <1>3 DEF r

\* A dialog that opens has not been answered.
LEMMA DialogOpens ==
    ASSUME NEW s, Stack!Inv(s), Len(s.kind) < MaxDialogs, NEW k \in Stack!Kinds
    PROVE  Stack!Inv(Stack!Overlay(s, k))
<1> DEFINE r == Stack!Overlay(s, k)
           i == Len(s.kind) + 1
<1>1. s.kind \in Seq(Stack!Kinds) /\ Len(s.kind) \in Nat
  BY DEF Stack!Inv
<1>2. /\ DOMAIN r = Stack!Fields /\ r.kind = Append(s.kind, k) /\ r.open = s.open \cup {i}
      /\ r.escapes = s.escapes \cup {i} /\ r.listens \subseteq s.listens \cup {i}
      /\ r.answers = s.answers
  BY DEF Stack!Inv, Stack!Fields, Stack!Overlay
<1> HIDE DEF r
<1>3. /\ r.kind \in Seq(Stack!Kinds) /\ Len(r.kind) = i /\ DOMAIN r.kind = 1..i
      /\ DOMAIN s.kind = 1..Len(s.kind) /\ i <= MaxDialogs
  BY <1>1, <1>2, PageAssumption
<1>4. \A j \in Stack!Ids : j \in DOMAIN r.kind \ r.open <=> j \in DOMAIN s.kind \ s.open
  BY <1>1, <1>2, <1>3
<1>5. Stack!Inv(r)
  BY <1>1, <1>2, <1>3, <1>4, PageAssumption DEF Stack!Inv
<1> QED BY <1>5 DEF r

\* A key is counted, a choice moves, a frame comes.
LEMMA DialogsStay ==
    ASSUME NEW s, Stack!Inv(s), NEW r, DOMAIN r = Stack!Fields,
           r.kind = s.kind, r.open = s.open, r.escapes = s.escapes, r.listens = s.listens,
           r.answers = s.answers
    PROVE  Stack!Inv(r)
  BY DEF Stack!Inv

\* No dialog is open at first.
LEMMA DialogsInit == Stack!Init => Stack!Inv(x)
  BY PageAssumption DEF Stack!Init, Stack!Inv, Stack!Fields, Stack!Ids

\* Every key and frame keeps the invariant.
LEMMA DialogsStep == Stack!Inv(x) /\ [Stack!Next]_x => Stack!Inv(x)'
<1> SUFFICES ASSUME Stack!Inv(x), [Stack!Next]_x PROVE Stack!Inv(x')
  OBVIOUS
<1>1. ASSUME NEW s, Stack!Inv(s), Stack!Pressed(s)
      PROVE  Stack!Inv(x')
  <2>1. x' = [s EXCEPT !.keys = s.keys + 1] /\ DOMAIN s = Stack!Fields
    BY <1>1 DEF Stack!Pressed, Stack!Inv
  <2>2. /\ DOMAIN x' = Stack!Fields /\ x'.kind = s.kind /\ x'.open = s.open
        /\ x'.escapes = s.escapes /\ x'.listens = s.listens /\ x'.answers = s.answers
    BY <2>1 DEF Stack!Fields
  <2> QED BY <1>1, <2>2, DialogsStay
<1>2. ASSUME NEW i PROVE Stack!Inv(Stack!CloseStatus(x, i))
  BY DialogsGo DEF Stack!CloseStatus, Stack!Close
<1>3. CASE Stack!Open
  <2>1. CASE x' \in {Stack!Alert, Stack!Confirm, Stack!Prompt, Stack!Select}
    BY <1>3, <2>1, DialogOpens
       DEF Stack!Open, Stack!Alert, Stack!Confirm, Stack!Prompt, Stack!Select, Stack!Kinds
  <2>2. CASE x' = Stack!Status
    <3> DEFINE s == IF x.activeStatus = None THEN x ELSE Stack!CloseStatus(x, x.activeStatus)
    <3>1. Stack!Inv(s)
      BY <1>2
    <3>2. Len(s.kind) < MaxDialogs
      <4>1. s.kind = x.kind
        BY DEF Stack!CloseStatus, Stack!Close, Stack!CloseAll, Stack!Inv, Stack!Fields
      <4> QED BY <1>3, <4>1 DEF Stack!Open
    <3> DEFINE r == Stack!Overlay(s, "status")
    <3>3. x' = [r EXCEPT !.activeStatus = Len(s.kind) + 1]
      BY <2>2 DEF Stack!Status
    <3> HIDE DEF s
    <3>4. Stack!Inv(r)
      BY <3>1, <3>2, DialogOpens DEF Stack!Kinds
    <3> HIDE DEF r
    <3>5. /\ DOMAIN x' = Stack!Fields /\ x'.kind = r.kind /\ x'.open = r.open
          /\ x'.escapes = r.escapes /\ x'.listens = r.listens /\ x'.answers = r.answers
      BY <3>3, <3>4 DEF Stack!Inv, Stack!Fields
    <3> QED BY <3>4, <3>5, DialogsStay
  <2> QED BY <1>3, <2>1, <2>2 DEF Stack!Open
<1>4. CASE Stack!Escape
  BY <1>1, <1>4, DialogsGo DEF Stack!Escape, Stack!Inv
<1>5. CASE Stack!EnterField
  BY <1>1, <1>5, DialogsGo DEF Stack!EnterField, Stack!Close
<1>6. CASE Stack!Enter
  BY <1>1, <1>6, DialogsGo DEF Stack!Enter, Stack!Inv
<1>7. CASE Stack!Arrow
  <2>1. PICK c : Stack!Pressed([x EXCEPT !.choice = c])
    BY <1>7 DEF Stack!Arrow
  <2> DEFINE s == [x EXCEPT !.choice = c]
  <2>2. /\ DOMAIN s = Stack!Fields /\ s.kind = x.kind /\ s.open = x.open
        /\ s.escapes = x.escapes /\ s.listens = x.listens /\ s.answers = x.answers
    BY DEF Stack!Inv, Stack!Fields
  <2> QED BY <1>1, <2>1, <2>2, DialogsStay
<1>8. ASSUME NEW i, Stack!Frame(i)
      PROVE  Stack!Inv(x')
  <2>1. /\ DOMAIN x' = Stack!Fields /\ x'.kind = x.kind /\ x'.open = x.open
        /\ x'.escapes = x.escapes /\ x'.listens = x.listens /\ x'.answers = x.answers
    BY <1>8 DEF Stack!Frame, Stack!Inv, Stack!Fields
  <2> QED BY <2>1, DialogsStay
<1>9. ASSUME NEW i, Stack!Click(i) \/ Stack!Ended(i)
      PROVE  Stack!Inv(x')
  BY <1>1, <1>2, <1>9, DialogsGo DEF Stack!Click, Stack!Ended, Stack!Close
<1>10. CASE x' = x
  BY <1>10
<1> QED BY <1>3, <1>4, <1>5, <1>6, <1>7, <1>8, <1>9, <1>10 DEF Stack!Next

\* The invariant counts the answers.
LEMMA DialogsAnswered == Stack!Inv(x) => Stack!AnsweredOnce
<1> SUFFICES ASSUME Stack!Inv(x) PROVE Stack!AnsweredOnce
  OBVIOUS
<1>1. DOMAIN x.kind \subseteq Stack!Ids
  BY PageAssumption DEF Stack!Inv, Stack!Ids
<1> QED BY <1>1 DEF Stack!Inv, Stack!AnsweredOnce

\* Dialogs!AnsweredOnce: a dialog that went was answered once, one that is open
\* never, however many are stacked (_cleanup).
THEOREM AnsweredOnlyOnce == Spec => []AnsweredOnce
<1> DEFINE I == part = "dialogs" => Stack!Inv(x)
<1>1. Init => I
  BY DialogsInit DEF Init
<1>2. I /\ [Next]_vars => I'
  BY PartAlone, DialogsStep
<1>3. I => AnsweredOnce
  BY DialogsAnswered DEF AnsweredOnce
<1> HIDE DEF I
<1> QED BY <1>1, <1>2, <1>3, PTL DEF Spec

-----------------------------------------------------------------------------
\* Gestures: touches of a terminal.

\* The end of a touch, wherever it is, sends no second key (touchend).
LEMMA TouchEnds ==
    ASSUME NEW s, Touch!Lifting(s), NEW p, NEW t \in Touch!Ends(s, p)
    PROVE  Touch!Inv(t)
<1> USE DEF Touch!Inv, Touch!Lifting, Touch!Fields
<1>1. CASE p = "term"
  <2> DEFINE m == Touch!Missed(s)
  <2>1. Touch!Inv(m)
    BY DEF Touch!Missed
  <2> HIDE DEF m
  <2>2. \/ t = [m EXCEPT !.mode = "idle"]
        \/ t = [[m EXCEPT !.mode = "idle"] EXCEPT !.switched = @ + 1]
    BY <1>1 DEF Touch!Ends, Touch!LayerEnds, m
  <2> QED BY <2>1, <2>2
<1>2. CASE p # "term" /\ (p = "excluded" \/ s.mode = "select")
  <2>1. t = Touch!Missed(s)
    BY <1>2 DEF Touch!Ends
  <2> QED BY <2>1 DEF Touch!Missed
<1>3. CASE p # "term" /\ ~(p = "excluded" \/ s.mode = "select")
  <2> DEFINE r == [s EXCEPT !.tracking = "no"]
  <2>1. t \in Touch!PageEnds(r)
    BY <1>3 DEF Touch!Ends
  <2>2. Touch!Lifting(r)
    OBVIOUS
  <2> HIDE DEF r
  <2>3. CASE r.down # <<>>
    BY <2>1, <2>2, <2>3 DEF Touch!PageEnds
  <2>4. CASE r.down = <<>> /\ r.multiTouch
    <3>1. PICK q \in Touch!Swipe2(r) : t = Touch!Forget(q)
      BY <2>1, <2>4 DEF Touch!PageEnds
    <3>2. q = r \/ (~r.fired /\ q = [r EXCEPT !.sent = @ + 1])
      BY <3>1 DEF Touch!Swipe2
    <3>3. r.fingers = 2 \/ r.missed
      BY <2>2, <2>4
    <3>4. /\ DOMAIN q = Touch!Fields /\ q.sent \in 0..1 /\ q.down = r.down
          /\ q.fingers = r.fingers /\ q.missed = r.missed
      BY <2>2, <2>4, <3>2
    <3>5. /\ DOMAIN t = Touch!Fields /\ t.sent = q.sent /\ t.down = r.down
          /\ t.fingers = r.fingers /\ t.missed = r.missed
          /\ t.multiTouch = FALSE /\ t.fired = FALSE
      BY <3>1, <3>4 DEF Touch!Forget
    <3> QED BY <2>2, <3>3, <3>4, <3>5
  <2>5. CASE r.down = <<>> /\ ~r.multiTouch
    <3>1. t = r \/ t = [r EXCEPT !.switched = @ + 1]
      BY <2>1, <2>5 DEF Touch!PageEnds
    <3> QED BY <2>2, <2>5, <3>1
  <2> QED BY <2>3, <2>4, <2>5
<1> QED BY <1>1, <1>2, <1>3

\* No finger touches at first.
LEMMA GesturesInit == Touch!Init => Touch!Inv(x)
  BY DEF Touch!Init, Touch!Inv, Touch!Lifting, Touch!Fields

\* Every touch, and the sidebar, keeps the invariant.
LEMMA GesturesStep == Touch!Inv(x) /\ [Touch!Next]_x => Touch!Inv(x)'
<1> SUFFICES ASSUME Touch!Inv(x), [Touch!Next]_x PROVE Touch!Inv(x')
  OBVIOUS
<1>1. ASSUME NEW p \in Touch!Places, Touch!Down(p)
      PROVE  Touch!Inv(x')
  <2> DEFINE s == [x EXCEPT !.down = Append(@, p), !.touches = @ + 1]
  <2>1. /\ s.down \in Seq(Touch!Places) /\ s.down # <<>>
        /\ DOMAIN s = Touch!Fields /\ s.multiTouch = x.multiTouch /\ s.fired = x.fired
        /\ s.missed = x.missed
    BY DEF Touch!Inv, Touch!Lifting, Touch!Fields
  <2> HIDE DEF s
  <2>2. CASE x.down = <<>>
    <3>1. PICK m : x' = [s EXCEPT !.fingers = 1, !.sent = 0, !.switched = 0, !.panels = 0,
                                  !.missed = @ /\ x.multiTouch, !.mode = m]
      BY <1>1, <2>2 DEF Touch!Down, s
    <3> QED BY <2>1, <2>2, <3>1 DEF Touch!Inv, Touch!Lifting, Touch!Fields
  <2>3. CASE x.down # <<>>
    <3>1. PICK m : x' = [s EXCEPT !.fingers = 2, !.multiTouch = TRUE, !.fired = FALSE,
                                  !.sent = 0, !.panels = 0, !.missed = FALSE,
                                  !.tracking = "yes", !.mode = m]
      BY <1>1, <2>3 DEF Touch!Down, s
    <3> QED BY <2>1, <3>1 DEF Touch!Inv, Touch!Lifting, Touch!Fields
  <2> QED BY <2>2, <2>3
<1>2. ASSUME NEW p, Touch!MoveTwo(p)
      PROVE  Touch!Inv(x')
  <2>1. /\ x' = [x EXCEPT !.fired = TRUE, !.sent = x.sent + 1] /\ x.down # <<>>
        /\ x.multiTouch /\ ~x.fired
    BY <1>2 DEF Touch!MoveTwo
  <2>2. x.sent = 0 /\ (x.fingers = 2 \/ x.missed)
    BY <2>1 DEF Touch!Inv, Touch!Lifting
  <2>3. /\ DOMAIN x' = Touch!Fields /\ x'.down = x.down /\ x'.fired = TRUE /\ x'.sent = 1
        /\ x'.multiTouch = x.multiTouch /\ x'.missed = x.missed /\ x'.fingers = x.fingers
    <3>1. DOMAIN x = Touch!Fields
      BY DEF Touch!Inv, Touch!Lifting
    <3>2. DOMAIN x' = Touch!Fields /\ x'.down = x.down
      BY <2>1, <3>1 DEF Touch!Fields
    <3>3. x'.fired = TRUE /\ x'.sent = 1
      BY <2>1, <2>2, <3>1 DEF Touch!Fields
    <3>4. x'.multiTouch = x.multiTouch /\ x'.missed = x.missed /\ x'.fingers = x.fingers
      BY <2>1, <3>1 DEF Touch!Fields
    <3> QED BY <3>2, <3>3, <3>4
  <2>4. /\ x.down \in Seq(Touch!Places) /\ x.multiTouch \in BOOLEAN /\ x.missed \in BOOLEAN
    BY DEF Touch!Inv, Touch!Lifting
  <2>5. x'.fingers = 2 \/ x'.missed
    BY <2>2, <2>3
  <2>6. {x'.multiTouch, x'.fired, x'.missed} \subseteq BOOLEAN
    BY <2>3, <2>4
  <2>7. x'.fired /\ x'.down # <<>>
    BY <2>1, <2>3
  <2>8. DOMAIN x' = Touch!Fields /\ x'.down \in Seq(Touch!Places) /\ x'.sent \in 0..1
    BY <2>3, <2>4
  <2> QED BY <2>5, <2>6, <2>7, <2>8 DEF Touch!Inv, Touch!Lifting
<1>3. CASE Touch!MoveUpOrDown
  BY <1>3 DEF Touch!MoveUpOrDown, Touch!Inv, Touch!Lifting, Touch!Fields
<1>4. ASSUME NEW m, Touch!MoveOne(m)
      PROVE  Touch!Inv(x')
  BY <1>4 DEF Touch!MoveOne, Touch!Inv, Touch!Lifting, Touch!Fields
<1>5. ASSUME NEW d \in Seq(Touch!Places)
      PROVE  Touch!Lifting([x EXCEPT !.down = d])
  BY DEF Touch!Inv, Touch!Lifting, Touch!Fields
<1>6. ASSUME NEW i, Touch!Up(i)
      PROVE  Touch!Inv(x')
  <2> DEFINE d == Touch!RemoveAt(x.down, i)
  <2>1. x' \in Touch!Ends([x EXCEPT !.down = d], x.down[i])
    BY <1>6 DEF Touch!Up
  <2>2. d \in Seq(Touch!Places)
    <3>1. x.down \in Seq(Touch!Places) /\ i \in 1..Len(x.down)
      BY <1>6 DEF Touch!Up, Touch!Inv, Touch!Lifting
    <3>2. /\ SubSeq(x.down, 1, i - 1) \in Seq(Touch!Places)
          /\ SubSeq(x.down, i + 1, Len(x.down)) \in Seq(Touch!Places)
      BY <3>1
    <3> QED BY <3>2, ConcatProperties DEF Touch!RemoveAt
  <2> HIDE DEF d
  <2> QED BY <1>5, <2>1, <2>2, TouchEnds
<1>7. CASE Touch!UpBoth
  <2> DEFINE s == [x EXCEPT !.down = <<>>]
  <2>1. Touch!Lifting(s)
    <3>1. <<>> \in Seq(Touch!Places)
      OBVIOUS
    <3> QED BY <1>5, <3>1
  <2> HIDE DEF s
  <2>2. CASE x' \in UNION {Touch!Ends(t, x.down[2]) : t \in Touch!Ends(s, x.down[1])}
    BY <2>1, <2>2, TouchEnds DEF Touch!Inv
  <2>3. CASE x' \in {Touch!Forget([t EXCEPT !.tracking = "no"]) :
                       t \in IF s.multiTouch THEN Touch!Swipe2(s) ELSE {s}}
    <3>1. PICK t \in IF s.multiTouch THEN Touch!Swipe2(s) ELSE {s} :
                  x' = Touch!Forget([t EXCEPT !.tracking = "no"])
      BY <2>3
    <3>2. t = s \/ (s.multiTouch /\ ~s.fired /\ t = [s EXCEPT !.sent = @ + 1])
      BY <3>1 DEF Touch!Swipe2
    <3> QED BY <2>1, <3>1, <3>2 DEF Touch!Forget, Touch!Inv, Touch!Lifting, Touch!Fields
  <2> QED BY <1>7, <2>2, <2>3 DEF Touch!UpBoth, s
<1>8. CASE Touch!Hold
  BY <1>8 DEF Touch!Hold, Touch!Inv, Touch!Lifting, Touch!Fields
<1>9. CASE Touch!Cancel
  <2>1. PICK m : x' = [Touch!Forget(x) EXCEPT !.down = <<>>, !.mode = m]
    BY <1>9 DEF Touch!Cancel
  <2>2. <<>> \in Seq(Touch!Places)
    OBVIOUS
  <2> QED BY <2>1, <2>2 DEF Touch!Forget, Touch!Inv, Touch!Lifting, Touch!Fields
<1>10. CASE x' = x
  BY <1>10
<1> QED BY <1>1, <1>2, <1>3, <1>4, <1>6, <1>7, <1>8, <1>9, <1>10 DEF Touch!Next

\* The invariant bounds the keys.
LEMMA GesturesSend == Touch!Inv(x) => Touch!OneKeyOfTwoFingers
  BY DEF Touch!Inv, Touch!Lifting, Touch!OneKeyOfTwoFingers

\* Gestures!OneKeyOfTwoFingers: a gesture of two fingers sends at most one key,
\* in whatever order the fingers move and leave (touchend).
THEOREM TwoFingersSendOneKey == Spec => []OneKeyOfTwoFingers
<1> DEFINE I == part = "gestures" => Touch!Inv(x)
<1>1. Init => I
  BY GesturesInit DEF Init
<1>2. I /\ [Next]_vars => I'
  BY PartAlone, GesturesStep
<1>3. I => OneKeyOfTwoFingers
  BY GesturesSend DEF OneKeyOfTwoFingers
<1> HIDE DEF I
<1> QED BY <1>1, <1>2, <1>3, PTL DEF Spec

-----------------------------------------------------------------------------
\* NewShell: the recent folders and commands.

\* The places of a chain whose folder has been entered.
Entries == {"saving", "listing", "command", "storing", "creating"}

\* A change of anything else, and the end of a request, keep the invariant.
LEMMA ChainStays ==
    ASSUME NEW s, Chain!Inv(s), NEW r, DOMAIN r = Chain!Fields, r.backend \in Chain!Backends,
           r.recent = s.recent, r.stored \in Chain!Recents, r.reqs \subseteq s.reqs,
           r.command \in Names \cup {None}, r.at \in Entries => r.path \in Names,
           r.culprit = s.culprit, r.revived = s.revived
    PROVE  Chain!Inv(r)
<1>1. Chain!Typed(s) /\ Chain!Pruned(s)
  BY DEF Chain!Inv
<1>2. Chain!Typed(r)
  BY <1>1 DEF Chain!Typed, Entries
<1>3. Chain!Pruned(r)
  BY <1>1 DEF Chain!Pruned
<1> QED BY <1>2, <1>3 DEF Chain!Inv

\* A step that counts keeps it.
LEMMA MoveCounted ==
    ASSUME NEW S, \A s \in S : Chain!Inv(s), Chain!Moves(S)
    PROVE  Chain!Inv(x')
<1>1. PICK s \in S : x' = [s EXCEPT !.moves = @ + 1]
  BY DEF Chain!Moves
<1>2. Chain!Inv(s) /\ Chain!Typed(s)
  BY <1>1 DEF Chain!Inv
<1>3. DOMAIN s = Chain!Fields
  BY <1>2 DEF Chain!Typed
<1>4. /\ DOMAIN x' = Chain!Fields /\ x'.backend = s.backend /\ x'.recent = s.recent
      /\ x'.stored = s.stored /\ x'.reqs = s.reqs /\ x'.command = s.command /\ x'.at = s.at
      /\ x'.path = s.path /\ x'.culprit = s.culprit /\ x'.revived = s.revived
  BY <1>1, <1>3 DEF Chain!Fields
<1> QED BY <1>2, <1>4, ChainStays DEF Chain!Typed, Entries

\* A chain that goes to another place, once a folder has been entered if it is past
\* that.
LEMMA PlaceTaken ==
    ASSUME NEW s, Chain!Inv(s), NEW p, p \in Entries => s.path \in Names
    PROVE  Chain!Inv(Chain!To(s, p))
<1> DEFINE q == Chain!To(s, p)
<1>1. Chain!Typed(s) /\ DOMAIN s = Chain!Fields
  BY DEF Chain!Inv, Chain!Typed
<1>2. /\ DOMAIN q = Chain!Fields /\ q.backend = s.backend /\ q.recent = s.recent
      /\ q.stored = s.stored /\ q.reqs = s.reqs /\ q.command = s.command /\ q.at = p
      /\ q.path = s.path /\ q.culprit = s.culprit /\ q.revived = s.revived
  BY <1>1 DEF Chain!To, Chain!Fields
<1> HIDE DEF q
<1>3. Chain!Inv(q)
  BY <1>1, <1>2, ChainStays DEF Chain!Typed
<1> QED BY <1>3 DEF q

\* What names the list l of the backend b may hold: not the culprit.
Allows(s, l, b, N) ==
    /\ N \subseteq Names
    /\ s.culprit # None /\ ~s.revived => \A n \in N : s.culprit # <<l, b, n>>

\* The page's own list is one.
LEMMA OwnAllowed ==
    ASSUME NEW s, Chain!Inv(s), NEW l \in Chain!Lists, NEW b \in Chain!Backends,
           NEW N, N \subseteq s.recent[l][b]
    PROVE  Allows(s, l, b, N)
<1>1. Chain!Typed(s) /\ Chain!Pruned(s)
  BY DEF Chain!Inv
<1>2. N \subseteq Names
  BY <1>1 DEF Chain!Typed, Chain!Recents
<1>3. ASSUME s.culprit # None, ~s.revived, NEW n \in N, s.culprit = <<l, b, n>>
      PROVE  FALSE
  <2>1. s.culprit[1] = l /\ s.culprit[2] = b /\ s.culprit[3] = n
    BY <1>3
  <2> QED BY <1>1, <1>3, <2>1 DEF Chain!Pruned
<1> QED BY <1>2, <1>3 DEF Allows

\* A request that is sent, and stores no list that names the culprit.
LEMMA RequestSent ==
    ASSUME NEW s, Chain!Inv(s), NEW by \in {"chain", "delete", "prune"},
           NEW kind \in {"save", "fetch"}, NEW l \in Chain!Lists, NEW N, N \subseteq Names,
           kind = "save" => Allows(s, l, "local", N)
    PROVE  Chain!Inv(Chain!Send(s, by, kind, l, N))
<1> DEFINE q == [by |-> by, kind |-> kind, list |-> l, names |-> N, before |-> FALSE]
           r == Chain!Send(s, by, kind, l, N)
<1>1. Chain!Typed(s) /\ Chain!Pruned(s) /\ DOMAIN s = Chain!Fields
  BY DEF Chain!Inv, Chain!Typed
<1>2. q \in Chain!Sent /\ q.kind = kind /\ q.list = l /\ q.names = N
  BY DEF Chain!Sent
<1>3. r = [s EXCEPT !.reqs = s.reqs \cup {q}]
  BY <1>1 DEF Chain!Send, Chain!Fields
<1> HIDE DEF q
<1>4. /\ DOMAIN r = Chain!Fields /\ r.backend = s.backend /\ r.recent = s.recent
      /\ r.stored = s.stored /\ r.reqs = s.reqs \cup {q} /\ r.command = s.command
      /\ r.at = s.at /\ r.path = s.path /\ r.culprit = s.culprit /\ r.revived = s.revived
  BY <1>1, <1>3 DEF Chain!Fields
<1> HIDE DEF r
<1>5. Chain!Typed(r)
  BY <1>1, <1>2, <1>4 DEF Chain!Typed
<1>6. Chain!Pruned(r)
  <2> SUFFICES ASSUME s.culprit # None, ~s.revived, s.culprit[2] = "local",
                      kind = "save", s.culprit[1] = l
               PROVE  s.culprit[3] \notin N
    BY <1>1, <1>2, <1>4 DEF Chain!Pruned
  <2>1. s.culprit = <<l, "local", s.culprit[3]>>
    BY <1>1 DEF Chain!Typed
  <2> QED BY <2>1 DEF Allows
<1>7. Chain!Inv(r)
  BY <1>5, <1>6 DEF Chain!Inv
<1> QED BY <1>7 DEF r

\* The page's list becomes another, which does not name the culprit either.
LEMMA ListBecomes ==
    ASSUME NEW s, Chain!Inv(s), NEW l \in Chain!Lists, NEW b \in Chain!Backends, NEW N,
           Allows(s, l, b, N), NEW r, DOMAIN r = Chain!Fields,
           r.recent = [s.recent EXCEPT ![l][b] = N], r.stored \in Chain!Recents,
           r.backend = s.backend, r.reqs = s.reqs, r.command = s.command, r.at = s.at,
           r.path = s.path, r.culprit = s.culprit, r.revived = s.revived
    PROVE  Chain!Inv(r)
<1>1. Chain!Typed(s) /\ Chain!Pruned(s)
  BY DEF Chain!Inv
<1>2. /\ r.recent \in Chain!Recents /\ r.recent[l][b] = N
      /\ \A k \in Chain!Lists, c \in Chain!Backends :
           <<k, c>> # <<l, b>> => r.recent[k][c] = s.recent[k][c]
  <2>1. s.recent \in [Chain!Lists -> [Chain!Backends -> SUBSET Names]] /\ N \in SUBSET Names
    BY <1>1 DEF Chain!Typed, Chain!Recents, Allows
  <2>2. [s.recent[l] EXCEPT ![b] = N] \in [Chain!Backends -> SUBSET Names]
    BY <2>1
  <2>3. r.recent = [s.recent EXCEPT ![l] = [s.recent[l] EXCEPT ![b] = N]]
    OBVIOUS
  <2> QED BY <2>1, <2>2, <2>3 DEF Chain!Recents
<1>3. Chain!Typed(r)
  BY <1>1, <1>2 DEF Chain!Typed
<1>4. Chain!Pruned(r)
  <2> SUFFICES ASSUME s.culprit # None, ~s.revived
               PROVE  s.culprit[3] \notin r.recent[s.culprit[1]][s.culprit[2]]
    BY <1>1 DEF Chain!Pruned
  <2>1. /\ s.culprit[1] \in Chain!Lists /\ s.culprit[2] \in Chain!Backends
        /\ s.culprit = <<s.culprit[1], s.culprit[2], s.culprit[3]>>
    BY <1>1 DEF Chain!Typed
  <2>2. s.culprit[3] \notin s.recent[s.culprit[1]][s.culprit[2]]
    BY <1>1 DEF Chain!Pruned
  <2>3. CASE s.culprit[1] = l /\ s.culprit[2] = b
    BY <1>2, <2>1, <2>3 DEF Allows
  <2>4. CASE ~(s.culprit[1] = l /\ s.culprit[2] = b)
    BY <1>2, <2>1, <2>2, <2>4
  <2> QED BY <2>3, <2>4
<1> QED BY <1>3, <1>4 DEF Chain!Inv

\* A list is stored (Stores).
LEMMA ListStored ==
    ASSUME NEW s, Chain!Inv(s), NEW by \in {"chain", "delete", "prune"}, NEW l \in Chain!Lists,
           NEW N, Allows(s, l, s.backend, N)
    PROVE  LET r == Chain!Stores(s, by, l, N)
           IN Chain!Inv(r) /\ r.backend = s.backend /\ r.path = s.path /\ r.command = s.command
<1> DEFINE b == s.backend
           p == [s EXCEPT !.recent[l][b] = N]
           e == [s EXCEPT !.recent[l][b] = N, !.stored[l][b] = N]
<1>1. Chain!Typed(s) /\ DOMAIN s = Chain!Fields /\ N \subseteq Names /\ b \in Chain!Backends
  BY DEF Chain!Inv, Chain!Typed, Allows
<1>2. CASE b = "local"
  <2>1. /\ DOMAIN p = Chain!Fields /\ p.recent = [s.recent EXCEPT ![l][b] = N]
        /\ p.stored = s.stored /\ p.backend = s.backend /\ p.reqs = s.reqs
        /\ p.command = s.command /\ p.at = s.at /\ p.path = s.path
        /\ p.culprit = s.culprit /\ p.revived = s.revived
    BY <1>1 DEF Chain!Fields
  <2>2. Chain!Stores(s, by, l, N) = Chain!Send(p, by, "save", l, N)
    BY <1>2 DEF Chain!Stores
  <2> HIDE DEF p
  <2>3. Chain!Inv(p)
    <3>1. p.stored \in Chain!Recents
      BY <1>1, <2>1 DEF Chain!Typed
    <3> HIDE DEF b
    <3>2. Allows(s, l, b, N)
      BY DEF b
    <3> QED BY <1>1, <2>1, <3>1, <3>2, ListBecomes DEF b
  <2>4. Allows(p, l, "local", N)
    BY <1>2, <2>1 DEF Allows
  <2>5. Chain!Inv(Chain!Send(p, by, "save", l, N))
    BY <1>1, <2>3, <2>4, RequestSent
  <2>6. LET r == Chain!Send(p, by, "save", l, N)
        IN r.backend = p.backend /\ r.path = p.path /\ r.command = p.command
    BY <2>1 DEF Chain!Send, Chain!Fields
  <2> QED BY <2>1, <2>2, <2>5, <2>6
<1>3. CASE b # "local"
  <2>1. /\ DOMAIN e = Chain!Fields /\ e.recent = [s.recent EXCEPT ![l][b] = N]
        /\ e.stored = [s.stored EXCEPT ![l][b] = N] /\ e.backend = s.backend
        /\ e.reqs = s.reqs /\ e.command = s.command /\ e.at = s.at /\ e.path = s.path
        /\ e.culprit = s.culprit /\ e.revived = s.revived
    BY <1>1 DEF Chain!Fields
  <2>2. Chain!Stores(s, by, l, N) = e
    BY <1>3 DEF Chain!Stores
  <2> HIDE DEF e
  <2>3. e.stored \in Chain!Recents
    <3>1. s.stored \in [Chain!Lists -> [Chain!Backends -> SUBSET Names]] /\ N \in SUBSET Names
      BY <1>1 DEF Chain!Typed, Chain!Recents
    <3>2. [s.stored[l] EXCEPT ![b] = N] \in [Chain!Backends -> SUBSET Names]
      BY <3>1
    <3>3. e.stored = [s.stored EXCEPT ![l] = [s.stored[l] EXCEPT ![b] = N]]
      BY <2>1
    <3> QED BY <3>1, <3>2, <3>3 DEF Chain!Recents
  <2>4. Allows(s, l, b, N)
    OBVIOUS
  <2> HIDE DEF b
  <2>5. Chain!Inv(e)
    BY <1>1, <2>1, <2>3, <2>4, ListBecomes DEF b
  <2> QED BY <2>1, <2>2, <2>5
<1> QED BY <1>2, <1>3

\* A name leaves the list (Forget).
LEMMA NameForgotten ==
    ASSUME NEW s, Chain!Inv(s), NEW by \in {"chain", "delete", "prune"}, NEW l \in Chain!Lists,
           NEW n
    PROVE  Chain!Inv(Chain!Forget(s, by, l, n))
<1> DEFINE N == s.recent[l][s.backend] \ {n}
<1>1. s.backend \in Chain!Backends
  BY DEF Chain!Inv, Chain!Typed
<1>2. Allows(s, l, s.backend, N)
  BY <1>1, OwnAllowed
<1> HIDE DEF N
<1>3. Chain!Inv(Chain!Stores(s, by, l, N))
  BY <1>2, ListStored
<1> QED BY <1>3 DEF Chain!Forget, N

\* A list that was fetched (Fetched): it may bring the culprit back.
LEMMA ListFetched ==
    ASSUME NEW s, Chain!Inv(s), NEW l \in Chain!Lists, NEW b \in Chain!Backends,
           NEW N, N \subseteq Names
    PROVE  LET r == Chain!Fetched(s, l, b, N)
           IN  /\ Chain!Inv(r) /\ DOMAIN r = Chain!Fields /\ r.reqs = s.reqs
               /\ r.backend = s.backend /\ r.path = s.path /\ r.command = s.command
               /\ r.at = s.at
<1> DEFINE v == s.revived \/ \E n \in N : s.culprit = <<l, b, n>>
           f == [s.recent EXCEPT ![l][b] = N]
           p == [s EXCEPT !.revived = v]
           r == Chain!Fetched(s, l, b, N)
<1>1. Chain!Typed(s) /\ DOMAIN s = Chain!Fields /\ Chain!Pruned(s)
  BY DEF Chain!Inv, Chain!Typed
<1>2. r = [s EXCEPT !.recent = f, !.revived = v]
  BY <1>1 DEF Chain!Fetched, Chain!Fields
<1>3. v \in BOOLEAN /\ (~v => ~s.revived /\ \A n \in N : s.culprit # <<l, b, n>>)
  BY <1>1 DEF Chain!Typed
<1> HIDE DEF v, f
<1>4. /\ DOMAIN r = Chain!Fields /\ r.recent = f /\ r.stored = s.stored
      /\ r.backend = s.backend /\ r.reqs = s.reqs /\ r.command = s.command /\ r.at = s.at
      /\ r.path = s.path /\ r.culprit = s.culprit /\ r.revived = v
  BY <1>1, <1>2 DEF Chain!Fields
<1>5. /\ DOMAIN p = Chain!Fields /\ p.recent = s.recent /\ p.stored = s.stored
      /\ p.backend = s.backend /\ p.reqs = s.reqs /\ p.command = s.command /\ p.at = s.at
      /\ p.path = s.path /\ p.culprit = s.culprit /\ p.revived = v
  BY <1>1 DEF Chain!Fields
<1> HIDE DEF r, p
<1>6. Chain!Inv(p)
  <2>1. Chain!Typed(p)
    BY <1>1, <1>3, <1>5 DEF Chain!Typed
  <2>2. Chain!Pruned(p)
    BY <1>1, <1>3, <1>5 DEF Chain!Pruned
  <2> QED BY <2>1, <2>2 DEF Chain!Inv
<1>7. Allows(p, l, b, N)
  BY <1>3, <1>5 DEF Allows
<1>8. r.recent = [p.recent EXCEPT ![l][b] = N] /\ r.stored \in Chain!Recents
  BY <1>1, <1>4, <1>5 DEF f, Chain!Typed
<1>9. Chain!Inv(r)
  BY <1>4, <1>5, <1>6, <1>7, <1>8, ListBecomes
<1> QED BY <1>4, <1>9 DEF r

\* A name that is entered is the culprit no more (Entered).
LEMMA NameEntered ==
    ASSUME NEW s, Chain!Inv(s), NEW l, NEW n
    PROVE  LET r == Chain!Entered(s, l, n)
           IN  /\ Chain!Inv(r) /\ DOMAIN r = Chain!Fields
               /\ r.backend = s.backend /\ r.path = s.path /\ r.command = s.command
               /\ r.recent = s.recent /\ r.stored = s.stored
               /\ r.culprit # None => r.culprit # <<l, s.backend, n>>
<1>1. Chain!Typed(s) /\ DOMAIN s = Chain!Fields
  BY DEF Chain!Inv, Chain!Typed
<1>2. CASE s.culprit = <<l, s.backend, n>>
  <2> DEFINE r == [s EXCEPT !.culprit = None, !.revived = FALSE]
  <2>1. /\ DOMAIN r = Chain!Fields /\ r.recent = s.recent /\ r.stored = s.stored
        /\ r.backend = s.backend /\ r.reqs = s.reqs /\ r.command = s.command /\ r.at = s.at
        /\ r.path = s.path /\ r.culprit = None /\ r.revived = FALSE
    BY <1>1 DEF Chain!Fields
  <2>2. Chain!Entered(s, l, n) = r
    BY <1>2 DEF Chain!Entered
  <2> HIDE DEF r
  <2>3. Chain!Typed(r) /\ Chain!Pruned(r)
    BY <1>1, <2>1 DEF Chain!Typed, Chain!Pruned
  <2> QED BY <2>1, <2>2, <2>3 DEF Chain!Inv
<1>3. CASE s.culprit # <<l, s.backend, n>>
  BY <1>1, <1>3 DEF Chain!Entered
<1> QED BY <1>2, <1>3

\* The list with the name that was entered first (Saved).
LEMMA SavedAllowed ==
    ASSUME NEW s, Chain!Inv(s), NEW l \in Chain!Lists, NEW n \in Names,
           NEW N \in Chain!Saved(s.recent[l][s.backend], n),
           s.culprit # None => s.culprit # <<l, s.backend, n>>
    PROVE  Allows(s, l, s.backend, N)
<1>1. s.backend \in Chain!Backends
  BY DEF Chain!Inv, Chain!Typed
<1>2. Allows(s, l, s.backend, s.recent[l][s.backend])
  BY <1>1, OwnAllowed
<1>3. N \subseteq s.recent[l][s.backend] \cup {n}
  BY DEF Chain!Saved
<1> QED BY <1>2, <1>3 DEF Allows

\* A name proven unusable goes from the page's list, and the requests sent before
\* are marked (Prune).
LEMMA NamePruned ==
    ASSUME NEW s, Chain!Inv(s), NEW l \in Chain!Lists, NEW n \in Names
    PROVE  Chain!Inv(Chain!Prune(s, l, n))
<1> DEFINE b == s.backend
           c == <<l, b, n>>
           m == {[r EXCEPT !.before = TRUE] : r \in s.reqs}
           q == [s EXCEPT !.culprit = c, !.revived = FALSE, !.reqs = m]
           N == s.recent[l][b] \ {n}
           f == [s.recent EXCEPT ![l][b] = N]
           p == [q EXCEPT !.recent[l][b] = N]
<1>1. Chain!Typed(s) /\ DOMAIN s = Chain!Fields /\ b \in Chain!Backends
  BY DEF Chain!Inv, Chain!Typed
<1>2. m \subseteq Chain!Sent /\ \A r \in m : r.before
  <2>1. s.reqs \subseteq Chain!Sent
    BY <1>1 DEF Chain!Typed
  <2> QED BY <2>1 DEF Chain!Sent
<1>3. c \in Chain!Lists \X Chain!Backends \X Names /\ c[1] = l /\ c[2] = b /\ c[3] = n
  BY <1>1
<1>4. Chain!Prune(s, l, n) = Chain!Forget(q, "prune", l, n)
  BY <1>1 DEF Chain!Prune, Chain!Fields
<1> HIDE DEF m, c, b
<1>5. /\ DOMAIN q = Chain!Fields /\ q.recent = s.recent /\ q.stored = s.stored
      /\ q.backend = b /\ q.reqs = m /\ q.command = s.command /\ q.at = s.at
      /\ q.path = s.path /\ q.culprit = c /\ q.revived = FALSE
  BY <1>1 DEF Chain!Fields, b
<1>6. Chain!Forget(q, "prune", l, n) = Chain!Stores(q, "prune", l, N)
  BY <1>5 DEF Chain!Forget
<1> HIDE DEF q
<1>7. N \subseteq Names /\ f \in Chain!Recents /\ f[l][b] = N
  <2>1. s.recent \in [Chain!Lists -> [Chain!Backends -> SUBSET Names]]
    BY <1>1 DEF Chain!Typed, Chain!Recents
  <2>2. N \in SUBSET Names
    BY <1>1, <2>1
  <2> HIDE DEF N
  <2>3. [s.recent[l] EXCEPT ![b] = N] \in [Chain!Backends -> SUBSET Names]
    BY <1>1, <2>1, <2>2
  <2>4. f = [s.recent EXCEPT ![l] = [s.recent[l] EXCEPT ![b] = N]]
    OBVIOUS
  <2> QED BY <1>1, <2>1, <2>2, <2>3, <2>4 DEF Chain!Recents
<1>8. n \notin N
  OBVIOUS
<1> HIDE DEF N, f
<1>9. ASSUME NEW r, DOMAIN r = Chain!Fields, r.recent = f, r.stored \in Chain!Recents,
             r.backend = b, r.command = s.command, r.at = s.at, r.path = s.path,
             r.culprit = c, r.revived = FALSE, r.reqs \subseteq Chain!Sent,
             \A w \in r.reqs : w.before \/ w.names = N
      PROVE  Chain!Inv(r)
  <2>1. Chain!Typed(r)
    BY <1>1, <1>3, <1>7, <1>9 DEF Chain!Typed
  <2>2. Chain!Pruned(r)
    BY <1>3, <1>7, <1>8, <1>9 DEF Chain!Pruned
  <2> QED BY <2>1, <2>2 DEF Chain!Inv
<1>10. CASE b = "local"
  <2> DEFINE w == [by |-> "prune", kind |-> "save", list |-> l, names |-> N, before |-> FALSE]
             r == Chain!Send(p, "prune", "save", l, N)
  <2>1. /\ DOMAIN p = Chain!Fields /\ p.recent = f /\ p.stored = s.stored
        /\ p.backend = b /\ p.reqs = m /\ p.command = s.command /\ p.at = s.at
        /\ p.path = s.path /\ p.culprit = c /\ p.revived = FALSE
    BY <1>5 DEF Chain!Fields, f
  <2> HIDE DEF p
  <2>2. r = [p EXCEPT !.reqs = m \cup {w}]
    BY <2>1 DEF Chain!Send, Chain!Fields
  <2>3. w \in Chain!Sent /\ w.names = N
    BY <1>7 DEF Chain!Sent
  <2> HIDE DEF w
  <2>4. /\ DOMAIN r = Chain!Fields /\ r.recent = f /\ r.stored = s.stored
        /\ r.backend = b /\ r.reqs = m \cup {w} /\ r.command = s.command /\ r.at = s.at
        /\ r.path = s.path /\ r.culprit = c /\ r.revived = FALSE
    BY <2>1, <2>2 DEF Chain!Fields
  <2> HIDE DEF r
  <2>5. Chain!Inv(r)
    BY <1>1, <1>2, <1>9, <2>3, <2>4 DEF Chain!Typed
  <2>6. Chain!Stores(q, "prune", l, N) = r
    BY <1>5, <1>10 DEF Chain!Stores, r, p
  <2> QED BY <1>4, <1>6, <2>5, <2>6
<1>11. CASE b # "local"
  <2> DEFINE e == [q EXCEPT !.recent[l][b] = N, !.stored[l][b] = N]
             g == [s.stored EXCEPT ![l][b] = N]
  <2>1. Chain!Stores(q, "prune", l, N) = e
    BY <1>5, <1>11 DEF Chain!Stores
  <2>2. /\ DOMAIN e = Chain!Fields /\ e.recent = f /\ e.stored = g
        /\ e.backend = b /\ e.reqs = m /\ e.command = s.command /\ e.at = s.at
        /\ e.path = s.path /\ e.culprit = c /\ e.revived = FALSE
    BY <1>5 DEF Chain!Fields, f
  <2> HIDE DEF e
  <2>3. g \in Chain!Recents
    <3>1. s.stored \in [Chain!Lists -> [Chain!Backends -> SUBSET Names]] /\ N \in SUBSET Names
      BY <1>1, <1>7 DEF Chain!Typed, Chain!Recents
    <3>2. [s.stored[l] EXCEPT ![b] = N] \in [Chain!Backends -> SUBSET Names]
      BY <3>1
    <3>3. g = [s.stored EXCEPT ![l] = [s.stored[l] EXCEPT ![b] = N]]
      OBVIOUS
    <3> QED BY <3>1, <3>2, <3>3 DEF Chain!Recents
  <2> HIDE DEF g
  <2>4. Chain!Inv(e)
    BY <1>2, <1>9, <2>2, <2>3
  <2> QED BY <1>4, <1>6, <2>1, <2>4
<1> QED BY <1>10, <1>11

\* The lists of a connection that is removed (Removed).
LEMMA ListsEmptied ==
    ASSUME NEW s, Chain!Inv(s), NEW r, DOMAIN r = Chain!Fields, r.backend = s.backend,
           r.command = s.command, r.at = s.at, r.path = s.path, r.reqs = s.reqs,
           r.culprit = s.culprit, r.revived = s.revived,
           r.recent = [l \in Chain!Lists |-> [s.recent[l] EXCEPT !["ssh"] = {}]],
           r.stored = [l \in Chain!Lists |-> [s.stored[l] EXCEPT !["ssh"] = {}]]
    PROVE  Chain!Inv(r)
<1>1. Chain!Typed(s) /\ Chain!Pruned(s)
  BY DEF Chain!Inv
<1>2. r.recent \in Chain!Recents /\ r.stored \in Chain!Recents
  <2>1. ASSUME NEW f \in Chain!Recents
        PROVE  [l \in Chain!Lists |-> [f[l] EXCEPT !["ssh"] = {}]] \in Chain!Recents
    <3>1. ASSUME NEW l \in Chain!Lists
          PROVE  [f[l] EXCEPT !["ssh"] = {}] \in [Chain!Backends -> SUBSET Names]
      <4>1. f[l] \in [Chain!Backends -> SUBSET Names]
        BY <2>1, <3>1 DEF Chain!Recents
      <4> QED BY <4>1
    <3> QED BY <3>1 DEF Chain!Recents
  <2> QED BY <1>1, <2>1 DEF Chain!Typed
<1>3. \A l \in Chain!Lists, b \in Chain!Backends : r.recent[l][b] \subseteq s.recent[l][b]
  <2> TAKE l \in Chain!Lists, b \in Chain!Backends
  <2>1. s.recent[l] \in [Chain!Backends -> SUBSET Names]
    BY <1>1 DEF Chain!Typed, Chain!Recents
  <2>2. r.recent[l] = [s.recent[l] EXCEPT !["ssh"] = {}]
    OBVIOUS
  <2> QED BY <2>1, <2>2
<1>4. Chain!Typed(r)
  BY <1>1, <1>2 DEF Chain!Typed
<1>5. Chain!Pruned(r)
  <2>1. s.culprit # None => s.culprit[1] \in Chain!Lists /\ s.culprit[2] \in Chain!Backends
    BY <1>1 DEF Chain!Typed
  <2> QED BY <1>1, <1>3, <2>1 DEF Chain!Pruned
<1> QED BY <1>4, <1>5 DEF Chain!Inv

\* What waited for a request goes on (GoesOn).
LEMMA RequestEnds ==
    ASSUME NEW s, Chain!Inv(s), NEW r \in Chain!Sent
    PROVE  Chain!Inv(Chain!GoesOn(s, r))
<1>1. Chain!Typed(s) /\ DOMAIN s = Chain!Fields
  BY DEF Chain!Inv, Chain!Typed
<1>2. r.list \in Chain!Lists /\ "commands" \in Chain!Lists
  BY DEF Chain!Sent, Chain!Lists
<1>3. s.at \in Entries => s.path \in Names
  BY <1>1 DEF Chain!Typed, Entries
<1>4. Chain!Inv(Chain!Send(s, "delete", "fetch", r.list, {}))
  BY <1>2, RequestSent
<1>5. CASE s.at = "saving"
  <2>1. Chain!Inv(Chain!To(s, "listing"))
    BY <1>3, <1>5, PlaceTaken DEF Entries
  <2>2. Chain!Inv(Chain!Send(Chain!To(s, "listing"), "chain", "fetch", "commands", {}))
    BY <1>2, <2>1, RequestSent
  <2> QED BY <1>4, <1>5, <2>2 DEF Chain!GoesOn
<1>6. CASE s.at # "saving"
  <2> DEFINE p == CASE s.at = "loading" -> "folder" [] s.at = "listing" -> "command"
                    [] s.at = "storing" -> "creating" [] OTHER -> s.at
  <2>1. p \in Entries => s.path \in Names
    BY <1>3 DEF Entries
  <2>2. \/ Chain!GoesOn(s, r) = s \/ Chain!GoesOn(s, r) = Chain!To(s, p)
        \/ Chain!GoesOn(s, r) = Chain!Send(s, "delete", "fetch", r.list, {})
    BY <1>6 DEF Chain!GoesOn
  <2> HIDE DEF p
  <2> QED BY <1>4, <2>1, <2>2, PlaceTaken
<1> QED BY <1>5, <1>6

LEMMA ChainInit == Chain!Init => Chain!Inv(x)
<1> SUFFICES ASSUME Chain!Init PROVE Chain!Inv(x)
  OBVIOUS
<1>1. Chain!Typed(x)
  BY DEF Chain!Init, Chain!Typed, Chain!Fields, Chain!Recents, Chain!Backends, Chain!Sent
<1>2. Chain!Pruned(x)
  BY DEF Chain!Init, Chain!Pruned
<1> QED BY <1>1, <1>2 DEF Chain!Inv

\* Every step of a chain, a deletion, the server and another tab keeps it.
LEMMA ChainStep == Chain!Inv(x) /\ [Chain!Next]_x => Chain!Inv(x)'
<1> SUFFICES ASSUME Chain!Inv(x), [Chain!Next]_x PROVE Chain!Inv(x')
  BY DEF Chain!Inv, Chain!Typed, Chain!Pruned
<1>0. /\ Chain!Typed(x) /\ DOMAIN x = Chain!Fields /\ x.backend \in Chain!Backends
      /\ x.command \in Names \cup {None} /\ x.stored \in Chain!Recents
      /\ x.at \in Entries => x.path \in Names
  BY DEF Chain!Inv, Chain!Typed, Entries
<1>a. "local" \in Chain!Backends /\ "ssh" \in Chain!Backends
      /\ "paths" \in Chain!Lists /\ "commands" \in Chain!Lists
  BY DEF Chain!Backends, Chain!Lists
\* What a step that only goes from one place to another does not touch.
<1> DEFINE Same(r) == /\ DOMAIN r = Chain!Fields /\ r.recent = x.recent /\ r.stored = x.stored
                      /\ r.reqs = x.reqs /\ r.culprit = x.culprit /\ r.revived = x.revived
           Resting(r) == \/ r.at \notin Entries
                         \/ (r.at = x.at /\ r.path = x.path)
<1>b. ASSUME NEW r, Same(r), Resting(r), r.backend \in Chain!Backends,
             r.command \in Names \cup {None}
      PROVE  Chain!Inv(r)
  <2>1. r.at \in Entries => r.path \in Names
    BY <1>b, <1>0
  <2> QED BY <1>b, <2>1, <1>0, ChainStays
<1>1. CASE Chain!Start
  <2> DEFINE r == Chain!To([x EXCEPT !.path = None, !.command = None], "backend")
  <2>1. Same(r) /\ r.at = "backend" /\ r.backend = x.backend /\ r.command = None
    BY <1>0 DEF Chain!To, Chain!Fields
  <2>2. Chain!Moves({r})
    BY <1>1 DEF Chain!Start
  <2> HIDE DEF r
  <2>3. Chain!Inv(r)
    <3>1. Resting(r)
      BY <2>1 DEF Entries
    <3> HIDE DEF Same, Resting
    <3> QED BY <2>1, <3>1, <1>b, <1>0
  <2> QED BY <2>2, <2>3, MoveCounted
<1>2. ASSUME NEW s, Same(s), s.at \notin Entries, s.command = x.command
      PROVE  Chain!Inv(Chain!Connecting(s))
  <2> DEFINE z == [s EXCEPT !.backend = "ssh", !.known = TRUE]
             N == s.stored["paths"]["ssh"]
             f == Chain!Fetched(z, "paths", "ssh", N)
             t == Chain!To(f, "connecting")
  <2>1. Same(z) /\ z.at = s.at /\ z.backend = "ssh" /\ z.command = x.command
    BY <1>2 DEF Chain!Fields
  <2>2. Chain!Connecting(s) = Chain!ShowStatus(t, "connecting")
    BY DEF Chain!Connecting
  <2> HIDE DEF z
  <2>3. Chain!Inv(z)
    <3>1. Resting(z)
      BY <2>1, <1>2
    <3> HIDE DEF Same, Resting
    <3> QED BY <2>1, <3>1, <1>b, <1>0, <1>a
  <2>4. N \subseteq Names
    BY <1>0, <1>2, <1>a DEF Chain!Recents
  <2> HIDE DEF N
  <2>5. Chain!Inv(f)
    BY <2>3, <2>4, <1>a, ListFetched
  <2> HIDE DEF f
  <2>6. Chain!Inv(t) /\ t.at = "connecting"
    <3>1. Chain!Inv(t)
      BY <2>5, PlaceTaken DEF Entries
    <3>2. DOMAIN f = Chain!Fields
      BY <2>5 DEF Chain!Inv, Chain!Typed
    <3> QED BY <3>1, <3>2 DEF Chain!To, Chain!Fields
  <2> HIDE DEF t
  <2> DEFINE u == Chain!ShowStatus(t, "connecting")
  <2>7. Chain!Typed(t) /\ DOMAIN t = Chain!Fields
    BY <2>6 DEF Chain!Inv, Chain!Typed
  <2>8. /\ DOMAIN u = Chain!Fields /\ u.backend = t.backend /\ u.recent = t.recent
        /\ u.stored = t.stored /\ u.reqs = t.reqs /\ u.command = t.command /\ u.at = t.at
        /\ u.path = t.path /\ u.culprit = t.culprit /\ u.revived = t.revived
    BY <2>7 DEF Chain!ShowStatus, Chain!Fields
  <2> HIDE DEF u
  <2>9. Chain!Inv(u)
    BY <2>6, <2>7, <2>8, ChainStays DEF Chain!Typed, Entries
  <2> QED BY <2>2, <2>9 DEF u
<1>3. CASE Chain!Backend
  <2> DEFINE z == [x EXCEPT !.backend = "local"]
             t == Chain!To(z, "loading")
             u == Chain!Send(t, "chain", "fetch", "paths", {})
             v == Chain!ShowStatus(Chain!To(x, "probing"), "probing")
  <2>1. (x' = u \/ x' = v \/ x' = Chain!Connecting(x)) /\ x.at = "backend"
    BY <1>3 DEF Chain!Backend, Chain!Goes
  <2>2. Same(z) /\ z.at = x.at /\ z.path = x.path /\ z.backend = "local"
        /\ z.command = x.command
    BY <1>0 DEF Chain!Fields
  <2>3. Same(v) /\ v.at = "probing" /\ v.backend = x.backend /\ v.command = x.command
    BY <1>0 DEF Chain!ShowStatus, Chain!To, Chain!Fields
  <2> HIDE DEF z, v
  <2>4. Chain!Inv(z)
    BY <2>2, <1>b, <1>0, <1>a
  <2>5. Chain!Inv(u)
    BY <2>4, <1>a, PlaceTaken, RequestSent DEF Entries
  <2>6. Resting(v)
    BY <2>3 DEF Entries
  <2>7. Chain!Inv(Chain!Connecting(x))
    <3>1. Same(x)
      BY <1>0
    <3>2. x.at \notin Entries
      BY <2>1 DEF Entries
    <3> HIDE DEF Same, Resting
    <3> QED BY <1>2, <3>1, <3>2
  <2> HIDE DEF u
  <2>8. Chain!Inv(v)
    <3> HIDE DEF Same, Resting
    <3> QED BY <2>3, <2>6, <1>b, <1>0
  <2> QED BY <2>1, <2>5, <2>7, <2>8
<1>4. CASE Chain!AskRemove
  <2> DEFINE r == [x EXCEPT !.removing = "asked"]
  <2>1. Same(r) /\ r.at = x.at /\ r.path = x.path /\ r.backend = x.backend
        /\ r.command = x.command
    BY <1>0 DEF Chain!Fields
  <2>2. Chain!Moves({r})
    BY <1>4 DEF Chain!AskRemove
  <2> HIDE DEF r
  <2>3. Chain!Inv(r)
    <3>1. Resting(r)
      BY <2>1
    <3> HIDE DEF Same, Resting
    <3> QED BY <2>1, <3>1, <1>b, <1>0
  <2> QED BY <2>2, <2>3, MoveCounted
<1>5. CASE Chain!ConfirmRemove
  <2> DEFINE r == [x EXCEPT !.removing = "no"]
  <2>1. \/ x' = r \/ x' = Chain!To(r, "idle")
        \/ x' = Chain!ShowStatus([x EXCEPT !.removing = "sent"], "removing")
    BY <1>5 DEF Chain!ConfirmRemove, Chain!Goes
  <2>2. Same(x') /\ x'.backend = x.backend /\ x'.command = x.command
    BY <2>1, <1>0 DEF Chain!ShowStatus, Chain!To, Chain!Fields
  <2>3. Resting(x')
    BY <2>1, <1>0 DEF Chain!ShowStatus, Chain!To, Chain!Fields, Entries
  <2> QED BY <2>2, <2>3, <1>b, <1>0
<1>6. CASE Chain!Removed
  <2> DEFINE s == Chain!CloseStatus([x EXCEPT !.removing = "no"], "removing")
             Gone(f) == [l \in Chain!Lists |-> [f[l] EXCEPT !["ssh"] = {}]]
  <2>1. \/ x' = s
        \/ x' = [s EXCEPT !.known = FALSE, !.recent = Gone(@), !.stored = Gone(@)]
    BY <1>6 DEF Chain!Removed, Chain!Goes
  <2>2. Same(s) /\ s.at = x.at /\ s.path = x.path /\ s.backend = x.backend
        /\ s.command = x.command
    BY <1>0 DEF Chain!CloseStatus, Chain!Fields
  <2> HIDE DEF s
  <2>3. Chain!Inv(s)
    BY <2>2, <1>b, <1>0
  <2>4. ASSUME x' = [s EXCEPT !.known = FALSE, !.recent = Gone(@), !.stored = Gone(@)]
        PROVE  Chain!Inv(x')
    <3>1. /\ DOMAIN x' = Chain!Fields /\ x'.backend = s.backend /\ x'.command = s.command
          /\ x'.at = s.at /\ x'.path = s.path /\ x'.reqs = s.reqs
          /\ x'.culprit = s.culprit /\ x'.revived = s.revived
          /\ x'.recent = Gone(s.recent) /\ x'.stored = Gone(s.stored)
      <4> HIDE DEF Gone
      <4> QED BY <2>2, <2>4 DEF Chain!Fields
    <3> QED BY <3>1, <2>3, ListsEmptied
  <2> QED BY <2>1, <2>3, <2>4
\* The end of a status, and where the chain goes from there.
<1>7. ASSUME NEW w, x.at \notin Entries, NEW p \in {"idle", "alert", "password", "retry", "folder"}
      PROVE  LET s == Chain!CloseStatus(x, w)
             IN Chain!Inv(Chain!To(s, p)) /\ Chain!Inv(Chain!Connecting(s))
  <2> DEFINE s == Chain!CloseStatus(x, w)
  <2>1. Same(s) /\ s.at = x.at /\ s.path = x.path /\ s.backend = x.backend
        /\ s.command = x.command
    BY <1>0 DEF Chain!CloseStatus, Chain!Fields
  <2> HIDE DEF s
  <2>2. Chain!Inv(s)
    BY <2>1, <1>b, <1>0
  <2>3. Chain!Inv(Chain!To(s, p))
    BY <2>2, <1>7, PlaceTaken DEF Entries
  <2>4. Chain!Inv(Chain!Connecting(s))
    BY <2>1, <1>7, <1>2
  <2> QED BY <2>3, <2>4 DEF s
<1>8. CASE Chain!Probed
  <2>1. x.at \notin Entries
    BY <1>8 DEF Chain!Probed, Entries
  <2> DEFINE s == Chain!CloseStatus(x, "probing")
  <2>2. \/ x' = Chain!Connecting(s) \/ x' = Chain!To(s, "idle")
        \/ x' = Chain!To(s, "alert") \/ x' = Chain!To(s, "password")
    BY <1>8 DEF Chain!Probed, Chain!Goes
  <2>3. \A p \in {"idle", "alert", "password"} :
           Chain!Inv(Chain!To(s, p)) /\ Chain!Inv(Chain!Connecting(s))
    BY <2>1, <1>7
  <2> HIDE DEF s
  <2> QED BY <2>2, <2>3
<1>9. CASE Chain!Installed
  <2>1. x.at \notin Entries
    BY <1>9 DEF Chain!Installed, Entries
  <2> DEFINE s == Chain!CloseStatus(x, "installing")
  <2>2. x' = Chain!Connecting(s) \/ x' = Chain!To(s, "retry") \/ x' = Chain!To(s, "alert")
    BY <1>9 DEF Chain!Installed, Chain!Goes
  <2>3. \A p \in {"retry", "alert"} :
           Chain!Inv(Chain!To(s, p)) /\ Chain!Inv(Chain!Connecting(s))
    BY <2>1, <1>7
  <2> HIDE DEF s
  <2> QED BY <2>2, <2>3
<1>10. CASE Chain!Connected
  <2>1. x.at \notin Entries
    BY <1>10 DEF Chain!Connected, Entries
  <2> DEFINE s == Chain!CloseStatus(x, "connecting")
  <2>2. x' = Chain!To(s, "alert") \/ x' = Chain!To(s, "folder")
    BY <1>10 DEF Chain!Connected, Chain!Goes
  <2>3. \A p \in {"alert", "folder"} : Chain!Inv(Chain!To(s, p))
    BY <2>1, <1>7
  <2> HIDE DEF s
  <2> QED BY <2>2, <2>3
<1>11. CASE Chain!Password
  <2> DEFINE r == Chain!ShowStatus(Chain!To(x, "installing"), "installing")
  <2>1. Same(r) /\ r.at = "installing" /\ r.backend = x.backend /\ r.command = x.command
    BY <1>0 DEF Chain!ShowStatus, Chain!To, Chain!Fields
  <2>2. Chain!Moves({r})
    BY <1>11 DEF Chain!Password
  <2> HIDE DEF r
  <2>3. Chain!Inv(r)
    <3>1. Resting(r)
      BY <2>1 DEF Entries
    <3> HIDE DEF Same, Resting
    <3> QED BY <2>1, <3>1, <1>b, <1>0
  <2> QED BY <2>2, <2>3, MoveCounted
<1>12. CASE Chain!Retry
  BY <1>12, PlaceTaken DEF Chain!Retry, Chain!Goes, Entries
<1>13. CASE Chain!Created
  <2>1. x.at = "creating" /\ x.path \in Names
    BY <1>13, <1>0 DEF Chain!Created, Entries
  <2>2. \/ x' = Chain!To(x, "idle") \/ x' = Chain!To(Chain!Prune(x, "paths", x.path), "idle")
        \/ /\ x.command # None
           /\ x' = Chain!To(Chain!Prune(x, "commands", x.command), "idle")
    BY <1>13 DEF Chain!Created, Chain!Goes
  <2>3. ASSUME NEW l \in Chain!Lists, NEW n \in Names
        PROVE  Chain!Inv(Chain!To(Chain!Prune(x, l, n), "idle"))
    BY <2>3, NamePruned, PlaceTaken DEF Entries
  <2>4. Chain!Inv(Chain!To(x, "idle"))
    BY PlaceTaken DEF Entries
  <2>5. x.command # None => x.command \in Names
    BY <1>0
  <2> QED BY <2>1, <2>2, <2>3, <2>4, <2>5, <1>a
<1>14. CASE Chain!Leave
  <2> DEFINE q == [x EXCEPT !.status = None]
             r == Chain!To(q, "idle")
  <2>1. Chain!Moves({r}) \/ Chain!Moves({q})
    BY <1>14 DEF Chain!Leave
  <2>2. Same(q) /\ q.at = x.at /\ q.path = x.path /\ q.backend = x.backend
        /\ q.command = x.command
    BY <1>0 DEF Chain!Fields
  <2> HIDE DEF q
  <2>3. Chain!Inv(q)
    BY <2>2, <1>b, <1>0
  <2>4. Chain!Inv(r)
    BY <2>3, PlaceTaken DEF Entries
  <2> HIDE DEF r
  <2> QED BY <2>1, <2>3, <2>4, MoveCounted
<1>15. ASSUME NEW n \in Names, Chain!DeleteRecent(n)
       PROVE  Chain!Inv(x')
  <2> DEFINE l == IF x.at = "folder" THEN "paths" ELSE "commands"
             r == Chain!Forget(x, "delete", l, n)
  <2>1. Chain!Moves({r})
    BY <1>15 DEF Chain!DeleteRecent
  <2>2. l \in Chain!Lists
    BY <1>a
  <2> HIDE DEF l
  <2>3. Chain!Inv(r)
    BY <2>2, NameForgotten
  <2> HIDE DEF r
  <2> QED BY <2>1, <2>3, MoveCounted
\* A name that is entered is the culprit no more, and put first in its list.
<1>16. ASSUME NEW z, Chain!Inv(z), z.recent = x.recent, z.backend = x.backend,
              NEW l \in Chain!Lists, NEW n \in Names,
              NEW N \in Chain!Saved(x.recent[l][x.backend], n)
       PROVE  LET r == Chain!Stores(Chain!Entered(z, l, n), "chain", l, N)
              IN Chain!Inv(r) /\ r.path = z.path /\ r.command = z.command
                 /\ r.backend = z.backend
  <2> DEFINE e == Chain!Entered(z, l, n)
  <2>1. /\ Chain!Inv(e) /\ e.backend = z.backend /\ e.path = z.path
        /\ e.command = z.command /\ e.recent = z.recent
        /\ e.culprit # None => e.culprit # <<l, e.backend, n>>
    BY <1>16, NameEntered
  <2> HIDE DEF e
  <2>2. Allows(e, l, e.backend, N)
    BY <1>16, <2>1, SavedAllowed
  <2>3. LET r == Chain!Stores(e, "chain", l, N)
        IN Chain!Inv(r) /\ r.backend = e.backend /\ r.path = e.path /\ r.command = e.command
    BY <2>1, <2>2, <1>16, ListStored
  <2> QED BY <2>1, <2>3 DEF e
<1>17. ASSUME NEW n \in Names, Chain!Folder(n)
       PROVE  Chain!Inv(x')
  <2> DEFINE z == [x EXCEPT !.path = n]
             F(N) == Chain!Stores(Chain!Entered(z, "paths", n), "chain", "paths", N)
             K == Chain!Entered(z, "paths", n).stored["commands"]["ssh"]
             G(N) == Chain!Fetched(F(N), "commands", "ssh", K)
             H(N) == IF x.backend = "local" THEN Chain!To(F(N), "saving")
                     ELSE Chain!To(G(N), "command")
             S == {H(N) : N \in Chain!Saved(x.recent["paths"][x.backend], n)}
  <2>1. x.at = "folder" /\ Chain!Moves(S)
    BY <1>17 DEF Chain!Folder
  <2>2. Same(z) /\ z.backend = x.backend /\ z.command = x.command /\ z.at = x.at
        /\ z.path = n
    BY <1>0 DEF Chain!Fields
  <2> HIDE DEF z
  <2>3. Chain!Inv(z)
    <3>1. Resting(z)
      BY <2>1, <2>2 DEF Entries
    <3> QED BY <2>2, <3>1, <1>b, <1>0
  <2>4. K \subseteq Names
    <3>1. Chain!Inv(Chain!Entered(z, "paths", n))
      BY <2>3, NameEntered
    <3> QED BY <3>1, <1>a DEF Chain!Inv, Chain!Typed, Chain!Recents
  <2>5. ASSUME NEW N \in Chain!Saved(x.recent["paths"][x.backend], n)
        PROVE  Chain!Inv(H(N))
    <3>1. Chain!Inv(F(N)) /\ F(N).path = n
      BY <2>2, <2>3, <2>5, <1>a, <1>16
    <3> HIDE DEF F, K
    <3>2. Chain!Inv(G(N)) /\ G(N).path = n
      BY <2>4, <3>1, <1>a, ListFetched
    <3> HIDE DEF G
    <3>3. Chain!Inv(Chain!To(F(N), "saving")) /\ Chain!Inv(Chain!To(G(N), "command"))
      BY <3>1, <3>2, PlaceTaken
    <3> QED BY <3>3
  <2> HIDE DEF H
  <2>6. \A s \in S : Chain!Inv(s)
    BY <2>5
  <2> HIDE DEF S
  <2> QED BY <2>1, <2>6, MoveCounted
<1>18. ASSUME NEW n \in Names \cup {None}, Chain!Command(n)
       PROVE  Chain!Inv(x')
  <2> DEFINE z == [x EXCEPT !.command = n]
             e == Chain!Entered(z, "commands", n)
             F(N) == Chain!Stores(e, "chain", "commands", N)
             p == IF x.backend = "local" THEN "storing" ELSE "creating"
             S == {Chain!To(F(N), p) : N \in Chain!Saved(x.recent["commands"][x.backend], n)}
  <2>1. /\ x.at = "command" /\ x.path \in Names
        /\ Chain!Moves({Chain!To(e, "creating")}) \/ (n # None /\ Chain!Moves(S))
    BY <1>18, <1>0 DEF Chain!Command, Entries
  <2>2. Same(z) /\ z.backend = x.backend /\ z.command = n /\ z.at = x.at
        /\ z.path = x.path
    BY <1>0 DEF Chain!Fields
  <2> HIDE DEF z
  <2>3. Chain!Inv(z)
    <3>1. Resting(z)
      BY <2>1, <2>2 DEF Entries
    <3> QED BY <2>2, <3>1, <1>b, <1>0
  <2>4. Chain!Inv(e) /\ e.path = x.path
    BY <2>2, <2>3, NameEntered
  <2>5. Chain!Inv(Chain!To(e, "creating"))
    <3> HIDE DEF e
    <3> QED BY <2>1, <2>4, PlaceTaken
  <2>6. ASSUME n # None, NEW N \in Chain!Saved(x.recent["commands"][x.backend], n)
        PROVE  Chain!Inv(Chain!To(F(N), p))
    <3>1. Chain!Inv(F(N)) /\ F(N).path = x.path
      BY <2>2, <2>3, <2>6, <1>a, <1>16
    <3> HIDE DEF F, p
    <3> QED BY <2>1, <3>1, PlaceTaken
  <2> HIDE DEF F, p
  <2>7. n # None => \A s \in S : Chain!Inv(s)
    BY <2>6
  <2> HIDE DEF S, e
  <2>8. \A s \in {Chain!To(e, "creating")} : Chain!Inv(s)
    BY <2>5
  <2> QED BY <2>1, <2>7, <2>8, MoveCounted
\* A request that has ended.
<1>19. ASSUME NEW r \in x.reqs, NEW N, N = x.stored[r.list]["local"] \/ N = r.names
       PROVE  LET d == Chain!Done(r)
                  e == [d EXCEPT !.stored[r.list]["local"] = N]
              IN  /\ r \in Chain!Sent /\ N \subseteq Names
                  /\ Same([d EXCEPT !.reqs = x.reqs])
                  /\ d.reqs = x.reqs \ {r}
                  /\ Chain!Inv(d) /\ Chain!Inv(e)
  <2> DEFINE d == Chain!Done(r)
             e == [d EXCEPT !.stored[r.list]["local"] = N]
  <2>1. r \in Chain!Sent /\ r.list \in Chain!Lists /\ r.names \subseteq Names
    BY <1>0, <1>19 DEF Chain!Typed, Chain!Sent
  <2>2. N \subseteq Names
    BY <1>0, <1>19, <1>a, <2>1 DEF Chain!Recents
  <2>3. /\ DOMAIN d = Chain!Fields /\ d.recent = x.recent /\ d.stored = x.stored
        /\ d.reqs = x.reqs \ {r} /\ d.culprit = x.culprit /\ d.revived = x.revived
        /\ d.backend = x.backend /\ d.command = x.command /\ d.at = x.at /\ d.path = x.path
    BY <1>0 DEF Chain!Done, Chain!Fields
  <2> HIDE DEF d
  <2>4. Chain!Inv(d)
    <3>1. d.reqs \subseteq x.reqs
      BY <2>3
    <3> QED BY <2>3, <3>1, <1>0, ChainStays
  <2>5. /\ DOMAIN e = Chain!Fields /\ e.recent = x.recent
        /\ e.stored = [x.stored EXCEPT ![r.list]["local"] = N]
        /\ e.reqs = x.reqs \ {r} /\ e.culprit = x.culprit /\ e.revived = x.revived
        /\ e.backend = x.backend /\ e.command = x.command /\ e.at = x.at /\ e.path = x.path
    BY <2>3 DEF Chain!Fields
  <2>6. Same([d EXCEPT !.reqs = x.reqs])
    BY <2>3 DEF Chain!Fields
  <2> HIDE DEF e
  <2>7. e.stored \in Chain!Recents
    <3>1. x.stored \in [Chain!Lists -> [Chain!Backends -> SUBSET Names]] /\ N \in SUBSET Names
      BY <1>0, <2>2 DEF Chain!Recents
    <3>2. [x.stored[r.list] EXCEPT !["local"] = N] \in [Chain!Backends -> SUBSET Names]
      BY <2>1, <3>1
    <3>3. e.stored = [x.stored EXCEPT ![r.list] = [x.stored[r.list] EXCEPT !["local"] = N]]
      BY <2>5
    <3> QED BY <2>1, <3>1, <3>2, <3>3 DEF Chain!Recents
  <2>8. Chain!Inv(e)
    <3>1. e.reqs \subseteq x.reqs
      BY <2>5
    <3> QED BY <2>5, <2>7, <3>1, <1>0, ChainStays
  <2> QED BY <2>1, <2>2, <2>3, <2>4, <2>6, <2>8 DEF d, e
<1>20. ASSUME NEW r \in x.reqs, Chain!ServeSave(r) \/ Chain!Fail(r)
       PROVE  Chain!Inv(x')
  <2> DEFINE d == Chain!Done(r)
             e == [d EXCEPT !.stored[r.list]["local"] = r.names]
  <2>1. x' = Chain!GoesOn(e, r) \/ x' = Chain!GoesOn(d, r)
    BY <1>20 DEF Chain!ServeSave, Chain!Fail, Chain!Goes
  <2>2. Chain!Inv(d) /\ Chain!Inv(e) /\ r \in Chain!Sent
    BY <1>19
  <2> HIDE DEF d, e
  <2> QED BY <2>1, <2>2, RequestEnds
<1>21. ASSUME NEW r \in x.reqs, Chain!ServeFetch(r)
       PROVE  Chain!Inv(x')
  <2> DEFINE d == Chain!Done(r)
             N == x.stored[r.list]["local"]
             a == [r EXCEPT !.kind = "answer", !.names = N]
  <2>1. x' = [d EXCEPT !.reqs = @ \cup {a}]
    BY <1>21 DEF Chain!ServeFetch, Chain!Goes
  <2>2. r \in Chain!Sent /\ N \subseteq Names /\ Chain!Inv(d)
    BY <1>19
  <2> HIDE DEF N, d
  <2>3. a \in Chain!Sent /\ a.kind = "answer"
    BY <2>2 DEF Chain!Sent
  <2> HIDE DEF a
  <2>4. Chain!Typed(d) /\ Chain!Pruned(d) /\ DOMAIN d = Chain!Fields
    BY <2>2 DEF Chain!Inv, Chain!Typed
  <2>5. /\ DOMAIN x' = Chain!Fields /\ x'.backend = d.backend /\ x'.recent = d.recent
        /\ x'.stored = d.stored /\ x'.reqs = d.reqs \cup {a} /\ x'.command = d.command
        /\ x'.at = d.at /\ x'.path = d.path /\ x'.culprit = d.culprit
        /\ x'.revived = d.revived
    BY <2>1, <2>4 DEF Chain!Fields
  <2>6. Chain!Typed(x')
    BY <2>3, <2>4, <2>5 DEF Chain!Typed
  <2>7. Chain!Pruned(x')
    BY <2>3, <2>4, <2>5 DEF Chain!Pruned
  <2> QED BY <2>6, <2>7 DEF Chain!Inv
<1>22. ASSUME NEW r \in x.reqs, Chain!Answer(r)
       PROVE  Chain!Inv(x')
  <2> DEFINE d == Chain!Done(r)
             f == Chain!Fetched(d, r.list, "local", r.names)
  <2>1. x' = Chain!GoesOn(f, r)
    BY <1>22 DEF Chain!Answer, Chain!Goes
  <2>2. Chain!Inv(d) /\ r \in Chain!Sent /\ r.list \in Chain!Lists /\ r.names \subseteq Names
    BY <1>19 DEF Chain!Sent
  <2> HIDE DEF d
  <2>3. Chain!Inv(f)
    BY <2>2, <1>a, ListFetched
  <2> HIDE DEF f
  <2> QED BY <2>1, <2>2, <2>3, RequestEnds
<1>23. ASSUME NEW l \in Chain!Lists, NEW b \in Chain!Backends, NEW N \in SUBSET Names,
              Chain!OtherSaves(l, b, N)
       PROVE  Chain!Inv(x')
  <2> DEFINE e == [x EXCEPT !.stored[l][b] = N]
  <2>1. Chain!Moves({e})
    BY <1>23 DEF Chain!OtherSaves
  <2>2. /\ DOMAIN e = Chain!Fields /\ e.recent = x.recent
        /\ e.stored = [x.stored EXCEPT ![l][b] = N]
        /\ e.reqs = x.reqs /\ e.culprit = x.culprit /\ e.revived = x.revived
        /\ e.backend = x.backend /\ e.command = x.command /\ e.at = x.at /\ e.path = x.path
    BY <1>0 DEF Chain!Fields
  <2> HIDE DEF e
  <2>3. e.stored \in Chain!Recents
    <3>1. x.stored \in [Chain!Lists -> [Chain!Backends -> SUBSET Names]]
      BY <1>0 DEF Chain!Recents
    <3>2. [x.stored[l] EXCEPT ![b] = N] \in [Chain!Backends -> SUBSET Names]
      BY <3>1
    <3>3. e.stored = [x.stored EXCEPT ![l] = [x.stored[l] EXCEPT ![b] = N]]
      BY <2>2
    <3> QED BY <3>1, <3>2, <3>3 DEF Chain!Recents
  <2>4. Chain!Inv(e)
    BY <2>2, <2>3, <1>0, ChainStays
  <2> QED BY <2>1, <2>4, MoveCounted
<1>24. CASE UNCHANGED x
  BY <1>24
<1> HIDE DEF Same, Resting
<1>25. None \in Names \cup {None} /\ Names \subseteq Names \cup {None}
  OBVIOUS
<1> QED BY <1>1, <1>3, <1>4, <1>5, <1>6, <1>8, <1>9, <1>10, <1>11, <1>12, <1>13, <1>14, <1>15,
           <1>17, <1>18, <1>20, <1>21, <1>22, <1>23, <1>24, <1>25 DEF Chain!Next

\* NewShell!PrunedStaysPruned: what could not be used is neither offered nor stored
\* by a later request until it is entered again or a list fetched since names it,
\* in whatever order requests are served, fail and are answered, and whatever
\* other tabs store (promptCreate, _removeRecentPath, fetchRecentPaths).
THEOREM PrunedStaysGone == Spec => []PrunedStaysPruned
<1> DEFINE I == part = "newShell" => Chain!Inv(x)
<1>1. Init => I
  BY ChainInit DEF Init
<1>2. I /\ [Next]_vars => I'
  BY PartAlone, ChainStep
<1>3. I => PrunedStaysPruned
  BY DEF PrunedStaysPruned, Chain!PrunedStaysPruned, Chain!Inv
<1> HIDE DEF I
<1> QED BY <1>1, <1>2, <1>3, PTL DEF Spec

-----------------------------------------------------------------------------
\* Bell: which runs of output ring.

\* The run that is under way began at runStart.
LEMMA RunBegins ==
    ASSUME NEW s, Ring!Inv(s), s.runStart # 0
    PROVE  Ring!Long(s, s.lastOutputAt) <=> s.lastOutputAt - s.runStart >= MinRun
<1> DEFINE R == s.runStart
           M == Ring!RunOf(s, s.lastOutputAt)
<1>1. /\ R \in s.frames /\ R <= s.lastOutputAt /\ s.frames \subseteq Nat
      /\ Ring!Linked(s, R, s.lastOutputAt)
      /\ \A h \in s.frames : h < R => R - h >= RunGap
  BY DEF Ring!Inv, Ring!Typed, Ring!Noted, Ring!Running
<1>2. R \in M
  BY <1>1 DEF Ring!RunOf
<1>3. ASSUME NEW e \in M
      PROVE  R <= e
  <2>1. e \in s.frames /\ Ring!Linked(s, e, s.lastOutputAt)
    BY DEF Ring!RunOf
  <2>2. CASE e < R
    <3>1. PICK h \in s.frames : e <= h /\ h < R /\ R - h < RunGap
      BY <2>1, <2>2, <1>1 DEF Ring!Linked
    <3>2. R - h >= RunGap
      BY <3>1, <1>1
    <3> QED BY <3>1, <3>2, <1>1, PageAssumption
  <2> QED BY <2>1, <2>2, <1>1
<1>4. M \subseteq Nat
  BY <1>1 DEF Ring!RunOf
<1>5. s.lastOutputAt \in Nat
  BY <1>1 DEF Ring!Inv, Ring!Typed
<1>6. R \in Nat
  BY <1>1
<1> HIDE DEF M, R
<1>7. ASSUME NEW e \in M, s.lastOutputAt - e >= MinRun
      PROVE  s.lastOutputAt - R >= MinRun
  BY <1>3, <1>4, <1>5, <1>6, <1>7, PageAssumption
<1> QED BY <1>2, <1>7 DEF Ring!Long, M, R

\* A step that notes no output, looks at no run and turns no clock back.
LEMMA BellStays ==
    ASSUME NEW s, Ring!Inv(s), NEW r, DOMAIN r = Ring!Fields, r.frames = s.frames,
           r.rang = s.rang, r.seen = s.seen, r.runStart = s.runStart,
           r.lastOutputAt = s.lastOutputAt, r.now \in Nat, r.now >= s.now,
           r.lastInputAt \in Nat, r.lastInputAt >= s.lastInputAt, r.lastInputAt <= r.now
    PROVE  Ring!Inv(r)
<1>1. Ring!Typed(r)
  BY DEF Ring!Inv, Ring!Typed
<1>2. Ring!Noted(r) /\ Ring!Running(r)
  BY DEF Ring!Inv, Ring!Noted, Ring!Running, Ring!Linked
<1>3. \A f \in s.frames : Ring!Last(r, f) = Ring!Last(s, f) /\ Ring!Long(r, f) = Ring!Long(s, f)
  BY DEF Ring!Last, Ring!Long, Ring!RunOf, Ring!Linked
<1>4. Ring!Exact(r)
  <2> SUFFICES ASSUME NEW f \in s.frames
               PROVE  /\ f \in s.rang => Ring!Last(r, f) /\ Ring!Long(r, f)
                      /\ Ring!Last(r, f) /\ Ring!Long(r, f) /\ r.lastInputAt <= f => f \in s.rang
    BY DEF Ring!Exact
  <2>1. r.lastInputAt <= f => s.lastInputAt <= f
    BY DEF Ring!Inv, Ring!Typed
  <2> QED BY <1>3, <2>1 DEF Ring!Inv, Ring!Exact
<1> QED BY <1>1, <1>2, <1>4 DEF Ring!Inv

\* The bell itself is no part of it.
LEMMA BellRings ==
    ASSUME NEW s, DOMAIN s = Ring!Fields
    PROVE  LET r == Ring!RingBell(s)
           IN  /\ DOMAIN r = Ring!Fields /\ r.frames = s.frames /\ r.rang = s.rang
               /\ r.seen = s.seen /\ r.runStart = s.runStart
               /\ r.lastOutputAt = s.lastOutputAt /\ r.now = s.now
               /\ r.lastInputAt = s.lastInputAt
  BY DEF Ring!RingBell, Ring!Fields

\* What runTick writes down.
LEMMA TickWrites ==
    ASSUME NEW s, DOMAIN s = Ring!Fields, NEW frame \in BOOLEAN
    PROVE  LET r == Ring!RunTick(s, frame)
               rings == /\ Ring!Ended(s)
                        /\ s.lastOutputAt - s.runStart >= MinRun
                        /\ s.lastInputAt <= s.lastOutputAt
           IN  /\ DOMAIN r = Ring!Fields /\ r.frames = s.frames
               /\ r.now = s.now /\ r.lastInputAt = s.lastInputAt
               /\ r.rang = (IF rings THEN s.rang \cup {s.lastOutputAt} ELSE s.rang)
               /\ r.lastOutputAt = (IF frame THEN s.now ELSE s.lastOutputAt)
               /\ r.runStart = (IF frame /\ (s.runStart = 0 \/ Ring!Ended(s)) THEN s.now
                                ELSE IF Ring!Ended(s) THEN 0 ELSE s.runStart)
<1> DEFINE rings == /\ Ring!Ended(s)
                    /\ s.lastOutputAt - s.runStart >= MinRun
                    /\ s.lastInputAt <= s.lastOutputAt
           s1 == [s EXCEPT !.runStart = IF Ring!Ended(s) THEN 0 ELSE @,
                           !.rang = IF rings THEN @ \cup {s.lastOutputAt} ELSE @]
           s2 == IF frame THEN [s1 EXCEPT !.runStart = IF @ = 0 THEN s.now ELSE @,
                                          !.lastOutputAt = s.now]
                 ELSE s1
<1>1. Ring!RunTick(s, frame) = IF rings THEN Ring!RingBell(s2) ELSE s2
  BY DEF Ring!RunTick
<1> HIDE DEF rings
<1>2. /\ DOMAIN s1 = Ring!Fields /\ s1.frames = s.frames /\ s1.now = s.now
      /\ s1.lastInputAt = s.lastInputAt /\ s1.lastOutputAt = s.lastOutputAt
      /\ s1.rang = (IF rings THEN s.rang \cup {s.lastOutputAt} ELSE s.rang)
      /\ s1.runStart = (IF Ring!Ended(s) THEN 0 ELSE s.runStart)
  BY DEF Ring!Fields
<1> HIDE DEF s1
<1>3. /\ DOMAIN s2 = Ring!Fields /\ s2.frames = s.frames /\ s2.now = s.now
      /\ s2.lastInputAt = s.lastInputAt /\ s2.rang = s1.rang
      /\ s2.lastOutputAt = (IF frame THEN s.now ELSE s.lastOutputAt)
      /\ s2.runStart = (IF frame /\ s1.runStart = 0 THEN s.now ELSE s1.runStart)
  BY <1>2 DEF Ring!Fields
<1> HIDE DEF s2
<1>4. s2.runStart = (IF frame /\ (s.runStart = 0 \/ Ring!Ended(s)) THEN s.now
                     ELSE IF Ring!Ended(s) THEN 0 ELSE s.runStart)
  BY <1>2, <1>3
<1>5. CASE rings
  BY <1>1, <1>2, <1>3, <1>4, <1>5, BellRings DEF rings
<1>6. CASE ~rings
  BY <1>1, <1>2, <1>3, <1>4, <1>6 DEF rings
<1> QED BY <1>5, <1>6

\* What has been decided of a run stays: later output is no part of it.
LEMMA RunsStay ==
    ASSUME NEW s, Ring!Inv(s), NEW r, r.seen = s.now, r.frames = s.frames \cup {s.now}
                                                   \/ r.frames = s.frames,
           NEW f \in s.frames
    PROVE  /\ Ring!Long(r, f) <=> Ring!Long(s, f)
           /\ Ring!Last(s, f) => Ring!Last(r, f)
           /\ Ring!Last(r, f) /\ ~Ring!Last(s, f) =>
                f = s.lastOutputAt /\ Ring!Ended(s)
<1>1. /\ s.frames \subseteq Nat /\ s.now \in Nat /\ s.seen \in Nat /\ s.lastOutputAt \in Nat
      /\ s.lastOutputAt <= s.seen /\ s.seen <= s.now /\ f <= s.lastOutputAt /\ f \in Nat
      /\ s.lastOutputAt \in s.frames /\ f <= s.now
  BY DEF Ring!Inv, Ring!Typed, Ring!Noted
<1>2. \A g \in r.frames : g \in s.frames \/ g = s.now
  OBVIOUS
<1>3. s.frames \subseteq r.frames
  OBVIOUS
<1>4. \A g \in r.frames : g \in Nat /\ (g < f => g \in s.frames) /\ (g <= f => g \in s.frames)
  <2> TAKE g \in r.frames
  <2>1. CASE g = s.now
    <3>1. g <= f => g = f
      BY <2>1, <1>1
    <3> QED BY <2>1, <3>1, <1>1
  <2>2. CASE g \in s.frames
    BY <2>2, <1>1
  <2> QED BY <2>1, <2>2, <1>2
<1>5. Ring!RunOf(r, f) = Ring!RunOf(s, f)
  <2>1. ASSUME NEW e \in s.frames, e <= f
        PROVE  Ring!Linked(r, e, f) <=> Ring!Linked(s, e, f)
    <3>1. ASSUME Ring!Linked(r, e, f) PROVE Ring!Linked(s, e, f)
      <4> SUFFICES ASSUME NEW g \in s.frames, e < g, g <= f
                   PROVE  \E h \in s.frames : e <= h /\ h < g /\ g - h < RunGap
        BY DEF Ring!Linked
      <4>1. PICK h \in r.frames : e <= h /\ h < g /\ g - h < RunGap
        BY <3>1, <1>3 DEF Ring!Linked
      <4>2. h <= f
        BY <4>1, <1>1, <1>4
      <4> QED BY <4>1, <4>2, <1>4
    <3>2. ASSUME Ring!Linked(s, e, f) PROVE Ring!Linked(r, e, f)
      <4> SUFFICES ASSUME NEW g \in r.frames, e < g, g <= f
                   PROVE  \E h \in r.frames : e <= h /\ h < g /\ g - h < RunGap
        BY DEF Ring!Linked
      <4>1. g \in s.frames
        BY <1>4
      <4>2. PICK h \in s.frames : e <= h /\ h < g /\ g - h < RunGap
        BY <3>2, <4>1 DEF Ring!Linked
      <4> QED BY <4>2, <1>3
    <3> QED BY <3>1, <3>2
  <2>2. \A e \in r.frames : e <= f => e \in s.frames
    BY <1>4
  <2> QED BY <2>1, <2>2, <1>3 DEF Ring!RunOf
<1>6. Ring!Long(r, f) <=> Ring!Long(s, f)
  BY <1>5 DEF Ring!Long
<1>7. ASSUME Ring!Last(s, f)
      PROVE  Ring!Last(r, f)
  <2>1. s.seen >= f + RunGap /\ \A g \in s.frames : g > f => g - f >= RunGap
    BY <1>7 DEF Ring!Last
  <2>2. s.now >= f + RunGap /\ s.now - f >= RunGap
    BY <2>1, <1>1, PageAssumption
  <2> QED BY <2>1, <2>2, <1>2 DEF Ring!Last
<1>8. ASSUME Ring!Last(r, f), ~Ring!Last(s, f)
      PROVE  f = s.lastOutputAt /\ Ring!Ended(s)
  <2>1. s.now >= f + RunGap /\ \A g \in s.frames : g > f => g - f >= RunGap
    BY <1>8, <1>3 DEF Ring!Last
  <2>2. ~(s.seen >= f + RunGap)
    BY <2>1, <1>8 DEF Ring!Last
  <2>3. f = s.lastOutputAt
    <3>1. SUFFICES ASSUME s.lastOutputAt > f PROVE FALSE
      BY <1>1
    <3>2. s.lastOutputAt - f >= RunGap
      BY <2>1, <3>1, <1>1
    <3> QED BY <2>2, <3>2, <1>1, PageAssumption
  <2>4. s.runStart # 0
    BY <2>2, <2>3 DEF Ring!Inv, Ring!Running
  <2>5. s.now - s.lastOutputAt >= RunGap
    BY <2>1, <2>3, <1>1, PageAssumption
  <2> QED BY <2>3, <2>4, <2>5 DEF Ring!Ended
<1> QED BY <1>6, <1>7, <1>8

\* An evaluation, by the timer or by an output that is noted.
LEMMA BellTicks ==
    ASSUME NEW s, Ring!Inv(s), NEW frame \in BOOLEAN, NEW r, DOMAIN r = Ring!Fields,
           r.seen = s.now, r.frames = IF frame THEN s.frames \cup {s.now} ELSE s.frames,
           r.now = s.now, r.lastInputAt = s.lastInputAt,
           r.rang = Ring!RunTick(s, frame).rang,
           r.lastOutputAt = Ring!RunTick(s, frame).lastOutputAt,
           r.runStart = Ring!RunTick(s, frame).runStart
    PROVE  Ring!Inv(r)
<1> DEFINE rings == /\ Ring!Ended(s)
                    /\ s.lastOutputAt - s.runStart >= MinRun
                    /\ s.lastInputAt <= s.lastOutputAt
           n == s.now
           L == s.lastOutputAt
           R == s.runStart
<1>1. /\ r.rang = (IF rings THEN s.rang \cup {L} ELSE s.rang)
      /\ r.lastOutputAt = (IF frame THEN n ELSE L)
      /\ r.runStart = (IF frame /\ (R = 0 \/ Ring!Ended(s)) THEN n
                       ELSE IF Ring!Ended(s) THEN 0 ELSE R)
  <2>1. DOMAIN s = Ring!Fields
    BY DEF Ring!Inv, Ring!Typed
  <2> QED BY <2>1, TickWrites
<1>2. /\ s.frames \subseteq Nat /\ s.rang \subseteq s.frames /\ n \in Nat /\ L \in Nat /\ R \in Nat
      /\ s.seen \in Nat /\ s.lastInputAt \in Nat /\ n # 0 /\ L <= s.seen /\ s.seen <= n
      /\ s.lastInputAt <= n /\ L <= n
  BY DEF Ring!Inv, Ring!Typed
<1>3. /\ \A f \in s.frames : 0 < f /\ f <= L
      /\ L # 0 => L \in s.frames
      /\ R = 0 /\ s.frames # {} => s.seen >= L + RunGap
      /\ R # 0 => /\ R \in s.frames /\ s.seen < L + RunGap /\ Ring!Linked(s, R, L)
                  /\ \A h \in s.frames : h < R => R - h >= RunGap
  BY DEF Ring!Inv, Ring!Noted, Ring!Running
<1>4. Ring!Ended(s) <=> R # 0 /\ n - L >= RunGap
  BY DEF Ring!Ended
<1>5. Ring!Ended(s) => L \in s.frames
  BY <1>2, <1>3, <1>4
<1>6. r.frames = s.frames \cup {s.now} \/ r.frames = s.frames
  OBVIOUS
<1>7. Ring!Typed(r)
  <2>1. r.rang \subseteq r.frames
    BY <1>1, <1>2, <1>5
  <2>2. {r.now, r.lastOutputAt, r.lastInputAt, r.runStart, r.seen} \subseteq Nat
    BY <1>1, <1>2
  <2>3. r.frames \subseteq Nat
    BY <1>2
  <2>4. r.now # 0 /\ r.lastOutputAt <= r.seen /\ r.seen <= r.now /\ r.lastInputAt <= r.now
    BY <1>1, <1>2
  <2> QED BY <2>1, <2>2, <2>3, <2>4 DEF Ring!Typed
<1>8. Ring!Noted(r)
  <2>1. CASE frame
    <3>1. r.lastOutputAt = n /\ r.frames = s.frames \cup {n}
      BY <2>1, <1>1
    <3> QED BY <3>1, <1>2, <1>3 DEF Ring!Noted
  <2>2. CASE ~frame
    BY <2>2, <1>1, <1>3 DEF Ring!Noted
  <2> QED BY <2>1, <2>2
<1>9. Ring!Exact(r)
  <2> SUFFICES ASSUME NEW f \in r.frames
               PROVE  /\ f \in r.rang => Ring!Last(r, f) /\ Ring!Long(r, f)
                      /\ Ring!Last(r, f) /\ Ring!Long(r, f) /\ s.lastInputAt <= f => f \in r.rang
    BY DEF Ring!Exact
  <2>1. CASE f \in s.frames
    <3>1. /\ Ring!Long(r, f) <=> Ring!Long(s, f)
          /\ Ring!Last(s, f) => Ring!Last(r, f)
          /\ Ring!Last(r, f) /\ ~Ring!Last(s, f) => f = L /\ Ring!Ended(s)
      BY <2>1, <1>6, RunsStay
    <3>2. /\ f \in s.rang => Ring!Last(s, f) /\ Ring!Long(s, f)
          /\ Ring!Last(s, f) /\ Ring!Long(s, f) /\ s.lastInputAt <= f => f \in s.rang
      BY <2>1 DEF Ring!Inv, Ring!Exact
    <3>3. Ring!Ended(s) => (Ring!Long(s, L) <=> L - R >= MinRun)
      BY <1>4, RunBegins
    <3>4. ASSUME f = L, Ring!Ended(s)
          PROVE  Ring!Last(r, f)
      <4>1. n >= f + RunGap /\ n - f >= RunGap
        BY <3>4, <1>2, <1>4, PageAssumption
      <4>2. \A g \in r.frames : g > f => g = n
        BY <3>4, <1>2, <1>3
      <4> QED BY <4>1, <4>2 DEF Ring!Last
    <3>5. ASSUME f \in r.rang
          PROVE  Ring!Last(r, f) /\ Ring!Long(r, f)
      <4>1. CASE f \in s.rang
        BY <4>1, <3>1, <3>2
      <4>2. CASE f \notin s.rang
        <5>1. rings /\ f = L
          BY <4>2, <3>5, <1>1
        <5> QED BY <5>1, <3>1, <3>3, <3>4
      <4> QED BY <4>1, <4>2
    <3>6. ASSUME Ring!Last(r, f), Ring!Long(r, f), s.lastInputAt <= f
          PROVE  f \in r.rang
      <4>1. CASE Ring!Last(s, f)
        BY <4>1, <3>1, <3>2, <3>6, <1>1
      <4>2. CASE ~Ring!Last(s, f)
        <5>1. f = L /\ Ring!Ended(s)
          BY <4>2, <3>1, <3>6
        <5>2. rings
          BY <5>1, <3>1, <3>3, <3>6
        <5> QED BY <5>1, <5>2, <1>1
      <4> QED BY <4>1, <4>2
    <3> QED BY <3>5, <3>6
  <2>2. CASE f \notin s.frames
    <3>1. f = n
      BY <2>2
    <3>2. f \notin r.rang
      BY <2>2, <1>1, <1>2, <1>5
    <3>3. ~Ring!Last(r, f)
      BY <3>1, <1>2, PageAssumption DEF Ring!Last
    <3> QED BY <3>2, <3>3
  <2> QED BY <2>1, <2>2
<1>10. Ring!Running(r)
  <2>1. CASE frame /\ (R = 0 \/ Ring!Ended(s))
    <3>1. /\ r.runStart = n /\ r.lastOutputAt = n /\ r.frames = s.frames \cup {n}
      BY <2>1, <1>1
    <3>2. r.seen < r.lastOutputAt + RunGap
      BY <3>1, <1>2, PageAssumption
    <3>3. s.frames # {} => n - L >= RunGap
      BY <2>1, <1>2, <1>3, <1>4, PageAssumption
    <3>4. ASSUME NEW h \in r.frames, h < n
          PROVE  n - h >= RunGap
      <4>1. h \in s.frames /\ h <= L
        BY <3>1, <3>4, <1>2, <1>3
      <4> QED BY <4>1, <3>3, <1>2, PageAssumption
    <3>5. Ring!Linked(r, n, n)
      <4>1. \A g \in r.frames : g \in Nat
        BY <3>1, <1>2
      <4> QED BY <4>1, <1>2 DEF Ring!Linked
    <3> QED BY <3>1, <3>2, <3>4, <3>5, <1>2 DEF Ring!Running
  <2>2. CASE frame /\ ~(R = 0 \/ Ring!Ended(s))
    <3>1. /\ r.runStart = R /\ r.lastOutputAt = n /\ r.frames = s.frames \cup {n} /\ R # 0
      BY <2>2, <1>1
    <3>2. r.seen < r.lastOutputAt + RunGap
      BY <3>1, <1>2, PageAssumption
    <3>3. n - L < RunGap /\ R <= L /\ R <= n
      BY <2>2, <1>2, <1>3, <1>4, PageAssumption
    <3>4. \A h \in r.frames : h < R => R - h >= RunGap
      BY <3>1, <3>3, <1>2, <1>3
    <3>5. Ring!Linked(r, R, n)
      <4> SUFFICES ASSUME NEW g \in r.frames, R < g, g <= n
                   PROVE  \E h \in r.frames : R <= h /\ h < g /\ g - h < RunGap
        BY DEF Ring!Linked
      <4>1. CASE g \in s.frames
        <5>1. g <= L
          BY <4>1, <1>3
        <5>2. PICK h \in s.frames : R <= h /\ h < g /\ g - h < RunGap
          BY <4>1, <5>1, <1>3, <3>1 DEF Ring!Linked
        <5> QED BY <5>2, <3>1
      <4>2. CASE g \notin s.frames
        <5>1. g = n /\ L \in s.frames
          BY <4>2, <3>1, <1>2, <1>3
        <5>2. L < n
          BY <5>1, <4>2, <1>2
        <5> QED BY <5>1, <5>2, <3>1, <3>3
      <4> QED BY <4>1, <4>2
    <3> QED BY <3>1, <3>2, <3>4, <3>5, <1>3 DEF Ring!Running
  <2>3. CASE ~frame /\ Ring!Ended(s)
    <3>1. r.runStart = 0 /\ r.lastOutputAt = L
      BY <2>3, <1>1
    <3>2. n >= L + RunGap
      BY <2>3, <1>2, <1>4, PageAssumption
    <3> QED BY <3>1, <3>2 DEF Ring!Running
  <2>4. CASE ~frame /\ ~Ring!Ended(s)
    <3>1. r.runStart = R /\ r.lastOutputAt = L /\ r.frames = s.frames
      BY <2>4, <1>1
    <3>2. R = 0 /\ s.frames # {} => n >= L + RunGap
      BY <1>2, <1>3, PageAssumption
    <3>3. R # 0 => n < L + RunGap
      BY <2>4, <1>2, <1>4, PageAssumption
    <3>4. Ring!Linked(s, R, L) => Ring!Linked(r, R, L)
      BY <3>1 DEF Ring!Linked
    <3> QED BY <3>1, <3>2, <3>3, <3>4, <1>3 DEF Ring!Running
  <2> QED BY <2>1, <2>2, <2>3, <2>4
<1> QED BY <1>7, <1>8, <1>9, <1>10 DEF Ring!Inv

\* Nothing has been noted at first.
LEMMA BellInit == Ring!Init => Ring!Inv(x)
<1> SUFFICES ASSUME Ring!Init PROVE Ring!Inv(x)
  OBVIOUS
<1>1. PICK m \in BOOLEAN :
         x = [now |-> Ring!Start, lastOutputAt |-> 0, lastInputAt |-> 0, runStart |-> 0,
              suppressUntil |-> Ring!Start + Cooldown, latched |-> FALSE, active |-> FALSE,
              suppressed |-> m, frames |-> {}, rang |-> {}, seen |-> 0]
  BY DEF Ring!Init
<1>2. Ring!Start \in Nat \ {0}
  BY PageAssumption DEF Ring!Start
<1> QED BY <1>1, <1>2 DEF Ring!Inv, Ring!Typed, Ring!Fields, Ring!Noted, Ring!Running, Ring!Exact

\* Every output, evaluation, key and passing moment keeps the invariant.
LEMMA BellStep == Ring!Inv(x) /\ [Ring!Next]_x => Ring!Inv(x)'
<1> SUFFICES ASSUME Ring!Inv(x), [Ring!Next]_x PROVE Ring!Inv(x')
  BY DEF Ring!Inv, Ring!Typed, Ring!Noted, Ring!Running, Ring!Exact, Ring!Last, Ring!Long,
         Ring!RunOf, Ring!Linked
<1>0. /\ DOMAIN x = Ring!Fields /\ x.now \in Nat /\ x.lastInputAt \in Nat
      /\ x.lastInputAt <= x.now
  BY DEF Ring!Inv, Ring!Typed
<1>1. CASE Ring!Passes
  <2>1. x' = [x EXCEPT !.now = @ + 1]
    BY <1>1 DEF Ring!Passes
  <2>2. /\ DOMAIN x' = Ring!Fields /\ x'.frames = x.frames /\ x'.rang = x.rang
        /\ x'.seen = x.seen /\ x'.runStart = x.runStart /\ x'.lastOutputAt = x.lastOutputAt
        /\ x'.now = x.now + 1 /\ x'.lastInputAt = x.lastInputAt
    BY <2>1, <1>0 DEF Ring!Fields
  <2>3. x'.now \in Nat /\ x'.now >= x.now /\ x'.lastInputAt <= x'.now
        /\ x'.lastInputAt >= x.lastInputAt
    BY <2>2, <1>0
  <2> QED BY <2>2, <2>3, <1>0, BellStays
<1>2. CASE Ring!EvalBusy
  <2> DEFINE s1 == Ring!RunTick(x, FALSE)
  <2>1. x' = [s1 EXCEPT !.seen = x.now]
    BY <1>2 DEF Ring!EvalBusy
  <2>2. /\ DOMAIN s1 = Ring!Fields /\ s1.frames = x.frames /\ s1.now = x.now
        /\ s1.lastInputAt = x.lastInputAt
    BY <1>0, TickWrites
  <2>3. /\ DOMAIN x' = Ring!Fields /\ x'.frames = x.frames /\ x'.now = x.now
        /\ x'.lastInputAt = x.lastInputAt /\ x'.seen = x.now /\ x'.rang = s1.rang
        /\ x'.lastOutputAt = s1.lastOutputAt /\ x'.runStart = s1.runStart
    <3> HIDE DEF s1
    <3> QED BY <2>1, <2>2 DEF Ring!Fields
  <2> QED BY <2>3, BellTicks
<1>3. CASE Ring!NoteOutput
  <2> DEFINE s1 == Ring!RunTick(x, TRUE)
  <2>1. x' = [s1 EXCEPT !.seen = x.now, !.frames = @ \cup {x.now}]
    BY <1>3 DEF Ring!NoteOutput
  <2>2. /\ DOMAIN s1 = Ring!Fields /\ s1.frames = x.frames /\ s1.now = x.now
        /\ s1.lastInputAt = x.lastInputAt
    BY <1>0, TickWrites
  <2>3. /\ DOMAIN x' = Ring!Fields /\ x'.frames = x.frames \cup {x.now} /\ x'.now = x.now
        /\ x'.lastInputAt = x.lastInputAt /\ x'.seen = x.now /\ x'.rang = s1.rang
        /\ x'.lastOutputAt = s1.lastOutputAt /\ x'.runStart = s1.runStart
    <3> HIDE DEF s1
    <3> QED BY <2>1, <2>2 DEF Ring!Fields
  <2> QED BY <2>3, BellTicks
<1>4. CASE Ring!Input
  <2>1. x' = [x EXCEPT !.lastInputAt = x.now]
    BY <1>4 DEF Ring!Input
  <2>2. /\ DOMAIN x' = Ring!Fields /\ x'.frames = x.frames /\ x'.rang = x.rang
        /\ x'.seen = x.seen /\ x'.runStart = x.runStart /\ x'.lastOutputAt = x.lastOutputAt
        /\ x'.now = x.now /\ x'.lastInputAt = x.now
    BY <2>1, <1>0 DEF Ring!Fields
  <2>3. x'.now >= x.now /\ x'.lastInputAt <= x'.now /\ x'.lastInputAt >= x.lastInputAt
    BY <2>2, <1>0
  <2> QED BY <2>2, <2>3, <1>0, BellStays
<1>5. CASE Ring!Bel
  <2>1. x' = Ring!RingBell(x)
    BY <1>5 DEF Ring!Bel
  <2>2. x'.now >= x.now /\ x'.lastInputAt >= x.lastInputAt
    BY <2>1, <1>0, BellRings
  <2> QED BY <2>1, <2>2, <1>0, BellRings, BellStays
<1>6. CASE Ring!Select \/ Ring!Leave \/ Ring!Loaded
  <2>1. /\ DOMAIN x' = Ring!Fields /\ x'.frames = x.frames /\ x'.rang = x.rang
        /\ x'.seen = x.seen /\ x'.runStart = x.runStart /\ x'.lastOutputAt = x.lastOutputAt
        /\ x'.now = x.now /\ x'.lastInputAt = x.lastInputAt
    BY <1>6, <1>0 DEF Ring!Fields, Ring!Select, Ring!Leave, Ring!Loaded
  <2>2. x'.now >= x.now /\ x'.lastInputAt >= x.lastInputAt
    BY <2>1, <1>0
  <2> QED BY <2>1, <2>2, <1>0, BellStays
<1>7. CASE UNCHANGED x
  BY <1>7
<1> QED BY <1>1, <1>2, <1>3, <1>4, <1>5, <1>6, <1>7 DEF Ring!Next

\* Bell!RingsExact: the runs that ring are those that lasted long enough and
\* are over, whatever the timers leave out (runTick, _noteOutput, _evalBusy).
THEOREM BellsAreExact == Spec => []RingsExact
<1> DEFINE I == part = "bell" => Ring!Inv(x)
<1>1. Init => I
  BY BellInit DEF Init
<1>2. I /\ [Next]_vars => I'
  BY PartAlone, BellStep
<1>3. I => RingsExact
  BY DEF RingsExact, Ring!RingsExact, Ring!Inv
<1> HIDE DEF I
<1> QED BY <1>1, <1>2, <1>3, PTL DEF Spec

-----------------------------------------------------------------------------
\* Search: the highlights of a search.

\* What is searched for marks the session of the open search (_runSearch).
LEMMA SearchMarks ==
    ASSUME NEW s, Finder!Inv(s), NEW r \in Finder!RunSearch(s)
    PROVE  Finder!Inv(r)
<1> USE DEF Finder!Inv, Finder!Marked, Finder!Fields
<1>1. CASE s.sid \notin s.live
  BY <1>1 DEF Finder!RunSearch
<1>2. CASE s.sid \in s.live /\ s.search.text = None
  <2>1. r = [Finder!ClearSearch(s) EXCEPT !.regexError = FALSE]
    BY <1>2 DEF Finder!RunSearch
  <2>2. Finder!ClearSearch(s) = [s EXCEPT !.marks = [s.marks EXCEPT ![s.sid] = None]]
    BY <1>2 DEF Finder!ClearSearch
  <2>3. r = [[s EXCEPT !.marks = [s.marks EXCEPT ![s.sid] = None]] EXCEPT !.regexError = FALSE]
    BY <2>1, <2>2
  <2> QED BY <1>2, <2>3
<1>3. CASE s.sid \in s.live /\ s.search.text # None /\ s.search.regex /\ s.search.text \in Bad
  <2>1. r = [s EXCEPT !.regexError = TRUE]
    BY <1>3 DEF Finder!RunSearch
  <2> QED BY <2>1
<1>4. CASE /\ s.sid \in s.live /\ s.search.text # None
           /\ ~(s.search.regex /\ s.search.text \in Bad)
  <2>1. \/ r = [s EXCEPT !.regexError = FALSE,
                         !.marks[s.sid] = IF s.decorates THEN s.search ELSE @]
        \/ r = [s EXCEPT !.regexError = FALSE, !.decorates = FALSE]
    BY <1>4 DEF Finder!RunSearch
  <2>2. \/ r.marks = [s.marks EXCEPT ![s.sid] = s.search]
        \/ r.marks = s.marks
    <3> DEFINE m == IF s.decorates THEN s.search ELSE s.marks[s.sid]
    <3>1. \/ r.marks = [s.marks EXCEPT ![s.sid] = m]
          \/ r.marks = s.marks
      <4> HIDE DEF m
      <4>1. \/ r = [s EXCEPT !.regexError = FALSE, !.marks[s.sid] = m]
            \/ r = [s EXCEPT !.regexError = FALSE, !.decorates = FALSE]
        BY <2>1 DEF m
      <4> QED BY <4>1
    <3>2. s.sid \in Shells
      BY <1>4
    <3> QED BY <3>1, <3>2
  <2>3. /\ DOMAIN r = Finder!Fields /\ r.live = s.live /\ r.sid = s.sid /\ r.bar = s.bar
        /\ r.active = s.active
    BY <2>1
  <2> QED BY <1>4, <2>2, <2>3
<1> QED BY <1>1, <1>2, <1>3, <1>4

\* A search that is closed leaves no marks (closeSearch).
LEMMA SearchCloses ==
    ASSUME NEW s, Finder!Marked(s)
    PROVE  Finder!Inv(Finder!CloseSearch(s))
<1> USE DEF Finder!Marked, Finder!Fields
<1> DEFINE q == Finder!DropBar(s)
           c == Finder!ClearSearch(q)
           r == Finder!CloseSearch(s)
<1>1. /\ DOMAIN q = Finder!Fields /\ q.live = s.live /\ q.sid = s.sid /\ q.marks = s.marks
      /\ q.bar = None
  BY DEF Finder!DropBar
<1> HIDE DEF q
<1>2. /\ DOMAIN c = Finder!Fields /\ c.live = s.live /\ c.bar = None
      /\ \/ q.sid \in q.live /\ c.marks = [s.marks EXCEPT ![s.sid] = None]
         \/ q.sid \notin q.live /\ c.marks = s.marks
  <2>1. CASE q.sid \in q.live
    <3>1. c = [q EXCEPT !.marks[q.sid] = None]
      BY <2>1 DEF Finder!ClearSearch
    <3> QED BY <1>1, <2>1, <3>1
  <2>2. CASE q.sid \notin q.live
    BY <1>1, <2>2 DEF Finder!ClearSearch
  <2> QED BY <2>1, <2>2
<1> HIDE DEF c
<1>3. r = [c EXCEPT !.sid = None]
  BY DEF Finder!CloseSearch, c, q
<1> HIDE DEF r
<1>4. /\ DOMAIN r = Finder!Fields /\ r.live = s.live /\ r.bar = None /\ r.sid = None
      /\ r.marks = c.marks
  BY <1>2, <1>3
<1>5. r.marks = [t \in Shells |-> r.marks[t]] /\ \A t \in Shells : r.marks[t] = None
  BY <1>1, <1>2, <1>4
<1>6. Finder!Inv(r)
  BY <1>4, <1>5 DEF Finder!Inv
<1> QED BY <1>6 DEF r

\* The search ends when another session becomes active (setActive).
LEMMA SearchFollows ==
    ASSUME NEW s, Finder!Marked(s), NEW a, a # s.sid \/ s.bar = s.sid, s.sid # None \/ s.bar = None
    PROVE  Finder!Inv(Finder!SetActive(s, a))
<1> DEFINE q == [s EXCEPT !.active = a]
<1>1. /\ DOMAIN q = Finder!Fields /\ q.live = s.live /\ q.sid = s.sid /\ q.marks = s.marks
      /\ q.bar = s.bar /\ q.active = a
  BY DEF Finder!Marked, Finder!Fields
<1>2. Finder!SetActive(s, a) = IF s.sid \notin {None, a} THEN Finder!CloseSearch(q) ELSE q
  BY DEF Finder!SetActive
<1> HIDE DEF q
<1>3. Finder!Marked(q)
  BY <1>1 DEF Finder!Marked
<1>4. CASE s.sid \notin {None, a}
  BY <1>2, <1>3, <1>4, SearchCloses
<1>5. CASE s.sid \in {None, a}
  BY <1>1, <1>2, <1>3, <1>5 DEF Finder!Inv
<1> QED BY <1>4, <1>5

\* Nothing is searched for at first.
LEMMA SearchInit == Finder!Init => Finder!Inv(x)
  BY DEF Finder!Init, Finder!Inv, Finder!Marked, Finder!Fields

\* Every selection, query and end of a search keeps the invariant.
LEMMA SearchStep == Finder!Inv(x) /\ [Finder!Next]_x => Finder!Inv(x)'
<1> SUFFICES ASSUME Finder!Inv(x), [Finder!Next]_x PROVE Finder!Inv(x')
  OBVIOUS
<1>t. Finder!Marked(x) /\ DOMAIN x = Finder!Fields
  BY DEF Finder!Inv, Finder!Marked
<1>s. ASSUME NEW s, Finder!Inv(s), NEW r, DOMAIN r = Finder!Fields, r.live = s.live,
             r.active = s.active, r.sid = s.sid, r.bar = s.bar, r.marks = s.marks
      PROVE  Finder!Inv(r)
  BY <1>s DEF Finder!Inv, Finder!Marked
<1>p. ASSUME NEW S, \A s \in S : Finder!Inv(s), Finder!Steps(S)
      PROVE  Finder!Inv(x')
  <2>1. PICK s \in S : x' = [s EXCEPT !.steps = s.steps + 1]
    BY <1>p DEF Finder!Steps
  <2>2. Finder!Inv(s) /\ DOMAIN s = Finder!Fields
    BY <1>p DEF Finder!Inv, Finder!Marked
  <2>3. /\ DOMAIN x' = Finder!Fields /\ x'.live = s.live /\ x'.active = s.active
        /\ x'.sid = s.sid /\ x'.bar = s.bar /\ x'.marks = s.marks
    BY <2>1, <2>2 DEF Finder!Fields
  <2> QED BY <2>2, <2>3, <1>s
<1>r. ASSUME NEW s, Finder!Inv(s), NEW typed, NEW r \in Finder!Run(s, typed)
      PROVE  Finder!Inv(r)
  <2> DEFINE q == [s EXCEPT !.search = typed]
  <2>1. r = s \/ r \in Finder!RunSearch(q)
    BY <1>r DEF Finder!Run
  <2>2. /\ DOMAIN q = Finder!Fields /\ q.live = s.live /\ q.active = s.active
        /\ q.sid = s.sid /\ q.bar = s.bar /\ q.marks = s.marks
    BY <1>r DEF Finder!Inv, Finder!Marked, Finder!Fields
  <2> HIDE DEF q
  <2>3. Finder!Inv(q)
    BY <1>r, <2>2, <1>s
  <2> QED BY <1>r, <2>1, <2>3, SearchMarks
<1>1. CASE Finder!OpenSearch
  <2> DEFINE s == [x EXCEPT !.sid = x.active, !.bar = x.active, !.field = Finder!Blank,
                        !.search = Finder!Blank, !.regexError = FALSE, !.decorates = TRUE]
  <2>1. x.sid = None /\ Finder!Steps({s})
    BY <1>1 DEF Finder!OpenSearch
  <2>2. /\ DOMAIN s = Finder!Fields /\ s.live = x.live /\ s.active = x.active
        /\ s.sid = x.active /\ s.bar = x.active /\ s.marks = x.marks
    BY <1>t DEF Finder!Fields
  <2> HIDE DEF s
  <2>3. Finder!Inv(s)
    BY <1>t, <2>1, <2>2, PageAssumption DEF Finder!Inv, Finder!Marked
  <2> QED BY <2>1, <2>3, <1>p
<1>2. ASSUME NEW q, Finder!Type(q)
      PROVE  Finder!Inv(x')
  <2> DEFINE s == [x EXCEPT !.field.text = q, !.timer = TRUE]
  <2>1. Finder!Steps({s})
    BY <1>2 DEF Finder!Type
  <2>2. /\ DOMAIN s = Finder!Fields /\ s.live = x.live /\ s.active = x.active
        /\ s.sid = x.sid /\ s.bar = x.bar /\ s.marks = x.marks
    BY <1>t DEF Finder!Fields
  <2> HIDE DEF s
  <2> QED BY <2>1, <2>2, <1>s, <1>p
<1>3. CASE Finder!ToggleRegex
  <2> DEFINE s == [x EXCEPT !.field.regex = ~@]
  <2>1. Finder!Steps(Finder!Run(s, s.field))
    BY <1>3 DEF Finder!ToggleRegex
  <2>2. /\ DOMAIN s = Finder!Fields /\ s.live = x.live /\ s.active = x.active
        /\ s.sid = x.sid /\ s.bar = x.bar /\ s.marks = x.marks
    BY <1>t DEF Finder!Fields
  <2> HIDE DEF s
  <2>3. Finder!Inv(s)
    BY <2>2, <1>s
  <2> QED BY <2>1, <2>3, <1>r, <1>p
<1>4. CASE Finder!Enter \/ Finder!Debounced
  <2> DEFINE s == [x EXCEPT !.timer = FALSE]
  <2>1. \/ Finder!Steps(Finder!Run(s, x.field)) \/ x' \in Finder!Run(s, x.field)
    BY <1>4 DEF Finder!Enter, Finder!Debounced
  <2>2. /\ DOMAIN s = Finder!Fields /\ s.live = x.live /\ s.active = x.active
        /\ s.sid = x.sid /\ s.bar = x.bar /\ s.marks = x.marks
    BY <1>t DEF Finder!Fields
  <2> HIDE DEF s
  <2>3. Finder!Inv(s)
    BY <2>2, <1>s
  <2> QED BY <2>1, <2>3, <1>r, <1>p
<1>5. ASSUME NEW t, Finder!OrphanDebounced(t)
      PROVE  Finder!Inv(x')
  <2> DEFINE s == [x EXCEPT !.orphans = @ \ {t}]
  <2>1. x' \in Finder!Run(s, t)
    BY <1>5 DEF Finder!OrphanDebounced
  <2>2. /\ DOMAIN s = Finder!Fields /\ s.live = x.live /\ s.active = x.active
        /\ s.sid = x.sid /\ s.bar = x.bar /\ s.marks = x.marks
    BY <1>t DEF Finder!Fields
  <2> HIDE DEF s
  <2>3. Finder!Inv(s)
    BY <2>2, <1>s
  <2> QED BY <2>1, <2>3, <1>r
<1>6. CASE Finder!NextMatch
  BY <1>6, <1>p, SearchMarks DEF Finder!NextMatch
<1>7. CASE Finder!Close
  BY <1>7, <1>t, <1>p, SearchCloses DEF Finder!Close
<1>8. ASSUME NEW a, Finder!Select(a)
      PROVE  Finder!Inv(x')
  <2>1. Finder!Inv(Finder!SetActive(x, a))
    BY <1>t, SearchFollows DEF Finder!Inv
  <2> QED BY <1>8, <2>1, <1>p DEF Finder!Select
<1>9. ASSUME NEW d \in Shells, Finder!Destroy(d)
      PROVE  Finder!Inv(x')
  <2> DEFINE q == IF x.bar = d THEN Finder!DropBar(x) ELSE x
             s == [q EXCEPT !.live = @ \ {d}, !.marks[d] = None]
  <2>1. /\ DOMAIN q = Finder!Fields /\ q.live = x.live /\ q.active = x.active
        /\ q.sid = x.sid /\ q.marks = x.marks
        /\ q.bar = IF x.bar = d THEN None ELSE x.bar
    <3>1. CASE x.bar = d
      BY <1>t, <3>1 DEF Finder!DropBar, Finder!Fields
    <3>2. CASE x.bar # d
      BY <1>t, <3>2
    <3> QED BY <3>1, <3>2
  <2>2. Finder!Steps(IF x.active # d THEN {s}
                     ELSE IF s.live = {} THEN {Finder!SetActive(s, None)}
                     ELSE {Finder!SetActive(s, a) : a \in s.live})
    BY <1>9 DEF Finder!Destroy
  <2> HIDE DEF q
  <2>3. /\ DOMAIN s = Finder!Fields /\ s.live = x.live \ {d} /\ s.active = x.active
        /\ s.sid = x.sid /\ s.bar = q.bar /\ s.marks = [x.marks EXCEPT ![d] = None]
    BY <2>1 DEF Finder!Fields
  <2> HIDE DEF s
  <2>4. Finder!Marked(s)
    BY <1>t, <2>3 DEF Finder!Marked
  <2>5. CASE x.active # d
    <3>1. x.bar # d
      BY <2>5, PageAssumption DEF Finder!Inv
    <3>2. Finder!Inv(s)
      BY <2>1, <2>3, <2>4, <3>1 DEF Finder!Inv
    <3> QED BY <2>2, <2>5, <3>2, <1>p
  <2>6. CASE x.active = d
    <3>1. x.sid = x.bar /\ x.sid \in {None, d} /\ d # None /\ d \notin s.live
      BY <2>3, <2>6, PageAssumption DEF Finder!Inv
    <3>2. \A a : a # d => Finder!Inv(Finder!SetActive(s, a))
      BY <2>1, <2>3, <2>4, <3>1, SearchFollows
    <3> QED BY <2>2, <2>6, <3>1, <3>2, <1>p
  <2> QED BY <2>5, <2>6
<1>10. CASE x' = x
  BY <1>10
<1> QED BY <1>1, <1>2, <1>3, <1>4, <1>5, <1>6, <1>7, <1>8, <1>9, <1>10 DEF Finder!Next

\* The invariant says whose the highlights are.
LEMMA SearchOwns == Finder!Inv(x) => Finder!HighlightsOwned
  BY PageAssumption DEF Finder!Inv, Finder!Marked, Finder!HighlightsOwned

\* Search!HighlightsOwned: highlights are of the session that is searched, and of
\* no other, for every number of sessions and queries (closeSearch).
THEOREM HighlightsAreOwned == Spec => []HighlightsOwned
<1> DEFINE I == part = "search" => Finder!Inv(x)
<1>1. Init => I
  BY SearchInit DEF Init
<1>2. I /\ [Next]_vars => I'
  BY PartAlone, SearchStep
<1>3. I => HighlightsOwned
  BY SearchOwns DEF HighlightsOwned
<1> HIDE DEF I
<1> QED BY <1>1, <1>2, <1>3, PTL DEF Spec

-----------------------------------------------------------------------------
\* Locking: the lock of the tabs of a browser.

\* A tab that is loaded anew owes nothing (initTerminal).
LEMMA ReloadPays ==
    ASSUME NEW s, NEW t \in Tabs, Locks!Typed(s),
           \A u \in (s.owes \ s.missed) \ {t} : Locks!Hears(s, u)
    PROVE  Locks!Inv(Locks!Reload(s, t))
<1> DEFINE r == Locks!Reload(s, t)
<1>1. /\ DOMAIN r = Locks!Fields /\ r.owes = s.owes \ {t}
      /\ r.missed = s.missed \ {t} /\ r.lockReq = s.lockReq
      /\ r.told = [s.told EXCEPT ![t] = 0]
      /\ \/ r.page = [s.page EXCEPT ![t] = "joining"]
         \/ r.page = [s.page EXCEPT ![t] = "prompt"]
  BY DEF Locks!Reload, Locks!Typed, Locks!Fields
<1> HIDE DEF r
<1>2. Locks!Typed(r)
  BY <1>1 DEF Locks!Typed, Locks!Pages
<1>3. \A u \in r.owes \ r.missed : Locks!Hears(r, u)
  BY <1>1 DEF Locks!Typed, Locks!Hears
<1>4. Locks!Inv(r)
  BY <1>2, <1>3 DEF Locks!Inv
<1> QED BY <1>4 DEF r

\* A signal reaches the other tabs that run, and takes none back (storage).
LEMMA SignalsAdd ==
    ASSUME NEW s, NEW t \in Tabs, Locks!Typed(s)
    PROVE  LET r == Locks!Signals(s, t)
           IN  /\ Locks!Typed(r) /\ r.owes = s.owes /\ r.missed = s.missed
               /\ r.page = s.page /\ r.lockReq = s.lockReq
               /\ \A u \in Tabs : r.told[u] \in Nat /\ r.told[u] >= s.told[u]
               /\ \A u \in Locks!Mates(t) : Locks!Alive(s, u) => r.told[u] > 0
<1> DEFINE r == Locks!Signals(s, t)
<1>1. /\ DOMAIN r = Locks!Fields /\ r.owes = s.owes /\ r.missed = s.missed /\ r.page = s.page
      /\ r.lockReq = s.lockReq
      /\ r.told = [u \in Tabs |-> IF u \in Locks!Mates(t) /\ Locks!Alive(s, u)
                                  THEN s.told[u] + 1 ELSE s.told[u]]
  BY DEF Locks!Signals, Locks!Typed, Locks!Fields
<1> HIDE DEF r
<1>2. Locks!Mates(t) \subseteq Tabs
  BY DEF Locks!Mates
<1>3. Locks!Typed(r)
  BY <1>1 DEF Locks!Typed
<1>4. /\ \A u \in Tabs : r.told[u] \in Nat /\ r.told[u] >= s.told[u]
      /\ \A u \in Locks!Mates(t) : Locks!Alive(s, u) => r.told[u] > 0
  BY <1>1, <1>2 DEF Locks!Typed
<1> QED BY <1>1, <1>3, <1>4 DEF r

\* After a lock every tab of the browser hears of it, the frozen ones when they
\* come back (lock).
LEMMA LockSignals ==
    ASSUME NEW s, NEW t \in Tabs, Locks!Inv(s)
    PROVE  Locks!Inv(Locks!Lock(s, t))
<1> DEFINE d == DeviceOf[t]
           here == {u \in Locks!Mates(t) : s.page[u] # "gone"}
           q == [s EXCEPT !.cached[d] = FALSE, !.lockReq[d] = TRUE,
                          !.owes = @ \cup here, !.missed = @ \ here]
           r == Locks!Signals(q, t)
<1>1. Locks!Typed(s) /\ \A u \in s.owes \ s.missed : Locks!Hears(s, u)
  BY DEF Locks!Inv
<1>2. d \in Locks!Devices
  BY DEF Locks!Devices
<1>3. /\ DOMAIN q = Locks!Fields /\ q.page = s.page /\ q.told = s.told
      /\ q.lockReq = [s.lockReq EXCEPT ![d] = TRUE]
      /\ q.owes = s.owes \cup here /\ q.missed = s.missed \ here
  BY <1>1 DEF Locks!Typed, Locks!Fields
<1> HIDE DEF q
<1>4. Locks!Typed(q)
  BY <1>1, <1>3 DEF Locks!Typed, Locks!Mates
<1>5. /\ Locks!Typed(r) /\ r.owes = q.owes /\ r.missed = q.missed /\ r.page = q.page
      /\ r.lockReq = q.lockReq
      /\ \A u \in Tabs : r.told[u] \in Nat /\ r.told[u] >= q.told[u]
      /\ \A u \in Locks!Mates(t) : Locks!Alive(q, u) => r.told[u] > 0
  BY <1>4, SignalsAdd
<1> HIDE DEF r, d
<1>6. \A u \in (r.owes \ r.missed) \ {t} : Locks!Hears(r, u)
  <2> TAKE u \in (r.owes \ r.missed) \ {t}
  <2>1. u \in Tabs
    BY <1>5 DEF Locks!Typed
  <2>2. CASE u \in s.owes \ s.missed
    <3>1. s.told[u] > 0 \/ (s.page[u] = "frozen" /\ s.lockReq[DeviceOf[u]])
      BY <1>1, <2>2 DEF Locks!Hears
    <3>2. CASE s.told[u] > 0
      <4>1. s.told[u] \in Nat /\ r.told[u] \in Nat /\ r.told[u] >= s.told[u]
        BY <1>1, <1>3, <1>5, <2>1 DEF Locks!Typed
      <4> QED BY <3>2, <4>1 DEF Locks!Hears
    <3>3. CASE s.page[u] = "frozen" /\ s.lockReq[DeviceOf[u]]
      <4>1. DeviceOf[u] \in Locks!Devices
        BY <2>1 DEF Locks!Devices
      <4>2. r.page[u] = "frozen" /\ r.lockReq[DeviceOf[u]]
        BY <1>1, <1>3, <1>5, <3>3, <4>1 DEF Locks!Typed
      <4> QED BY <4>2 DEF Locks!Hears
    <3> QED BY <3>1, <3>2, <3>3
  <2>3. CASE u \in here
    <3>1. CASE s.page[u] = "frozen"
      <4>1. DeviceOf[u] = d
        BY <2>3 DEF Locks!Mates, d
      <4>2. r.page[u] = "frozen" /\ r.lockReq[DeviceOf[u]]
        BY <1>1, <1>2, <1>3, <1>5, <3>1, <4>1 DEF Locks!Typed
      <4> QED BY <4>2 DEF Locks!Hears
    <3>2. CASE s.page[u] # "frozen"
      BY <1>3, <1>5, <2>3, <3>2 DEF Locks!Alive, Locks!Hears
    <3> QED BY <3>1, <3>2
  <2> QED BY <1>3, <1>5, <2>2, <2>3
<1>7. Locks!Lock(s, t) = Locks!Reload(r, t)
  BY DEF Locks!Lock, r, q, d, here
<1> QED BY <1>5, <1>6, <1>7, ReloadPays

\* No tab is open at first.
LEMMA LockingInit == Locks!Init => Locks!Inv(x)
  BY DEF Locks!Init, Locks!Inv, Locks!Typed, Locks!Fields, Locks!Pages

\* Every step of a tab keeps the invariant.
LEMMA LockingStep == Locks!Inv(x) /\ [Locks!Next]_x => Locks!Inv(x)'
<1> SUFFICES ASSUME Locks!Inv(x), [Locks!Next]_x PROVE Locks!Inv(x')
  OBVIOUS
<1>t. DOMAIN x = Locks!Fields /\ Locks!Typed(x) /\ \A t \in x.owes \ x.missed : Locks!Hears(x, t)
  BY DEF Locks!Inv, Locks!Typed
\* A step that touches none of the fields the invariant is about.
<1>s. ASSUME NEW s, Locks!Inv(s), NEW r, DOMAIN r = Locks!Fields, r.page = s.page,
             r.told = s.told, r.lockReq = s.lockReq, r.owes = s.owes, r.missed = s.missed
      PROVE  Locks!Inv(r)
  BY <1>s DEF Locks!Inv, Locks!Typed, Locks!Hears
<1>p. ASSUME NEW s, Locks!Inv(s), Locks!Steps(s)
      PROVE  Locks!Inv(x')
  <2>1. x' = [s EXCEPT !.steps = s.steps + 1] /\ DOMAIN s = Locks!Fields
    BY <1>p DEF Locks!Steps, Locks!Inv, Locks!Typed
  <2>2. /\ DOMAIN x' = Locks!Fields /\ x'.page = s.page /\ x'.told = s.told
        /\ x'.lockReq = s.lockReq /\ x'.owes = s.owes /\ x'.missed = s.missed
    BY <2>1 DEF Locks!Fields
  <2> QED BY <1>p, <2>2, <1>s
\* A step that changes the page of one tab.
<1>g. ASSUME NEW t \in Tabs, NEW p \in Locks!Pages, NEW s, DOMAIN s = Locks!Fields,
             s.page = [x.page EXCEPT ![t] = p], s.told = x.told, s.lockReq = x.lockReq,
             s.owes = x.owes, s.missed = x.missed, x.page[t] # "frozen" \/ ~x.lockReq[DeviceOf[t]]
      PROVE  Locks!Inv(s)
  BY <1>t, <1>g DEF Locks!Inv, Locks!Typed, Locks!Hears
<1>1. CASE Locks!TimePasses
  <2>1. Locks!Inv([x EXCEPT !.idle = Tabs])
    BY <1>t, <1>s DEF Locks!Fields
  <2> QED BY <1>1, <2>1, <1>p DEF Locks!TimePasses
<1>2. ASSUME NEW t \in Tabs, Locks!LockHere(t) \/ Locks!Autolock(t)
      PROVE  Locks!Inv(x')
  BY <1>2, <1>p, LockSignals DEF Locks!LockHere, Locks!Autolock
<1>3. ASSUME NEW t \in Tabs, Locks!LockAll(t)
      PROVE  Locks!Inv(x')
  <2>1. PICK v : Locks!Steps(Locks!Lock([x EXCEPT !.server = v], t))
    BY <1>3 DEF Locks!LockAll
  <2>2. Locks!Inv([x EXCEPT !.server = v])
    BY <1>t, <1>s DEF Locks!Fields
  <2> QED BY <2>1, <2>2, <1>p, LockSignals
<1>4. ASSUME NEW t \in Tabs, Locks!LockAllArrives(t)
      PROVE  Locks!Inv(x')
  <2> DEFINE s == [x EXCEPT !.server = @ \ {t}]
  <2>1. Locks!Inv(s)
    BY <1>t, <1>s DEF Locks!Fields
  <2>2. x' = IF s.page[t] = "open" THEN Locks!Lock(s, t) ELSE s
    BY <1>4 DEF Locks!LockAllArrives
  <2> HIDE DEF s
  <2> QED BY <2>1, <2>2, LockSignals
<1>5. ASSUME NEW t \in Tabs, Locks!Activity(t) \/ Locks!Focus(t)
      PROVE  Locks!Inv(x')
  <2>1. /\ DOMAIN x' = Locks!Fields /\ x'.page = x.page /\ x'.told = x.told
        /\ x'.lockReq = x.lockReq /\ x'.owes = x.owes /\ x'.missed = x.missed
    BY <1>t, <1>5 DEF Locks!Activity, Locks!Focus, Locks!Fields
  <2> QED BY <2>1, <1>s
<1>6. ASSUME NEW t \in Tabs, Locks!StorageEvent(t)
      PROVE  Locks!Inv(x')
  <2> DEFINE s == [x EXCEPT !.told[t] = @ - 1]
  <2>1. x' = Locks!Reload(s, t) /\ x.told[t] > 0
    BY <1>6 DEF Locks!StorageEvent
  <2>2. /\ DOMAIN s = Locks!Fields /\ s.page = x.page /\ s.lockReq = x.lockReq
        /\ s.owes = x.owes /\ s.missed = x.missed
        /\ s.told = [x.told EXCEPT ![t] = x.told[t] - 1]
    BY <1>t DEF Locks!Fields
  <2> HIDE DEF s
  <2>3. Locks!Typed(s) /\ \A u \in (s.owes \ s.missed) \ {t} : Locks!Hears(s, u)
    BY <1>t, <2>1, <2>2 DEF Locks!Typed, Locks!Hears
  <2> QED BY <2>1, <2>3, ReloadPays
<1>7. ASSUME NEW t \in Tabs, Locks!EnterSecret(t)
      PROVE  Locks!Inv(x')
  <2> DEFINE s == [x EXCEPT !.page[t] = "deriving"]
  <2>1. Locks!Steps(s) /\ x.page[t] = "prompt"
    BY <1>7 DEF Locks!EnterSecret
  <2>2. /\ DOMAIN s = Locks!Fields /\ s.page = [x.page EXCEPT ![t] = "deriving"]
        /\ s.told = x.told /\ s.lockReq = x.lockReq /\ s.owes = x.owes
        /\ s.missed = x.missed
    BY <1>t DEF Locks!Fields
  <2> HIDE DEF s
  <2>3. Locks!Inv(s)
    BY <2>1, <2>2, <1>g DEF Locks!Pages
  <2> QED BY <2>1, <2>3, <1>p
<1>8. ASSUME NEW t \in Tabs, Locks!Derived(t)
      PROVE  Locks!Inv(x')
  <2>1. /\ DOMAIN x' = Locks!Fields /\ x'.page = [x.page EXCEPT ![t] = "joining"]
        /\ x'.told = x.told /\ x'.lockReq = x.lockReq /\ x'.owes = x.owes
        /\ x'.missed = x.missed /\ x.page[t] = "deriving"
    BY <1>t, <1>8 DEF Locks!Derived, Locks!Fields
  <2> QED BY <2>1, <1>g DEF Locks!Pages
<1>9. ASSUME NEW t \in Tabs, Locks!Authenticated(t)
      PROVE  Locks!Inv(x')
  <2> DEFINE d  == DeviceOf[t]
             s  == [x EXCEPT !.page[t] = "open", !.lockReq[d] = FALSE]
             o  == {u \in s.owes :
                      DeviceOf[u] = d /\ s.page[u] = "frozen" /\ s.told[u] = 0}
             s1 == [s EXCEPT !.missed = @ \cup o]
  <2>1. /\ x.page[t] = "joining"
        /\ x' = IF x.lockReq[d] THEN Locks!Signals(s1, t) ELSE s
    BY <1>9 DEF Locks!Authenticated
  <2>2. /\ DOMAIN s = Locks!Fields /\ s.page = [x.page EXCEPT ![t] = "open"]
        /\ s.told = x.told /\ s.lockReq = [x.lockReq EXCEPT ![d] = FALSE] /\ s.owes = x.owes
        /\ s.missed = x.missed
    BY <1>t DEF Locks!Fields
  <2>3. /\ DOMAIN s1 = Locks!Fields /\ s1.page = s.page /\ s1.told = s.told
        /\ s1.lockReq = s.lockReq /\ s1.owes = x.owes
        /\ s1.missed = x.missed \cup o
    BY <2>2 DEF Locks!Fields
  <2>4. d \in Locks!Devices /\ \A u \in Tabs : DeviceOf[u] \in Locks!Devices
    BY DEF Locks!Devices
  <2> HIDE DEF s, s1, d
  <2>5. CASE ~x.lockReq[d]
    <3>1. Locks!Typed(s)
      BY <1>t, <2>2, <2>4 DEF Locks!Typed, Locks!Pages
    <3>2. \A u \in s.owes \ s.missed : Locks!Hears(s, u)
      BY <1>t, <2>1, <2>2, <2>4, <2>5 DEF Locks!Typed, Locks!Hears
    <3> QED BY <2>1, <2>5, <3>1, <3>2 DEF Locks!Inv
  <2>6. CASE x.lockReq[d]
    <3>1. Locks!Typed(s1)
      BY <1>t, <2>2, <2>3, <2>4 DEF Locks!Typed, Locks!Pages
    <3>2. \A u \in s1.owes \ s1.missed : Locks!Hears(s1, u)
      BY <1>t, <2>1, <2>2, <2>3, <2>4 DEF Locks!Typed, Locks!Hears
    <3> DEFINE r == Locks!Signals(s1, t)
    <3>3. /\ Locks!Typed(r) /\ r.owes = s1.owes /\ r.missed = s1.missed
          /\ r.page = s1.page /\ r.lockReq = s1.lockReq
          /\ \A u \in Tabs : r.told[u] \in Nat /\ r.told[u] >= s1.told[u]
      BY <3>1, SignalsAdd
    <3>4. x' = r
      BY <2>1, <2>6
    <3> HIDE DEF r
    <3>5. \A u \in r.owes \ r.missed : Locks!Hears(r, u)
      BY <3>1, <3>2, <3>3 DEF Locks!Typed, Locks!Hears
    <3> QED BY <3>3, <3>4, <3>5 DEF Locks!Inv
  <2> QED BY <2>5, <2>6
<1>10. ASSUME NEW t \in Tabs, Locks!Freeze(t)
       PROVE  Locks!Inv(x')
  <2> DEFINE s == [x EXCEPT !.page[t] = "frozen", !.focus = IF @ = t THEN None ELSE @]
  <2>1. Locks!Steps(s) /\ x.page[t] = "open"
    BY <1>10 DEF Locks!Freeze
  <2>2. /\ DOMAIN s = Locks!Fields /\ s.page = [x.page EXCEPT ![t] = "frozen"]
        /\ s.told = x.told /\ s.lockReq = x.lockReq /\ s.owes = x.owes
        /\ s.missed = x.missed
    BY <1>t DEF Locks!Fields
  <2> HIDE DEF s
  <2>3. Locks!Inv(s)
    BY <2>1, <2>2, <1>g DEF Locks!Pages
  <2> QED BY <2>1, <2>3, <1>p
<1>11. ASSUME NEW t \in Tabs, Locks!Restore(t)
       PROVE  Locks!Inv(x')
  <2>1. CASE x.lockReq[DeviceOf[t]]
    BY <1>t, <1>11, <2>1, ReloadPays DEF Locks!Restore
  <2>2. CASE ~x.lockReq[DeviceOf[t]]
    <3>1. /\ DOMAIN x' = Locks!Fields /\ x'.page = [x.page EXCEPT ![t] = "open"]
          /\ x'.told = x.told /\ x'.lockReq = x.lockReq /\ x'.owes = x.owes
          /\ x'.missed = x.missed
      BY <1>t, <1>11, <2>2 DEF Locks!Restore, Locks!Fields
    <3> QED BY <2>2, <3>1, <1>g DEF Locks!Pages
  <2> QED BY <2>1, <2>2
<1>12. ASSUME NEW t \in Tabs, Locks!Close(t)
       PROVE  Locks!Inv(x')
  <2> DEFINE s == [x EXCEPT !.page[t] = "gone", !.told[t] = 0,
                            !.focus = IF @ = t THEN None ELSE @, !.owes = @ \ {t},
                            !.missed = @ \ {t}]
  <2>1. Locks!Steps(s)
    BY <1>12 DEF Locks!Close
  <2>2. /\ DOMAIN s = Locks!Fields /\ s.page = [x.page EXCEPT ![t] = "gone"]
        /\ s.told = [x.told EXCEPT ![t] = 0] /\ s.lockReq = x.lockReq /\ s.owes = x.owes \ {t}
        /\ s.missed = x.missed \ {t}
    BY <1>t DEF Locks!Fields
  <2> HIDE DEF s
  <2>3. Locks!Inv(s)
    BY <1>t, <2>2 DEF Locks!Inv, Locks!Typed, Locks!Hears, Locks!Pages
  <2> QED BY <2>1, <2>3, <1>p
<1>13. ASSUME NEW t \in Tabs, Locks!Open(t)
       PROVE  Locks!Inv(x')
  BY <1>t, <1>13, <1>p, ReloadPays DEF Locks!Open
<1>14. CASE x' = x
  BY <1>14
<1> QED BY <1>1, <1>2, <1>3, <1>4, <1>5, <1>6, <1>7, <1>8, <1>9, <1>10, <1>11, <1>12, <1>13,
           <1>14 DEF Locks!Next

\* The invariant says what a tab that owes a lock waits for.
LEMMA LockingReaches == Locks!Inv(x) => Locks!LockReachesAll
  BY DEF Locks!Inv, Locks!Hears, Locks!LockReachesAll

\* Locking!LockReachesAll: a tab that was there when another of its browser locked
\* is locked or will hear of it, for every number of tabs and browsers, but for
\* one that was frozen when the signal was taken back (lock-req).
THEOREM EveryTabHearsTheLock == Spec => []LockReachesAll
<1> DEFINE I == part = "locking" => Locks!Inv(x)
<1>1. Init => I
  BY LockingInit DEF Init
<1>2. I /\ [Next]_vars => I'
  BY PartAlone, LockingStep
<1>3. I => LockReachesAll
  BY LockingReaches DEF LockReachesAll
<1> HIDE DEF I
<1> QED BY <1>1, <1>2, <1>3, PTL DEF Spec

-----------------------------------------------------------------------------
\* AppUpdate: the version of a page.

\* What a request of the page for a url makes of its state (cacheFirst).
Answered(s, u, r) ==
    /\ DOMAIN r = Versions!Fields
    /\ r.server = s.server /\ r.installing = s.installing /\ r.todo = s.todo
    /\ r.waiting = s.waiting /\ r.active = s.active /\ r.stamped = s.stamped
    /\ r.retry = s.retry /\ r.forced = s.forced
    /\ r.clean = (s.clean /\ Versions!CachesWhole(s))
    /\ r.stray \in BOOLEAN /\ (s.stray => r.stray)
    /\ DOMAIN r.page = Versions!Urls
    /\ \A w \in Versions!Urls \ {u} : r.page[w] = s.page[w]
    /\ s.active = None => r.page[u] = s.server /\ r.cache = s.cache
    /\ \/ r.cache = s.cache
       \/ /\ s.active # None
          /\ \E k \in Versions!Keys : r.cache = [s.cache EXCEPT ![s.active][k] = s.server]
    /\ s.active # None /\ Versions!CachesWhole(s) /\ ~r.stray =>
         r.cache = s.cache /\ r.page[u] = s.cache[s.active][u]

\* A request of the page is answered by the worker's own cache, the oldest, as
\* long as every worker holds one whole version, and unless the page's address
\* makes it stray (cacheFirst).
LEMMA CacheAnswers ==
    ASSUME NEW s, Versions!Typed(s), Versions!Ordered(s), NEW u \in Versions!Urls,
           NEW r, r = Versions!CacheFirst(s, u)
    PROVE  Answered(s, u, r)
<1> DEFINE k == IF u = "html" /\ s.stamped THEN "stamped" ELSE u
           have == {v \in Versions!Versions : s.cache[v][k] # None}
           least == Versions!Least(have)
           c == s.clean /\ Versions!CachesWhole(s)
           d == s.stray \/ (k = "stamped" /\ s.active # None)
           s1 == [s EXCEPT !.clean = c, !.stray = d]
<1> USE DEF Versions!Typed, Versions!Fields
<1>k. /\ k \in Versions!Keys /\ d \in BOOLEAN
      /\ s.active # None /\ ~d => k = u
  <2>1. k = "stamped" \/ k = u
    OBVIOUS
  <2>2. k \in Versions!Keys
    BY <2>1 DEF Versions!Keys
  <2>3. d \in BOOLEAN
    OBVIOUS
  <2> QED BY <2>1, <2>2, <2>3
<1>r. r = IF s.active = None \/ have = {} THEN Versions!Network(s1, u, k)
          ELSE [s1 EXCEPT !.page[u] = s.cache[least][k]]
  BY DEF Versions!CacheFirst
<1> HIDE DEF k, c, d
<1>s. /\ DOMAIN s1 = Versions!Fields
      /\ s1.server = s.server /\ s1.installing = s.installing /\ s1.todo = s.todo
      /\ s1.waiting = s.waiting /\ s1.active = s.active /\ s1.stamped = s.stamped
      /\ s1.retry = s.retry /\ s1.forced = s.forced /\ s1.clean = c /\ s1.stray = d
      /\ s1.page = s.page /\ s1.cache = s.cache
  OBVIOUS
<1> HIDE DEF s1
<1>d. (s.stray => d) /\ (c = (s.clean /\ Versions!CachesWhole(s)))
  BY DEF c, d
<1>1. CASE s.active = None
  <2>1. r = [s1 EXCEPT !.page[u] = s.server, !.cache = s.cache]
    BY <1>1, <1>r, <1>s DEF Versions!Network
  <2>2. /\ DOMAIN r = Versions!Fields
        /\ r.server = s.server /\ r.installing = s.installing /\ r.todo = s.todo
        /\ r.waiting = s.waiting /\ r.active = s.active /\ r.stamped = s.stamped
        /\ r.retry = s.retry /\ r.forced = s.forced /\ r.clean = c /\ r.stray = d
        /\ r.page = [s.page EXCEPT ![u] = s.server] /\ r.cache = s.cache
    BY <1>s, <2>1
  <2> QED BY <1>1, <1>k, <1>d, <2>2 DEF Answered
<1>2. CASE s.active # None /\ have # {}
  <2>0. r = [s1 EXCEPT !.page[u] = s.cache[least][k]]
    BY <1>2, <1>r
  <2>1. s.active \in Versions!Versions
    BY <1>2 DEF Versions!Some
  <2>2. ASSUME Versions!CachesWhole(s), k = u
        PROVE  least = s.active
    <3>1. s.active \in have
      <4>1. Versions!Whole(s.cache[s.active])
        BY <2>1, <2>2 DEF Versions!CachesWhole
      <4> QED BY <2>1, <2>2, <4>1, PageAssumption DEF Versions!Whole, Versions!Versions
    <3>2. \A v \in have : v \in Int /\ s.active \in Int /\ s.active <= v
      BY <1>2, <1>k, <2>1 DEF Versions!Ordered, Versions!Versions
    <3>3. least \in have /\ \A w \in have : least <= w
      BY <3>1, <3>2 DEF Versions!Least
    <3> HIDE DEF have, least
    <3> QED BY <3>1, <3>2, <3>3
  <2> HIDE DEF least, have
  <2>3. /\ DOMAIN r = Versions!Fields
        /\ r.server = s.server /\ r.installing = s.installing /\ r.todo = s.todo
        /\ r.waiting = s.waiting /\ r.active = s.active /\ r.stamped = s.stamped
        /\ r.retry = s.retry /\ r.forced = s.forced /\ r.clean = c /\ r.stray = d
        /\ r.page = [s.page EXCEPT ![u] = s.cache[least][k]] /\ r.cache = s.cache
    BY <1>s, <2>0
  <2> QED BY <1>2, <1>k, <1>d, <2>2, <2>3 DEF Answered
<1>3. CASE s.active # None /\ have = {}
  <2>0. r = [s1 EXCEPT !.page[u] = s.server,
                       !.cache = [s.cache EXCEPT ![s.active][k] = s.server]]
    BY <1>3, <1>r, <1>s DEF Versions!Network
  <2>1. s.active \in Versions!Versions
    BY <1>3 DEF Versions!Some
  <2>2. ~(Versions!CachesWhole(s) /\ k = u)
    <3> SUFFICES ASSUME Versions!CachesWhole(s), k = u PROVE FALSE
      OBVIOUS
    <3>1. Versions!Whole(s.cache[s.active])
      BY <2>1 DEF Versions!CachesWhole
    <3>2. s.active \in have
      BY <2>1, <3>1, PageAssumption DEF Versions!Whole, Versions!Versions
    <3> QED BY <1>3, <3>2
  <2> HIDE DEF have
  <2>3. /\ DOMAIN r = Versions!Fields
        /\ r.server = s.server /\ r.installing = s.installing /\ r.todo = s.todo
        /\ r.waiting = s.waiting /\ r.active = s.active /\ r.stamped = s.stamped
        /\ r.retry = s.retry /\ r.forced = s.forced /\ r.clean = c /\ r.stray = d
        /\ r.page = [s.page EXCEPT ![u] = s.server]
        /\ r.cache = [s.cache EXCEPT ![s.active][k] = s.server]
    BY <1>s, <2>0
  <2> QED BY <1>3, <1>k, <1>d, <2>2, <2>3 DEF Answered
<1> QED BY <1>1, <1>2, <1>3

\* A worker that takes over is the first of those that are left, and a page that
\* is under way is disturbed (activate).
LEMMA WorkerActivates ==
    ASSUME NEW s, Versions!Inv(s), NEW v \in Versions!Versions, v <= s.server,
           s.installing # None => v < s.installing,
           NEW r, r = Versions!Activate(s, v)
    PROVE  Versions!Inv(r)
<1> DEFINE c == [w \in Versions!Versions |-> IF w = v THEN s.cache[w] ELSE Versions!Empty]
           q == [s EXCEPT !.active = v, !.waiting = None, !.cache = c]
<1>1. r = Versions!Disturbed(q)
  BY DEF Versions!Activate
<1>2. /\ Versions!Typed(s) /\ Versions!Ordered(s) /\ Versions!Followed(s)
      /\ Versions!Marked(s) /\ DOMAIN s = Versions!Fields
  BY DEF Versions!Inv, Versions!Typed
<1>3. /\ c \in [Versions!Versions -> [Versions!Keys -> Versions!Some]]
      /\ \A w \in Versions!Versions, u \in Versions!Keys : c[w][u] # None => w = v
  BY <1>2 DEF Versions!Typed, Versions!Empty, Versions!Some
<1> HIDE DEF c
<1>4. /\ DOMAIN q = Versions!Fields /\ q.server = s.server /\ q.installing = s.installing
      /\ q.todo = s.todo /\ q.waiting = None /\ q.active = v /\ q.cache = c /\ q.at = s.at
      /\ q.page = s.page /\ q.clean = s.clean /\ q.forced = s.forced /\ q.retry = s.retry
      /\ q.stamped = s.stamped /\ q.stray = s.stray
  BY <1>2 DEF Versions!Fields
<1> HIDE DEF q
<1>5. /\ DOMAIN r = Versions!Fields /\ r.server = s.server /\ r.installing = s.installing
      /\ r.todo = s.todo /\ r.waiting = None /\ r.active = v /\ r.cache = c /\ r.at = s.at
      /\ r.page = s.page /\ r.forced = s.forced /\ r.retry = s.retry
      /\ r.stamped = s.stamped /\ r.stray = s.stray
      /\ r.clean = IF s.at = "asset" THEN FALSE ELSE s.clean
  <2>1. CASE s.at = "asset"
    <3>1. r = [q EXCEPT !.clean = FALSE]
      BY <1>1, <1>4, <2>1 DEF Versions!Disturbed
    <3> QED BY <1>4, <2>1, <3>1 DEF Versions!Fields
  <2>2. CASE s.at # "asset"
    BY <1>1, <1>4, <2>2 DEF Versions!Disturbed
  <2> QED BY <2>1, <2>2
<1>6. v # None /\ v \in Versions!Some
  BY PageAssumption DEF Versions!Versions, Versions!Some
<1>7. Versions!Typed(r)
  BY <1>2, <1>3, <1>5, <1>6, ZenonT(30) DEF Versions!Typed, Versions!Some
<1>8. Versions!Ordered(r)
  <2>1. \A w \in Versions!Versions, u \in Versions!Keys : c[w][u] # None => v <= w
    BY <1>3 DEF Versions!Versions
  <2> QED BY <1>2, <1>5, <1>6, <2>1 DEF Versions!Ordered
<1>9. Versions!Followed(r)
  BY <1>2, <1>5 DEF Versions!Followed
<1>10. Versions!Marked(r)
  BY <1>2, <1>5 DEF Versions!Marked
<1> QED BY <1>7, <1>8, <1>9, <1>10 DEF Versions!Inv

\* A load begins with no page, whatever the caches hold (Load, and the forced
\* reload that leaves no worker and no cache).
LEMMA LoadBegins ==
    ASSUME NEW s, Versions!Typed(s), Versions!Ordered(s), Versions!Marked(s)
    PROVE  Versions!Inv(Versions!Load(s))
<1> DEFINE r == Versions!Load(s)
<1>1. DOMAIN s = Versions!Fields
  BY DEF Versions!Typed
<1>2. /\ DOMAIN r = Versions!Fields /\ r.server = s.server /\ r.installing = s.installing
      /\ r.todo = s.todo /\ r.waiting = s.waiting /\ r.active = s.active /\ r.cache = s.cache
      /\ r.at = "html" /\ r.page = Versions!Unloaded /\ r.clean = TRUE
      /\ r.stamped = s.stamped /\ r.stray = FALSE
      /\ r.forced = s.forced /\ r.retry = s.retry
  BY <1>1 DEF Versions!Load, Versions!Fields
<1> HIDE DEF r
<1>3. Versions!Typed(r)
  BY <1>2 DEF Versions!Typed, Versions!Unloaded
<1>4. Versions!Ordered(r)
  BY <1>2 DEF Versions!Ordered
<1>5. Versions!Followed(r) /\ Versions!Marked(r)
  BY <1>2 DEF Versions!Followed, Versions!Marked
<1>6. Versions!Inv(r)
  BY <1>3, <1>4, <1>5 DEF Versions!Inv
<1> QED BY <1>6 DEF r

\* A reload that leaves no worker and no cache, at either address.
LEMMA ForcedLoadBegins ==
    ASSUME NEW s, Versions!Typed(s), Versions!Marked(s), Versions!ForceReload(s)
    PROVE  Versions!Inv(x')
<1> DEFINE e == [v \in Versions!Versions |-> Versions!Empty]
           F(b) == [s EXCEPT !.installing = None, !.todo = {}, !.waiting = None, !.active = None,
                             !.cache = e, !.stamped = b]
<1>1. DOMAIN s = Versions!Fields
  BY DEF Versions!Typed
<1>2. e \in [Versions!Versions -> [Versions!Keys -> Versions!Some]]
  BY DEF Versions!Empty, Versions!Some
<1>3. \E b \in BOOLEAN : x' = Versions!Load(F(b))
  BY DEF Versions!ForceReload, Versions!Typed
<1> HIDE DEF e
<1>4. ASSUME NEW b \in BOOLEAN
      PROVE  Versions!Inv(Versions!Load(F(b)))
  <2> DEFINE q == F(b)
  <2>1. /\ DOMAIN q = Versions!Fields /\ q.server = s.server /\ q.installing = None
        /\ q.todo = {} /\ q.waiting = None /\ q.active = None /\ q.cache = e
        /\ q.page = s.page /\ q.clean = s.clean /\ q.forced = s.forced /\ q.retry = s.retry
        /\ q.stamped = b /\ q.stray = s.stray
    BY <1>1 DEF Versions!Fields
  <2> HIDE DEF q
  <2>2. Versions!Typed(q)
    BY <1>2, <2>1 DEF Versions!Typed, Versions!Some
  <2>3. Versions!Ordered(q)
    BY <2>1 DEF Versions!Ordered
  <2>4. Versions!Marked(q)
    BY <2>1 DEF Versions!Marked
  <2>5. Versions!Inv(Versions!Load(q))
    BY <2>2, <2>3, <2>4, LoadBegins
  <2> QED BY <2>5 DEF q
<1> HIDE DEF F
<1> QED BY <1>3, <1>4

\* What a request of the page leaves of the invariant.
LEMMA FetchKeeps ==
    ASSUME Versions!Inv(x), NEW u \in Versions!Urls, NEW a,
           x' = [Versions!CacheFirst(x, u) EXCEPT !.at = a]
    PROVE  /\ Versions!Typed(x') /\ Versions!Ordered(x') /\ Versions!Marked(x')
           /\ x'.at = a /\ x'.server = x.server /\ x'.active = x.active
           /\ x'.clean = (x.clean /\ Versions!CachesWhole(x))
           /\ x'.stray \in BOOLEAN /\ (x.stray => x'.stray)
           /\ \A w \in Versions!Urls \ {u} : x'.page[w] = x.page[w]
           /\ x.active = None => x'.page[u] = x.server
           /\ x.active # None /\ Versions!CachesWhole(x) /\ ~x'.stray =>
                x'.cache = x.cache /\ x'.page[u] = x.cache[x.active][u]
<1> DEFINE r == Versions!CacheFirst(x, u)
<1>1. /\ Versions!Typed(x) /\ Versions!Ordered(x) /\ Versions!Marked(x)
  BY DEF Versions!Inv
<1>0. r = Versions!CacheFirst(x, u)
  OBVIOUS
<1> HIDE DEF r
<1>a. Answered(x, u, r)
  BY <1>0, <1>1, CacheAnswers
<1>2. /\ DOMAIN r = Versions!Fields
      /\ r.server = x.server /\ r.installing = x.installing /\ r.todo = x.todo
      /\ r.waiting = x.waiting /\ r.active = x.active
      /\ r.retry = x.retry /\ r.forced = x.forced
      /\ r.clean = (x.clean /\ Versions!CachesWhole(x)) /\ r.stamped = x.stamped
      /\ r.stray \in BOOLEAN /\ (x.stray => r.stray)
      /\ DOMAIN r.page = Versions!Urls
      /\ \A w \in Versions!Urls \ {u} : r.page[w] = x.page[w]
      /\ x.active = None => r.page[u] = x.server /\ r.cache = x.cache
      /\ \/ r.cache = x.cache
         \/ /\ x.active # None
            /\ \E k \in Versions!Keys : r.cache = [x.cache EXCEPT ![x.active][k] = x.server]
      /\ x.active # None /\ Versions!CachesWhole(x) /\ ~r.stray =>
           r.cache = x.cache /\ r.page[u] = x.cache[x.active][u]
  BY <1>a DEF Answered
<1>3. x' = [r EXCEPT !.at = a]
  BY <1>0
<1>4. /\ DOMAIN x' = Versions!Fields /\ x'.at = a
      /\ x'.server = r.server /\ x'.installing = r.installing /\ x'.todo = r.todo
      /\ x'.waiting = r.waiting /\ x'.active = r.active /\ x'.retry = r.retry
      /\ x'.forced = r.forced /\ x'.clean = r.clean /\ x'.page = r.page /\ x'.cache = r.cache
      /\ x'.stamped = r.stamped /\ x'.stray = r.stray
  BY <1>2, <1>3 DEF Versions!Fields
<1>5. Versions!Typed(x')
  <2>1. r.cache \in [Versions!Versions -> [Versions!Keys -> Versions!Some]]
    <3>1. CASE r.cache = x.cache
      BY <1>1, <3>1 DEF Versions!Typed
    <3>2. ASSUME x.active # None, NEW k \in Versions!Keys,
                 r.cache = [x.cache EXCEPT ![x.active][k] = x.server]
          PROVE  r.cache \in [Versions!Versions -> [Versions!Keys -> Versions!Some]]
      BY <1>1, <3>2 DEF Versions!Typed, Versions!Some
    <3> QED BY <1>2, <3>1, <3>2
  <2>2. r.clean \in BOOLEAN
    BY <1>2
  <2> QED BY <1>1, <1>2, <1>4, <2>1, <2>2 DEF Versions!Typed
<1>6. Versions!Ordered(x')
  <2>1. ASSUME x.active # None, NEW v \in Versions!Versions, NEW w \in Versions!Keys,
               r.cache[v][w] # None
        PROVE  x.active <= v
    <3>1. x.active \in Versions!Versions
      BY <1>1, <2>1 DEF Versions!Typed, Versions!Some
    <3>2. CASE v = x.active
      BY <3>1, <3>2 DEF Versions!Versions
    <3>3. CASE v # x.active
      <4>1. r.cache[v] = x.cache[v]
        BY <1>1, <1>2, <3>3 DEF Versions!Typed
      <4> QED BY <1>1, <2>1, <4>1 DEF Versions!Ordered
    <3> QED BY <3>2, <3>3
  <2> QED BY <1>1, <1>2, <1>4, <2>1 DEF Versions!Ordered
<1>7. Versions!Marked(x')
  BY <1>1, <1>2, <1>4 DEF Versions!Marked
<1> QED BY <1>2, <1>4, <1>5, <1>6, <1>7

\* The first load has no worker.
LEMMA UpdateInit == Versions!Init => Versions!Inv(x)
<1> SUFFICES ASSUME Versions!Init PROVE Versions!Inv(x)
  OBVIOUS
<1>1. 1 \in Versions!Versions
  BY PageAssumption DEF Versions!Versions
<1>2. Versions!Typed(x)
  BY <1>1 DEF Versions!Init, Versions!Typed, Versions!Fields, Versions!Empty, Versions!Unloaded,
         Versions!Some
<1> QED BY <1>2 DEF Versions!Init, Versions!Inv, Versions!Ordered, Versions!Followed,
           Versions!Marked

\* Every step of the page, its worker and the server keeps the invariant.
LEMMA UpdateStep == Versions!Inv(x) /\ [Versions!Next]_x => Versions!Inv(x)'
<1> SUFFICES ASSUME Versions!Inv(x), [Versions!Next]_x PROVE Versions!Inv(x')
  OBVIOUS
<1>t. /\ Versions!Typed(x) /\ Versions!Ordered(x) /\ Versions!Followed(x) /\ Versions!Marked(x)
      /\ DOMAIN x = Versions!Fields
  BY DEF Versions!Inv, Versions!Typed
<1>u. "html" \in Versions!Urls /\ "asset" \in Versions!Urls
  BY DEF Versions!Urls
\* A step that touches none of the fields the invariant is about.
<1>s. ASSUME NEW s, Versions!Inv(s), NEW r, DOMAIN r = Versions!Fields, r.server = s.server,
             r.installing = s.installing, r.todo = s.todo, r.waiting = s.waiting,
             r.active = s.active, r.cache = s.cache, r.at = s.at, r.page = s.page,
             r.clean = s.clean, r.forced = s.forced, r.retry = s.retry,
             r.stamped = s.stamped, r.stray = s.stray
      PROVE  Versions!Inv(r)
  BY <1>s DEF Versions!Inv, Versions!Typed, Versions!Ordered, Versions!Followed, Versions!Marked
<1>1. CASE Versions!FetchHtml
  <2>1. x.at = "html" /\ x' = [Versions!CacheFirst(x, "html") EXCEPT !.at = "asset"]
    BY <1>1 DEF Versions!FetchHtml
  <2>2. /\ Versions!Typed(x') /\ Versions!Ordered(x') /\ Versions!Marked(x')
        /\ x'.at = "asset" /\ x'.server = x.server /\ x'.active = x.active
        /\ x'.clean = (x.clean /\ Versions!CachesWhole(x)) /\ (x.stray => x'.stray)
        /\ x.active = None => x'.page["html"] = x.server
        /\ x.active # None /\ Versions!CachesWhole(x) /\ ~x'.stray =>
             x'.cache = x.cache /\ x'.page["html"] = x.cache[x.active]["html"]
    BY <1>u, <2>1, FetchKeeps
  <2> QED BY <2>2 DEF Versions!Inv, Versions!Followed
<1>2. CASE Versions!FetchAsset
  <2>1. x.at = "asset" /\ x' = [Versions!CacheFirst(x, "asset") EXCEPT !.at = "ready"]
    BY <1>2 DEF Versions!FetchAsset
  <2>2. /\ Versions!Typed(x') /\ Versions!Ordered(x') /\ Versions!Marked(x')
        /\ x'.at = "ready" /\ x'.page["html"] = x.page["html"]
        /\ x'.clean = (x.clean /\ Versions!CachesWhole(x)) /\ (x.stray => x'.stray)
        /\ x.active = None => x'.page["asset"] = x.server
        /\ x.active # None /\ Versions!CachesWhole(x) /\ ~x'.stray =>
             x'.page["asset"] = x.cache[x.active]["asset"]
    BY <1>u, <2>1, FetchKeeps
  <2>3. x.active # None /\ Versions!CachesWhole(x) =>
          x.cache[x.active]["html"] = x.cache[x.active]["asset"]
    <3> SUFFICES ASSUME x.active # None, Versions!CachesWhole(x)
                 PROVE  x.cache[x.active]["html"] = x.cache[x.active]["asset"]
      OBVIOUS
    <3>1. Versions!Whole(x.cache[x.active])
      BY <1>t DEF Versions!CachesWhole, Versions!Typed, Versions!Some
    <3> QED BY <1>u, <3>1 DEF Versions!Whole
  <2> QED BY <1>t, <2>1, <2>2, <2>3 DEF Versions!Inv, Versions!Followed
<1>3. CASE Versions!Register
  <2>1. /\ x.at = "ready" /\ x.installing = None /\ x.server \notin {x.active, x.waiting}
        /\ x' = [x EXCEPT !.installing = x.server, !.todo = Versions!Urls]
    BY <1>3 DEF Versions!Register
  <2>2. /\ DOMAIN x' = Versions!Fields /\ x'.server = x.server /\ x'.installing = x.server
        /\ x'.todo = Versions!Urls /\ x'.waiting = x.waiting /\ x'.active = x.active
        /\ x'.cache = x.cache /\ x'.at = x.at /\ x'.page = x.page /\ x'.clean = x.clean
        /\ x'.forced = x.forced /\ x'.retry = x.retry
        /\ x'.stamped = x.stamped /\ x'.stray = x.stray
    BY <1>t, <2>1 DEF Versions!Fields
  <2>3. x.server \in Versions!Versions /\ x.server # None
    BY <1>t, PageAssumption DEF Versions!Typed, Versions!Versions
  <2>4. Versions!Typed(x')
    BY <1>t, <2>2, <2>3 DEF Versions!Typed, Versions!Some
  <2>5. Versions!Ordered(x')
    <3>1. \A v \in {x.waiting, x.active} \ {None} : v < x.server
      <4> TAKE v \in {x.waiting, x.active} \ {None}
      <4>1. v \in Int /\ x.server \in Int /\ v <= x.server
        BY <1>t DEF Versions!Typed, Versions!Ordered, Versions!Some, Versions!Versions
      <4>2. v # x.server
        BY <2>1
      <4> QED BY <4>1, <4>2
    <3>2. \A v \in {x.server, x.waiting, x.active} \ {None} : v <= x.server
      BY <1>t, <2>3, <3>1 DEF Versions!Typed, Versions!Ordered, Versions!Versions
    <3> QED BY <1>t, <2>2, <2>3, <3>1, <3>2 DEF Versions!Ordered
  <2> QED BY <1>t, <2>2, <2>4, <2>5 DEF Versions!Inv, Versions!Followed, Versions!Marked
<1>4. CASE Versions!Installed
  <2> DEFINE s == [x EXCEPT !.installing = None]
             v == x.installing
  <2>1. /\ v # None /\ x.todo = {}
        /\ x' = IF x.active = None THEN Versions!Activate(s, v) ELSE [s EXCEPT !.waiting = v]
    BY <1>4 DEF Versions!Installed
  <2>2. /\ DOMAIN s = Versions!Fields /\ s.server = x.server /\ s.installing = None
        /\ s.todo = x.todo /\ s.waiting = x.waiting /\ s.active = x.active
        /\ s.cache = x.cache /\ s.at = x.at /\ s.page = x.page /\ s.clean = x.clean
        /\ s.forced = x.forced /\ s.retry = x.retry
        /\ s.stamped = x.stamped /\ s.stray = x.stray
    BY <1>t DEF Versions!Fields
  <2> HIDE DEF s
  <2>3. Versions!Typed(s) /\ Versions!Ordered(s)
    BY <1>t, <2>1, <2>2 DEF Versions!Typed, Versions!Ordered, Versions!Some
  <2>4. Versions!Inv(s)
    BY <1>t, <2>2, <2>3 DEF Versions!Inv, Versions!Followed, Versions!Marked
  <2>5. v \in Versions!Versions /\ v <= x.server
    BY <1>t, <2>1 DEF Versions!Typed, Versions!Ordered, Versions!Some
  <2>6. CASE x.active = None
    BY <2>1, <2>2, <2>4, <2>5, <2>6, WorkerActivates
  <2>7. CASE x.active # None
    <3>1. x' = [s EXCEPT !.waiting = v]
      BY <2>1, <2>7
    <3>2. /\ DOMAIN x' = Versions!Fields /\ x'.server = s.server /\ x'.installing = None
          /\ x'.todo = s.todo /\ x'.waiting = v /\ x'.active = s.active
          /\ x'.cache = s.cache /\ x'.at = s.at /\ x'.page = s.page /\ x'.clean = s.clean
          /\ x'.forced = s.forced /\ x'.retry = s.retry
          /\ x'.stamped = s.stamped /\ x'.stray = s.stray
      BY <2>2, <3>1 DEF Versions!Fields
    <3>3. Versions!Typed(x')
      BY <2>3, <2>5, <3>2 DEF Versions!Typed, Versions!Some
    <3>4. Versions!Ordered(x')
      BY <1>t, <2>1, <2>2, <2>3, <2>5, <2>7, <3>2 DEF Versions!Ordered
    <3> QED BY <2>4, <3>2, <3>3, <3>4 DEF Versions!Inv, Versions!Followed, Versions!Marked
  <2> QED BY <2>6, <2>7
<1>5. CASE Versions!Apply \/ Versions!Stashed
  <2>1. \/ x' = [x EXCEPT !.stashing = TRUE]
        \/ \E n : x' = [x EXCEPT !.stashing = FALSE, !.requested = TRUE, !.updatedTo = n]
    BY <1>5 DEF Versions!Apply, Versions!Stashed
  <2>2. /\ DOMAIN x' = Versions!Fields /\ x'.server = x.server /\ x'.installing = x.installing
        /\ x'.todo = x.todo /\ x'.waiting = x.waiting /\ x'.active = x.active
        /\ x'.cache = x.cache /\ x'.at = x.at /\ x'.page = x.page /\ x'.clean = x.clean
        /\ x'.forced = x.forced /\ x'.retry = x.retry
        /\ x'.stamped = x.stamped /\ x'.stray = x.stray
    BY <1>t, <2>1 DEF Versions!Fields
  <2> QED BY <2>2, <1>s
<1>6. CASE Versions!SkipWaiting
  <2> DEFINE s == Versions!Activate(x, x.waiting)
  <2>1. x.waiting # None /\ x' = IF x.requested THEN Versions!Load(s) ELSE s
    BY <1>6 DEF Versions!SkipWaiting
  <2>2. x.waiting \in Versions!Versions /\ x.waiting <= x.server
    BY <1>t, <2>1 DEF Versions!Typed, Versions!Ordered, Versions!Some
  <2>3. x.installing # None => x.waiting < x.installing
    BY <1>t, <2>1 DEF Versions!Ordered
  <2>4. Versions!Inv(s)
    BY <2>2, <2>3, WorkerActivates
  <2> QED BY <2>1, <2>4, LoadBegins DEF Versions!Inv
<1>7. CASE Versions!Reload
  <2> DEFINE F(b) == [x EXCEPT !.forced = 0, !.stamped = b]
  <2>1. \E b \in BOOLEAN : x' = Versions!Load(F(b))
    BY <1>t, <1>7 DEF Versions!Reload, Versions!Typed
  <2>2. ASSUME NEW b \in BOOLEAN
        PROVE  Versions!Inv(Versions!Load(F(b)))
    <3> DEFINE s == F(b)
    <3>1. /\ DOMAIN s = Versions!Fields /\ s.server = x.server /\ s.installing = x.installing
          /\ s.todo = x.todo /\ s.waiting = x.waiting /\ s.active = x.active
          /\ s.cache = x.cache /\ s.at = x.at /\ s.page = x.page /\ s.clean = x.clean
          /\ s.forced = 0 /\ s.retry = x.retry /\ s.stamped = b /\ s.stray = x.stray
      BY <1>t DEF Versions!Fields
    <3> HIDE DEF s
    <3>2. Versions!Typed(s) /\ Versions!Ordered(s) /\ Versions!Marked(s)
      BY <1>t, <3>1 DEF Versions!Typed, Versions!Ordered, Versions!Marked
    <3>3. Versions!Inv(Versions!Load(s))
      BY <3>2, LoadBegins
    <3> QED BY <3>3 DEF s
  <2> HIDE DEF F
  <2> QED BY <2>1, <2>2
<1>14. CASE Versions!EscapeHatch
  <2> DEFINE s == [x EXCEPT !.forced = 0]
  <2>1. Versions!ForceReload(s)
    BY <1>14 DEF Versions!EscapeHatch
  <2>2. /\ DOMAIN s = Versions!Fields /\ s.server = x.server /\ s.installing = x.installing
        /\ s.waiting = x.waiting /\ s.active = x.active /\ s.cache = x.cache
        /\ s.page = x.page /\ s.clean = x.clean /\ s.forced = 0
        /\ s.stamped = x.stamped /\ s.stray = x.stray
    BY <1>t DEF Versions!Fields
  <2> HIDE DEF s
  <2>3. Versions!Typed(s) /\ Versions!Marked(s)
    BY <1>t, <2>2 DEF Versions!Typed, Versions!Marked
  <2> QED BY <2>1, <2>3, ForcedLoadBegins
<1>8. CASE Versions!ToastUpdated
  <2>1. \/ x' = [x EXCEPT !.checked = TRUE]
        \/ /\ ~x.retry
           /\ Versions!ForceReload([[x EXCEPT !.checked = TRUE]
                                    EXCEPT !.retry = TRUE, !.forced = @ + 1])
        \/ x' = [[x EXCEPT !.checked = TRUE]
                 EXCEPT !.updatedTo = None, !.retry = FALSE, !.forced = 0]
    BY <1>8 DEF Versions!ToastUpdated
  <2>2. CASE x' = [x EXCEPT !.checked = TRUE]
    <3>1. /\ DOMAIN x' = Versions!Fields /\ x'.server = x.server
          /\ x'.installing = x.installing
          /\ x'.todo = x.todo /\ x'.waiting = x.waiting /\ x'.active = x.active
          /\ x'.cache = x.cache /\ x'.at = x.at /\ x'.page = x.page /\ x'.clean = x.clean
          /\ x'.forced = x.forced /\ x'.retry = x.retry
          /\ x'.stamped = x.stamped /\ x'.stray = x.stray
      BY <1>t, <2>2 DEF Versions!Fields
    <3> QED BY <3>1, <1>s
  <2>3. CASE /\ ~x.retry
             /\ Versions!ForceReload([[x EXCEPT !.checked = TRUE]
                                      EXCEPT !.retry = TRUE, !.forced = @ + 1])
    <3> DEFINE s == [[x EXCEPT !.checked = TRUE] EXCEPT !.retry = TRUE, !.forced = @ + 1]
    <3>1. x.forced = 0
      BY <1>t, <2>3 DEF Versions!Marked
    <3>2. /\ DOMAIN s = Versions!Fields /\ s.server = x.server /\ s.installing = x.installing
          /\ s.waiting = x.waiting /\ s.active = x.active /\ s.cache = x.cache
          /\ s.page = x.page /\ s.clean = x.clean /\ s.forced = 1 /\ s.retry = TRUE
          /\ s.stamped = x.stamped /\ s.stray = x.stray
      BY <1>t, <3>1 DEF Versions!Fields
    <3>3. Versions!ForceReload(s)
      BY <2>3
    <3> HIDE DEF s
    <3>4. Versions!Typed(s) /\ Versions!Marked(s)
      BY <1>t, <3>2 DEF Versions!Typed, Versions!Marked
    <3> QED BY <3>3, <3>4, ForcedLoadBegins
  <2>4. CASE x' = [[x EXCEPT !.checked = TRUE]
                   EXCEPT !.updatedTo = None, !.retry = FALSE, !.forced = 0]
    <3>1. /\ DOMAIN x' = Versions!Fields /\ x'.server = x.server
          /\ x'.installing = x.installing
          /\ x'.todo = x.todo /\ x'.waiting = x.waiting /\ x'.active = x.active
          /\ x'.cache = x.cache /\ x'.at = x.at /\ x'.page = x.page /\ x'.clean = x.clean
          /\ x'.forced = 0 /\ x'.stamped = x.stamped /\ x'.stray = x.stray
      BY <1>t, <2>4 DEF Versions!Fields
    <3> QED BY <1>t, <3>1 DEF Versions!Inv, Versions!Typed, Versions!Ordered,
               Versions!Followed, Versions!Marked
  <2> QED BY <2>1, <2>2, <2>3, <2>4
<1>9. CASE Versions!AskServer \/ Versions!GiveUp
  <2>1. \/ x' = [x EXCEPT !.awaits = None]
        \/ \E n : x' = [x EXCEPT !.awaits = n, !.updatedTo = n]
    BY <1>9 DEF Versions!AskServer, Versions!GiveUp
  <2>2. /\ DOMAIN x' = Versions!Fields /\ x'.server = x.server /\ x'.installing = x.installing
        /\ x'.todo = x.todo /\ x'.waiting = x.waiting /\ x'.active = x.active
        /\ x'.cache = x.cache /\ x'.at = x.at /\ x'.page = x.page /\ x'.clean = x.clean
        /\ x'.forced = x.forced /\ x'.retry = x.retry
        /\ x'.stamped = x.stamped /\ x'.stray = x.stray
    BY <1>t, <2>1 DEF Versions!Fields
  <2> QED BY <2>2, <1>s
<1>10. CASE Versions!PwaReloadAfterUpdate
  <2> DEFINE s == [x EXCEPT !.retry = FALSE, !.forced = 0]
  <2>1. Versions!ForceReload(s)
    BY <1>10 DEF Versions!PwaReloadAfterUpdate
  <2>2. /\ DOMAIN s = Versions!Fields /\ s.server = x.server /\ s.installing = x.installing
        /\ s.waiting = x.waiting /\ s.active = x.active /\ s.cache = x.cache
        /\ s.page = x.page /\ s.clean = x.clean /\ s.forced = 0
        /\ s.stamped = x.stamped /\ s.stray = x.stray
    BY <1>t DEF Versions!Fields
  <2> HIDE DEF s
  <2>3. Versions!Typed(s) /\ Versions!Marked(s)
    BY <1>t, <2>2 DEF Versions!Typed, Versions!Marked
  <2> QED BY <2>1, <2>3, ForcedLoadBegins
<1>11. CASE Versions!Deploy
  <2> DEFINE s == [x EXCEPT !.server = @ + 1]
  <2>1. x.server < MaxVersion /\ x' = Versions!Disturbed(s)
    BY <1>11 DEF Versions!Deploy
  <2>2. /\ DOMAIN s = Versions!Fields /\ s.server = x.server + 1
        /\ s.installing = x.installing
        /\ s.todo = x.todo /\ s.waiting = x.waiting /\ s.active = x.active
        /\ s.cache = x.cache /\ s.at = x.at /\ s.page = x.page /\ s.clean = x.clean
        /\ s.forced = x.forced /\ s.retry = x.retry
        /\ s.stamped = x.stamped /\ s.stray = x.stray
    BY <1>t DEF Versions!Fields
  <2> HIDE DEF s
  <2>3. /\ DOMAIN x' = Versions!Fields /\ x'.server = x.server + 1
        /\ x'.installing = x.installing
        /\ x'.todo = x.todo /\ x'.waiting = x.waiting /\ x'.active = x.active
        /\ x'.cache = x.cache /\ x'.at = x.at /\ x'.page = x.page
        /\ x'.forced = x.forced /\ x'.retry = x.retry
        /\ x'.stamped = x.stamped /\ x'.stray = x.stray
        /\ x'.clean = IF x.at = "asset" THEN FALSE ELSE x.clean
    <3>1. CASE x.at = "asset"
      <4>1. x' = [s EXCEPT !.clean = FALSE]
        BY <2>1, <2>2, <3>1 DEF Versions!Disturbed
      <4> QED BY <2>2, <3>1, <4>1 DEF Versions!Fields
    <3>2. CASE x.at # "asset"
      BY <2>1, <2>2, <3>2 DEF Versions!Disturbed
    <3> QED BY <3>1, <3>2
  <2>4. x.server \in Int /\ x.server + 1 \in Versions!Versions
    BY <1>t, <2>1, PageAssumption DEF Versions!Typed, Versions!Versions
  <2>5. Versions!Typed(x')
    BY <1>t, <2>3, <2>4 DEF Versions!Typed
  <2>6. Versions!Ordered(x')
    <3>1. \A v \in {x.installing, x.waiting, x.active} \ {None} : v <= x.server + 1
      <4> TAKE v \in {x.installing, x.waiting, x.active} \ {None}
      <4>1. v \in Int /\ v <= x.server
        BY <1>t DEF Versions!Typed, Versions!Ordered, Versions!Some, Versions!Versions
      <4> QED BY <2>4, <4>1
    <3> QED BY <1>t, <2>3, <3>1 DEF Versions!Ordered
  <2> QED BY <1>t, <2>3, <2>5, <2>6 DEF Versions!Inv, Versions!Followed, Versions!Marked
<1>12. ASSUME NEW u \in Versions!Urls, Versions!Cached(u)
       PROVE  Versions!Inv(x')
  <2>1. PICK got \in {x.server, None} :
            x' = [x EXCEPT !.todo = @ \ {u}, !.cache[x.installing][u] = got]
    BY <1>12 DEF Versions!Cached
  <2>2. x.installing # None
    BY <1>t, <1>12 DEF Versions!Cached, Versions!Ordered
  <2>3. /\ DOMAIN x' = Versions!Fields /\ x'.server = x.server
        /\ x'.installing = x.installing /\ x'.todo = x.todo \ {u}
        /\ x'.waiting = x.waiting /\ x'.active = x.active /\ x'.at = x.at
        /\ x'.page = x.page /\ x'.clean = x.clean /\ x'.forced = x.forced
        /\ x'.retry = x.retry /\ x'.stamped = x.stamped /\ x'.stray = x.stray
    BY <1>t, <2>1 DEF Versions!Fields
  <2>4. x'.cache = [x.cache EXCEPT ![x.installing][u] = got]
    BY <1>t, <2>1 DEF Versions!Fields
  <2>5. Versions!Typed(x')
    <3>1. x.installing \in Versions!Versions /\ got \in Versions!Some
      BY <1>t, <2>1, <2>2 DEF Versions!Typed, Versions!Some
    <3>2. x.cache \in [Versions!Versions -> [Versions!Keys -> Versions!Some]]
      BY <1>t DEF Versions!Typed
    <3>3. [x.cache[x.installing] EXCEPT ![u] = got] \in [Versions!Keys -> Versions!Some]
      BY <1>12, <3>1, <3>2 DEF Versions!Keys
    <3>4. x'.cache = [x.cache EXCEPT ![x.installing] = [x.cache[x.installing] EXCEPT ![u] = got]]
      BY <2>4, <3>1, <3>2
    <3>5. x'.cache \in [Versions!Versions -> [Versions!Keys -> Versions!Some]]
      BY <3>1, <3>2, <3>3, <3>4
    <3> QED BY <1>t, <2>3, <3>5 DEF Versions!Typed
  <2>6. \A v \in Versions!Versions : v # x.installing => x'.cache[v] = x.cache[v]
    BY <1>t, <2>4 DEF Versions!Typed
  <2>7. Versions!Ordered(x')
    <3>1. ASSUME x.active # None, NEW v \in Versions!Versions, NEW w \in Versions!Keys,
                 x'.cache[v][w] # None
          PROVE  x.active <= v
      <4>0. x.active \in Int /\ x.installing \in Int
        BY <1>t, <2>2, <3>1 DEF Versions!Typed, Versions!Some, Versions!Versions
      <4>1. x.active < x.installing
        BY <1>t, <2>2, <3>1 DEF Versions!Ordered
      <4>2. CASE v = x.installing
        BY <4>0, <4>1, <4>2
      <4>3. CASE v # x.installing
        BY <1>t, <2>6, <3>1, <4>3 DEF Versions!Ordered
      <4> QED BY <4>2, <4>3
    <3> QED BY <1>t, <2>2, <2>3, <3>1 DEF Versions!Ordered
  <2>8. x.active # None => x'.cache[x.active] = x.cache[x.active]
    <3>1. ASSUME x.active # None
          PROVE  x.active \in Versions!Versions /\ x.active # x.installing
      <4>1. x.active \in Versions!Versions /\ x.active \in Int /\ x.installing \in Int
        BY <1>t, <2>2, <3>1 DEF Versions!Typed, Versions!Some, Versions!Versions
      <4>2. x.active < x.installing
        BY <1>t, <2>2, <3>1 DEF Versions!Ordered
      <4> QED BY <4>1, <4>2
    <3> QED BY <2>6, <3>1
  <2>9. Versions!Followed(x')
    BY <1>t, <2>3, <2>8 DEF Versions!Followed
  <2> QED BY <1>t, <2>3, <2>5, <2>7, <2>9 DEF Versions!Inv, Versions!Marked
<1>13. CASE x' = x
  BY <1>13
<1> QED BY <1>1, <1>2, <1>3, <1>4, <1>5, <1>6, <1>7, <1>8, <1>9, <1>10, <1>11, <1>12, <1>13,
        <1>14 DEF Versions!Next

\* The invariant holds what is claimed of a loaded page.
LEMMA UpdateHolds == Versions!Inv(x) => Versions!PageConsistent /\ Versions!NeverLoops
  BY DEF Versions!Inv, Versions!Followed, Versions!Marked, Versions!PageConsistent,
     Versions!NeverLoops

\* AppUpdate!PageConsistent: a page loaded undisturbed and its assets are of one
\* version, for every number of versions and loads (cacheFirst, activate).
THEOREM PageIsConsistent == Spec => []PageConsistent
<1> DEFINE I == part = "update" => Versions!Inv(x)
<1>1. Init => I
  BY UpdateInit DEF Init
<1>2. I /\ [Next]_vars => I'
  BY PartAlone, UpdateStep
<1>3. I => PageConsistent
  BY UpdateHolds DEF PageConsistent
<1> HIDE DEF I
<1> QED BY <1>1, <1>2, <1>3, PTL DEF Spec

\* AppUpdate!NeverLoops: the check never forces two reloads in a row
\* (toastUpdated).
THEOREM ChecksNeverLoop == Spec => []NeverLoops
<1> DEFINE I == part = "update" => Versions!Inv(x)
<1>1. Init => I
  BY UpdateInit DEF Init
<1>2. I /\ [Next]_vars => I'
  BY PartAlone, UpdateStep
<1>3. I => NeverLoops
  BY UpdateHolds DEF NeverLoops
<1> HIDE DEF I
<1> QED BY <1>1, <1>2, <1>3, PTL DEF Spec

(***************************************************************************)
(* Paste.                                                                  *)
(***************************************************************************)

\* A set of natural numbers has a least one.
LEMMA LeastNat ==
    ASSUME NEW S \in SUBSET Nat, S # {}
    PROVE  \E m \in S : \A k \in S : m <= k
<1> DEFINE R == {p \in Nat \X Nat : p[1] < p[2]}
<1>1. IsWellFoundedOn(R, Nat)
  <2>1. R = OpToRel(<, Nat)
    BY DEF OpToRel
  <2> QED BY <2>1, NatLessThanWellFounded
<1> HIDE DEF R
<1>2. PICK m \in S : \A y \in S : ~ (<<y, m>> \in R)
  BY <1>1, WFMin
<1>3. \A y \in S : m <= y
  <2> TAKE y \in S
  <2>1. y \in Nat /\ m \in Nat /\ ~(y < m)
    BY <1>2 DEF R
  <2> QED BY <2>1
<1> QED BY <1>3

\* Numbers can be put in their order: if not, there is a least bound below which
\* they cannot, and the largest of them goes behind the others.
LEMMA OrderExists ==
    ASSUME NEW N \in Nat, NEW U \in SUBSET (1..N)
    PROVE  Clipboard!Orders(N, U) # {}
<1> DEFINE Upto(n) == {i \in U : i <= n}
           Stuck == {n \in 0..N : Clipboard!Orders(n, Upto(n)) = {}}
<1>1. Stuck = {}
  <2> SUFFICES ASSUME Stuck # {} PROVE FALSE
    OBVIOUS
  <2>1. Stuck \in SUBSET Nat
    OBVIOUS
  <2>2. PICK m \in Stuck : \A k \in Stuck : m <= k
    BY <2>1, LeastNat
  <2>3. CASE m = 0
    <3> DEFINE q == [k \in 1..0 |-> 0]
    <3>1. Upto(0) = {}
      <4>1. \A i \in U : ~(i <= 0)
        OBVIOUS
      <4> QED BY <4>1
    <3>2. q \in [1..0 -> Upto(0)] /\ DOMAIN q = {}
      <4>1. 1..0 = {}
        OBVIOUS
      <4>2. q = [k \in {} |-> 0]
        BY <4>1
      <4> HIDE DEF q
      <4>3. q \in [{} -> Upto(0)] /\ DOMAIN q = {}
        BY <4>2
      <4> QED BY <4>1, <4>3
    <3>3. 0 \in 0..0
      OBVIOUS
    <3>4. q \in Clipboard!Orders(0, Upto(0))
      <4> HIDE DEF q
      <4> QED BY <3>1, <3>2, <3>3 DEF Clipboard!Orders
    <3> QED BY <2>3, <3>4
  <2>4. CASE m # 0
    <3> DEFINE T == Upto(m - 1)
               S == Upto(m)
    <3>1. m - 1 \in 0..N /\ m \in Nat /\ ~(m <= m - 1) /\ m - 1 \in Nat
      BY <2>4
    <3>2. PICK q : q \in Clipboard!Orders(m - 1, T)
      BY <2>2, <3>1
    <3>3. PICK k \in 0..(m - 1) : q \in [1..k -> T]
      BY <3>2 DEF Clipboard!Orders
    <3>4. /\ \A a, b \in 1..k : a < b => q[a] < q[b]
          /\ \A i \in T : \E a \in 1..k : q[a] = i
      BY <3>2, <3>3 DEF Clipboard!Orders
    <3>5. S = IF m \in U THEN T \cup {m} ELSE T
      <4>1. \A i \in U : i \in Nat
        OBVIOUS
      <4>2. \A i \in U : i <= m <=> i <= m - 1 \/ i = m
        BY <3>1, <4>1
      <4> QED BY <3>1, <4>2
    <3>6. \A i \in T : i \in Nat /\ i < m
      BY <3>1
    <3> HIDE DEF T, S
    <3>7. CASE m \notin U
      <4>1. k \in 0..m /\ S = T
        BY <3>1, <3>5, <3>7
      <4>2. q \in Clipboard!Orders(m, S)
        BY <3>3, <3>4, <4>1 DEF Clipboard!Orders
      <4> QED BY <4>2 DEF S
    <3>8. CASE m \in U
      <4> DEFINE r == [a \in 1..(k + 1) |-> IF a = k + 1 THEN m ELSE q[a]]
      <4>1. k + 1 \in 0..m /\ k \in Nat /\ S = T \cup {m}
        BY <3>1, <3>5, <3>8
      <4>2. /\ DOMAIN r = 1..(k + 1) /\ r[k + 1] = m
            /\ \A a \in 1..k : r[a] = q[a] /\ a # k + 1
            /\ \A a \in 1..(k + 1) : a \in 1..k \/ a = k + 1
        BY <4>1
      <4>3. r \in [1..(k + 1) -> S]
        BY <4>1, <3>3
      <4> HIDE DEF r
      <4>4. ASSUME NEW a \in 1..(k + 1), NEW b \in 1..(k + 1), a < b
            PROVE  r[a] < r[b]
        <5>1. a \in 1..k
          BY <4>1, <4>4
        <5>2. q[a] \in T
          BY <5>1, <3>3
        <5>3. CASE b = k + 1
          BY <5>1, <5>2, <5>3, <4>2, <3>6
        <5>4. CASE b \in 1..k
          BY <5>1, <5>4, <4>2, <4>4, <3>4
        <5> QED BY <5>3, <5>4, <4>2
      <4>5. ASSUME NEW i \in S
            PROVE  \E a \in 1..(k + 1) : r[a] = i
        <5>1. CASE i = m
          <6>1. k + 1 \in 1..(k + 1)
            BY <4>1
          <6> QED BY <5>1, <6>1, <4>2
        <5>2. CASE i \in T
          <6>1. PICK a \in 1..k : q[a] = i
            BY <5>2, <3>4
          <6>2. a \in 1..(k + 1)
            BY <4>1
          <6> QED BY <6>1, <6>2, <4>2
        <5> QED BY <5>1, <5>2, <4>1
      <4>6. r \in Clipboard!Orders(m, S)
        BY <4>1, <4>2, <4>3, <4>4, <4>5 DEF Clipboard!Orders
      <4> QED BY <4>6 DEF S
    <3> QED BY <3>7, <3>8
  <2> QED BY <2>3, <2>4
<1>2. N \in 0..N
  OBVIOUS
<1>3. Upto(N) = U
  <2>1. \A i \in U : i <= N
    OBVIOUS
  <2> QED BY <2>1, Zenon
<1> QED BY <1>1, <1>2, <1>3

\* What is pasted of a paste: the files that were uploaded, in their order.
LEMMA PathsAre ==
    ASSUME NEW job, job.stages \in Seq(Clipboard!Stages)
    PROVE  LET p == Clipboard!Paths(job)
           IN  /\ p \in Seq(Nat)
               /\ \A a, b \in DOMAIN p : a < b => p[a] < p[b]
               /\ \A a \in DOMAIN p : p[a] \in DOMAIN job.stages /\ job.stages[p[a]] = "uploaded"
               /\ \A i \in DOMAIN job.stages :
                    job.stages[i] = "uploaded" => \E a \in DOMAIN p : p[a] = i
<1> DEFINE n == Len(job.stages)
           U == {i \in DOMAIN job.stages : job.stages[i] = "uploaded"}
           p == Clipboard!Paths(job)
<1>1. n \in Nat /\ U \in SUBSET (1..n)
  <2>1. n \in Nat /\ DOMAIN job.stages = 1..n
    BY LenProperties
  <2> QED BY <2>1
<1>2. p = CHOOSE q \in Clipboard!Orders(n, U) : TRUE
  BY DEF Clipboard!Paths
<1>3. \A i \in DOMAIN job.stages : i \in U <=> job.stages[i] = "uploaded"
  OBVIOUS
<1>3a. U \subseteq DOMAIN job.stages
  OBVIOUS
<1> HIDE DEF n, U, p
<1>4. p \in Clipboard!Orders(n, U)
  <2>1. Clipboard!Orders(n, U) # {}
    BY <1>1, OrderExists
  <2> QED BY <2>1, <1>2
<1>5. PICK k \in 0..n : p \in [1..k -> U]
  BY <1>4 DEF Clipboard!Orders
<1>6. /\ \A a, b \in DOMAIN p : a < b => p[a] < p[b]
      /\ \A i \in U : \E a \in DOMAIN p : p[a] = i
  BY <1>4 DEF Clipboard!Orders
<1>7. p \in Seq(Nat)
  <2>1. U \subseteq Nat /\ k \in Nat
    BY <1>1
  <2>2. p \in [1..k -> Nat]
    BY <2>1, <1>5
  <2> QED BY <2>1, <2>2
<1>8. \A a \in DOMAIN p : p[a] \in U
  BY <1>5
<1> QED BY <1>3, <1>3a, <1>6, <1>7, <1>8 DEF p

\* The outcome g of file i of the paste j, and nothing else but what is told.
MovesOn(s, t, j, i, g) ==
    /\ DOMAIN t = DOMAIN s /\ t.jobs \in Seq(Clipboard!Job) /\ DOMAIN t.jobs = DOMAIN s.jobs
    /\ t.line = s.line
    /\ \A k \in DOMAIN s.jobs :
         /\ t.jobs[k].kind = s.jobs[k].kind /\ t.jobs[k].over = s.jobs[k].over
         /\ t.jobs[k].sources = s.jobs[k].sources
         /\ DOMAIN t.jobs[k].stages = DOMAIN s.jobs[k].stages
         /\ \A m \in DOMAIN s.jobs[k].stages :
              t.jobs[k].stages[m] = IF k = j /\ m = i THEN g ELSE s.jobs[k].stages[m]

LEMMA StageMoves ==
    ASSUME NEW s, Clipboard!Typed(s), NEW j \in DOMAIN s.jobs, NEW i \in DOMAIN s.jobs[j].stages,
           NEW g \in Clipboard!Stages
    PROVE  /\ MovesOn(s, Clipboard!Stage(s, j, i, g), j, i, g)
           /\ Clipboard!Stage(s, j, i, g).told = s.told
<1> DEFINE t == Clipboard!Stage(s, j, i, g)
           b == s.jobs[j]
           c == [b EXCEPT !.stages = [@ EXCEPT ![i] = g]]
<1>1. s.jobs \in Seq(Clipboard!Job) /\ b \in Clipboard!Job
  BY DEF Clipboard!Typed
<1>2. DOMAIN s = {"jobs", "line", "told", "ready", "losses"}
  BY DEF Clipboard!Typed
<1>3. t = [s EXCEPT !.jobs = [s.jobs EXCEPT ![j] = c]]
  BY DEF Clipboard!Stage
<1>4. /\ DOMAIN t = DOMAIN s /\ t.line = s.line /\ t.told = s.told
      /\ t.jobs = [s.jobs EXCEPT ![j] = c]
  BY <1>2, <1>3
<1>5. /\ c \in Clipboard!Job /\ c.kind = b.kind /\ c.over = b.over /\ c.sources = b.sources
      /\ c.stages = [b.stages EXCEPT ![i] = g]
  <2>1. b.stages \in Seq(Clipboard!Stages)
    BY <1>1 DEF Clipboard!Job
  <2> DEFINE f == [b.stages EXCEPT ![i] = g]
  <2>2. f \in Seq(Clipboard!Stages)
    BY <2>1
  <2>3. c = [b EXCEPT !.stages = f]
    OBVIOUS
  <2> HIDE DEF f, c, b
  <2>4. /\ c \in Clipboard!Job /\ c.kind = b.kind /\ c.over = b.over /\ c.sources = b.sources
        /\ c.stages = f
    BY <1>1, <2>2, <2>3 DEF Clipboard!Job
  <2> QED BY <2>4 DEF f
<1>6. /\ DOMAIN c.stages = DOMAIN b.stages
      /\ \A m \in DOMAIN b.stages : c.stages[m] = IF m = i THEN g ELSE b.stages[m]
  BY <1>5
<1> HIDE DEF t, c
<1>7. /\ t.jobs \in Seq(Clipboard!Job) /\ DOMAIN t.jobs = DOMAIN s.jobs
      /\ \A k \in DOMAIN s.jobs : t.jobs[k] = IF k = j THEN c ELSE s.jobs[k]
  <2> DEFINE q == s.jobs
             r == [q EXCEPT ![j] = c]
  <2>1. q \in Seq(Clipboard!Job) /\ j \in DOMAIN q /\ c \in Clipboard!Job
    BY <1>1, <1>5
  <2> HIDE DEF q
  <2>2. /\ r \in Seq(Clipboard!Job) /\ DOMAIN r = DOMAIN q
        /\ \A k \in DOMAIN q : r[k] = IF k = j THEN c ELSE q[k]
    BY <2>1
  <2>3. t.jobs = r
    BY <1>4 DEF q
  <2> QED BY <2>2, <2>3 DEF q
<1>8. ASSUME NEW k \in DOMAIN s.jobs
      PROVE  /\ t.jobs[k].kind = s.jobs[k].kind /\ t.jobs[k].over = s.jobs[k].over
             /\ t.jobs[k].sources = s.jobs[k].sources
             /\ DOMAIN t.jobs[k].stages = DOMAIN s.jobs[k].stages
             /\ \A m \in DOMAIN s.jobs[k].stages :
                  t.jobs[k].stages[m] = IF k = j /\ m = i THEN g ELSE s.jobs[k].stages[m]
  <2>1. CASE k = j
    BY <2>1, <1>5, <1>6, <1>7
  <2>2. CASE k # j
    BY <2>2, <1>7
  <2> QED BY <2>1, <2>2
<1> QED BY <1>4, <1>7, <1>8 DEF MovesOn, t

\* A file that is under way moves on; if it fails the user is told, or it is a
\* picture of a conversation.
LEMMA FileMovesOn ==
    ASSUME NEW s, Clipboard!Inv(s), NEW j \in DOMAIN s.jobs, NEW i \in DOMAIN s.jobs[j].stages,
           s.jobs[j].stages[i] \notin {"uploaded", "failed"},
           NEW t, NEW g, MovesOn(s, t, j, i, g),
           \/ t.told = s.told /\ (g = "failed" => s.jobs[j].kind = "conversation")
           \/ t.told = s.told \cup {<<j, i>>} /\ g = "failed"
    PROVE  Clipboard!Inv(t)
<1>1. /\ DOMAIN t = DOMAIN s /\ t.jobs \in Seq(Clipboard!Job) /\ DOMAIN t.jobs = DOMAIN s.jobs
      /\ t.line = s.line
  BY DEF MovesOn
<1>2. ASSUME NEW k \in DOMAIN s.jobs
      PROVE  /\ t.jobs[k].kind = s.jobs[k].kind /\ t.jobs[k].over = s.jobs[k].over
             /\ t.jobs[k].sources = s.jobs[k].sources
             /\ DOMAIN t.jobs[k].stages = DOMAIN s.jobs[k].stages
             /\ \A m \in DOMAIN s.jobs[k].stages :
                  t.jobs[k].stages[m] = IF k = j /\ m = i THEN g ELSE s.jobs[k].stages[m]
  BY DEF MovesOn
<1>3. ~s.jobs[j].over
  BY DEF Clipboard!Inv, Clipboard!Outcomes
<1>4. Clipboard!Typed(t)
  BY <1>1, <1>2 DEF Clipboard!Inv, Clipboard!Typed
<1>5. Clipboard!InTerminal(t)
  <2> SUFFICES ASSUME NEW a \in DOMAIN s.line
               PROVE  LET p == s.line[a]
                      IN  /\ p[1] \in DOMAIN t.jobs /\ t.jobs[p[1]].over
                          /\ p[2] \in DOMAIN t.jobs[p[1]].stages
                          /\ t.jobs[p[1]].stages[p[2]] = "uploaded"
    BY <1>1, SMTT(30) DEF Clipboard!InTerminal
  <2>1. LET p == s.line[a]
        IN  /\ p[1] \in DOMAIN s.jobs /\ s.jobs[p[1]].over
            /\ p[2] \in DOMAIN s.jobs[p[1]].stages
            /\ s.jobs[p[1]].stages[p[2]] = "uploaded"
    BY DEF Clipboard!Inv, Clipboard!InTerminal
  <2>2. s.line[a][1] # j
    BY <2>1, <1>3
  <2> QED BY <2>1, <2>2, <1>1, <1>2
<1>6. Clipboard!Ordered(t)
  BY <1>1 DEF Clipboard!Inv, Clipboard!Ordered
<1>7. Clipboard!Told(t)
  <2> SUFFICES ASSUME NEW p \in t.told
               PROVE  /\ p[1] \in DOMAIN t.jobs /\ p[2] \in DOMAIN t.jobs[p[1]].stages
                      /\ t.jobs[p[1]].stages[p[2]] = "failed"
    BY DEF Clipboard!Told
  <2>1. CASE p \in s.told
    <3>1. /\ p[1] \in DOMAIN s.jobs /\ p[2] \in DOMAIN s.jobs[p[1]].stages
          /\ s.jobs[p[1]].stages[p[2]] = "failed"
      BY <2>1 DEF Clipboard!Inv, Clipboard!Told
    <3>2. ~(p[1] = j /\ p[2] = i)
      BY <3>1
    <3> QED BY <3>1, <3>2, <1>1, <1>2
  <2>2. CASE p \notin s.told
    <3>1. p = <<j, i>> /\ g = "failed"
      BY <2>2
    <3> QED BY <3>1, <1>1, <1>2
  <2> QED BY <2>1, <2>2
<1>8. Clipboard!Outcomes(t)
  <2> SUFFICES ASSUME NEW k \in DOMAIN s.jobs, NEW m \in DOMAIN s.jobs[k].stages
               PROVE  /\ t.jobs[k].stages[m] = "failed" => <<k, m>> \in t.told \/ t.jobs[k].kind = "conversation"
                      /\ t.jobs[k].sources[m] = "remote" => t.jobs[k].kind = "conversation"
                      /\ t.jobs[k].over => t.jobs[k].stages[m] \in {"uploaded", "failed"}
                      /\ t.jobs[k].over /\ t.jobs[k].stages[m] = "uploaded" =>
                           \E a \in DOMAIN t.line : t.line[a] = <<k, m>>
    BY <1>1, <1>2 DEF Clipboard!Outcomes
  <2>1. /\ s.jobs[k].stages[m] = "failed" => <<k, m>> \in s.told \/ s.jobs[k].kind = "conversation"
        /\ s.jobs[k].sources[m] = "remote" => s.jobs[k].kind = "conversation"
        /\ s.jobs[k].over => s.jobs[k].stages[m] \in {"uploaded", "failed"}
        /\ s.jobs[k].over /\ s.jobs[k].stages[m] = "uploaded" =>
             \E a \in DOMAIN s.line : s.line[a] = <<k, m>>
    BY DEF Clipboard!Inv, Clipboard!Outcomes
  <2>2. CASE k = j /\ m = i
    BY <2>1, <2>2, <1>1, <1>2, <1>3
  <2>3. CASE ~(k = j /\ m = i)
    BY <2>1, <2>3, <1>1, <1>2
  <2> QED BY <2>2, <2>3
<1> QED BY <1>4, <1>5, <1>6, <1>7, <1>8 DEF Clipboard!Inv

\* A paste begins: none of its files is anywhere yet.
LEMMA PasteBegins == Clipboard!Inv(x) /\ Clipboard!Begin => Clipboard!Inv(x')
<1> SUFFICES ASSUME Clipboard!Inv(x), Clipboard!Begin
             PROVE  Clipboard!Inv(x')
  OBVIOUS
<1>1. PICK kind \in Clipboard!Kinds :
         \E n \in 1..MaxFiles : \E src \in [1..n -> Clipboard!Sources] :
           /\ kind = "attached" => n = 1
           /\ kind # "conversation" => "remote" \notin {src[i] : i \in 1..n}
           /\ x' = [x EXCEPT !.jobs = Append(@, [kind |-> kind, sources |-> src, order |-> <<>>,
                                                 stages |-> [i \in 1..n |-> "waiting"],
                                                 over |-> FALSE])]
  BY DEF Clipboard!Begin
<1>2. PICK n \in 1..MaxFiles : \E src \in [1..n -> Clipboard!Sources] :
           /\ kind # "conversation" => "remote" \notin {src[i] : i \in 1..n}
           /\ x' = [x EXCEPT !.jobs = Append(@, [kind |-> kind, sources |-> src, order |-> <<>>,
                                                 stages |-> [i \in 1..n |-> "waiting"],
                                                 over |-> FALSE])]
  BY <1>1
<1>3. PICK src \in [1..n -> Clipboard!Sources] :
           /\ kind # "conversation" => "remote" \notin {src[i] : i \in 1..n}
           /\ x' = [x EXCEPT !.jobs = Append(@, [kind |-> kind, sources |-> src, order |-> <<>>,
                                                 stages |-> [i \in 1..n |-> "waiting"],
                                                 over |-> FALSE])]
  BY <1>2
<1> DEFINE st == [i \in 1..n |-> "waiting"]
           b == [kind |-> kind, sources |-> src, order |-> <<>>, stages |-> st, over |-> FALSE]
           z == Len(x.jobs) + 1
<1>4. n \in Nat /\ src \in Seq(Clipboard!Sources) /\ DOMAIN src = 1..n
  OBVIOUS
<1>5. st \in Seq(Clipboard!Stages) /\ DOMAIN st = 1..n /\ \A i \in 1..n : st[i] = "waiting"
  BY <1>4 DEF Clipboard!Stages
<1>6. x' = [x EXCEPT !.jobs = Append(x.jobs, b)]
  BY <1>3
<1> HIDE DEF st
<1>7. /\ b \in Clipboard!Job /\ b.kind = kind /\ b.sources = src /\ b.stages = st /\ b.over = FALSE
  BY <1>4, <1>5 DEF Clipboard!Job
<1> HIDE DEF b
<1>8. x.jobs \in Seq(Clipboard!Job) /\ DOMAIN x = {"jobs", "line", "told", "ready", "losses"}
  BY DEF Clipboard!Inv, Clipboard!Typed
<1>9. DOMAIN x' = DOMAIN x /\ x'.line = x.line /\ x'.told = x.told /\ x'.jobs = Append(x.jobs, b)
  BY <1>6, <1>8
<1>10. /\ x'.jobs \in Seq(Clipboard!Job) /\ DOMAIN x'.jobs = DOMAIN x.jobs \cup {z} /\ z \notin DOMAIN x.jobs
       /\ \A k \in DOMAIN x.jobs : x'.jobs[k] = x.jobs[k]
       /\ x'.jobs[z] = b
  <2> DEFINE q == x.jobs
             r == Append(q, b)
  <2>1. /\ r \in Seq(Clipboard!Job) /\ DOMAIN r = DOMAIN q \cup {Len(q) + 1} /\ Len(q) + 1 \notin DOMAIN q
        /\ \A k \in DOMAIN q : r[k] = q[k]
        /\ r[Len(q) + 1] = b
    <3> HIDE DEF q
    <3> QED BY <1>7, <1>8 DEF q
  <2> HIDE DEF r
  <2> QED BY <2>1, <1>9 DEF r
<1> HIDE DEF z
<1>11. Clipboard!Typed(x')
  <2>1. \A k \in DOMAIN x'.jobs : DOMAIN x'.jobs[k].sources = DOMAIN x'.jobs[k].stages
    BY <1>4, <1>5, <1>7, <1>10, SMTT(30) DEF Clipboard!Inv, Clipboard!Typed
  <2> QED BY <2>1, <1>9, <1>10 DEF Clipboard!Inv, Clipboard!Typed
<1>12. Clipboard!InTerminal(x')
  BY <1>9, <1>10 DEF Clipboard!Inv, Clipboard!InTerminal
<1>13. Clipboard!Ordered(x')
  BY <1>9 DEF Clipboard!Inv, Clipboard!Ordered
<1>14. Clipboard!Told(x')
  BY <1>9, <1>10 DEF Clipboard!Inv, Clipboard!Told
<1>15. Clipboard!Outcomes(x')
  <2> SUFFICES ASSUME NEW k \in DOMAIN x'.jobs, NEW m \in DOMAIN x'.jobs[k].stages
               PROVE  /\ x'.jobs[k].stages[m] = "failed" => <<k, m>> \in x'.told \/ x'.jobs[k].kind = "conversation"
                      /\ x'.jobs[k].sources[m] = "remote" => x'.jobs[k].kind = "conversation"
                      /\ x'.jobs[k].over => x'.jobs[k].stages[m] \in {"uploaded", "failed"}
                      /\ x'.jobs[k].over /\ x'.jobs[k].stages[m] = "uploaded" =>
                           \E a \in DOMAIN x'.line : x'.line[a] = <<k, m>>
    BY DEF Clipboard!Outcomes
  <2>1. CASE k \in DOMAIN x.jobs
    <3>1. x'.jobs[k] = x.jobs[k] /\ m \in DOMAIN x.jobs[k].stages
      BY <2>1, <1>10
    <3>2. /\ x.jobs[k].stages[m] = "failed" => <<k, m>> \in x.told \/ x.jobs[k].kind = "conversation"
          /\ x.jobs[k].sources[m] = "remote" => x.jobs[k].kind = "conversation"
          /\ x.jobs[k].over => x.jobs[k].stages[m] \in {"uploaded", "failed"}
          /\ x.jobs[k].over /\ x.jobs[k].stages[m] = "uploaded" =>
               \E a \in DOMAIN x.line : x.line[a] = <<k, m>>
      BY <2>1, <3>1 DEF Clipboard!Inv, Clipboard!Outcomes
    <3> QED BY <3>1, <3>2, <1>9
  <2>2. CASE k = z
    <3>1. x'.jobs[k] = b
      BY <2>2, <1>10
    <3>2. m \in 1..n /\ b.stages[m] = "waiting" /\ b.over = FALSE
      BY <3>1, <1>5, <1>7
    <3>3. b.sources[m] = "remote" => b.kind = "conversation"
      BY <3>2, <1>3, <1>7
    <3> QED BY <3>1, <3>2, <3>3
  <2> QED BY <2>1, <2>2, <1>10
<1> QED BY <1>11, <1>12, <1>13, <1>14, <1>15 DEF Clipboard!Inv

\* Places among l + m, behind the first l.
LEMMA OverTheEnd ==
    ASSUME NEW l \in Nat, NEW m \in Nat
    PROVE  /\ \A a \in 1..(l + m) : a \notin 1..l => a - l \in 1..m /\ l + (a - l) = a
           /\ \A a \in 1..m : l + a \in 1..(l + m)
OBVIOUS

\* A paste ends: its uploaded files are put behind what is in the terminal.
LEMMA PasteEnds ==
    ASSUME Clipboard!Inv(x), NEW j \in DOMAIN x.jobs, Clipboard!Finish(j)
    PROVE  Clipboard!Inv(x')
<1> DEFINE p == Clipboard!Paths(x.jobs[j])
           b == x.jobs[j]
           c == [b EXCEPT !.over = TRUE]
           new == [k \in DOMAIN p |-> <<j, p[k]>>]
<1>1. /\ DOMAIN x = {"jobs", "line", "told", "ready", "losses"}
      /\ x.jobs \in Seq(Clipboard!Job) /\ b \in Clipboard!Job /\ x.line \in Seq(Nat \X Nat) /\ j \in Nat
  BY DEF Clipboard!Inv, Clipboard!Typed
<1>2. /\ ~b.over /\ \A i \in DOMAIN b.stages : b.stages[i] \in {"uploaded", "failed"}
      /\ x' = [x EXCEPT !.jobs = [x.jobs EXCEPT ![j] = c], !.line = x.line \o new]
  BY DEF Clipboard!Finish
<1>3. b.stages \in Seq(Clipboard!Stages)
  BY <1>1 DEF Clipboard!Job
<1>4. /\ p \in Seq(Nat)
      /\ \A a1, a2 \in DOMAIN p : a1 < a2 => p[a1] < p[a2]
      /\ \A a \in DOMAIN p : p[a] \in DOMAIN b.stages /\ b.stages[p[a]] = "uploaded"
      /\ \A i \in DOMAIN b.stages : b.stages[i] = "uploaded" => \E a \in DOMAIN p : p[a] = i
  BY <1>3, PathsAre
<1> HIDE DEF p
<1>5. new \in Seq(Nat \X Nat) /\ Len(new) = Len(p) /\ \A k \in 1..Len(p) : new[k] = <<j, p[k]>>
  <2>1. Len(p) \in Nat /\ DOMAIN p = 1..Len(p)
    BY <1>4
  <2>2. \A k \in 1..Len(p) : <<j, p[k]>> \in Nat \X Nat
    BY <1>1, <1>4, <2>1
  <2> QED BY <2>1, <2>2
<1> HIDE DEF new
<1>6. /\ DOMAIN x' = DOMAIN x /\ x'.told = x.told
      /\ x'.jobs = [x.jobs EXCEPT ![j] = c] /\ x'.line = x.line \o new
  BY <1>1, <1>2
<1>7. /\ c \in Clipboard!Job /\ c.kind = b.kind /\ c.over = TRUE /\ c.sources = b.sources /\ c.stages = b.stages
  <2> HIDE DEF b
  <2> QED BY <1>1 DEF Clipboard!Job
<1> HIDE DEF c
<1>8. /\ x'.jobs \in Seq(Clipboard!Job) /\ DOMAIN x'.jobs = DOMAIN x.jobs
      /\ x'.jobs[j] = c
      /\ \A k \in DOMAIN x.jobs : k # j => x'.jobs[k] = x.jobs[k]
  <2> DEFINE q == x.jobs
             r == [q EXCEPT ![j] = c]
  <2>1. q \in Seq(Clipboard!Job) /\ j \in DOMAIN q
    BY <1>1
  <2> HIDE DEF q
  <2>2. /\ r \in Seq(Clipboard!Job) /\ DOMAIN r = DOMAIN q /\ r[j] = c
        /\ \A k \in DOMAIN q : k # j => r[k] = q[k]
    BY <2>1, <1>7
  <2>3. x'.jobs = r
    BY <1>6 DEF q
  <2> QED BY <2>2, <2>3 DEF q
<1>9. ASSUME NEW k \in DOMAIN x.jobs
      PROVE  /\ x'.jobs[k].kind = x.jobs[k].kind /\ x'.jobs[k].stages = x.jobs[k].stages
             /\ x'.jobs[k].sources = x.jobs[k].sources
             /\ x'.jobs[k].over <=> x.jobs[k].over \/ k = j
  <2>1. CASE k = j
    BY <2>1, <1>7, <1>8
  <2>2. CASE k # j
    BY <2>2, <1>8
  <2> QED BY <2>1, <2>2
<1> DEFINE L == Len(x.line)
<1>10. /\ x'.line \in Seq(Nat \X Nat) /\ L \in Nat /\ DOMAIN x.line = 1..L
       /\ DOMAIN x'.line = 1..(L + Len(p)) /\ Len(p) \in Nat /\ DOMAIN p = 1..Len(p)
       /\ \A a \in 1..L : x'.line[a] = x.line[a]
       /\ \A k \in 1..Len(p) : x'.line[L + k] = <<j, p[k]>>
  <2> DEFINE l == x.line
             r == l \o new
  <2>1. l \in Seq(Nat \X Nat) /\ Len(p) \in Nat /\ DOMAIN p = 1..Len(p)
    BY <1>1, <1>4
  <2> HIDE DEF l
  <2>2. /\ r \in Seq(Nat \X Nat) /\ Len(l) \in Nat /\ DOMAIN l = 1..Len(l)
        /\ DOMAIN r = 1..(Len(l) + Len(p))
        /\ \A a \in 1..Len(l) : r[a] = l[a]
        /\ \A k \in 1..Len(new) : r[Len(l) + k] = new[k]
    <3>1. /\ r \in Seq(Nat \X Nat) /\ Len(r) = Len(l) + Len(new)
          /\ \A a \in 1..(Len(l) + Len(new)) : r[a] = IF a <= Len(l) THEN l[a] ELSE new[a - Len(l)]
      BY <2>1, <1>5, ConcatProperties
    <3>2. Len(l) \in Nat /\ DOMAIN l = 1..Len(l) /\ Len(new) = Len(p)
      BY <2>1, <1>5, LenProperties
    <3>3. DOMAIN r = 1..(Len(l) + Len(p))
      BY <3>1, <3>2, LenProperties
    <3>4. \A a \in 1..Len(l) : a \in 1..(Len(l) + Len(new)) /\ a <= Len(l)
      BY <2>1, <3>2
    <3>5. \A k \in 1..Len(new) : /\ Len(l) + k \in 1..(Len(l) + Len(new)) /\ ~(Len(l) + k <= Len(l))
                                /\ (Len(l) + k) - Len(l) = k
      BY <2>1, <3>2
    <3> HIDE DEF r
    <3> QED BY <3>1, <3>2, <3>3, <3>4, <3>5
  <2>3. x'.line = r
    BY <1>6 DEF l
  <2> QED BY <2>1, <2>2, <2>3, <1>5 DEF l
<1> HIDE DEF L, b
<1>11. ASSUME NEW a \in 1..(L + Len(p)), a \notin 1..L
       PROVE  /\ a - L \in 1..Len(p) /\ x'.line[a] = <<j, p[a - L]>>
  <2>1. L \in Nat /\ Len(p) \in Nat
    BY <1>10
  <2>2. a - L \in 1..Len(p) /\ L + (a - L) = a
    BY <2>1, <1>11, OverTheEnd
  <2> QED BY <2>2, <1>10
<1>12. Clipboard!Typed(x')
  BY <1>6, <1>8, <1>9, <1>10, SMTT(30) DEF Clipboard!Inv, Clipboard!Typed
<1>13. Clipboard!InTerminal(x')
  <2> SUFFICES ASSUME NEW a \in 1..(L + Len(p))
               PROVE  LET e == x'.line[a]
                      IN  /\ e[1] \in DOMAIN x'.jobs /\ x'.jobs[e[1]].over
                          /\ e[2] \in DOMAIN x'.jobs[e[1]].stages
                          /\ x'.jobs[e[1]].stages[e[2]] = "uploaded"
    BY <1>10, SMTT(30) DEF Clipboard!InTerminal
  <2>1. CASE a \in 1..L
    <3>1. x'.line[a] = x.line[a] /\ a \in DOMAIN x.line
      BY <2>1, <1>10
    <3>2. LET e == x.line[a]
          IN  /\ e[1] \in DOMAIN x.jobs /\ x.jobs[e[1]].over
              /\ e[2] \in DOMAIN x.jobs[e[1]].stages
              /\ x.jobs[e[1]].stages[e[2]] = "uploaded"
      BY <3>1 DEF Clipboard!Inv, Clipboard!InTerminal
    <3> QED BY <3>1, <3>2, <1>8, <1>9, SMTT(30)
  <2>2. CASE a \notin 1..L
    <3>1. a - L \in DOMAIN p /\ x'.line[a] = <<j, p[a - L]>>
      BY <2>2, <1>10, <1>11
    <3>2. p[a - L] \in DOMAIN b.stages /\ b.stages[p[a - L]] = "uploaded"
      BY <3>1, <1>4
    <3> QED BY <3>1, <3>2, <1>8, <1>9 DEF b
  <2> QED BY <2>1, <2>2, SMTT(30)
<1>14. ASSUME NEW a \in 1..L
       PROVE  x.line[a][1] # j
  BY <1>2, <1>10 DEF b, Clipboard!Inv, Clipboard!InTerminal
<1>15. Clipboard!Ordered(x')
  <2> SUFFICES ASSUME NEW a \in 1..(L + Len(p)), NEW d \in 1..(L + Len(p)),
                      a < d, x'.line[a][1] = x'.line[d][1]
               PROVE  x'.line[a][2] < x'.line[d][2]
    BY <1>10 DEF Clipboard!Ordered
  <2>1. CASE d \in 1..L
    <3>1. a \in 1..L
      BY <2>1, <1>10
    <3> QED BY <2>1, <3>1, <1>10 DEF Clipboard!Inv, Clipboard!Ordered
  <2>2. CASE d \notin 1..L
    <3>1. d - L \in 1..Len(p) /\ x'.line[d] = <<j, p[d - L]>>
      BY <2>2, <1>11
    <3>2. a \notin 1..L
      <4>1. x'.line[a][1] = j
        BY <3>1
      <4>2. a \in 1..L => x'.line[a] = x.line[a] /\ x.line[a][1] # j
        BY <1>10, <1>14
      <4> QED BY <4>1, <4>2
    <3>3. a - L \in 1..Len(p) /\ x'.line[a] = <<j, p[a - L]>>
      BY <3>2, <1>11
    <3>4. a - L < d - L
      BY <1>10
    <3>5. p[a - L] < p[d - L]
      BY <3>1, <3>3, <3>4, <1>4, <1>10
    <3> QED BY <3>1, <3>3, <3>5
  <2> QED BY <2>1, <2>2
<1>16. Clipboard!Told(x')
  BY <1>6, <1>8, <1>9 DEF Clipboard!Inv, Clipboard!Told
<1>17. Clipboard!Outcomes(x')
  <2> SUFFICES ASSUME NEW k \in DOMAIN x.jobs, NEW m \in DOMAIN x.jobs[k].stages
               PROVE  /\ x'.jobs[k].stages[m] = "failed" => <<k, m>> \in x'.told \/ x'.jobs[k].kind = "conversation"
                      /\ x'.jobs[k].sources[m] = "remote" => x'.jobs[k].kind = "conversation"
                      /\ x'.jobs[k].over => x'.jobs[k].stages[m] \in {"uploaded", "failed"}
                      /\ x'.jobs[k].over /\ x'.jobs[k].stages[m] = "uploaded" =>
                           \E a \in DOMAIN x'.line : x'.line[a] = <<k, m>>
    BY <1>8, <1>9 DEF Clipboard!Outcomes
  <2>1. /\ x.jobs[k].stages[m] = "failed" => <<k, m>> \in x.told \/ x.jobs[k].kind = "conversation"
        /\ x.jobs[k].sources[m] = "remote" => x.jobs[k].kind = "conversation"
        /\ x.jobs[k].over => x.jobs[k].stages[m] \in {"uploaded", "failed"}
        /\ x.jobs[k].over /\ x.jobs[k].stages[m] = "uploaded" =>
             \E a \in DOMAIN x.line : x.line[a] = <<k, m>>
    BY DEF Clipboard!Inv, Clipboard!Outcomes
  <2>2. x'.jobs[k].over => x'.jobs[k].stages[m] \in {"uploaded", "failed"}
    <3>1. CASE k = j
      BY <3>1, <1>2, <1>9 DEF b
    <3>2. CASE k # j
      BY <3>2, <2>1, <1>9
    <3> QED BY <3>1, <3>2
  <2>3. ASSUME x'.jobs[k].over, x'.jobs[k].stages[m] = "uploaded"
        PROVE  \E a \in DOMAIN x'.line : x'.line[a] = <<k, m>>
    <3>1. CASE k = j
      <4>1. b.stages[m] = "uploaded" /\ m \in DOMAIN b.stages
        BY <2>3, <3>1, <1>9 DEF b
      <4>2. PICK a \in DOMAIN p : p[a] = m
        BY <4>1, <1>4
      <4>3. L + a \in DOMAIN x'.line
        <5>1. L \in Nat /\ Len(p) \in Nat /\ a \in 1..Len(p)
          BY <4>2, <1>10
        <5>2. L + a \in 1..(L + Len(p))
          BY <5>1, OverTheEnd
        <5> QED BY <5>2, <1>10
      <4>4. x'.line[L + a] = <<j, m>>
        BY <4>2, <1>10
      <4> QED BY <3>1, <4>3, <4>4
    <3>2. CASE k # j
      <4>1. PICK a \in DOMAIN x.line : x.line[a] = <<k, m>>
        BY <2>1, <2>3, <3>2, <1>9
      <4>2. a \in DOMAIN x'.line
        BY <4>1, <1>10
      <4>3. x'.line[a] = x.line[a]
        BY <4>1, <1>10
      <4> QED BY <4>1, <4>2, <4>3
    <3> QED BY <3>1, <3>2
  <2> QED BY <2>1, <2>2, <2>3, <1>6, <1>9
<1> QED BY <1>12, <1>13, <1>15, <1>16, <1>17 DEF Clipboard!Inv

LEMMA PasteInit == Clipboard!Init => Clipboard!Inv(x)
<1> SUFFICES ASSUME Clipboard!Init PROVE Clipboard!Inv(x)
  OBVIOUS
<1>1. x = [jobs |-> <<>>, line |-> <<>>, told |-> {}, ready |-> TRUE, losses |-> 0]
  BY DEF Clipboard!Init
<1>2. DOMAIN x.jobs = {} /\ DOMAIN x.line = {} /\ x.told = {}
  BY <1>1
<1>3. Clipboard!Typed(x)
  BY <1>1 DEF Clipboard!Typed
<1> QED BY <1>2, <1>3 DEF Clipboard!Inv, Clipboard!InTerminal, Clipboard!Ordered, Clipboard!Told,
                          Clipboard!Outcomes

\* A failed file of which the user is told, or is not.
LEMMA FileFails ==
    ASSUME Clipboard!Inv(x), NEW j \in DOMAIN x.jobs, NEW i \in DOMAIN x.jobs[j].stages,
           x.jobs[j].stages[i] \notin {"uploaded", "failed"}
    PROVE  /\ Clipboard!Inv(Clipboard!Fails(x, j, i))
           /\ x.jobs[j].kind = "conversation" => Clipboard!Inv(Clipboard!Silently(x, j, i))
<1> DEFINE s == Clipboard!Stage(x, j, i, "failed")
           t == Clipboard!Fails(x, j, i)
<1>1. Clipboard!Typed(x) /\ "failed" \in Clipboard!Stages
  BY DEF Clipboard!Inv, Clipboard!Stages
<1>2. MovesOn(x, s, j, i, "failed") /\ s.told = x.told
  BY <1>1, StageMoves
<1>3. x.jobs[j].kind = "conversation" => Clipboard!Inv(s)
  BY <1>2, FileMovesOn
<1>4. t = [s EXCEPT !.told = s.told \cup {<<j, i>>}]
  BY DEF Clipboard!Fails
<1>5. DOMAIN s = {"jobs", "line", "told", "ready", "losses"}
  BY <1>1, <1>2 DEF MovesOn, Clipboard!Typed
<1> HIDE DEF s, t
<1>6. DOMAIN t = DOMAIN s /\ t.jobs = s.jobs /\ t.line = s.line /\ t.told = x.told \cup {<<j, i>>}
  BY <1>2, <1>4, <1>5
<1>7. MovesOn(x, t, j, i, "failed")
  BY <1>2, <1>6 DEF MovesOn
<1>8. Clipboard!Inv(t)
  BY <1>6, <1>7, FileMovesOn
<1> QED BY <1>3, <1>8 DEF s, t, Clipboard!Silently

\* A file that goes on to be read or to be sent, or that arrives.
LEMMA FileGoesOn ==
    ASSUME Clipboard!Inv(x), NEW j \in DOMAIN x.jobs, NEW i \in DOMAIN x.jobs[j].stages,
           x.jobs[j].stages[i] \notin {"uploaded", "failed"}
    PROVE  /\ \A g \in {"reading", "sent"} : Clipboard!Inv(Clipboard!Stage(x, j, i, g))
           /\ Clipboard!Inv(Clipboard!Uploaded(x, j, i))
<1>1. Clipboard!Typed(x) /\ {"reading", "sent", "uploaded"} \subseteq Clipboard!Stages
  BY DEF Clipboard!Inv, Clipboard!Stages
<1>2. ASSUME NEW g \in {"reading", "sent"}
      PROVE  Clipboard!Inv(Clipboard!Stage(x, j, i, g))
  <2>1. /\ MovesOn(x, Clipboard!Stage(x, j, i, g), j, i, g)
        /\ Clipboard!Stage(x, j, i, g).told = x.told
    BY <1>1, StageMoves
  <2> QED BY <2>1, FileMovesOn
<1>3. Clipboard!Inv(Clipboard!Uploaded(x, j, i))
  <2> DEFINE s == Clipboard!Stage(x, j, i, "uploaded")
             t == Clipboard!Uploaded(x, j, i)
             b == s.jobs[j]
             c == [b EXCEPT !.order = Append(b.order, i)]
  <2>1. MovesOn(x, s, j, i, "uploaded") /\ s.told = x.told
    BY <1>1, StageMoves
  <2>2. t = [s EXCEPT !.jobs = [s.jobs EXCEPT ![j] = c]]
    BY DEF Clipboard!Uploaded
  <2>3. DOMAIN s = {"jobs", "line", "told", "ready", "losses"} /\ s.jobs \in Seq(Clipboard!Job)
    BY <1>1, <2>1 DEF MovesOn, Clipboard!Typed
  <2>4. j \in DOMAIN s.jobs /\ i \in Nat
    <3>1. x.jobs[j].stages \in Seq(Clipboard!Stages)
      <4>1. x.jobs[j] \in Clipboard!Job
        BY <1>1 DEF Clipboard!Typed
      <4> QED BY <4>1 DEF Clipboard!Job
    <3> QED BY <3>1, <2>1 DEF MovesOn
  <2> HIDE DEF s, t, c
  <2>5. b \in Clipboard!Job
    BY <2>3, <2>4
  <2> HIDE DEF b
  <2>6. /\ c \in Clipboard!Job /\ c.kind = b.kind /\ c.over = b.over /\ c.sources = b.sources
        /\ c.stages = b.stages
    <3>1. Append(b.order, i) \in Seq(Nat)
      BY <2>4, <2>5 DEF Clipboard!Job
    <3> QED BY <3>1, <2>5 DEF Clipboard!Job, c
  <2>7. DOMAIN t = DOMAIN s /\ t.jobs = [s.jobs EXCEPT ![j] = c] /\ t.line = s.line /\ t.told = x.told
    BY <2>1, <2>2, <2>3
  <2>8. /\ t.jobs \in Seq(Clipboard!Job) /\ DOMAIN t.jobs = DOMAIN s.jobs /\ t.jobs[j] = c
        /\ \A k \in DOMAIN s.jobs : k # j => t.jobs[k] = s.jobs[k]
    BY <2>3, <2>4, <2>6, <2>7
  <2>9. \A k \in DOMAIN s.jobs :
           /\ t.jobs[k].kind = s.jobs[k].kind /\ t.jobs[k].over = s.jobs[k].over
           /\ t.jobs[k].sources = s.jobs[k].sources /\ t.jobs[k].stages = s.jobs[k].stages
    BY <2>6, <2>8 DEF b
  <2>10. MovesOn(x, t, j, i, "uploaded")
    BY <2>1, <2>7, <2>8, <2>9 DEF MovesOn
  <2>11. Clipboard!Inv(t)
    BY <2>7, <2>10, FileMovesOn
  <2> QED BY <2>11 DEF t
<1> QED BY <1>2, <1>3

\* Every step of a paste keeps the invariant; what is lost or regained of the
\* connection is not a part of it.
LEMMA PasteStep == Clipboard!Inv(x) /\ [Clipboard!Next]_x => Clipboard!Inv(x')
<1> SUFFICES ASSUME Clipboard!Inv(x), [Clipboard!Next]_x
             PROVE  Clipboard!Inv(x')
  OBVIOUS
<1>1. CASE Clipboard!Begin
  BY <1>1, PasteBegins
<1>2. CASE Clipboard!Lose \/ Clipboard!Ready
  <2>1. DOMAIN x = {"jobs", "line", "told", "ready", "losses"}
    BY DEF Clipboard!Inv, Clipboard!Typed
  <2>2. DOMAIN x' = DOMAIN x /\ x'.jobs = x.jobs /\ x'.line = x.line /\ x'.told = x.told
    BY <1>2, <2>1 DEF Clipboard!Lose, Clipboard!Ready
  <2>3. Clipboard!Typed(x')
    BY <2>2 DEF Clipboard!Inv, Clipboard!Typed
  <2>4. Clipboard!InTerminal(x') /\ Clipboard!Ordered(x')
    BY <2>2 DEF Clipboard!Inv, Clipboard!InTerminal, Clipboard!Ordered
  <2>5. Clipboard!Told(x')
    BY <2>2 DEF Clipboard!Inv, Clipboard!Told
  <2>6. Clipboard!Outcomes(x')
    <3>1. Clipboard!Outcomes(x)
      BY DEF Clipboard!Inv
    <3> DEFINE Good(q, l, d) ==
          \A j \in DOMAIN q : \A i \in DOMAIN q[j].stages :
            /\ q[j].stages[i] = "failed" => <<j, i>> \in d \/ q[j].kind = "conversation"
            /\ q[j].sources[i] = "remote" => q[j].kind = "conversation"
            /\ q[j].over => q[j].stages[i] \in {"uploaded", "failed"}
            /\ q[j].over /\ q[j].stages[i] = "uploaded" => \E a \in DOMAIN l : l[a] = <<j, i>>
    <3>2. Clipboard!Outcomes(x) <=> Good(x.jobs, x.line, x.told)
      BY Zenon DEF Clipboard!Outcomes
    <3>3. Clipboard!Outcomes(x') <=> Good(x'.jobs, x'.line, x'.told)
      BY Zenon DEF Clipboard!Outcomes
    <3> HIDE DEF Good
    <3> QED BY <2>2, <3>1, <3>2, <3>3
  <2> QED BY <2>3, <2>4, <2>5, <2>6 DEF Clipboard!Inv
<1>3. ASSUME NEW j \in DOMAIN x.jobs, Clipboard!Finish(j)
      PROVE  Clipboard!Inv(x')
  BY <1>3, PasteEnds
<1>4. ASSUME NEW j \in DOMAIN x.jobs, NEW i \in DOMAIN x.jobs[j].stages,
             Clipboard!Start(j, i) \/ Clipboard!Read(j, i) \/ Clipboard!Answer(j, i)
      PROVE  Clipboard!Inv(x')
  <2>1. CASE Clipboard!Start(j, i)
    <3>1. x.jobs[j].stages[i] \notin {"uploaded", "failed"}
      BY <2>1 DEF Clipboard!Start
    <3>2. \/ x' = Clipboard!Stage(x, j, i, "sent")
          \/ x' = Clipboard!Fails(x, j, i)
          \/ x' = Clipboard!Stage(x, j, i, "reading")
          \/ x.jobs[j].kind = "conversation" /\ x' = Clipboard!Silently(x, j, i)
      BY <2>1, Zenon DEF Clipboard!Start, Clipboard!Upload
    <3> QED BY <3>1, <3>2, FileFails, FileGoesOn
  <2>2. CASE Clipboard!Read(j, i)
    <3>1. x.jobs[j].stages[i] \notin {"uploaded", "failed"}
      BY <2>2 DEF Clipboard!Read
    <3>2. x' = Clipboard!Fails(x, j, i) \/ x' = Clipboard!Stage(x, j, i, "sent")
      BY <2>2, Zenon DEF Clipboard!Read
    <3> QED BY <3>1, <3>2, FileFails, FileGoesOn
  <2>3. CASE Clipboard!Answer(j, i)
    <3>1. x.jobs[j].stages[i] \notin {"uploaded", "failed"}
      BY <2>3 DEF Clipboard!Answer
    <3>2. x.jobs[j].sources[i] = "remote" => x.jobs[j].kind = "conversation"
      BY DEF Clipboard!Inv, Clipboard!Outcomes
    <3>3. \/ x' = Clipboard!Uploaded(x, j, i)
          \/ x' = Clipboard!Fails(x, j, i)
          \/ x.jobs[j].sources[i] = "remote" /\ x' = Clipboard!Silently(x, j, i)
      BY <2>3, Zenon DEF Clipboard!Answer
    <3> QED BY <3>1, <3>2, <3>3, FileFails, FileGoesOn
  <2> QED BY <1>4, <2>1, <2>2, <2>3
<1>5. CASE UNCHANGED x
  BY <1>5
<1> QED BY <1>1, <1>2, <1>3, <1>4, <1>5, Zenon DEF Clipboard!Next

\* What the invariant says of a finished paste.
LEMMA PasteAccounts == Clipboard!Inv(x) => Clipboard!Accounted(x)
<1> SUFFICES ASSUME Clipboard!Inv(x), NEW j \in DOMAIN x.jobs, x.jobs[j].over
             PROVE  /\ \A a, b \in DOMAIN x.line :
                         a < b /\ x.line[a][1] = j /\ x.line[b][1] = j => x.line[a][2] < x.line[b][2]
                    /\ \A i \in DOMAIN x.jobs[j].stages :
                         \/ \E a \in DOMAIN x.line : x.line[a] = <<j, i>>
                         \/ <<j, i>> \in x.told
                         \/ x.jobs[j].kind = "conversation"
                    /\ \A a \in DOMAIN x.line : x.line[a][1] = j => x.line[a] \notin x.told
  BY DEF Clipboard!Accounted
<1>1. \A a, b \in DOMAIN x.line :
         a < b /\ x.line[a][1] = j /\ x.line[b][1] = j => x.line[a][2] < x.line[b][2]
  BY DEF Clipboard!Inv, Clipboard!Ordered
<1>2. ASSUME NEW i \in DOMAIN x.jobs[j].stages
      PROVE  \/ \E a \in DOMAIN x.line : x.line[a] = <<j, i>>
             \/ <<j, i>> \in x.told
             \/ x.jobs[j].kind = "conversation"
  BY DEF Clipboard!Inv, Clipboard!Outcomes
<1>3. ASSUME NEW a \in DOMAIN x.line
      PROVE  x.line[a] \notin x.told
  BY DEF Clipboard!Inv, Clipboard!InTerminal, Clipboard!Told
<1> QED BY <1>1, <1>2, <1>3

\* Every file of a finished paste is in the terminal, in its place, or its
\* failure was told, however many files, pastes and losses of the connection
\* overlap.
THEOREM EveryFileIsAccounted == Spec => []EveryFileAccounted
<1> DEFINE I == part = "paste" => Clipboard!Inv(x)
<1>1. Init => I
  BY PasteInit DEF Init
<1>2. I /\ [Next]_vars => I'
  <2>1. Clipboard!Inv(x)' <=> Clipboard!Inv(x')
    BY DEF Clipboard!Inv, Clipboard!Typed, Clipboard!InTerminal, Clipboard!Ordered, Clipboard!Told,
           Clipboard!Outcomes
  <2> QED BY <2>1, PartAlone, PasteStep
<1>3. I => EveryFileAccounted
  BY PasteAccounts DEF EveryFileAccounted, Clipboard!EveryFileAccounted
<1> HIDE DEF I
<1> QED BY <1>1, <1>2, <1>3, PTL DEF Spec

-----------------------------------------------------------------------------
(***************************************************************************)
(* The types of the page.  An inductive invariant says of its part what    *)
(* the promises need; what is left of its types is a predicate of its own  *)
(* (ScreenRest, ClaimsRest, ...), which the steps keep besides: it holds   *)
(* at first, every step keeps it, and with the invariant it is the type.   *)
(***************************************************************************)

\* Screen: what is selected, in the bars, in the switcher and left are tiles.
SomeTile == Tiles \cup {None}
Bars     == [Tiles -> SUBSET Tiles]
ScreenRest(s) ==
    /\ DOMAIN s = Screens!Fields /\ s.tiles \in Seq(Tiles)
    /\ s.active \in SomeTile /\ s.master \in SomeTile
    /\ s.auto \subseteq Tiles /\ s.sliding \subseteq Tiles /\ s.cards \subseteq Tiles
    /\ s.later \subseteq Tiles /\ s.bar \in Bars
    /\ s.moves \in 0..MaxTileMoves

LEMMA ListedAreTiles ==
    ASSUME NEW s, s.tiles \in Seq(Tiles)
    PROVE  Screens!Listed(s) \subseteq Tiles
  BY DEF Screens!Listed, Screens!ToSet

LEMMA ScreenTyped == Screens!Inv(x) /\ ScreenRest(x) => Screens!TypeOK
<1> SUFFICES ASSUME Screens!Inv(x), ScreenRest(x) PROVE Screens!TypeOK
  OBVIOUS
<1>1. /\ x.tiles \in Seq(Tiles) /\ x.attaching \in Seq(Tiles) /\ x.paused \subseteq Tiles
      /\ \A i, j \in DOMAIN x.tiles : x.tiles[i] = x.tiles[j] => i = j
      /\ x.full \subseteq Screens!Listed(x) /\ x.asleep \subseteq Screens!Listed(x)
      /\ {x.online, x.mobile, x.stale, x.doubled} \subseteq BOOLEAN
  BY DEF Screens!Inv, Screens!Typed
<1>2. x.full \subseteq Tiles /\ x.asleep \subseteq Tiles
  BY <1>1, ListedAreTiles
<1>3. Screens!IsInjective(x.tiles)
  BY <1>1 DEF Screens!IsInjective
<1>4. /\ x.active \in Tiles \cup {None} /\ x.master \in Tiles \cup {None} /\ x.auto \subseteq Tiles
      /\ x.sliding \subseteq Tiles /\ x.cards \subseteq Tiles /\ x.later \subseteq Tiles
      /\ x.bar \in [Tiles -> SUBSET Tiles] /\ x.moves \in 0..MaxTileMoves
  BY DEF ScreenRest, SomeTile, Bars
<1> QED BY <1>1, <1>2, <1>3, <1>4 DEF Screens!TypeOK

LEMMA ScreenRestInit == Screens!Init => ScreenRest(x)
<1> SUFFICES ASSUME Screens!Init PROVE ScreenRest(x)
  OBVIOUS
<1>1. MaxTileMoves \in Nat
  BY PageBounds
<1>2. /\ DOMAIN x = Screens!Fields /\ x.tiles = <<>> /\ x.active = None /\ x.master = None
      /\ x.auto = {} /\ x.sliding = {} /\ x.cards = {} /\ x.later = {}
      /\ x.bar = [t \in Tiles |-> {}] /\ x.moves = 0
  BY DEF Screens!Init, Screens!Fields
<1>3. x.bar \in Bars /\ x.tiles \in Seq(Tiles) /\ x.active \in SomeTile /\ x.master \in SomeTile
  BY <1>2 DEF Bars, SomeTile
<1>4. x.moves \in 0..MaxTileMoves
  BY <1>1, <1>2
<1>5. /\ x.auto \subseteq Tiles /\ x.sliding \subseteq Tiles /\ x.cards \subseteq Tiles
      /\ x.later \subseteq Tiles
  BY <1>2
<1> QED BY <1>2, <1>3, <1>4, <1>5 DEF ScreenRest

\* A step that changes nothing of this but the bars.
ButBars(s, r) ==
    /\ DOMAIN r = Screens!Fields /\ r.tiles = s.tiles /\ r.active = s.active
    /\ r.master = s.master /\ r.auto = s.auto /\ r.sliding = s.sliding /\ r.cards = s.cards
    /\ r.later = s.later /\ r.moves = s.moves

LEMMA ButBarsTyped ==
    ASSUME NEW s, ScreenRest(s), NEW r, ButBars(s, r), r.bar \in Bars
    PROVE  ScreenRest(r) /\ r.moves = s.moves
  BY DEF ScreenRest, ButBars

LEMMA SleepTyped ==
    ASSUME NEW s, ScreenRest(s)
    PROVE  LET r == Screens!UpdateSleepState(s)
           IN  ScreenRest(r) /\ ButBars(s, r)
<1> DEFINE r == Screens!UpdateSleepState(s)
<1>1. ButBars(s, r) /\ r.bar = s.bar
  BY DEF ScreenRest, ButBars, Screens!Fields, Screens!UpdateSleepState
<1> HIDE DEF r
<1>2. ScreenRest(r)
  BY <1>1 DEF ScreenRest, ButBars
<1> QED BY <1>1, <1>2 DEF r

LEMMA TabsTyped ==
    ASSUME NEW s, ScreenRest(s), NEW t \in Tiles
    PROVE  LET r == Screens!RenderFsTabs(s, t)
           IN  ScreenRest(r) /\ ButBars(s, r)
<1> DEFINE r == Screens!RenderFsTabs(s, t)
           b == IF Len(s.tiles) <= 1 THEN s.bar[t] ELSE Screens!Listed(s)
<1>1. ButBars(s, r) /\ r.bar = [s.bar EXCEPT ![t] = b]
  BY DEF ScreenRest, ButBars, Screens!Fields, Screens!RenderFsTabs
<1>2. s.bar \in Bars /\ b \subseteq Tiles
  BY ListedAreTiles DEF ScreenRest, Bars
<1> HIDE DEF r, b
<1>3. r.bar \in Bars
  BY <1>1, <1>2 DEF Bars
<1>4. ScreenRest(r)
  BY <1>1, <1>3, ButBarsTyped
<1> QED BY <1>1, <1>4 DEF r

LEMMA RefreshTyped ==
    ASSUME NEW s, ScreenRest(s)
    PROVE  LET r == Screens!RefreshFsTabs(s)
           IN  ScreenRest(r) /\ ButBars(s, r)
<1> DEFINE r == Screens!RefreshFsTabs(s)
           b(t) == IF t \notin Screens!FirstFull(s) THEN s.bar[t]
                   ELSE IF Len(s.tiles) <= 1 THEN {} ELSE Screens!Listed(s)
<1>1. ButBars(s, r) /\ r.bar = [t \in Tiles |-> b(t)]
  BY DEF ScreenRest, ButBars, Screens!Fields, Screens!RefreshFsTabs
<1>2. \A t \in Tiles : b(t) \in SUBSET Tiles
  <2>1. s.bar \in [Tiles -> SUBSET Tiles] /\ Screens!Listed(s) \subseteq Tiles
    BY ListedAreTiles DEF ScreenRest, Bars
  <2> QED BY <2>1
<1> HIDE DEF r, b
<1>3. r.bar \in Bars
  BY <1>1, <1>2 DEF Bars
<1>4. ScreenRest(r)
  BY <1>1, <1>3, ButBarsTyped
<1> QED BY <1>1, <1>4 DEF r

LEMMA ToggleTyped ==
    ASSUME NEW s, ScreenRest(s), NEW t \in Tiles
    PROVE  LET r == Screens!ToggleFullscreen(s, t)
           IN  ScreenRest(r) /\ ButBars(s, r)
<1> DEFINE a == [s EXCEPT !.full = @ \ {t}, !.bar[t] = {}]
           c == [s EXCEPT !.full = @ \cup {t}, !.doubled = @ \/ s.full # {}]
           d == Screens!RenderFsTabs(c, t)
           r == Screens!ToggleFullscreen(s, t)
<1>1. ScreenRest(a) /\ ButBars(s, a)
  <2>1. ButBars(s, a) /\ a.bar = [s.bar EXCEPT ![t] = {}]
    BY DEF ScreenRest, ButBars, Screens!Fields
  <2>2. s.bar \in Bars
    BY DEF ScreenRest
  <2> HIDE DEF a
  <2>3. a.bar \in Bars
    BY <2>1, <2>2 DEF Bars
  <2> QED BY <2>1, <2>3, ButBarsTyped
<1>2. ScreenRest(c) /\ ButBars(s, c)
  BY DEF ScreenRest, ButBars, Screens!Fields
<1> HIDE DEF a, c
<1>3. ScreenRest(d) /\ ButBars(c, d)
  BY <1>2, TabsTyped
<1>4. ButBars(s, d)
  BY <1>2, <1>3 DEF ButBars
<1>5. r = Screens!UpdateSleepState(a) \/ r = Screens!UpdateSleepState(d)
  BY DEF Screens!ToggleFullscreen, a, c
<1> HIDE DEF d, r
<1>6. ASSUME NEW e, ScreenRest(e), ButBars(s, e), r = Screens!UpdateSleepState(e)
      PROVE  ScreenRest(r) /\ ButBars(s, r)
  <2>1. ScreenRest(r) /\ ButBars(e, r)
    BY <1>6, SleepTyped
  <2> QED BY <2>1, <1>6 DEF ButBars
<1>7. ScreenRest(r) /\ ButBars(s, r)
  BY <1>1, <1>3, <1>4, <1>5, <1>6
<1> QED BY <1>7 DEF r

LEMMA SelectedTyped ==
    ASSUME NEW s, ScreenRest(s), NEW t \in SomeTile, NEW slides
    PROVE  LET r == Screens!SetActive(s, t, slides)
           IN  ScreenRest(r) /\ r.moves = s.moves
<1> DEFINE was  == s.active \in s.full \cap Screens!Listed(s)
           s1   == [s EXCEPT !.active = t]
           bare == [s1 EXCEPT !.full = {}, !.bar = [u \in Tiles |-> {}], !.doubled = FALSE]
           left == IF slides /\ s.active # t THEN s.sliding \cup {s.active} ELSE s.sliding
           full == [bare EXCEPT !.full = {t}, !.sliding = left]
           tabs == Screens!RenderFsTabs(full, t)
           r    == Screens!SetActive(s, t, slides)
<1> DEFINE Fine(q) == ScreenRest(q) /\ q.moves = s.moves
<1>1. Fine(s1)
  BY DEF ScreenRest, Screens!Fields
<1>2. Fine(bare) /\ bare.sliding = s.sliding
  <2>1. [u \in Tiles |-> {}] \in Bars
    BY DEF Bars
  <2>2. s1.sliding = s.sliding
    BY DEF ScreenRest, Screens!Fields
  <2> HIDE DEF s1
  <2> DEFINE z == [u \in Tiles |-> {}]
  <2>3. bare = [s1 EXCEPT !.full = {}, !.bar = z, !.doubled = FALSE] /\ z \in Bars
    BY <2>1
  <2> HIDE DEF z, bare
  <2> QED BY <1>1, <2>2, <2>3 DEF ScreenRest, Screens!Fields
<1>3. was => left \subseteq Tiles
  <2>1. Screens!Listed(s) \subseteq Tiles
    BY ListedAreTiles DEF ScreenRest
  <2>2. s.sliding \subseteq Tiles
    BY DEF ScreenRest
  <2> QED BY <2>1, <2>2
<1> HIDE DEF bare, left
<1>4. was => Fine(full)
  BY <1>2, <1>3 DEF ScreenRest, Screens!Fields
<1> HIDE DEF full
<1>5. t \in Screens!Listed(s) => t \in Tiles
  BY ListedAreTiles DEF ScreenRest
<1>6. was /\ t \in Screens!Listed(s) => Fine(tabs)
  <2> SUFFICES ASSUME was, t \in Screens!Listed(s) PROVE Fine(tabs)
    OBVIOUS
  <2>1. ScreenRest(tabs) /\ ButBars(full, tabs)
    BY <1>4, <1>5, TabsTyped
  <2> QED BY <2>1, <1>4 DEF ButBars
<1>7. PICK q : /\ r = Screens!EnsureFullscreenMobile(Screens!UpdateSleepState(q), t)
               /\ q \in {s1, bare} \/ (q = tabs /\ was /\ t \in Screens!Listed(s))
  BY Zenon DEF Screens!SetActive, full, left, bare
<1>8. Fine(q)
  BY <1>1, <1>2, <1>6, <1>7
<1> HIDE DEF s1, tabs, was
<1> DEFINE w == Screens!UpdateSleepState(q)
<1>9. Fine(w)
  <2>1. ScreenRest(w) /\ ButBars(q, w)
    BY <1>8, SleepTyped
  <2> QED BY <2>1, <1>8 DEF ButBars
<1> HIDE DEF w
<1>10. r = w \/ (t \in Screens!Listed(w) /\ r = Screens!ToggleFullscreen(w, t))
  BY <1>7 DEF Screens!EnsureFullscreenMobile, w
<1> HIDE DEF r
<1>11. CASE r = w
  BY <1>9, <1>11 DEF r
<1>12. CASE t \in Screens!Listed(w) /\ r = Screens!ToggleFullscreen(w, t)
  <2>1. t \in Tiles
    BY <1>9, <1>12, ListedAreTiles DEF ScreenRest
  <2>2. ScreenRest(r) /\ ButBars(w, r)
    BY <2>1, <1>9, <1>12, ToggleTyped
  <2>3. Fine(r)
    BY <2>2, <1>9 DEF ButBars
  <2> QED BY <2>3 DEF r
<1> QED BY <1>10, <1>11, <1>12

LEMMA MountTyped ==
    ASSUME NEW s, ScreenRest(s), NEW t \in Tiles
    PROVE  LET r == Screens!Mount(s, t)
           IN  ScreenRest(r) /\ r.moves = s.moves
<1> DEFINE q == Append(s.tiles, t)
           a == [s EXCEPT !.tiles = q,
                          !.attaching = IF @ = <<>> THEN @ ELSE Append(@, t)]
           r == Screens!Mount(s, t)
<1>1. q \in Seq(Tiles)
  BY DEF ScreenRest
<1> HIDE DEF q
<1>2. ScreenRest(a) /\ a.moves = s.moves
  BY <1>1 DEF ScreenRest, Screens!Fields
<1>3. r = Screens!RefreshFsTabs(a)
  BY DEF Screens!Mount, q
<1> HIDE DEF a, r
<1>4. ScreenRest(r) /\ ButBars(a, r)
  BY <1>2, <1>3, RefreshTyped
<1> QED BY <1>2, <1>4 DEF ButBars, r

LEMMA LastTyped ==
    ASSUME NEW q \in Seq(Tiles)
    PROVE  Screens!Last1(q) \in SomeTile
<1>1. CASE q = <<>>
  BY <1>1 DEF Screens!Last1, SomeTile
<1>2. CASE q # <<>>
  <2>1. Len(q) \in DOMAIN q
    BY <1>2, LenProperties, EmptySeq
  <2>2. q[Len(q)] \in Tiles
    BY <2>1
  <2> QED BY <1>2, <2>2 DEF Screens!Last1, SomeTile
<1> QED BY <1>1, <1>2

LEMMA ScreenRestStep ==
    Screens!Inv(x) /\ ScreenRest(x) /\ [Screens!Next]_x => ScreenRest(x')
<1> SUFFICES ASSUME Screens!Inv(x), ScreenRest(x), [Screens!Next]_x PROVE ScreenRest(x')
  OBVIOUS
<1> DEFINE Fine(r) == ScreenRest(r) /\ r.moves = x.moves
<1>0. DOMAIN x = Screens!Fields /\ Fine(x) /\ x.tiles \in Seq(Tiles)
      /\ Screens!Listed(x) \subseteq Tiles
  BY ListedAreTiles DEF ScreenRest
<1>s. Tiles \subseteq SomeTile
  BY DEF SomeTile
<1>m. ASSUME NEW s, Fine(s), Screens!Moves(s)
      PROVE  ScreenRest(x')
  <2>1. MaxTileMoves \in Nat
    BY PageBounds
  <2>2. /\ DOMAIN x' = Screens!Fields /\ x'.tiles = s.tiles /\ x'.active = s.active
        /\ x'.master = s.master /\ x'.auto = s.auto /\ x'.sliding = s.sliding
        /\ x'.cards = s.cards /\ x'.later = s.later /\ x'.bar = s.bar
        /\ x'.moves = s.moves + 1 /\ s.moves = x.moves /\ x.moves < MaxTileMoves
    BY <1>m DEF Screens!Moves, ScreenRest, Screens!Fields
  <2>3. x'.moves \in 0..MaxTileMoves
    BY <2>1, <2>2, <1>m DEF ScreenRest
  <2> QED BY <2>2, <2>3, <1>m DEF ScreenRest
<1>a. ASSUME NEW s, Fine(s), NEW t \in SomeTile, NEW slides
      PROVE  Fine(Screens!SetActive(s, t, slides))
  BY <1>a, SelectedTyped
<1>g. ASSUME NEW s, Fine(s), NEW t \in Tiles
      PROVE  Fine(Screens!ToggleFullscreen(s, t)) /\ Fine(Screens!Mount(s, t))
             /\ Fine(Screens!RefreshFsTabs(s))
  <2>1. /\ ScreenRest(Screens!ToggleFullscreen(s, t)) /\ ButBars(s, Screens!ToggleFullscreen(s, t))
        /\ ScreenRest(Screens!RefreshFsTabs(s)) /\ ButBars(s, Screens!RefreshFsTabs(s))
        /\ ScreenRest(Screens!Mount(s, t)) /\ Screens!Mount(s, t).moves = s.moves
    BY <1>g, ToggleTyped, RefreshTyped, MountTyped
  <2> QED BY <2>1, <1>g DEF ButBars
<1>f. \A s : Fine(s) => ScreenRest(s)
  OBVIOUS
<1> HIDE DEF Fine
<1>1. ASSUME NEW t \in Tiles, Screens!Created(t)
      PROVE  ScreenRest(x')
  BY <1>1, <1>0, <1>g, <1>m DEF Screens!Created
<1>2. ASSUME NEW t \in Tiles, Screens!Create(t)
      PROVE  ScreenRest(x')
  <2> DEFINE r == Screens!Mount(x, t)
             n == IF r.master = None THEN t ELSE r.master
             s == [r EXCEPT !.master = n]
  <2>1. Fine(r)
    BY <1>0, <1>g
  <2>2. Screens!Moves(Screens!SetActive(s, t, FALSE))
    BY <1>2 DEF Screens!Create
  <2> HIDE DEF r
  <2>3. n \in SomeTile
    BY <2>1, <1>s DEF Fine, ScreenRest
  <2> HIDE DEF n
  <2>4. Fine(s)
    BY <2>1, <2>3 DEF Fine, ScreenRest, Screens!Fields
  <2> HIDE DEF s
  <2> QED BY <2>2, <2>4, <1>a, <1>m, <1>s
<1>3. ASSUME NEW t \in Tiles, Screens!Destroy(t)
      PROVE  ScreenRest(x')
  <2> DEFINE rest == Screens!Without(x.tiles, t)
             m == IF x.master = t THEN Screens!Last1(rest) ELSE x.master
             w == Screens!Without(x.attaching, t)
             b == [x.bar EXCEPT ![t] = {}]
             s == [x EXCEPT !.tiles = rest, !.full = @ \ {t}, !.auto = @ \ {t},
                            !.bar[t] = {}, !.asleep = @ \ {t}, !.paused = @ \ {t},
                            !.master = IF @ = t THEN Screens!Last1(rest) ELSE @,
                            !.attaching = w, !.sliding = @ \ {t}, !.later = @ \ {t}]
             r == IF x.active = t THEN Screens!SetActive(s, Screens!Last1(rest), FALSE) ELSE s
  <2>1. Screens!Moves(Screens!RefreshFsTabs(r))
    BY <1>3 DEF Screens!Destroy
  <2>2. rest \in Seq(Tiles)
    BY <1>0, WithoutOne
  <2> HIDE DEF rest, w
  <2>3. Screens!Last1(rest) \in SomeTile
    BY <2>2, LastTyped
  <2>4. m \in SomeTile
    BY <2>3 DEF ScreenRest
  <2>5. b \in Bars
    BY DEF ScreenRest, Bars
  <2>6. /\ DOMAIN s = Screens!Fields /\ s.tiles = rest /\ s.active = x.active /\ s.master = m
        /\ s.auto = x.auto \ {t} /\ s.sliding = x.sliding \ {t} /\ s.cards = x.cards
        /\ s.later = x.later \ {t} /\ s.bar = b /\ s.moves = x.moves
    BY <1>0 DEF Screens!Fields
  <2> HIDE DEF m, b, s
  <2>7. Fine(s)
    BY <2>2, <2>4, <2>5, <2>6 DEF Fine, ScreenRest
  <2>8. Fine(r)
    BY <2>3, <2>7, <1>a
  <2> HIDE DEF r
  <2> QED BY <2>1, <2>8, <1>g, <1>m
<1>4. ASSUME NEW t \in Tiles, Screens!Select(t)
      PROVE  ScreenRest(x')
  BY <1>4, <1>0, <1>a, <1>m, <1>s DEF Screens!Select
<1>5. ASSUME NEW t \in Tiles, Screens!SlideEnds(t)
      PROVE  ScreenRest(x')
  <2>1. /\ DOMAIN x' = Screens!Fields /\ x'.tiles = x.tiles /\ x'.active = x.active
        /\ x'.master = x.master /\ x'.auto = x.auto /\ x'.sliding = x.sliding \ {t}
        /\ x'.cards = x.cards /\ x'.later = x.later /\ x'.bar = x.bar /\ x'.moves = x.moves
    BY <1>5, <1>0 DEF Screens!SlideEnds, Screens!Fields
  <2> QED BY <2>1 DEF ScreenRest
<1>6. ASSUME NEW t \in Tiles, Screens!PromoteToMaster(t)
      PROVE  ScreenRest(x')
  <2> DEFINE s == [x EXCEPT !.master = t]
  <2>1. Fine(s)
    BY <1>0, <1>s DEF Fine, ScreenRest, Screens!Fields
  <2>2. Screens!Moves(s)
    BY <1>6 DEF Screens!PromoteToMaster
  <2> HIDE DEF s
  <2> QED BY <2>1, <2>2, <1>m
<1>7. ASSUME NEW t \in Tiles, Screens!DoubleTap(t)
      PROVE  ScreenRest(x')
  <2> DEFINE s == Screens!ToggleFullscreen(Screens!SetActive(x, t, FALSE), t)
             r == [s EXCEPT !.auto = {t}]
  <2>1. Fine(s)
    BY <1>0, <1>a, <1>g, <1>s
  <2>2. Screens!Moves(r)
    BY <1>7 DEF Screens!DoubleTap
  <2> HIDE DEF s
  <2>3. Fine(r)
    BY <2>1 DEF Fine, ScreenRest, Screens!Fields
  <2> HIDE DEF r
  <2> QED BY <2>2, <2>3, <1>m
<1>8. ASSUME NEW t \in Tiles, Screens!SelectCard(t)
      PROVE  ScreenRest(x')
  <2> DEFINE s == Screens!SetActive(x, t, FALSE)
             l == IF s.mobile /\ t \in Screens!Listed(s) \ s.full THEN s.later \cup {t} ELSE s.later
             r == [s EXCEPT !.cards = {}, !.later = l]
  <2>1. Fine(s)
    BY <1>0, <1>a, <1>s
  <2>2. Screens!Moves(r)
    BY <1>8 DEF Screens!SelectCard
  <2> HIDE DEF s
  <2>3. l \subseteq Tiles
    BY <2>1 DEF Fine, ScreenRest
  <2> HIDE DEF l
  <2>4. Fine(r)
    BY <2>1, <2>3 DEF Fine, ScreenRest, Screens!Fields
  <2> HIDE DEF r
  <2> QED BY <2>2, <2>4, <1>m
<1>9. ASSUME NEW t \in Tiles, Screens!Later(t)
      PROVE  ScreenRest(x')
  <2> DEFINE s == [x EXCEPT !.later = @ \ {t}]
  <2>1. Fine(s)
    BY <1>0 DEF Fine, ScreenRest, Screens!Fields
  <2>2. x' = s \/ x' = Screens!ToggleFullscreen(s, t)
    BY <1>9 DEF Screens!Later
  <2> HIDE DEF s
  <2> QED BY <2>1, <2>2, <1>g, <1>f
<1>10. ASSUME NEW d \in {"next", "previous"}, Screens!Step(d)
       PROVE  ScreenRest(x')
  <2> DEFINE n == Len(x.tiles)
             i == IF x.active \in Screens!Listed(x) THEN CHOOSE j \in 1..n : x.tiles[j] = x.active
                  ELSE 0
             i1 == IF d = "next" THEN i + 1 ELSE i + n - 1
             k == ((i1 - 1) % n) + 1
  <2>1. n > 1 /\ Screens!Moves(Screens!SetActive(x, x.tiles[k], TRUE))
    BY <1>10 DEF Screens!Step
  <2>2. n \in Nat /\ DOMAIN x.tiles = 1..n
    BY <1>0, LenProperties
  <2>3. i \in 0..n
    <3>1. CASE x.active \in Screens!Listed(x)
      <4>1. \E j \in 1..n : x.tiles[j] = x.active
        BY <3>1, <2>2 DEF Screens!Listed, Screens!ToSet
      <4>2. i \in 1..n
        BY <3>1, <4>1
      <4> HIDE DEF i
      <4> QED BY <4>2
    <3>2. CASE x.active \notin Screens!Listed(x)
      BY <3>2, <2>2
    <3> QED BY <3>1, <3>2
  <2> HIDE DEF i, n
  <2>4. k \in 1..n
    <3>1. i1 \in Int
      BY <2>2, <2>3
    <3> HIDE DEF i1
    <3>2. (i1 - 1) % n \in 0..(n - 1)
      BY <2>1, <2>2, <3>1
    <3> QED BY <3>2, <2>2
  <2> HIDE DEF k
  <2>5. x.tiles[k] \in SomeTile
    BY <2>2, <2>4, <1>0, <1>s
  <2> QED BY <2>1, <2>5, <1>0, <1>a, <1>m
<1>11. CASE Screens!ShowSwitcher \/ Screens!HideSwitcher
  <2>1. PICK c \in {Screens!Listed(x), {}} : Screens!Moves([x EXCEPT !.cards = c])
    BY <1>11 DEF Screens!ShowSwitcher, Screens!HideSwitcher
  <2> DEFINE s == [x EXCEPT !.cards = c]
  <2>2. Fine(s)
    BY <1>0, <2>1 DEF Fine, ScreenRest, Screens!Fields
  <2> HIDE DEF s
  <2> QED BY <2>1, <2>2, <1>m DEF s
<1>12. CASE Screens!Toggle
  <2>1. x.active \in Tiles /\ Screens!Moves(Screens!ToggleFullscreen(x, x.active))
    BY <1>12, <1>0 DEF Screens!Toggle
  <2> QED BY <2>1, <1>0, <1>g, <1>m
<1>13. CASE Screens!ViewportGrows
  <2> DEFINE f == x.full \ x.auto
             q == x.stale \/ Screens!Covering(x) \cap x.auto # {}
             s == [x EXCEPT !.full = f, !.auto = {}, !.stale = q]
  <2>1. Screens!Moves(s)
    BY <1>13 DEF Screens!ViewportGrows
  <2> HIDE DEF f, q
  <2>2. Fine(s)
    BY <1>0 DEF Fine, ScreenRest, Screens!Fields
  <2> HIDE DEF s
  <2> QED BY <2>1, <2>2, <1>m
<1>14. CASE Screens!Resize
  <2> DEFINE b == [t \in Tiles |-> IF t \in x.full THEN {} ELSE x.bar[t]]
             q == x.stale \/ Screens!Covering(x) # {}
             s == [x EXCEPT !.mobile = FALSE, !.full = {}, !.doubled = FALSE, !.bar = b, !.stale = q]
             r == [x EXCEPT !.mobile = TRUE]
  <2>1. Screens!Moves(s) \/ Screens!Moves(r)
    BY <1>14 DEF Screens!Resize
  <2>2. b \in Bars
    BY DEF ScreenRest, Bars
  <2> HIDE DEF b, q
  <2>3. Fine(s) /\ Fine(r)
    BY <2>2, <1>0 DEF Fine, ScreenRest, Screens!Fields
  <2> HIDE DEF s, r
  <2> QED BY <2>1, <2>3, <1>m
<1>15. CASE Screens!Lose
  <2> DEFINE s == [x EXCEPT !.online = FALSE, !.attaching = <<>>, !.paused = {}]
  <2>1. Fine(s)
    BY <1>0 DEF Fine, ScreenRest, Screens!Fields
  <2>2. Screens!Moves(s)
    BY <1>15 DEF Screens!Lose
  <2> HIDE DEF s
  <2> QED BY <2>1, <2>2, <1>m
<1>16. CASE Screens!Reconnect \/ Screens!AttachAgain
  <2>1. /\ DOMAIN x' = Screens!Fields /\ x'.tiles = x.tiles /\ x'.active = x.active
        /\ x'.master = x.master /\ x'.auto = x.auto /\ x'.sliding = x.sliding
        /\ x'.cards = x.cards /\ x'.later = x.later /\ x'.bar = x.bar /\ x'.moves = x.moves
    BY <1>16, <1>0 DEF Screens!Reconnect, Screens!AttachAgain, Screens!Fields
  <2> QED BY <2>1 DEF ScreenRest
<1>17. CASE UNCHANGED x
  BY <1>17
<1> QED BY <1>1, <1>2, <1>3, <1>4, <1>5, <1>6, <1>7, <1>8, <1>9, <1>10, <1>11, <1>12, <1>13,
           <1>14, <1>15, <1>16, <1>17 DEF Screens!Next

-----------------------------------------------------------------------------
\* The types, part by part: the fields that the invariants do not mention.

\* Claims: beliefs and roles are among those there are, frames are counted.
ClaimsRest(s) ==
    /\ s.belief \in {"unknown", "yes", "no"} /\ s.role \in {"me", "other", None}
    /\ s.frames \in Nat /\ s.leaving \in BOOLEAN /\ s.moves \in 0..MaxClaims

LEMMA ClaimsTyped == Sizes!Inv(x) /\ ClaimsRest(x) => Sizes!TypeOK
  BY DEF Sizes!Inv, Sizes!Typed, ClaimsRest, Sizes!TypeOK

LEMMA ClaimsRestInit == Sizes!Init => ClaimsRest(x)
<1>1. MaxClaims \in Nat
  BY PageBounds
<1> QED BY <1>1 DEF Sizes!Init, ClaimsRest

LEMMA ClaimsRestStep ==
    Sizes!Inv(x) /\ ClaimsRest(x) /\ [Sizes!Next]_x => ClaimsRest(x')
<1> SUFFICES ASSUME Sizes!Inv(x), ClaimsRest(x), [Sizes!Next]_x PROVE ClaimsRest(x')
  OBVIOUS
<1>d. DOMAIN x = Sizes!Fields
  BY DEF Sizes!Inv, Sizes!Typed
<1>a. ASSUME NEW s, DOMAIN s = Sizes!Fields, ClaimsRest(s)
      PROVE  /\ ClaimsRest(Sizes!ClaimActiveIfNeeded(s))
             /\ Sizes!ClaimActiveIfNeeded(s).moves = s.moves
             /\ DOMAIN Sizes!ClaimActiveIfNeeded(s) = Sizes!Fields
  BY <1>a DEF Sizes!ClaimActiveIfNeeded, ClaimsRest, Sizes!Fields
<1>h. ASSUME NEW s, DOMAIN s = Sizes!Fields, ClaimsRest(s), s.moves = x.moves, Sizes!Happens(s)
      PROVE  ClaimsRest(x')
  <2>1. MaxClaims \in Nat
    BY PageBounds
  <2>2. /\ x'.belief = s.belief /\ x'.role = s.role /\ x'.frames = s.frames
        /\ x'.leaving = s.leaving /\ x'.moves = s.moves + 1 /\ s.moves < MaxClaims
    BY <1>h DEF Sizes!Happens, Sizes!Fields
  <2> QED BY <1>h, <2>1, <2>2 DEF ClaimsRest
<1>1. CASE Sizes!Mount \/ Sizes!Reattach
  <2> DEFINE s == [x EXCEPT !.mounted = TRUE]
  <2>1. DOMAIN s = Sizes!Fields /\ ClaimsRest(s)
    BY <1>d DEF ClaimsRest, Sizes!Fields
  <2>2. Sizes!Attached(s) \/ Sizes!Attached(x)
    BY <1>1 DEF Sizes!Mount, Sizes!Reattach
  <2> HIDE DEF s
  <2>3. ASSUME NEW t, DOMAIN t = Sizes!Fields, ClaimsRest(t), Sizes!Attached(t)
        PROVE  ClaimsRest(x')
    BY <2>3 DEF Sizes!Attached, ClaimsRest, Sizes!Fields
  <2> QED BY <2>1, <2>2, <2>3, <1>d
<1>2. CASE Sizes!Arrives
  <2> DEFINE b  == Head(x.down)
             s  == [x EXCEPT !.down = Tail(@)]
             s1 == [s EXCEPT !.belief = IF b THEN "yes" ELSE "no", !.swallowed = FALSE,
                             !.scaled = @ /\ ~b, !.frames = IF b THEN @ ELSE @ + 1,
                             !.reclaim = FALSE]
  <2>1. x' = s1 \/ x' = Sizes!ClaimActiveIfNeeded(s1)
    BY <1>2 DEF Sizes!Arrives, Sizes!HandlePtySize
  <2>2. DOMAIN s = Sizes!Fields /\ ClaimsRest(s)
    BY <1>d DEF ClaimsRest, Sizes!Fields
  <2> HIDE DEF s
  <2>3. /\ DOMAIN s1 = Sizes!Fields /\ s1.belief \in {"yes", "no"} /\ s1.role = s.role
        /\ s1.frames \in {s.frames, s.frames + 1} /\ s1.leaving = s.leaving
        /\ s1.moves = s.moves
    BY <2>2 DEF Sizes!Fields
  <2> HIDE DEF s1
  <2>4. ClaimsRest(s1)
    BY <2>2, <2>3 DEF ClaimsRest
  <2> QED BY <2>1, <2>3, <2>4, <1>a
<1>3. CASE Sizes!Touch
  <2> DEFINE s == Sizes!ClaimActiveIfNeeded(x)
  <2>1. Sizes!Happens(s) /\ DOMAIN s = Sizes!Fields /\ ClaimsRest(s) /\ s.moves = x.moves
    BY <1>3, <1>a, <1>d DEF Sizes!Touch
  <2> HIDE DEF s
  <2> QED BY <2>1, <1>h
<1>4. CASE Sizes!Cool \/ Sizes!Frame \/ Sizes!ServerClaimed \/ Sizes!RoleCleared
  <2>1. /\ x'.belief = x.belief /\ x'.role \in {x.role, "me", None} /\ x'.moves = x.moves
        /\ x'.frames = x.frames \/ (x.frames > 0 /\ x'.frames = x.frames - 1)
        /\ x'.leaving \in {x.leaving, FALSE}
    BY <1>4, <1>d DEF Sizes!Cool, Sizes!Frame, Sizes!ServerClaimed, Sizes!RoleCleared,
       Sizes!Fields
  <2>2. x'.frames \in Nat
    BY <2>1 DEF ClaimsRest
  <2>3. x'.leaving \in BOOLEAN /\ x'.role \in {"me", "other", None}
    BY <2>1, Zenon DEF ClaimsRest
  <2> QED BY <2>1, <2>2, <2>3 DEF ClaimsRest
<1>5. CASE Sizes!OtherClaims \/ Sizes!OtherResizes \/ Sizes!OtherLeaves \/ Sizes!Lose
  <2> DEFINE Like(s) == /\ DOMAIN s = Sizes!Fields /\ s.belief = x.belief
                        /\ s.role \in {x.role, "other", None} /\ s.frames = x.frames
                        /\ s.leaving \in BOOLEAN /\ s.moves = x.moves
             told == [x EXCEPT !.role = "other",
                               !.going = IF x.attached THEN @ \cup {FALSE} ELSE @]
             read == [x EXCEPT !.going = @ \cup {x.role = "me"}]
             left == [x EXCEPT !.leaving = TRUE]
             lost == [x EXCEPT !.attached = FALSE, !.down = <<>>, !.up = 0, !.going = {},
                               !.misled = FALSE, !.role = IF @ = "me" THEN "other" ELSE @]
  <2>1. ASSUME NEW s, Like(s), Sizes!Happens(s) PROVE ClaimsRest(x')
    <3>1. ClaimsRest(s)
      BY <2>1 DEF ClaimsRest
    <3> QED BY <2>1, <3>1, <1>h
  <2>l. x.leaving \in BOOLEAN
    BY DEF ClaimsRest
  <2>2. Like(told) /\ Like(read)
    BY <1>d, <2>l DEF Sizes!Fields
  <2>3. Like(left) /\ Like(lost)
    BY <1>d, <2>l DEF Sizes!Fields
  <2>4. \/ Sizes!Happens(told) \/ Sizes!Happens(read)
        \/ Sizes!Happens(left) \/ Sizes!Happens(lost)
    BY <1>5 DEF Sizes!OtherClaims, Sizes!OtherResizes, Sizes!OtherLeaves, Sizes!Lose
  <2> HIDE DEF Like, told, read, left, lost
  <2> QED BY <2>1, <2>2, <2>3, <2>4
<1>6. ASSUME NEW b \in BOOLEAN, Sizes!Broadcast(b) PROVE ClaimsRest(x')
  <2>1. /\ x'.belief = x.belief /\ x'.role = x.role /\ x'.moves = x.moves
        /\ x'.frames = x.frames /\ x'.leaving = x.leaving
    BY <1>6, <1>d DEF Sizes!Broadcast, Sizes!Fields
  <2> QED BY <2>1 DEF ClaimsRest
<1>7. CASE UNCHANGED x
  BY <1>7
<1> QED BY <1>1, <1>2, <1>3, <1>4, <1>5, <1>6, <1>7 DEF Sizes!Next

\* Prompt: what is shown and taken are texts that were suggested or typed.
Shows == Texts \cup {Field!Loading}
FieldRest(s) ==
    /\ DOMAIN s = Field!Fields
    /\ s.text \in Shows /\ s.list \in Seq(Shows) /\ s.at \in 0..Len(s.list)
    /\ s.open \in BOOLEAN /\ s.timer \in BOOLEAN /\ s.dismissed \in BOOLEAN /\ s.late \in BOOLEAN
    /\ s.answer \in Shows \cup {"cancelled", "none"}
    /\ s.keys \in 0..MaxFieldKeys

\* What autocomplete returns, whatever the text.
LEMMA CompletedTexts ==
    ASSUME NEW t, NEW r \in SUBSET Deletable
    PROVE  Field!Complete(t, r) \in Seq(Texts) /\ Field!Complete(t, r) \in Seq(Shows)
<1>1. Suggested \in [Texts -> [SUBSET Deletable -> Seq(Texts)]]
  BY PageBounds
<1> DEFINE c == Field!Complete(t, r)
<1>2. c \in Seq(Texts)
  <2>1. CASE t \in Texts
    <3>1. Suggested[t] \in [SUBSET Deletable -> Seq(Texts)]
      BY <1>1, <2>1
    <3>2. Suggested[t][r] \in Seq(Texts)
      BY <3>1
    <3> QED BY <2>1, <3>2 DEF Field!Complete
  <2>2. CASE t \notin Texts
    BY <2>2 DEF Field!Complete
  <2> QED BY <2>1, <2>2
<1> HIDE DEF c
<1>3. Texts \subseteq Shows
  BY DEF Shows
<1>4. c \in Seq(Shows)
  BY <1>2, <1>3
<1> QED BY <1>2, <1>4 DEF c

LEMMA FieldTyped == Field!Inv(x) /\ FieldRest(x) => Field!TypeOK
<1> SUFFICES ASSUME Field!Inv(x), FieldRest(x) PROVE Field!TypeOK
  OBVIOUS
<1>1. x.asked \in Seq(Field!Answers) /\ {x.deleting, x.removed} \subseteq SUBSET Deletable
  BY DEF Field!Inv, Field!Typed
<1>2. Field!Answers \subseteq Field!Items
  <2> DEFINE L == {Field!Complete(t, r) : t \in Texts, r \in SUBSET Deletable}
  <2>1. L \subseteq Seq(Texts)
    BY CompletedTexts
  <2> HIDE DEF L
  <2>2. [list : L, old : BOOLEAN] \subseteq [list : Seq(Texts), old : BOOLEAN]
    BY <2>1
  <2> QED BY <2>2 DEF Field!Answers, Field!Items, L
<1>3. x.asked \in Seq(Field!Items)
  BY <1>1, <1>2
<1>4. Deletable \subseteq Texts
  BY PageBounds
<1>5. x.deleting \subseteq Texts /\ x.removed \subseteq Deletable
  BY <1>1, <1>4
<1>6. /\ x.text \in Texts \cup {Field!Loading} /\ x.list \in Seq(Texts \cup {Field!Loading})
      /\ x.at \in 0..Len(x.list) /\ {x.open, x.timer, x.dismissed, x.late} \subseteq BOOLEAN
      /\ x.answer \in Texts \cup {Field!Loading, "cancelled", "none"}
      /\ x.keys \in 0..MaxFieldKeys
  BY DEF FieldRest, Shows
<1> QED BY <1>3, <1>5, <1>6 DEF Field!TypeOK

LEMMA FieldRestInit == Field!Init => FieldRest(x)
<1> SUFFICES ASSUME Field!Init PROVE FieldRest(x)
  OBVIOUS
<1>1. MaxFieldKeys \in Nat
  BY PageBounds
<1>2. "" \in Texts
  BY PageBounds
<1>3. /\ DOMAIN x = Field!Fields /\ x.text = "" /\ x.list = Field!Complete("", {}) /\ x.at = 0
      /\ x.open = TRUE /\ x.timer = FALSE /\ x.dismissed = FALSE /\ x.late = FALSE
      /\ x.answer = "none" /\ x.keys = 0
  BY DEF Field!Init, Field!Fields
<1>4. x.list \in Seq(Shows)
  BY <1>3, CompletedTexts
<1>5. x.at \in 0..Len(x.list)
  <2>1. Len(x.list) \in Nat
    BY <1>4, LenProperties
  <2>2. x.at = 0
    BY <1>3
  <2> QED BY <2>1, <2>2
<1>6. x.keys \in 0..MaxFieldKeys
  <2>1. x.keys = 0
    BY <1>3
  <2> QED BY <1>1, <2>1
<1>7. x.text \in Shows
  BY <1>2, <1>3 DEF Shows
<1> QED BY <1>3, <1>4, <1>5, <1>6, <1>7 DEF FieldRest

LEMMA FieldRestStep ==
    Field!Inv(x) /\ FieldRest(x) /\ [Field!Next]_x => FieldRest(x')
<1> SUFFICES ASSUME Field!Inv(x), FieldRest(x), [Field!Next]_x PROVE FieldRest(x')
  OBVIOUS
<1> DEFINE Fine(r) == FieldRest(r) /\ r.keys = x.keys
           Empty == <<>>
<1>0. DOMAIN x = Field!Fields /\ Fine(x) /\ x.removed \in SUBSET Deletable
  BY DEF FieldRest, Field!Inv, Field!Typed
<1>1. /\ \A q \in Seq(Shows) : 0 \in 0..Len(q)
      /\ <<>> \in Seq(Shows) /\ <<Field!Loading>> \in Seq(Shows)
  <2>1. Field!Loading \in Shows
    BY DEF Shows
  <2>2. ASSUME NEW q \in Seq(Shows)
        PROVE  0 \in 0..Len(q)
    <3>1. Len(q) \in Nat
      BY LenProperties
    <3> QED BY <3>1
  <2> QED BY <2>1, <2>2
\* The suggestions of a text that is shown.
<1>u. ASSUME NEW s, Fine(s), s.removed \in SUBSET Deletable
      PROVE  Fine(Field!UpdateSuggestions(s))
  <2> DEFINE c == Field!Complete(s.text, s.removed)
             l == IF s.list = <<>> THEN s.list ELSE <<Field!Loading>>
             s1 == [s EXCEPT !.list = l, !.at = 0, !.dismissed = FALSE]
             a == [list |-> c, old |-> FALSE]
             r1 == [s1 EXCEPT !.asked = Append(@, a)]
             r2 == [s1 EXCEPT !.list = c, !.asked = Field!Overtaken(@), !.late = FALSE]
  <2>1. Field!UpdateSuggestions(s) \in {r1, r2}
    BY DEF Field!UpdateSuggestions
  <2>2. c \in Seq(Shows)
    BY <1>u, CompletedTexts
  <2>3. l \in Seq(Shows)
    BY <1>1
  <2> HIDE DEF c, l
  <2>4. 0 \in 0..Len(c) /\ 0 \in 0..Len(l)
    BY <2>2, <2>3, <1>1
  <2>5. Fine(s1)
    <3>1. /\ DOMAIN s1 = Field!Fields /\ s1.text = s.text /\ s1.list = l /\ s1.at = 0
          /\ s1.open = s.open /\ s1.timer = s.timer /\ s1.dismissed = FALSE /\ s1.late = s.late
          /\ s1.answer = s.answer /\ s1.keys = s.keys
      BY <1>u DEF FieldRest, Field!Fields
    <3> HIDE DEF s1
    <3> QED BY <3>1, <2>3, <2>4, <1>u DEF FieldRest
  <2> HIDE DEF s1, a
  <2>6. Fine(r1)
    <3>1. /\ DOMAIN r1 = Field!Fields /\ r1.text = s1.text /\ r1.list = s1.list /\ r1.at = s1.at
          /\ r1.open = s1.open /\ r1.timer = s1.timer /\ r1.dismissed = s1.dismissed
          /\ r1.late = s1.late /\ r1.answer = s1.answer /\ r1.keys = s1.keys
      BY <2>5 DEF FieldRest, Field!Fields
    <3> HIDE DEF r1
    <3> QED BY <3>1, <2>5 DEF FieldRest
  <2>7. Fine(r2)
    <3>1. /\ DOMAIN r2 = Field!Fields /\ r2.text = s1.text /\ r2.list = c /\ r2.at = s1.at
          /\ r2.open = s1.open /\ r2.timer = s1.timer /\ r2.dismissed = s1.dismissed
          /\ r2.late = FALSE /\ r2.answer = s1.answer /\ r2.keys = s1.keys
      BY <2>5 DEF FieldRest, Field!Fields
    <3>2. s1.at = 0
      BY <1>u DEF s1, FieldRest, Field!Fields
    <3> HIDE DEF r2
    <3> QED BY <3>1, <3>2, <2>2, <2>4, <2>5 DEF FieldRest
  <2> QED BY <2>1, <2>6, <2>7
\* A text that was typed or taken; the list may close.
<1>t. ASSUME NEW v \in Shows, NEW b \in BOOLEAN, NEW z \in BOOLEAN
      PROVE  /\ Fine([x EXCEPT !.text = v, !.at = 0, !.timer = b])
             /\ Fine([x EXCEPT !.text = v, !.list = <<>>, !.at = 0, !.dismissed = z])
             /\ Fine([x EXCEPT !.text = v])
             /\ Fine(Field!Confirm(x, v)) /\ Fine([Field!Confirm(x, v) EXCEPT !.answer = "cancelled"])
  <2> DEFINE r1 == [x EXCEPT !.text = v, !.at = 0, !.timer = b]
             r2 == [x EXCEPT !.text = v, !.list = <<>>, !.at = 0, !.dismissed = z]
             r3 == [x EXCEPT !.text = v]
             r4 == Field!Confirm(x, v)
             r5 == [r4 EXCEPT !.answer = "cancelled"]
  <2>1. Fine(r1)
    <3>1. /\ DOMAIN r1 = Field!Fields /\ r1.text = v /\ r1.list = x.list /\ r1.at = 0
          /\ r1.open = x.open /\ r1.timer = b /\ r1.dismissed = x.dismissed
          /\ r1.late = x.late /\ r1.answer = x.answer /\ r1.keys = x.keys
      BY <1>0 DEF Field!Fields
    <3> HIDE DEF r1
    <3> QED BY <3>1, <1>1 DEF FieldRest
  <2>2. Fine(r2)
    <3>1. /\ DOMAIN r2 = Field!Fields /\ r2.text = v /\ r2.list = Empty /\ r2.at = 0
          /\ r2.open = x.open /\ r2.timer = x.timer /\ r2.dismissed = z
          /\ r2.late = x.late /\ r2.answer = x.answer /\ r2.keys = x.keys
      BY <1>0 DEF Field!Fields
    <3>2. Empty \in Seq(Shows)
      BY <1>1
    <3> HIDE DEF r2, Empty
    <3> QED BY <3>1, <3>2, <1>1 DEF FieldRest
  <2>3. Fine(r3)
    <3>1. /\ DOMAIN r3 = Field!Fields /\ r3.text = v /\ r3.list = x.list /\ r3.at = x.at
          /\ r3.open = x.open /\ r3.timer = x.timer /\ r3.dismissed = x.dismissed
          /\ r3.late = x.late /\ r3.answer = x.answer /\ r3.keys = x.keys
      BY <1>0 DEF Field!Fields
    <3> HIDE DEF r3
    <3> QED BY <3>1 DEF FieldRest
  <2>4. Fine(r4)
    <3>1. /\ DOMAIN r4 = Field!Fields /\ r4.text = v /\ r4.list = x.list /\ r4.at = x.at
          /\ r4.open = FALSE /\ r4.timer = FALSE /\ r4.dismissed = x.dismissed
          /\ r4.late = x.late /\ r4.answer = v /\ r4.keys = x.keys
      BY <1>0 DEF Field!Fields, Field!Confirm
    <3> HIDE DEF r4
    <3> QED BY <3>1 DEF FieldRest
  <2>5. Fine(r5)
    <3> HIDE DEF r4
    <3>1. /\ DOMAIN r5 = Field!Fields /\ r5.text = r4.text /\ r5.list = r4.list /\ r5.at = r4.at
          /\ r5.open = r4.open /\ r5.timer = r4.timer /\ r5.dismissed = r4.dismissed
          /\ r5.late = r4.late /\ r5.answer = "cancelled" /\ r5.keys = r4.keys
      BY <2>4 DEF FieldRest, Field!Fields
    <3> HIDE DEF r5
    <3> QED BY <3>1, <2>4 DEF FieldRest
  <2> HIDE DEF Fine
  <2> QED BY <2>1, <2>2, <2>3, <2>4, <2>5
<1>k. ASSUME NEW s, Fine(s), Field!Key(s)
      PROVE  FieldRest(x')
  <2>1. MaxFieldKeys \in Nat
    BY PageBounds
  <2>2. /\ DOMAIN x' = Field!Fields /\ x'.text = s.text /\ x'.list = s.list /\ x'.at = s.at
        /\ x'.open = s.open /\ x'.timer = s.timer /\ x'.dismissed = s.dismissed
        /\ x'.late = s.late /\ x'.answer = s.answer /\ x'.keys = s.keys + 1
        /\ s.keys = x.keys /\ x.keys < MaxFieldKeys
    BY <1>k DEF Field!Key, FieldRest, Field!Fields
  <2>3. x'.keys \in 0..MaxFieldKeys
    BY <2>1, <2>2, <1>k DEF FieldRest
  <2> QED BY <2>2, <2>3, <1>k DEF FieldRest
<1>i. \A i \in DOMAIN x.list : x.list[i] \in Shows
  BY DEF FieldRest
<1>l. Len(x.list) \in Nat /\ DOMAIN x.list = 1..Len(x.list) /\ x.at \in 0..Len(x.list)
  BY LenProperties DEF FieldRest
<1>n. x.list # <<>> => 1 \in DOMAIN x.list
  <2>1. x.list # <<>> => Len(x.list) # 0
    BY EmptySeq DEF FieldRest
  <2> QED BY <2>1, <1>l
<1>p. x.list # <<>> => Field!Pick \in Shows
  BY <1>i, <1>l, <1>n DEF Field!Pick
<1>x. x.text \in Shows /\ Texts \subseteq Shows
  BY DEF FieldRest, Shows
<1>f. \A s : Fine(s) => FieldRest(s)
  OBVIOUS
<1> HIDE DEF Fine
<1>2. ASSUME NEW t \in Texts, Field!Type(t)
      PROVE  FieldRest(x')
  <2>1. Field!Key([x EXCEPT !.text = t, !.at = 0, !.timer = TRUE])
    BY <1>2 DEF Field!Type
  <2> QED BY <2>1, <1>t, <1>x, <1>k
<1>3. CASE Field!Focus
  <2>1. Field!Key(Field!UpdateSuggestions(x))
    BY <1>3 DEF Field!Focus
  <2> QED BY <2>1, <1>0, <1>u, <1>k
<1>4. CASE Field!Debounced
  <2> DEFINE s == [x EXCEPT !.timer = FALSE]
  <2>1. Fine(s) /\ s.removed = x.removed
    <3>1. /\ DOMAIN s = Field!Fields /\ s.text = x.text /\ s.list = x.list /\ s.at = x.at
          /\ s.open = x.open /\ s.timer = FALSE /\ s.dismissed = x.dismissed
          /\ s.late = x.late /\ s.answer = x.answer /\ s.keys = x.keys /\ s.removed = x.removed
      BY <1>0 DEF Field!Fields
    <3> HIDE DEF s
    <3> QED BY <3>1 DEF FieldRest, Fine
  <2>2. x' = Field!UpdateSuggestions(s)
    BY <1>4 DEF Field!Debounced
  <2> HIDE DEF s
  <2>3. Fine(x')
    BY <2>1, <2>2, <1>0, <1>u
  <2> QED BY <2>3, <1>f
<1>5. ASSUME NEW i \in DOMAIN x.asked, Field!Answered(i)
      PROVE  FieldRest(x')
  <2> DEFINE e == x.asked[i]
             q == Field!Overtaken(SubSeq(x.asked, 1, i - 1)) \o SubSeq(x.asked, i + 1, Len(x.asked))
  <2>1. x' = [x EXCEPT !.list = e.list, !.at = 0, !.late = e.old, !.asked = q]
    BY <1>5 DEF Field!Answered
  <2>2. e.list \in Seq(Shows) /\ e.old \in BOOLEAN
    <3>1. e \in Field!Answers
      BY DEF Field!Inv, Field!Typed
    <3> HIDE DEF e
    <3>2. e.old \in BOOLEAN /\ \E t \in Texts : \E r \in SUBSET Deletable : e.list = Field!Complete(t, r)
      BY <3>1 DEF Field!Answers
    <3> QED BY <3>2, CompletedTexts
  <2> HIDE DEF e, q
  <2>3. /\ DOMAIN x' = Field!Fields /\ x'.text = x.text /\ x'.list = e.list /\ x'.at = 0
        /\ x'.open = x.open /\ x'.timer = x.timer /\ x'.dismissed = x.dismissed
        /\ x'.late = e.old /\ x'.answer = x.answer /\ x'.keys = x.keys
    BY <2>1, <1>0 DEF Field!Fields
  <2> QED BY <2>2, <2>3, <1>1 DEF FieldRest
<1>6. CASE Field!Enter
  <2> DEFINE v == IF x.at > 0 THEN x.list[x.at]
                  ELSE IF x.text = "" /\ x.list # <<>> THEN x.list[1] ELSE x.text
  <2>1. Field!Key(Field!Confirm(x, v))
    BY <1>6 DEF Field!Enter
  <2>2. v \in Shows
    <3>1. x.at > 0 => x.at \in DOMAIN x.list
      BY <1>l
    <3> QED BY <3>1, <1>i, <1>n, <1>x
  <2> HIDE DEF v
  <2> QED BY <2>1, <2>2, <1>t, <1>k
<1>7. ASSUME NEW i \in DOMAIN x.list, Field!Click(i)
      PROVE  FieldRest(x')
  <2>1. Field!Key(Field!Confirm(x, x.list[i]))
    BY <1>7 DEF Field!Click
  <2> QED BY <2>1, <1>i, <1>t, <1>k
<1>8. CASE Field!Down \/ Field!Up
  <2>1. PICK n \in 0..Len(x.list) : Field!Key([x EXCEPT !.at = n])
    <3>1. CASE Field!Down
      <4>1. x.at + 1 \in 0..Len(x.list) /\ Field!Key([x EXCEPT !.at = x.at + 1])
        BY <3>1, <1>l DEF Field!Down
      <4> QED BY <4>1
    <3>2. CASE Field!Up
      <4>1. x.at - 1 \in 0..Len(x.list) /\ Field!Key([x EXCEPT !.at = x.at - 1])
        BY <3>2, <1>l DEF Field!Up
      <4> QED BY <4>1
    <3> QED BY <1>8, <3>1, <3>2
  <2> DEFINE s == [x EXCEPT !.at = n]
  <2>2. Fine(s)
    <3>1. /\ DOMAIN s = Field!Fields /\ s.text = x.text /\ s.list = x.list /\ s.at = n
          /\ s.open = x.open /\ s.timer = x.timer /\ s.dismissed = x.dismissed
          /\ s.late = x.late /\ s.answer = x.answer /\ s.keys = x.keys
      BY <1>0 DEF Field!Fields
    <3> HIDE DEF s
    <3> QED BY <3>1, <2>1 DEF FieldRest, Fine
  <2> QED BY <2>1, <2>2, <1>k
<1>9. CASE Field!Tab
  <2>1. /\ x.list # <<>>
        /\ \/ Field!Key(Field!UpdateSuggestions([x EXCEPT !.text = Field!Pick]))
           \/ Field!Key([x EXCEPT !.text = Field!Pick, !.list = <<>>, !.at = 0, !.dismissed = TRUE])
    BY <1>9 DEF Field!Tab
  <2>2. PICK v \in Shows :
           \/ Field!Key(Field!UpdateSuggestions([x EXCEPT !.text = v]))
           \/ Field!Key([x EXCEPT !.text = v, !.list = <<>>, !.at = 0, !.dismissed = TRUE])
    BY <2>1, <1>p
  <2> DEFINE s == [x EXCEPT !.text = v]
  <2>3. Fine(s) /\ s.removed = x.removed
    BY <1>0, <1>t DEF Field!Fields
  <2> HIDE DEF s
  <2>4. Fine(Field!UpdateSuggestions(s))
    BY <2>3, <1>0, <1>u, SMTT(30)
  <2>5. Fine([x EXCEPT !.text = v, !.list = <<>>, !.at = 0, !.dismissed = TRUE])
    BY <1>t
  <2> QED BY <2>2, <2>4, <2>5, <1>k DEF s
<1>10. CASE Field!Cancel
  <2>1. Field!Key([Field!Confirm(x, x.text) EXCEPT !.answer = "cancelled"])
    BY <1>10 DEF Field!Cancel
  <2> QED BY <2>1, <1>t, <1>x, <1>k
<1>11. ASSUME NEW t \in Texts, Field!Delete(t)
       PROVE  FieldRest(x')
  <2> DEFINE s == [x EXCEPT !.deleting = @ \cup {t}]
  <2>1. Fine(s)
    <3>1. /\ DOMAIN s = Field!Fields /\ s.text = x.text /\ s.list = x.list /\ s.at = x.at
          /\ s.open = x.open /\ s.timer = x.timer /\ s.dismissed = x.dismissed
          /\ s.late = x.late /\ s.answer = x.answer /\ s.keys = x.keys
      BY <1>0 DEF Field!Fields
    <3> HIDE DEF s
    <3> QED BY <3>1 DEF FieldRest, Fine
  <2>2. Field!Key(s)
    BY <1>11 DEF Field!Delete
  <2> HIDE DEF s
  <2> QED BY <2>1, <2>2, <1>k
<1>12. ASSUME NEW t \in Texts, Field!Deleted(t)
       PROVE  FieldRest(x')
  <2> DEFINE s == [x EXCEPT !.deleting = @ \ {t}, !.removed = @ \cup {t}]
  <2>1. Fine(s) /\ s.removed = x.removed \cup {t}
    <3>1. /\ DOMAIN s = Field!Fields /\ s.text = x.text /\ s.list = x.list /\ s.at = x.at
          /\ s.open = x.open /\ s.timer = x.timer /\ s.dismissed = x.dismissed
          /\ s.late = x.late /\ s.answer = x.answer /\ s.keys = x.keys
          /\ s.removed = x.removed \cup {t}
      BY <1>0 DEF Field!Fields
    <3> HIDE DEF s
    <3> QED BY <3>1 DEF FieldRest, Fine
  <2>2. x' = Field!UpdateSuggestions(s) /\ t \in x.deleting
    BY <1>12 DEF Field!Deleted
  <2> HIDE DEF s
  <2>3. t \in Deletable
    BY <2>2 DEF Field!Inv, Field!Typed
  <2>4. s.removed \in SUBSET Deletable
    BY <2>1, <2>3, <1>0
  <2>5. Fine(x')
    BY <2>1, <2>2, <2>4, <1>u
  <2> QED BY <2>5, <1>f
<1>13. CASE UNCHANGED x
  BY <1>13
<1> QED BY <1>2, <1>3, <1>4, <1>5, <1>6, <1>7, <1>8, <1>9, <1>10, <1>11, <1>12, <1>13
           DEF Field!Next

\* Dialogs: choices, focus and frames are of dialogs there may be.
DialogsRest(s) ==
    /\ s.choice \in [Stack!Ids -> {"confirm", "cancel"}]
    /\ s.activeStatus \in Stack!Ids \cup {None}
    /\ s.focus \in Stack!Ids \cup {Stack!Shell, None}
    /\ s.frames \subseteq Stack!Ids \cup {Stack!Shell}
    /\ s.keys \in 0..MaxKeys

LEMMA DialogsTyped == Stack!Inv(x) /\ DialogsRest(x) => Stack!TypeOK
<1> SUFFICES ASSUME Stack!Inv(x), DialogsRest(x) PROVE Stack!TypeOK
  OBVIOUS
<1>1. x.answers \in [Stack!Ids -> Nat]
  BY DEF Stack!Inv
<1>2. x.escapes \subseteq DOMAIN x.kind /\ x.listens \subseteq DOMAIN x.kind
  BY DEF Stack!Inv
<1> QED BY <1>1, <1>2 DEF Stack!Inv, DialogsRest, Stack!TypeOK

LEMMA DialogsRestInit == Stack!Init => DialogsRest(x)
<1>1. MaxKeys \in Nat
  BY PageBounds
<1> QED BY <1>1 DEF Stack!Init, DialogsRest

LEMMA DialogsRestStep ==
    Stack!Inv(x) /\ DialogsRest(x) /\ [Stack!Next]_x => DialogsRest(x')
<1> SUFFICES ASSUME Stack!Inv(x), DialogsRest(x), [Stack!Next]_x PROVE DialogsRest(x')
  OBVIOUS
<1>d. /\ DOMAIN x = Stack!Fields /\ x.open \subseteq Stack!Ids /\ x.escapes \subseteq Stack!Ids
      /\ x.listens \subseteq Stack!Ids
  <2>1. DOMAIN x.kind \subseteq Stack!Ids
    <3>1. x.kind \in Seq(Stack!Kinds) /\ Len(x.kind) <= MaxDialogs /\ MaxDialogs \in Nat
      BY PageAssumption DEF Stack!Inv
    <3>2. DOMAIN x.kind = 1..Len(x.kind) /\ Len(x.kind) \in Nat
      BY <3>1, LenProperties
    <3> QED BY <3>1, <3>2 DEF Stack!Ids
  <2> QED BY <2>1 DEF Stack!Inv
<1>k. ASSUME NEW s, DOMAIN s = Stack!Fields, DialogsRest(s), s.keys = x.keys, Stack!Pressed(s)
      PROVE  DialogsRest(x')
  <2>1. MaxKeys \in Nat
    BY PageBounds
  <2>2. /\ x'.choice = s.choice /\ x'.activeStatus = s.activeStatus /\ x'.focus = s.focus
        /\ x'.frames = s.frames /\ x'.keys = s.keys + 1 /\ s.keys < MaxKeys
    BY <1>k DEF Stack!Pressed, Stack!Fields
  <2> QED BY <1>k, <2>1, <2>2 DEF DialogsRest
<1>c. ASSUME NEW s, DOMAIN s = Stack!Fields, DialogsRest(s), NEW D
      PROVE  LET r == Stack!CloseAll(s, D)
             IN  DOMAIN r = Stack!Fields /\ DialogsRest(r) /\ r.keys = s.keys /\ r.kind = s.kind
  <2> DEFINE r == Stack!CloseAll(s, D)
  <2>1. /\ DOMAIN r = Stack!Fields /\ r.keys = s.keys /\ r.kind = s.kind /\ r.choice = s.choice
        /\ r.activeStatus \in {s.activeStatus, None} /\ r.focus \in {s.focus, None}
        /\ r.frames = (s.frames \ D) \cup {Stack!Shell}
    BY <1>c DEF Stack!CloseAll, Stack!Fields
  <2> HIDE DEF r
  <2> QED BY <1>c, <2>1 DEF DialogsRest, r
<1>s. ASSUME NEW i
      PROVE  LET r == Stack!CloseStatus(x, i)
             IN  DOMAIN r = Stack!Fields /\ DialogsRest(r) /\ r.keys = x.keys /\ r.kind = x.kind
  BY <1>c, <1>d DEF Stack!CloseStatus, Stack!Close
<1>o. ASSUME NEW s, DOMAIN s = Stack!Fields, DialogsRest(s), s.keys = x.keys, s.kind = x.kind,
             NEW k, Len(x.kind) < MaxDialogs
      PROVE  /\ DialogsRest(Stack!Overlay(s, k)) /\ Len(s.kind) + 1 \in Stack!Ids
             /\ DOMAIN Stack!Overlay(s, k) = Stack!Fields
  <2> DEFINE r == Stack!Overlay(s, k)
             i == Len(s.kind) + 1
  <2>1. i \in Stack!Ids
    <3>1. x.kind \in Seq(Stack!Kinds) /\ MaxDialogs \in Nat
      BY PageAssumption DEF Stack!Inv
    <3>2. Len(x.kind) \in Nat
      BY <3>1, LenProperties
    <3> QED BY <1>o, <3>1, <3>2 DEF Stack!Ids
  <2> HIDE DEF i
  <2>2. /\ DOMAIN r = Stack!Fields /\ r.keys = s.keys /\ r.choice = s.choice
        /\ r.activeStatus = s.activeStatus /\ r.focus = s.focus
        /\ r.frames \subseteq s.frames \cup {i}
    BY <1>o DEF Stack!Overlay, Stack!Fields, i
  <2> HIDE DEF r
  <2>3. DialogsRest(r)
    BY <1>o, <2>1, <2>2 DEF DialogsRest
  <2> QED BY <2>1, <2>2, <2>3 DEF r, i
<1>1. CASE Stack!Open
  <2>1. Len(x.kind) < MaxDialogs
    BY <1>1 DEF Stack!Open
  <2>2. CASE \E k : x' = Stack!Overlay(x, k)
    BY <2>1, <2>2, <1>d, <1>o
  <2>3. CASE x' = Stack!Status
    <3> DEFINE s == IF x.activeStatus = None THEN x ELSE Stack!CloseStatus(x, x.activeStatus)
               r == Stack!Overlay(s, "status")
    <3>1. DOMAIN s = Stack!Fields /\ DialogsRest(s) /\ s.keys = x.keys /\ s.kind = x.kind
      BY <1>s, <1>d
    <3>2. x' = [r EXCEPT !.activeStatus = Len(s.kind) + 1]
      BY <2>3 DEF Stack!Status
    <3> HIDE DEF s
    <3>3. DialogsRest(r) /\ Len(s.kind) + 1 \in Stack!Ids /\ DOMAIN r = Stack!Fields
      BY <3>1, <2>1, <1>o
    <3> HIDE DEF r
    <3>4. /\ x'.choice = r.choice /\ x'.activeStatus = Len(s.kind) + 1 /\ x'.focus = r.focus
          /\ x'.frames = r.frames /\ x'.keys = r.keys
      BY <3>2, <3>3 DEF Stack!Fields
    <3> QED BY <3>3, <3>4 DEF DialogsRest
  <2> QED BY <1>1, <2>2, <2>3 DEF Stack!Open, Stack!Alert, Stack!Confirm, Stack!Prompt, Stack!Select
<1>2. ASSUME NEW i \in Stack!Ids \cup {Stack!Shell}, Stack!Frame(i)
      PROVE  DialogsRest(x')
  <2>1. /\ x'.choice = x.choice /\ x'.activeStatus = x.activeStatus /\ x'.focus \in {x.focus, i}
        /\ x'.frames \subseteq x.frames /\ x'.keys = x.keys
    BY <1>2, <1>d DEF Stack!Frame, Stack!Fields
  <2> QED BY <2>1 DEF DialogsRest
<1>3. ASSUME NEW D, Stack!Pressed(Stack!CloseAll(x, D))
      PROVE  DialogsRest(x')
  <2> DEFINE r == Stack!CloseAll(x, D)
  <2>1. DOMAIN r = Stack!Fields /\ DialogsRest(r) /\ r.keys = x.keys
    BY <1>c, <1>d
  <2> HIDE DEF r
  <2> QED BY <2>1, <1>3, <1>k DEF r
<1>4. CASE Stack!Escape \/ Stack!EnterField \/ Stack!Enter
  BY <1>4, <1>3 DEF Stack!Escape, Stack!EnterField, Stack!Enter, Stack!Close
<1>5. ASSUME NEW i \in Stack!Ids, Stack!Click(i)
      PROVE  DialogsRest(x')
  BY <1>5, <1>3 DEF Stack!Click, Stack!Close
<1>6. ASSUME NEW i \in Stack!Ids, Stack!Ended(i)
      PROVE  DialogsRest(x')
  <2> DEFINE r == Stack!CloseStatus(x, i)
  <2>1. DOMAIN r = Stack!Fields /\ DialogsRest(r) /\ r.keys = x.keys
    BY <1>s
  <2>2. Stack!Pressed(r)
    BY <1>6 DEF Stack!Ended
  <2> HIDE DEF r
  <2> QED BY <2>1, <2>2, <1>k
<1>7. CASE Stack!Arrow
  <2> DEFINE c == [i \in Stack!Ids |-> IF i \in x.listens /\ x.kind[i] = "confirm"
                      THEN (IF x.choice[i] = "confirm" THEN "cancel" ELSE "confirm")
                      ELSE x.choice[i]]
             s == [x EXCEPT !.choice = c]
  <2>1. Stack!Pressed(s)
    BY <1>7 DEF Stack!Arrow
  <2>2. c \in [Stack!Ids -> {"confirm", "cancel"}]
    BY DEF DialogsRest
  <2> HIDE DEF c
  <2>3. DOMAIN s = Stack!Fields /\ DialogsRest(s) /\ s.keys = x.keys
    BY <2>2, <1>d DEF DialogsRest, Stack!Fields
  <2> HIDE DEF s
  <2> QED BY <2>1, <2>3, <1>k
<1>8. CASE UNCHANGED x
  BY <1>8
<1> QED BY <1>1, <1>2, <1>4, <1>5, <1>6, <1>7, <1>8 DEF Stack!Next

\* NewShell: places, statuses and what was entered are among those there are.
ChainRest(s) ==
    /\ DOMAIN s = Chain!Fields
    /\ s.at \in Chain!Places /\ s.path \in Names \cup {None} /\ s.known \in BOOLEAN
    /\ s.removing \in {"no", "asked", "sent"}
    /\ s.status \in Chain!Waiting \cup {"removing", None}
    /\ s.moves \in 0..MaxChainMoves

LEMMA ChainTyped == Chain!Inv(x) /\ ChainRest(x) => Chain!TypeOK
  BY DEF Chain!Inv, Chain!Typed, ChainRest, Chain!TypeOK

LEMMA ChainRestInit == Chain!Init => ChainRest(x)
<1>1. MaxChainMoves \in Nat
  BY PageBounds
<1> QED BY <1>1 DEF Chain!Init, ChainRest, Chain!Fields, Chain!Places

\* Lists, requests and what is chosen are not what these types are about.
LEMMA ChainRestSame ==
    ASSUME NEW s, ChainRest(s), NEW r, DOMAIN r = Chain!Fields, r.at = s.at, r.path = s.path,
           r.known = s.known, r.removing = s.removing, r.status = s.status, r.moves = s.moves
    PROVE  ChainRest(r) /\ r.moves = s.moves
  BY DEF ChainRest

LEMMA ChainRestStep ==
    Chain!Inv(x) /\ ChainRest(x) /\ [Chain!Next]_x => ChainRest(x')
<1> SUFFICES ASSUME Chain!Inv(x), ChainRest(x), [Chain!Next]_x PROVE ChainRest(x')
  OBVIOUS
<1>d. DOMAIN x = Chain!Fields
  BY DEF ChainRest
<1> DEFINE Fine(r) == ChainRest(r) /\ r.moves = x.moves
<1>0. Fine(x)
  OBVIOUS
<1>p. ASSUME NEW s, Fine(s), NEW p \in Chain!Places
      PROVE  Fine(Chain!To(s, p))
  BY <1>p DEF ChainRest, Chain!To, Chain!Fields
<1>w. ASSUME NEW s, Fine(s), NEW w \in Chain!Waiting \cup {"removing"}
      PROVE  Fine(Chain!ShowStatus(s, w)) /\ Fine(Chain!CloseStatus(s, w))
  BY <1>w DEF ChainRest, Chain!ShowStatus, Chain!CloseStatus, Chain!Fields
<1>q. ASSUME NEW s, Fine(s), NEW by, NEW k, NEW l, NEW N
      PROVE  Fine(Chain!Send(s, by, k, l, N))
  <2> DEFINE r == Chain!Send(s, by, k, l, N)
  <2>1. /\ DOMAIN r = Chain!Fields /\ r.at = s.at /\ r.path = s.path
        /\ r.known = s.known /\ r.removing = s.removing /\ r.status = s.status
        /\ r.moves = s.moves
    BY <1>q DEF Chain!Send, ChainRest, Chain!Fields
  <2> HIDE DEF r
  <2>2. Fine(r)
    BY <1>q, <2>1, ChainRestSame
  <2> QED BY <2>2 DEF r
<1>f. ASSUME NEW s, Fine(s), NEW l, NEW b, NEW N
      PROVE  Fine(Chain!Fetched(s, l, b, N))
  <2> DEFINE r == Chain!Fetched(s, l, b, N)
  <2>1. /\ DOMAIN r = Chain!Fields /\ r.at = s.at /\ r.path = s.path
        /\ r.known = s.known /\ r.removing = s.removing /\ r.status = s.status
        /\ r.moves = s.moves
    BY <1>f DEF Chain!Fetched, ChainRest, Chain!Fields
  <2> HIDE DEF r
  <2>2. Fine(r)
    BY <1>f, <2>1, ChainRestSame
  <2> QED BY <2>2 DEF r
<1>e. ASSUME NEW s, Fine(s), NEW l, NEW n
      PROVE  Fine(Chain!Entered(s, l, n))
  <2> DEFINE r == [s EXCEPT !.culprit = None, !.revived = FALSE]
  <2>1. /\ DOMAIN r = Chain!Fields /\ r.at = s.at /\ r.path = s.path
        /\ r.known = s.known /\ r.removing = s.removing /\ r.status = s.status
        /\ r.moves = s.moves
    BY <1>e DEF ChainRest, Chain!Fields
  <2>2. Chain!Entered(s, l, n) = r \/ Chain!Entered(s, l, n) = s
    BY DEF Chain!Entered
  <2> HIDE DEF r
  <2>3. Fine(r)
    BY <1>e, <2>1, ChainRestSame
  <2> QED BY <1>e, <2>2, <2>3
<1>s. ASSUME NEW s, Fine(s), NEW by, NEW l, NEW N
      PROVE  Fine(Chain!Stores(s, by, l, N))
  <2> DEFINE r == [s EXCEPT !.recent[l][s.backend] = N]
             e == [s EXCEPT !.recent[l][s.backend] = N, !.stored[l][s.backend] = N]
  <2>1. Fine(r)
    <3>1. /\ DOMAIN r = Chain!Fields /\ r.at = s.at /\ r.path = s.path
          /\ r.known = s.known /\ r.removing = s.removing /\ r.status = s.status
          /\ r.moves = s.moves
      BY <1>s DEF ChainRest, Chain!Fields
    <3> HIDE DEF r
    <3> QED BY <1>s, <3>1, ChainRestSame
  <2>2. Fine(e)
    <3>1. /\ DOMAIN e = Chain!Fields /\ e.at = s.at /\ e.path = s.path
          /\ e.known = s.known /\ e.removing = s.removing /\ e.status = s.status
          /\ e.moves = s.moves
      BY <1>s DEF ChainRest, Chain!Fields
    <3> HIDE DEF e
    <3> QED BY <1>s, <3>1, ChainRestSame
  <2>3. \/ Chain!Stores(s, by, l, N) = Chain!Send(r, by, "save", l, N)
        \/ Chain!Stores(s, by, l, N) = e
    BY DEF Chain!Stores
  <2> HIDE DEF r, e
  <2> QED BY <2>1, <2>2, <2>3, <1>q
<1>r. ASSUME NEW s, Fine(s), NEW l, NEW n
      PROVE  Fine(Chain!Prune(s, l, n))
  <2> DEFINE c == <<l, s.backend, n>>
             m == {[r EXCEPT !.before = TRUE] : r \in s.reqs}
             q == [s EXCEPT !.culprit = c, !.revived = FALSE, !.reqs = m]
             N == q.recent[l][q.backend] \ {n}
  <2>1. Chain!Prune(s, l, n) = Chain!Stores(q, "prune", l, N)
    BY <1>r DEF Chain!Prune, Chain!Forget
  <2> HIDE DEF m, c
  <2>2. /\ DOMAIN q = Chain!Fields /\ q.at = s.at /\ q.path = s.path
        /\ q.known = s.known /\ q.removing = s.removing /\ q.status = s.status
        /\ q.moves = s.moves
    BY <1>r DEF ChainRest, Chain!Fields
  <2> HIDE DEF q
  <2>3. Fine(q)
    BY <1>r, <2>2, ChainRestSame
  <2> QED BY <2>1, <2>3, <1>s
<1>k. ASSUME NEW s, Fine(s)
      PROVE  Fine(Chain!Connecting(s))
  <2> DEFINE r == [s EXCEPT !.backend = "ssh", !.known = TRUE]
             f == Chain!Fetched(r, "paths", "ssh", s.stored["paths"]["ssh"])
  <2>1. Fine(r)
    BY <1>k DEF ChainRest, Chain!Fields
  <2> HIDE DEF r
  <2>2. Fine(f)
    BY <2>1, <1>f
  <2> HIDE DEF f
  <2>3. Fine(Chain!To(f, "connecting"))
    BY <2>2, <1>p DEF Chain!Places, Chain!Waiting
  <2> QED BY <2>3, <1>w DEF Chain!Connecting, Chain!Waiting, r, f
<1>m. ASSUME NEW S, \A s \in S : Fine(s), Chain!Moves(S)
      PROVE  ChainRest(x')
  <2>1. PICK s \in S : x' = [s EXCEPT !.moves = @ + 1] /\ x.moves < MaxChainMoves
    BY <1>m DEF Chain!Moves
  <2>2. Fine(s) /\ MaxChainMoves \in Nat
    BY <1>m, PageBounds
  <2>3. /\ DOMAIN x' = Chain!Fields /\ x'.at = s.at /\ x'.path = s.path
        /\ x'.known = s.known /\ x'.removing = s.removing /\ x'.status = s.status
        /\ x'.moves = s.moves + 1
    BY <2>1, <2>2 DEF ChainRest, Chain!Fields
  <2> QED BY <2>1, <2>2, <2>3 DEF ChainRest
<1>g. ASSUME NEW S, \A s \in S : Fine(s), Chain!Goes(S)
      PROVE  ChainRest(x')
  BY <1>g DEF Chain!Goes
<1>n. {"idle", "backend", "password", "retry", "folder", "saving", "command", "creating", "alert",
       "loading", "listing", "storing", "probing", "installing", "connecting"}
         \subseteq Chain!Places
  BY DEF Chain!Places, Chain!Waiting, Chain!Requests
<1>o. ASSUME NEW s, Fine(s), NEW r
      PROVE  Fine(Chain!GoesOn(s, r))
  <2> DEFINE p == CASE s.at = "loading" -> "folder" [] s.at = "listing" -> "command"
                    [] s.at = "storing" -> "creating" [] OTHER -> s.at
  <2>1. p \in Chain!Places
    BY <1>n, <1>o DEF ChainRest
  <2>2. \/ Chain!GoesOn(s, r) = s \/ Chain!GoesOn(s, r) = Chain!To(s, p)
        \/ Chain!GoesOn(s, r) = Chain!Send(s, "delete", "fetch", r.list, {})
        \/ Chain!GoesOn(s, r) =
             Chain!Send(Chain!To(s, "listing"), "chain", "fetch", "commands", {})
    BY DEF Chain!GoesOn
  <2> HIDE DEF p, Fine
  <2>3. Fine(Chain!To(s, p)) /\ Fine(Chain!To(s, "listing"))
    BY <2>1, <1>o, <1>p, <1>n
  <2> QED BY <2>2, <2>3, <1>o, <1>q
<1> HIDE DEF Fine
<1>1. CASE Chain!Start
  <2> DEFINE s == [x EXCEPT !.path = None, !.command = None]
  <2>1. Fine(s)
    BY <1>d DEF ChainRest, Fine, Chain!Fields
  <2> HIDE DEF s
  <2>2. Fine(Chain!To(s, "backend"))
    BY <2>1, <1>p, <1>n
  <2>3. Chain!Moves({Chain!To(s, "backend")})
    BY <1>1 DEF Chain!Start, s
  <2> QED BY <2>2, <2>3, <1>m
<1>2. CASE Chain!Backend
  <2> DEFINE s == [x EXCEPT !.backend = "local"]
             r == Chain!Send(Chain!To(s, "loading"), "chain", "fetch", "paths", {})
  <2>1. Fine(s)
    BY <1>d DEF ChainRest, Fine, Chain!Fields
  <2>2. \/ x' = r \/ x' = Chain!Connecting(x)
        \/ x' = Chain!ShowStatus(Chain!To(x, "probing"), "probing")
    BY <1>2 DEF Chain!Backend, Chain!Goes
  <2> HIDE DEF s
  <2>3. Fine(r)
    BY <2>1, <1>p, <1>q, <1>n
  <2> HIDE DEF r
  <2>4. Fine(Chain!Connecting(x))
    BY <1>0, <1>k
  <2>5. Fine(Chain!To(x, "probing"))
    BY <1>0, <1>p, <1>n
  <2>6. Fine(Chain!ShowStatus(Chain!To(x, "probing"), "probing"))
    BY <2>5, <1>w DEF Chain!Waiting
  <2> QED BY <2>2, <2>3, <2>4, <2>6 DEF Fine
<1>3. CASE Chain!AskRemove
  <2> DEFINE s == [x EXCEPT !.removing = "asked"]
  <2>1. Fine(s)
    BY <1>d DEF ChainRest, Fine, Chain!Fields
  <2>2. Chain!Moves({s})
    BY <1>3 DEF Chain!AskRemove
  <2> HIDE DEF s
  <2> QED BY <2>1, <2>2, <1>m
<1>4. CASE Chain!ConfirmRemove
  <2> DEFINE s == [x EXCEPT !.removing = "no"]
             t == [x EXCEPT !.removing = "sent"]
  <2>1. Fine(s) /\ Fine(t)
    BY <1>d DEF ChainRest, Fine, Chain!Fields
  <2>2. Chain!Goes({s, Chain!To(s, "idle"), Chain!ShowStatus(t, "removing")})
    BY <1>4 DEF Chain!ConfirmRemove
  <2> HIDE DEF s, t
  <2>3. Fine(Chain!To(s, "idle")) /\ Fine(Chain!ShowStatus(t, "removing"))
    BY <2>1, <1>p, <1>w, <1>n
  <2> QED BY <2>1, <2>2, <2>3, <1>g
<1>5. CASE Chain!Removed
  <2> DEFINE r == [x EXCEPT !.removing = "no"]
             s == Chain!CloseStatus(r, "removing")
             Gone(f) == [l \in Chain!Lists |-> [f[l] EXCEPT !["ssh"] = {}]]
             t == [s EXCEPT !.known = FALSE, !.recent = Gone(@), !.stored = Gone(@)]
  <2>1. Fine(r)
    BY <1>d DEF ChainRest, Fine, Chain!Fields
  <2> HIDE DEF r
  <2>2. Fine(s)
    BY <2>1, <1>w
  <2>3. Chain!Goes({s, t})
    BY <1>5 DEF Chain!Removed, r
  <2> HIDE DEF s, Gone
  <2>4. Fine(t)
    BY <2>2 DEF ChainRest, Fine, Chain!Fields
  <2> HIDE DEF t
  <2> QED BY <2>2, <2>3, <2>4, <1>g
<1>6. CASE Chain!Probed
  <2> DEFINE s == Chain!CloseStatus(x, "probing")
  <2>1. Fine(s)
    BY <1>0, <1>w DEF Chain!Waiting
  <2>2. Chain!Goes({Chain!To(s, "idle"), Chain!Connecting(s), Chain!To(s, "alert"),
                    Chain!To(s, "password")})
    BY <1>6 DEF Chain!Probed
  <2> HIDE DEF s
  <2>3. /\ Fine(Chain!To(s, "idle")) /\ Fine(Chain!Connecting(s)) /\ Fine(Chain!To(s, "alert"))
        /\ Fine(Chain!To(s, "password"))
    BY <2>1, <1>p, <1>k, <1>n
  <2> QED BY <2>2, <2>3, <1>g
<1>7. CASE Chain!Password \/ Chain!Retry
  <2>1. \/ Chain!Moves({Chain!ShowStatus(Chain!To(x, "installing"), "installing")})
        \/ Chain!Goes({Chain!To(x, "password")})
    BY <1>7 DEF Chain!Password, Chain!Retry
  <2>2. Fine(Chain!To(x, "installing")) /\ Fine(Chain!To(x, "password"))
    BY <1>0, <1>p, <1>n
  <2>3. Fine(Chain!ShowStatus(Chain!To(x, "installing"), "installing"))
    BY <2>2, <1>w DEF Chain!Waiting
  <2> QED BY <2>1, <2>2, <2>3, <1>g, <1>m
<1>8. CASE Chain!Installed
  <2> DEFINE s == Chain!CloseStatus(x, "installing")
  <2>1. Fine(s)
    BY <1>0, <1>w DEF Chain!Waiting
  <2>2. Chain!Goes({Chain!Connecting(s), Chain!To(s, "retry"), Chain!To(s, "alert")})
    BY <1>8 DEF Chain!Installed
  <2> HIDE DEF s
  <2>3. /\ Fine(Chain!Connecting(s)) /\ Fine(Chain!To(s, "retry")) /\ Fine(Chain!To(s, "alert"))
    BY <2>1, <1>p, <1>k, <1>n
  <2> QED BY <2>2, <2>3, <1>g
<1>9. CASE Chain!Connected
  <2> DEFINE s == Chain!CloseStatus(x, "connecting")
  <2>1. Fine(s)
    BY <1>0, <1>w DEF Chain!Waiting
  <2>2. Chain!Goes({Chain!To(s, "alert"), Chain!To(s, "folder")})
    BY <1>9 DEF Chain!Connected
  <2> HIDE DEF s
  <2>3. Fine(Chain!To(s, "alert")) /\ Fine(Chain!To(s, "folder"))
    BY <2>1, <1>p, <1>n
  <2> QED BY <2>2, <2>3, <1>g
<1>10. ASSUME NEW n \in Names, Chain!DeleteRecent(n)
       PROVE  ChainRest(x')
  <2>1. PICK l : Chain!Moves({Chain!Forget(x, "delete", l, n)})
    BY <1>10 DEF Chain!DeleteRecent
  <2>2. Fine(Chain!Forget(x, "delete", l, n))
    BY <1>0, <1>s DEF Chain!Forget
  <2> QED BY <2>1, <2>2, <1>m
<1>11. ASSUME NEW n \in Names, Chain!Folder(n)
       PROVE  ChainRest(x')
  <2> DEFINE z == [x EXCEPT !.path = n]
             e == Chain!Entered(z, "paths", n)
             K == e.stored["commands"]["ssh"]
             H(N) == IF x.backend = "local"
                     THEN Chain!To(Chain!Stores(e, "chain", "paths", N), "saving")
                     ELSE Chain!To(Chain!Fetched(Chain!Stores(e, "chain", "paths", N),
                                                 "commands", "ssh", K), "command")
             T == Chain!Saved(x.recent["paths"][x.backend], n)
  <2>1. Fine(z)
    BY <1>d DEF ChainRest, Fine, Chain!Fields
  <2>2. Chain!Moves({H(N) : N \in T})
    BY <1>11 DEF Chain!Folder
  <2> HIDE DEF z, T
  <2>3. Fine(e)
    BY <2>1, <1>e
  <2> HIDE DEF e, K
  <2>4. \A N : Fine(Chain!Stores(e, "chain", "paths", N))
    BY <2>3, <1>s
  <2>5. \A N : Fine(Chain!Fetched(Chain!Stores(e, "chain", "paths", N), "commands", "ssh", K))
    BY <2>4, <1>f
  <2>6. \A N \in T : Fine(H(N))
    BY <2>4, <2>5, <1>p, <1>n
  <2> HIDE DEF H
  <2>7. \A r \in {H(N) : N \in T} : Fine(r)
    BY <2>6
  <2> QED BY <2>2, <2>7, <1>m
<1>12. ASSUME NEW n, Chain!Command(n)
       PROVE  ChainRest(x')
  <2> DEFINE z == [x EXCEPT !.command = n]
             e == Chain!Entered(z, "commands", n)
             p == IF x.backend = "local" THEN "storing" ELSE "creating"
             H(N) == Chain!To(Chain!Stores(e, "chain", "commands", N), p)
             T == Chain!Saved(x.recent["commands"][x.backend], n)
  <2>1. Fine(z)
    BY <1>d DEF ChainRest, Fine, Chain!Fields
  <2>2. Chain!Moves({Chain!To(e, "creating")}) \/ Chain!Moves({H(N) : N \in T})
    BY <1>12 DEF Chain!Command
  <2>3. p \in Chain!Places
    BY <1>n
  <2> HIDE DEF z, T, p
  <2>4. Fine(e)
    BY <2>1, <1>e
  <2> HIDE DEF e
  <2>5. Fine(Chain!To(e, "creating"))
    BY <2>4, <1>p, <1>n
  <2>6. \A N : Fine(Chain!Stores(e, "chain", "commands", N))
    BY <2>4, <1>s
  <2>7. \A N \in T : Fine(H(N))
    BY <2>3, <2>6, <1>p
  <2> HIDE DEF H
  <2>8. \A r \in {H(N) : N \in T} : Fine(r)
    BY <2>7
  <2>9. \A r \in {Chain!To(e, "creating")} : Fine(r)
    BY <2>5
  <2> QED BY <2>2, <2>8, <2>9, <1>m
<1>13. CASE Chain!Created
  <2>1. Chain!Goes({Chain!To(x, "idle"), Chain!To(Chain!Prune(x, "paths", x.path), "idle"),
                    Chain!To(Chain!Prune(x, "commands", x.command), "idle")})
    BY <1>13 DEF Chain!Created, Chain!Goes
  <2>2. Fine(Chain!Prune(x, "paths", x.path)) /\ Fine(Chain!Prune(x, "commands", x.command))
    BY <1>0, <1>r
  <2>3. /\ Fine(Chain!To(x, "idle")) /\ Fine(Chain!To(Chain!Prune(x, "paths", x.path), "idle"))
        /\ Fine(Chain!To(Chain!Prune(x, "commands", x.command), "idle"))
    BY <2>2, <1>0, <1>p, <1>n
  <2> QED BY <2>1, <2>3, <1>g
<1>14. CASE Chain!Leave
  <2> DEFINE s == [x EXCEPT !.status = None]
  <2>1. Fine(s)
    BY <1>d DEF ChainRest, Fine, Chain!Fields
  <2>2. Chain!Moves({Chain!To(s, "idle")}) \/ Chain!Moves({s})
    BY <1>14 DEF Chain!Leave
  <2> HIDE DEF s
  <2>3. Fine(Chain!To(s, "idle"))
    BY <2>1, <1>p, <1>n
  <2> QED BY <2>1, <2>2, <2>3, <1>m
<1>15. ASSUME NEW r \in x.reqs, \/ Chain!ServeSave(r) \/ Chain!ServeFetch(r)
                                \/ Chain!Answer(r) \/ Chain!Fail(r)
       PROVE  ChainRest(x')
  <2> DEFINE d == Chain!Done(r)
             v == [d EXCEPT !.stored[r.list]["local"] = r.names]
             f == Chain!Fetched(d, r.list, "local", r.names)
             q == d.reqs \cup {[r EXCEPT !.kind = "answer",
                                         !.names = x.stored[r.list]["local"]]}
             a == [d EXCEPT !.reqs = q]
  <2>1. Fine(d)
    BY <1>d DEF Chain!Done, ChainRest, Fine, Chain!Fields
  <2>2. \/ x' = Chain!GoesOn(v, r) \/ x' = a \/ x' = Chain!GoesOn(f, r)
        \/ x' = Chain!GoesOn(d, r)
    <3>1. DOMAIN d = Chain!Fields
      BY <2>1 DEF Fine, ChainRest
    <3> HIDE DEF d
    <3> QED BY <1>15, <3>1 DEF Chain!ServeSave, Chain!ServeFetch, Chain!Answer, Chain!Fail,
               Chain!Goes, Chain!Fields, d
  <2> HIDE DEF d, q
  <2>3. Fine(v) /\ Fine(a)
    BY <2>1 DEF ChainRest, Fine, Chain!Fields
  <2>4. Fine(f)
    BY <2>1, <1>f
  <2> HIDE DEF v, a, f
  <2>5. /\ Fine(Chain!GoesOn(v, r)) /\ Fine(Chain!GoesOn(f, r)) /\ Fine(Chain!GoesOn(d, r))
    BY <2>1, <2>3, <2>4, <1>o
  <2> QED BY <2>2, <2>3, <2>5 DEF Fine
<1>16. ASSUME NEW l, NEW b, NEW N, Chain!OtherSaves(l, b, N)
       PROVE  ChainRest(x')
  <2> DEFINE s == [x EXCEPT !.stored[l][b] = N]
  <2>1. Fine(s)
    BY <1>d DEF ChainRest, Fine, Chain!Fields
  <2>2. Chain!Moves({s})
    BY <1>16 DEF Chain!OtherSaves
  <2> HIDE DEF s
  <2> QED BY <2>1, <2>2, <1>m
<1>17. CASE UNCHANGED x
  BY <1>17
<1> QED BY <1>1, <1>2, <1>3, <1>4, <1>5, <1>6, <1>7, <1>8, <1>9, <1>10, <1>11, <1>12, <1>13,
           <1>14, <1>15, <1>16, <1>17 DEF Chain!Next

\* Bell: time stays within its bound, and what else there is are switches.
BellRest(s) ==
    /\ s.now \in Ring!Times /\ s.suppressUntil \in 0..(Ring!Start + EndOfTime + Cooldown)
    /\ {s.latched, s.active, s.suppressed} \subseteq BOOLEAN

LEMMA BellTyped == Ring!Inv(x) /\ BellRest(x) => Ring!TypeOK
<1> SUFFICES ASSUME Ring!Inv(x), BellRest(x) PROVE Ring!TypeOK
  OBVIOUS
<1>1. InputIdle \in Nat /\ EndOfTime \in Nat
  BY PageAssumption, PageBounds
<1>2. \A n \in Nat : n <= x.now => n \in Ring!Times
  BY <1>1 DEF BellRest, Ring!Times, Ring!Start
<1>3. /\ x.lastOutputAt \in Nat /\ x.lastInputAt \in Nat /\ x.runStart \in Nat /\ x.seen \in Nat
      /\ x.now \in Nat /\ x.lastOutputAt <= x.seen /\ x.seen <= x.now /\ x.lastInputAt <= x.now
      /\ x.frames \subseteq Nat /\ x.rang \subseteq x.frames
  BY DEF Ring!Inv, Ring!Typed
<1>4. \A f \in x.frames : f <= x.now
  BY <1>3 DEF Ring!Inv, Ring!Noted
<1>5. x.runStart <= x.now
  BY <1>3, <1>4 DEF Ring!Inv, Ring!Running
<1>6. x.lastOutputAt <= x.now
  BY <1>3
<1>7. {x.now, x.lastOutputAt, x.lastInputAt, x.runStart} \subseteq Ring!Times
  BY <1>2, <1>3, <1>5, <1>6
<1>8. x.frames \subseteq Ring!Times /\ x.rang \subseteq Ring!Times /\ x.seen \in Ring!Times
  BY <1>2, <1>3, <1>4
<1> QED BY <1>7, <1>8 DEF BellRest, Ring!TypeOK

LEMMA BellRestInit == Ring!Init => BellRest(x)
<1>1. InputIdle \in Nat /\ EndOfTime \in Nat /\ Cooldown \in Nat
  BY PageAssumption, PageBounds
<1> QED BY <1>1 DEF Ring!Init, BellRest, Ring!Times, Ring!Start

LEMMA BellRestStep ==
    Ring!Inv(x) /\ BellRest(x) /\ [Ring!Next]_x => BellRest(x')
<1> SUFFICES ASSUME Ring!Inv(x), BellRest(x), [Ring!Next]_x PROVE BellRest(x')
  OBVIOUS
<1>d. DOMAIN x = Ring!Fields
  BY DEF Ring!Inv, Ring!Typed
<1>c. InputIdle \in Nat /\ EndOfTime \in Nat /\ Cooldown \in Nat
  BY PageAssumption, PageBounds
<1>r. ASSUME NEW s, DOMAIN s = Ring!Fields, BellRest(s)
      PROVE  LET r == Ring!RingBell(s) IN DOMAIN r = Ring!Fields /\ BellRest(r)
  <2> DEFINE r == Ring!RingBell(s)
  <2>1. /\ DOMAIN r = Ring!Fields /\ r.now = s.now /\ r.active = s.active
        /\ r.suppressed = s.suppressed /\ r.latched \in {s.latched, s.latched \/ ~s.active}
        /\ r.suppressUntil \in {s.suppressUntil, s.now + Cooldown}
    BY <1>r DEF Ring!RingBell, Ring!Fields
  <2> HIDE DEF r
  <2>2. s.now + Cooldown \in 0..(Ring!Start + EndOfTime + Cooldown)
    BY <1>r, <1>c DEF BellRest, Ring!Times, Ring!Start
  <2>3. r.suppressUntil \in 0..(Ring!Start + EndOfTime + Cooldown)
    BY <1>r, <2>1, <2>2 DEF BellRest
  <2>4. {r.latched, r.active, r.suppressed} \subseteq BOOLEAN
    BY <1>r, <2>1 DEF BellRest
  <2> QED BY <1>r, <2>1, <2>3, <2>4 DEF BellRest, r
<1>t. ASSUME NEW frame
      PROVE  LET r == Ring!RunTick(x, frame) IN DOMAIN r = Ring!Fields /\ BellRest(r)
  <2> DEFINE rings == /\ Ring!Ended(x) /\ x.lastOutputAt - x.runStart >= MinRun
                      /\ x.lastInputAt <= x.lastOutputAt
             s1 == [x EXCEPT !.runStart = IF Ring!Ended(x) THEN 0 ELSE @,
                             !.rang = IF rings THEN @ \cup {x.lastOutputAt} ELSE @]
             s2 == IF frame THEN [s1 EXCEPT !.runStart = IF @ = 0 THEN x.now ELSE @,
                                            !.lastOutputAt = x.now]
                   ELSE s1
  <2>1. Ring!RunTick(x, frame) = IF rings THEN Ring!RingBell(s2) ELSE s2
    BY DEF Ring!RunTick
  <2>2. /\ DOMAIN s2 = Ring!Fields /\ s2.now = x.now /\ s2.suppressUntil = x.suppressUntil
        /\ s2.latched = x.latched /\ s2.active = x.active /\ s2.suppressed = x.suppressed
    BY <1>d DEF Ring!Fields
  <2> HIDE DEF s2
  <2>3. BellRest(s2)
    BY <2>2 DEF BellRest
  <2> QED BY <2>1, <2>2, <2>3, <1>r
<1>1. CASE Ring!Passes
  <2>1. /\ x'.now = x.now + 1 /\ x.now < Ring!Start + EndOfTime
        /\ x'.suppressUntil = x.suppressUntil
        /\ x'.latched = x.latched /\ x'.active = x.active /\ x'.suppressed = x.suppressed
    BY <1>1, <1>d DEF Ring!Passes, Ring!Fields
  <2>2. x'.now \in Ring!Times
    BY <2>1, <1>c DEF BellRest, Ring!Times, Ring!Start
  <2> QED BY <2>1, <2>2 DEF BellRest
<1>2. CASE Ring!EvalBusy \/ Ring!NoteOutput
  <2>1. PICK b : \/ x' = [Ring!RunTick(x, b) EXCEPT !.seen = x.now]
                 \/ x' = [Ring!RunTick(x, b) EXCEPT !.seen = x.now, !.frames = @ \cup {x.now}]
    BY <1>2 DEF Ring!EvalBusy, Ring!NoteOutput
  <2> DEFINE r == Ring!RunTick(x, b)
  <2>2. DOMAIN r = Ring!Fields /\ BellRest(r)
    BY <1>t
  <2> HIDE DEF r
  <2>3. /\ x'.now = r.now /\ x'.suppressUntil = r.suppressUntil
        /\ x'.latched = r.latched /\ x'.active = r.active /\ x'.suppressed = r.suppressed
    BY <2>1, <2>2 DEF Ring!Fields, r
  <2> QED BY <2>2, <2>3 DEF BellRest
<1>3. CASE Ring!Bel
  BY <1>3, <1>d, <1>r DEF Ring!Bel
<1>4. CASE Ring!Input \/ Ring!Select \/ Ring!Leave \/ Ring!Loaded
  <2>1. /\ x'.now = x.now /\ x'.suppressUntil = x.suppressUntil
        /\ x'.latched \in {x.latched, FALSE} /\ x'.active \in {x.active, TRUE, FALSE}
        /\ x'.suppressed \in {x.suppressed, FALSE}
    BY <1>4, <1>d DEF Ring!Input, Ring!Select, Ring!Leave, Ring!Loaded, Ring!Fields
  <2> QED BY <2>1 DEF BellRest
<1>5. CASE UNCHANGED x
  BY <1>5
<1> QED BY <1>1, <1>2, <1>3, <1>4, <1>5 DEF Ring!Next

\* Gestures: a terminal that was tapped still has its finger and has switched
\* nothing, and only the last finger to leave switches a second time.
TouchFine(s) ==
    /\ DOMAIN s = Touch!Fields
    /\ s.mode \in {"idle", "tap", "horizontal", "vertical", "select"}
    /\ s.tracking \in {"no", "yes", "fired"} /\ s.panels \in 0..1
    /\ s.tracking = "yes" => s.panels = 0
    /\ s.fingers \in 0..2 /\ s.touches \in 0..MaxTouches
OnLayer(s) == s.mode \in {"tap", "horizontal"}
Counted(s) ==
    /\ s.switched \in 0..2 /\ Len(s.down) <= 2
    /\ Len(s.down) = 2 => s.multiTouch
    /\ s.down # <<>> => s.switched \in 0..1
    /\ OnLayer(s) => s.switched = 0 /\ \E i \in DOMAIN s.down : s.down[i] = "term"
TouchRest(s) == TouchFine(s) /\ Counted(s)

LEMMA TouchTyped == Touch!Inv(x) /\ TouchRest(x) => Touch!TypeOK
<1> SUFFICES ASSUME Touch!Inv(x), TouchRest(x) PROVE Touch!TypeOK
  OBVIOUS
<1>1. x.sent \in 0..2 /\ x.panels \in 0..2
  BY DEF Touch!Inv, Touch!Lifting, TouchRest, TouchFine
<1> QED BY <1>1 DEF Touch!Inv, Touch!Lifting, TouchRest, TouchFine, Counted, Touch!TypeOK

LEMMA TouchRestInit == Touch!Init => TouchRest(x)
<1> SUFFICES ASSUME Touch!Init PROVE TouchRest(x)
  OBVIOUS
<1>1. MaxTouches \in Nat
  BY PageBounds
<1>2. TouchFine(x)
  BY <1>1 DEF Touch!Init, TouchFine, Touch!Fields
<1>3. x.down = <<>> /\ x.switched = 0 /\ x.mode = "idle"
  BY DEF Touch!Init
<1>4. Len(x.down) = 0
  BY <1>3
<1>5. Counted(x)
  BY <1>3, <1>4 DEF Counted, OnLayer
<1> QED BY <1>2, <1>5 DEF TouchRest

\* The end of a touch switches at most once: when the layer has seen a swipe, or
\* the last finger of a swipe leaves the page.
LEMMA TouchLeaves ==
    ASSUME NEW s, TouchFine(s), s.switched \in 0..1, NEW p, NEW t \in Touch!Ends(s, p)
    PROVE  /\ TouchFine(t) /\ t.down = s.down
           /\ t.mode = s.mode \/ (t.mode = "idle" /\ p = "term")
           /\ p = "term" => t.mode = "idle"
           /\ t.multiTouch = s.multiTouch \/ s.down = <<>>
           /\ \/ t.switched = s.switched
              \/ /\ t.switched = s.switched + 1
                 /\ \/ p = "term" /\ s.mode = "horizontal"
                    \/ p # "term" /\ s.down = <<>> /\ ~s.multiTouch
<1>1. CASE p = "term"
  <2> DEFINE m == [Touch!Missed(s) EXCEPT !.mode = "idle"]
  <2>1. /\ TouchFine(m) /\ m.down = s.down /\ m.mode = "idle" /\ m.multiTouch = s.multiTouch
        /\ m.switched = s.switched
    BY DEF Touch!Missed, TouchFine, Touch!Fields
  <2>2. t = m \/ (s.mode = "horizontal" /\ t = [m EXCEPT !.switched = @ + 1])
    BY <1>1 DEF Touch!Ends, Touch!LayerEnds
  <2> HIDE DEF m
  <2>3. CASE t = m
    BY <2>1, <2>3, <1>1
  <2>4. CASE s.mode = "horizontal" /\ t = [m EXCEPT !.switched = @ + 1]
    <3>1. /\ TouchFine(t) /\ t.down = m.down /\ t.mode = m.mode /\ t.multiTouch = m.multiTouch
          /\ t.switched = m.switched + 1
      BY <2>1, <2>4 DEF TouchFine, Touch!Fields
    <3> QED BY <2>1, <2>4, <3>1, <1>1
  <2> QED BY <2>2, <2>3, <2>4
<1>2. CASE p # "term" /\ (p = "excluded" \/ s.mode = "select")
  <2>1. t = Touch!Missed(s)
    BY <1>2 DEF Touch!Ends
  <2> QED BY <2>1, <1>2 DEF Touch!Missed, TouchFine, Touch!Fields
<1>3. CASE p # "term" /\ ~(p = "excluded" \/ s.mode = "select")
  <2> DEFINE r == [s EXCEPT !.tracking = "no"]
  <2>1. t \in Touch!PageEnds(r)
    BY <1>3 DEF Touch!Ends
  <2>2. /\ TouchFine(r) /\ r.down = s.down /\ r.mode = s.mode /\ r.multiTouch = s.multiTouch
        /\ r.switched = s.switched
    BY DEF TouchFine, Touch!Fields
  <2> HIDE DEF r
  <2>3. CASE r.down # <<>>
    <3>1. t = r
      BY <2>1, <2>3 DEF Touch!PageEnds
    <3> QED BY <3>1, <2>2, <1>3
  <2>4. CASE r.down = <<>> /\ r.multiTouch
    <3>1. PICK q \in Touch!Swipe2(r) : t = Touch!Forget(q)
      BY <2>1, <2>4 DEF Touch!PageEnds
    <3>2. q = r \/ q = [r EXCEPT !.sent = @ + 1]
      BY <3>1 DEF Touch!Swipe2
    <3>3. /\ TouchFine(q) /\ q.down = r.down /\ q.mode = r.mode /\ q.switched = r.switched
      BY <2>2, <3>2 DEF TouchFine, Touch!Fields
    <3>4. /\ TouchFine(t) /\ t.down = q.down /\ t.mode = q.mode /\ t.switched = q.switched
      BY <3>1, <3>3 DEF TouchFine, Touch!Fields, Touch!Forget
    <3> QED BY <2>2, <2>4, <3>3, <3>4, <1>3
  <2>5. CASE r.down = <<>> /\ ~r.multiTouch
    <3>1. t = r \/ t = [r EXCEPT !.switched = @ + 1]
      BY <2>1, <2>5 DEF Touch!PageEnds
    <3>2. /\ TouchFine(t) /\ t.down = r.down /\ t.mode = r.mode /\ t.multiTouch = r.multiTouch
          /\ t.switched = r.switched \/ t.switched = r.switched + 1
      BY <2>2, <3>1 DEF TouchFine, Touch!Fields
    <3> QED BY <2>2, <2>5, <3>2, <1>3
  <2> QED BY <2>3, <2>4, <2>5
<1> QED BY <1>1, <1>2, <1>3

LEMMA TouchRestStep ==
    Touch!Inv(x) /\ TouchRest(x) /\ [Touch!Next]_x => TouchRest(x')
<1> SUFFICES ASSUME Touch!Inv(x), TouchRest(x), [Touch!Next]_x PROVE TouchRest(x')
  OBVIOUS
<1>0. DOMAIN x = Touch!Fields /\ x.down \in Seq(Touch!Places) /\ TouchFine(x) /\ Counted(x)
  BY DEF TouchRest, TouchFine, Touch!Inv, Touch!Lifting
<1>z. Len(x.down) \in Nat /\ DOMAIN x.down = 1..Len(x.down) /\ (x.down = <<>> <=> Len(x.down) = 0)
  BY <1>0, LenProperties, EmptySeq
<1>q. ASSUME x'.down = x.down, x'.switched = x.switched, OnLayer(x') => OnLayer(x),
             x'.multiTouch = x.multiTouch
      PROVE  Counted(x')
  BY <1>0, <1>q, Zenon DEF Counted
<1>1. ASSUME NEW p \in Touch!Places, Touch!Down(p)
      PROVE  TouchRest(x')
  <2> DEFINE d == Append(x.down, p)
             s == [x EXCEPT !.down = d, !.touches = @ + 1]
  <2>1. /\ Len(d) = Len(x.down) + 1 /\ DOMAIN d = 1..Len(x.down) + 1
        /\ \A i \in 1..Len(x.down) : d[i] = x.down[i]
        /\ d[Len(x.down) + 1] = p /\ d # <<>>
    <3>1. /\ d \in Seq(Touch!Places) /\ Len(d) = Len(x.down) + 1
          /\ \A i \in 1..Len(x.down) : d[i] = x.down[i]
          /\ d[Len(x.down) + 1] = p
      BY <1>0, AppendProperties
    <3>2. DOMAIN d = 1..Len(d)
      BY <3>1, LenProperties
    <3> QED BY <3>1, <3>2, <1>z, EmptySeq
  <2>2. MaxTouches \in Nat
    BY PageBounds
  <2>3. /\ TouchFine(s) /\ s.down = d /\ s.switched = x.switched /\ s.mode = x.mode
    <3>1. x.touches < MaxTouches
      BY <1>1 DEF Touch!Down
    <3>2. x.touches + 1 \in 0..MaxTouches
      BY <3>1, <2>2, <1>0 DEF TouchFine
    <3> QED BY <3>2, <1>0 DEF TouchFine, Touch!Fields
  <2>4. CASE x.down = <<>>
    <3> DEFINE m == IF p = "term" THEN "tap" ELSE x.mode
    <3>1. x' = [s EXCEPT !.fingers = 1, !.sent = 0, !.switched = 0, !.panels = 0,
                         !.missed = @ /\ x.multiTouch, !.mode = m]
      BY <1>1, <2>4 DEF Touch!Down
    <3> HIDE DEF s
    <3>2. m \in {"idle", "tap", "horizontal", "vertical", "select"}
      BY <1>0 DEF TouchFine
    <3>3. m \in {"tap", "horizontal"} => p = "term"
      BY <1>0, <1>z, <2>4 DEF Counted, OnLayer
    <3> HIDE DEF m
    <3>4. TouchFine(x') /\ x'.down = d /\ x'.switched = 0 /\ x'.mode = m
      BY <2>3, <3>1, <3>2 DEF TouchFine, Touch!Fields
    <3>5. Len(x'.down) = 1 /\ d[1] = p /\ 1 \in DOMAIN d
      BY <2>1, <2>4, <3>4, <1>z
    <3> HIDE DEF d
    <3>6. Counted(x')
      BY <3>3, <3>4, <3>5 DEF Counted, OnLayer
    <3> QED BY <3>4, <3>6 DEF TouchRest
  <2>5. CASE x.down # <<>>
    <3> DEFINE m == IF p = "term" THEN "idle" ELSE x.mode
    <3>1. x' = [s EXCEPT !.fingers = 2, !.multiTouch = TRUE, !.fired = FALSE, !.sent = 0,
                         !.panels = 0, !.missed = FALSE, !.tracking = "yes", !.mode = m]
      BY <1>1, <2>5 DEF Touch!Down
    <3> HIDE DEF s
    <3>2. m \in {"idle", "tap", "horizontal", "vertical", "select"} /\ (m = x.mode \/ m = "idle")
      BY <1>0 DEF TouchFine
    <3> HIDE DEF m
    <3>4. TouchFine(x') /\ x'.down = d /\ x'.switched = x.switched /\ x'.mode = m /\ x'.multiTouch
      BY <2>3, <3>1, <3>2 DEF TouchFine, Touch!Fields
    <3>5. Len(x'.down) = 2
      <4>1. Len(x.down) < 2
        BY <1>1 DEF Touch!Down
      <4> QED BY <4>1, <2>1, <2>5, <3>4, <1>z
    <3>6. x.switched \in 0..1
      BY <2>5, <1>0 DEF Counted
    <3>7. OnLayer(x') => x'.switched = 0 /\ \E i \in DOMAIN x'.down : x'.down[i] = "term"
      <4>1. OnLayer(x') => OnLayer(x)
        BY <3>2, <3>4 DEF OnLayer
      <4>2. \A i \in DOMAIN x.down : i \in DOMAIN d /\ d[i] = x.down[i]
        BY <2>1, <1>z
      <4> HIDE DEF d
      <4> QED BY <4>1, <4>2, <3>4, <1>0 DEF Counted
    <3>8. Counted(x')
      BY <3>4, <3>5, <3>6, <3>7 DEF Counted
    <3> QED BY <3>4, <3>8 DEF TouchRest
  <2> QED BY <2>4, <2>5
<1>2. ASSUME NEW p, Touch!MoveTwo(p)
      PROVE  TouchRest(x')
  <2>1. /\ TouchFine(x') /\ x'.down = x.down /\ x'.switched = x.switched /\ x'.mode = x.mode
        /\ x'.multiTouch = x.multiTouch
    BY <1>2, <1>0 DEF Touch!MoveTwo, TouchFine, Touch!Fields
  <2> QED BY <2>1, <1>q DEF TouchRest, OnLayer
<1>3. CASE Touch!MoveUpOrDown
  <2>1. /\ TouchFine(x') /\ x'.down = x.down /\ x'.switched = x.switched /\ x'.mode = x.mode
        /\ x'.multiTouch = x.multiTouch
    BY <1>3, <1>0 DEF Touch!MoveUpOrDown, TouchFine, Touch!Fields
  <2> QED BY <2>1, <1>q DEF TouchRest, OnLayer
<1>4. ASSUME NEW m \in {"horizontal", "vertical"}, Touch!MoveOne(m)
      PROVE  TouchRest(x')
  <2>1. /\ TouchFine(x') /\ x'.down = x.down /\ x'.switched = x.switched /\ x'.mode = m
        /\ x'.multiTouch = x.multiTouch /\ x.mode = "tap"
    BY <1>4, <1>0 DEF Touch!MoveOne, TouchFine, Touch!Fields
  <2> QED BY <2>1, <1>q DEF TouchRest, OnLayer
<1>5. ASSUME NEW i, Touch!Up(i)
      PROVE  TouchRest(x')
  <2> DEFINE d == Touch!RemoveAt(x.down, i)
             s == [x EXCEPT !.down = d]
             p == x.down[i]
  <2>0. i \in DOMAIN x.down
    BY <1>5 DEF Touch!Up
  <2>1. x' \in Touch!Ends(s, p)
    BY <1>5 DEF Touch!Up
  <2>2. d \in Seq(Touch!Places) /\ LacksOne(x.down, i, d)
    BY <1>0, <2>0, OneTaken DEF Touch!RemoveAt
  <2>3. Len(d) = Len(x.down) - 1
    <3>1. /\ Len(SubSeq(x.down, 1, i - 1)) = i - 1
          /\ Len(SubSeq(x.down, i + 1, Len(x.down))) = Len(x.down) - i
          /\ SubSeq(x.down, 1, i - 1) \in Seq(Touch!Places)
          /\ SubSeq(x.down, i + 1, Len(x.down)) \in Seq(Touch!Places)
      BY <1>0, <1>z, <2>0
    <3>2. Len(d) = (i - 1) + (Len(x.down) - i)
      BY <3>1, ConcatProperties DEF Touch!RemoveAt
    <3> QED BY <3>2, <2>0, <1>z
  <2>4. \A k \in DOMAIN x.down : k # i => \E j \in DOMAIN d : d[j] = x.down[k]
    BY <2>2 DEF LacksOne
  <2>5. DOMAIN d = 1..Len(d)
    BY <2>2, LenProperties
  <2>6. x.switched \in 0..1
    BY <1>0, <2>0, <1>z DEF Counted
  <2> HIDE DEF d
  <2>7. /\ TouchFine(s) /\ s.down = d /\ s.mode = x.mode /\ s.multiTouch = x.multiTouch
        /\ s.switched = x.switched
    BY <1>0 DEF TouchFine, Touch!Fields
  <2> HIDE DEF s, p
  <2>8. /\ TouchFine(x') /\ x'.down = d
        /\ x'.mode = x.mode \/ x'.mode = "idle"
        /\ p = "term" => x'.mode = "idle"
        /\ \/ x'.switched = x.switched
           \/ /\ x'.switched = x.switched + 1
              /\ x.mode = "horizontal" \/ d = <<>>
              /\ p # "term" => d = <<>>
    BY <2>1, <2>6, <2>7, TouchLeaves
  <2>9. Len(x'.down) <= 1
    BY <2>3, <2>8, <1>0, <1>z DEF Counted
  <2>10. x'.switched \in 0..2
    BY <2>6, <2>8
  <2>11. x'.down # <<>> => x'.switched \in 0..1
    <3>1. x.mode = "horizontal" => x.switched = 0
      BY <1>0 DEF Counted, OnLayer
    <3> QED BY <3>1, <2>6, <2>8
  <2>12. OnLayer(x') => x'.switched = 0 /\ \E j \in DOMAIN x'.down : x'.down[j] = "term"
    <3> SUFFICES ASSUME OnLayer(x')
                 PROVE  x'.switched = 0 /\ \E j \in DOMAIN x'.down : x'.down[j] = "term"
      OBVIOUS
    <3>1. OnLayer(x) /\ p # "term"
      BY <2>8 DEF OnLayer
    <3>2. x.switched = 0 /\ \E k \in DOMAIN x.down : x.down[k] = "term"
      BY <3>1, <1>0 DEF Counted
    <3>3. \E j \in DOMAIN d : d[j] = "term"
      BY <3>1, <3>2, <2>4 DEF p
    <3>4. d # <<>>
      <4>1. Len(d) # 0
        BY <3>3, <2>5
      <4> QED BY <4>1, <2>2, EmptySeq
    <3> QED BY <3>1, <3>2, <3>3, <3>4, <2>8
  <2> HIDE DEF TouchFine
  <2>13. Counted(x')
    <3>1. Len(x'.down) <= 2 /\ Len(x'.down) # 2
      <4>1. Len(d) \in Nat
        BY <2>2, LenProperties
      <4>2. x'.down = d
        BY <2>8
      <4> HIDE DEF Counted
      <4> QED BY <4>1, <4>2, <2>9
    <3> QED BY <3>1, <2>10, <2>11, <2>12 DEF Counted
  <2> QED BY <2>8, <2>13 DEF TouchRest
<1>e. ASSUME x'.down = <<>>, x'.switched \in 0..2, ~OnLayer(x'), TouchFine(x')
      PROVE  TouchRest(x')
  <2>1. Len(x'.down) = 0
    BY <1>e
  <2> QED BY <2>1, <1>e DEF TouchRest, Counted
<1>6. CASE Touch!UpBoth
  <2> DEFINE s == [x EXCEPT !.down = <<>>]
             p == x.down[1]
             q == x.down[2]
  <2>1. Len(x.down) = 2 /\ x.multiTouch /\ x.switched \in 0..1
    BY <1>6, <1>0, <1>z DEF Touch!UpBoth, Counted
  <2>2. OnLayer(x) => x.switched = 0 /\ (p = "term" \/ q = "term")
    BY <2>1, <1>0, <1>z DEF Counted
  <2>3. /\ TouchFine(s) /\ s.down = <<>> /\ s.mode = x.mode /\ s.multiTouch
        /\ s.switched = x.switched
    BY <1>0, <2>1 DEF TouchFine, Touch!Fields
  <2>a. \/ p = "page" /\ q = "page"
           /\ x' \in {Touch!Forget([t EXCEPT !.tracking = "no"]) :
                        t \in IF s.multiTouch THEN Touch!Swipe2(s) ELSE {s}}
        \/ x' \in UNION {Touch!Ends(t, q) : t \in Touch!Ends(s, p)}
    BY <1>6 DEF Touch!UpBoth
  <2> HIDE DEF s, p, q
  <2>4. CASE /\ p = "page" /\ q = "page"
             /\ x' \in {Touch!Forget([t EXCEPT !.tracking = "no"]) :
                          t \in IF s.multiTouch THEN Touch!Swipe2(s) ELSE {s}}
    <3>1. PICK t \in Touch!Swipe2(s) : x' = Touch!Forget([t EXCEPT !.tracking = "no"])
      BY <2>3, <2>4
    <3>2. t = s \/ t = [s EXCEPT !.sent = @ + 1]
      BY <3>1 DEF Touch!Swipe2
    <3>3. TouchFine(t) /\ t.down = <<>> /\ t.mode = x.mode /\ t.switched = x.switched
      BY <2>3, <3>2 DEF TouchFine, Touch!Fields
    <3>4. TouchFine(x') /\ x'.down = <<>> /\ x'.mode = x.mode /\ x'.switched = x.switched
      BY <3>1, <3>3 DEF TouchFine, Touch!Fields, Touch!Forget
    <3>5. ~OnLayer(x')
      BY <2>2, <2>4, <3>4 DEF OnLayer
    <3> QED BY <2>1, <3>4, <3>5, <1>e
  <2>5. CASE x' \in UNION {Touch!Ends(t, q) : t \in Touch!Ends(s, p)}
    <3>1. PICK t \in Touch!Ends(s, p) : x' \in Touch!Ends(t, q)
      BY <2>5
    <3>2. /\ TouchFine(t) /\ t.down = <<>>
          /\ t.mode = x.mode \/ t.mode = "idle"
          /\ p = "term" => t.mode = "idle"
          /\ \/ t.switched = x.switched
             \/ t.switched = x.switched + 1 /\ p = "term" /\ x.mode = "horizontal"
      BY <2>1, <2>3, <3>1, TouchLeaves
    <3>3. t.switched \in 0..1
      <4>1. x.mode = "horizontal" => x.switched = 0
        BY <2>2 DEF OnLayer
      <4> QED BY <4>1, <2>1, <3>2
    <3>4. /\ TouchFine(x') /\ x'.down = <<>>
          /\ x'.mode = t.mode \/ x'.mode = "idle"
          /\ q = "term" => x'.mode = "idle"
          /\ x'.switched = t.switched \/ x'.switched = t.switched + 1
      BY <3>1, <3>2, <3>3, TouchLeaves
    <3>5. ~OnLayer(x')
      BY <2>2, <3>2, <3>4 DEF OnLayer
    <3>6. x'.switched \in 0..2
      BY <3>3, <3>4
    <3> QED BY <3>4, <3>5, <3>6, <1>e
  <2> QED BY <2>a, <2>4, <2>5
<1>7. CASE Touch!Hold
  <2>1. /\ TouchFine(x') /\ x'.down = x.down /\ x'.switched = x.switched /\ x'.mode = "select"
        /\ x'.multiTouch = x.multiTouch
    BY <1>7, <1>0 DEF Touch!Hold, TouchFine, Touch!Fields
  <2> QED BY <2>1, <1>q DEF TouchRest, OnLayer
<1>8. CASE Touch!Cancel
  <2> DEFINE m == IF "term" \in Touch!ToSet(x.down) THEN "idle" ELSE x.mode
  <2>1. x' = [Touch!Forget(x) EXCEPT !.down = <<>>, !.mode = m]
    BY <1>8 DEF Touch!Cancel, Touch!Forget
  <2>2. m \in {"idle", "tap", "horizontal", "vertical", "select"} \ {"tap", "horizontal"}
    BY <1>0 DEF TouchFine, Counted, OnLayer, Touch!ToSet
  <2> HIDE DEF m
  <2>3. TouchFine(x') /\ x'.down = <<>> /\ x'.switched = x.switched /\ x'.mode = m
    BY <2>1, <2>2, <1>0 DEF Touch!Forget, TouchFine, Touch!Fields
  <2>4. x.switched \in 0..2
    BY <1>0 DEF Counted
  <2> QED BY <2>2, <2>3, <2>4, <1>e DEF OnLayer
<1>9. CASE UNCHANGED x
  BY <1>9
<1> QED BY <1>1, <1>2, <1>3, <1>4, <1>5, <1>6, <1>7, <1>8, <1>9 DEF Touch!Next

\* Search: what is typed, searched for and marked was typed.
SearchRest(s) ==
    /\ DOMAIN s = Finder!Fields /\ s.marks \in [Shells -> Finder!Typed \cup {None}]
    /\ s.active \in Shells \cup {None} /\ s.field \in Finder!Typed /\ s.search \in Finder!Typed
    /\ s.regexError \in BOOLEAN /\ s.timer \in BOOLEAN /\ s.orphans \subseteq Finder!Typed
    /\ s.decorates \in BOOLEAN /\ s.steps \in 0..MaxSearchSteps

LEMMA SearchTyped == Finder!Inv(x) /\ SearchRest(x) => Finder!TypeOK
  BY DEF Finder!Inv, Finder!Marked, SearchRest, Finder!TypeOK

LEMMA BlankIsTyped == Finder!Blank \in Finder!Typed
  BY DEF Finder!Blank, Finder!Typed

LEMMA SearchRestInit == Finder!Init => SearchRest(x)
<1> SUFFICES ASSUME Finder!Init PROVE SearchRest(x)
  OBVIOUS
<1>1. MaxSearchSteps \in Nat
  BY PageBounds
<1>2. /\ DOMAIN x = Finder!Fields /\ x.marks = [s \in Shells |-> None]
      /\ x.active \in Shells \cup {None} /\ x.field = Finder!Blank /\ x.search = Finder!Blank
      /\ x.regexError = FALSE /\ x.timer = FALSE /\ x.orphans = {} /\ x.decorates = TRUE
      /\ x.steps = 0
  BY DEF Finder!Init, Finder!Fields
<1>3. x.marks \in [Shells -> Finder!Typed \cup {None}]
  BY <1>2
<1>4. x.field \in Finder!Typed /\ x.search \in Finder!Typed
  BY <1>2, BlankIsTyped
<1>5. x.steps \in 0..MaxSearchSteps
  BY <1>1, <1>2
<1>6. x.orphans \subseteq Finder!Typed
  BY <1>2
<1> QED BY <1>2, <1>3, <1>4, <1>5, <1>6 DEF SearchRest

LEMMA SearchRestStep ==
    Finder!Inv(x) /\ SearchRest(x) /\ [Finder!Next]_x => SearchRest(x')
<1> SUFFICES ASSUME Finder!Inv(x), SearchRest(x), [Finder!Next]_x PROVE SearchRest(x')
  OBVIOUS
<1> DEFINE Fine(r) == SearchRest(r) /\ r.steps = x.steps
<1>0. Fine(x) /\ DOMAIN x = Finder!Fields
  BY DEF SearchRest
\* A step changes some of these fields, to values that have their types.
<1>e. ASSUME NEW s, Fine(s), NEW r, DOMAIN r = Finder!Fields, r.steps = s.steps,
             r.marks \in [Shells -> Finder!Typed \cup {None}], r.active \in Shells \cup {None},
             r.field \in Finder!Typed, r.search \in Finder!Typed, r.regexError \in BOOLEAN,
             r.timer \in BOOLEAN, r.orphans \subseteq Finder!Typed, r.decorates \in BOOLEAN
      PROVE  Fine(r)
  BY <1>e DEF SearchRest
<1>c. ASSUME NEW s, Fine(s)
      PROVE  Fine(Finder!ClearSearch(s))
  <2>1. CASE s.sid \in s.live
    <3> DEFINE r == [s EXCEPT !.marks[s.sid] = None]
    <3>1. /\ DOMAIN r = Finder!Fields /\ r.steps = s.steps /\ r.active = s.active
          /\ r.field = s.field /\ r.search = s.search /\ r.regexError = s.regexError
          /\ r.timer = s.timer /\ r.orphans = s.orphans /\ r.decorates = s.decorates
          /\ r.marks = [s.marks EXCEPT ![s.sid] = None]
      BY <1>c DEF SearchRest, Finder!Fields
    <3> HIDE DEF r
    <3>2. r.marks \in [Shells -> Finder!Typed \cup {None}]
      BY <3>1, <1>c DEF SearchRest
    <3>3. Fine(r)
      BY <3>1, <3>2, <1>c, <1>e DEF SearchRest
    <3> QED BY <3>3, <2>1 DEF Finder!ClearSearch, r
  <2>2. CASE s.sid \notin s.live
    BY <2>2, <1>c DEF Finder!ClearSearch
  <2> QED BY <2>1, <2>2
<1>r. ASSUME NEW s, Fine(s), NEW r \in Finder!RunSearch(s)
      PROVE  Fine(r)
  <2> DEFINE c  == Finder!ClearSearch(s)
             r1 == [c EXCEPT !.regexError = FALSE]
             r2 == [s EXCEPT !.regexError = TRUE]
             r3 == [s EXCEPT !.regexError = FALSE,
                             !.marks[s.sid] = IF s.decorates THEN s.search ELSE @]
             r4 == [s EXCEPT !.regexError = FALSE, !.decorates = FALSE]
  <2>1. r \in {s, r1, r2, r3, r4}
    BY <1>r DEF Finder!RunSearch
  <2>2. Fine(r1)
    <3>1. Fine(c)
      BY <1>r, <1>c
    <3> HIDE DEF c
    <3> QED BY <3>1 DEF SearchRest, Finder!Fields
  <2>3. Fine(r2) /\ Fine(r4)
    BY <1>r DEF SearchRest, Finder!Fields
  <2>4. Fine(r3)
    <3> DEFINE v == IF s.decorates THEN s.search ELSE s.marks[s.sid]
    <3>1. /\ DOMAIN r3 = Finder!Fields /\ r3.steps = s.steps /\ r3.active = s.active
          /\ r3.field = s.field /\ r3.search = s.search /\ r3.regexError = FALSE
          /\ r3.timer = s.timer /\ r3.orphans = s.orphans /\ r3.decorates = s.decorates
          /\ r3.marks = [s.marks EXCEPT ![s.sid] = v]
      BY <1>r DEF SearchRest, Finder!Fields
    <3> HIDE DEF r3
    <3>2. s.sid \in Shells => v \in Finder!Typed \cup {None}
      BY <1>r DEF SearchRest
    <3> HIDE DEF v
    <3>3. r3.marks \in [Shells -> Finder!Typed \cup {None}]
      BY <3>1, <3>2, <1>r DEF SearchRest
    <3> QED BY <3>1, <3>3, <1>r, <1>e DEF SearchRest
  <2> HIDE DEF r1, r2, r3, r4
  <2> QED BY <2>1, <2>2, <2>3, <2>4, <1>r
<1>u. ASSUME NEW s, Fine(s), NEW t \in Finder!Typed, NEW r \in Finder!Run(s, t)
      PROVE  Fine(r)
  <2> DEFINE q == [s EXCEPT !.search = t]
  <2>1. r = s \/ r \in Finder!RunSearch(q)
    BY <1>u DEF Finder!Run
  <2>2. Fine(q)
    BY <1>u DEF SearchRest, Finder!Fields
  <2> HIDE DEF q
  <2> QED BY <2>1, <2>2, <1>u, <1>r
<1>b. ASSUME NEW s, Fine(s)
      PROVE  Fine(Finder!DropBar(s))
  <2> DEFINE r == Finder!DropBar(s)
  <2>1. /\ DOMAIN r = Finder!Fields /\ r.steps = s.steps /\ r.active = s.active
        /\ r.field = s.field /\ r.search = s.search /\ r.regexError = s.regexError
        /\ r.timer = FALSE /\ r.decorates = s.decorates /\ r.marks = s.marks
        /\ r.orphans \subseteq s.orphans \cup {s.field}
    BY <1>b DEF Finder!DropBar, SearchRest, Finder!Fields
  <2> HIDE DEF r
  <2>2. r.orphans \subseteq Finder!Typed
    BY <2>1, <1>b DEF SearchRest
  <2>3. Fine(r)
    BY <2>1, <2>2, <1>b, <1>e DEF SearchRest
  <2> QED BY <2>3 DEF r
<1>x. ASSUME NEW s, Fine(s)
      PROVE  Fine(Finder!CloseSearch(s))
  <2> DEFINE c == Finder!ClearSearch(Finder!DropBar(s))
  <2>1. Fine(c)
    BY <1>x, <1>b, <1>c
  <2>2. Finder!CloseSearch(s) = [c EXCEPT !.sid = None]
    BY DEF Finder!CloseSearch
  <2> HIDE DEF c
  <2>3. Fine([c EXCEPT !.sid = None])
    BY <2>1 DEF SearchRest, Finder!Fields
  <2> QED BY <2>2, <2>3
<1>a. ASSUME NEW s, Fine(s), NEW a \in Shells \cup {None}
      PROVE  Fine(Finder!SetActive(s, a))
  <2> DEFINE r == [s EXCEPT !.active = a]
  <2>1. Fine(r)
    BY <1>a DEF SearchRest, Finder!Fields
  <2>2. Finder!SetActive(s, a) \in {r, Finder!CloseSearch(r)}
    BY DEF Finder!SetActive
  <2> HIDE DEF r
  <2> QED BY <2>1, <2>2, <1>x
<1>s. ASSUME NEW S, \A s \in S : Fine(s), Finder!Steps(S)
      PROVE  SearchRest(x')
  <2>1. PICK s \in S : x' = [s EXCEPT !.steps = @ + 1] /\ x.steps < MaxSearchSteps
    BY <1>s DEF Finder!Steps
  <2>2. Fine(s) /\ MaxSearchSteps \in Nat
    BY <1>s, PageBounds
  <2>3. /\ DOMAIN x' = Finder!Fields /\ x'.steps = s.steps + 1 /\ x'.active = s.active
        /\ x'.field = s.field /\ x'.search = s.search /\ x'.regexError = s.regexError
        /\ x'.timer = s.timer /\ x'.orphans = s.orphans /\ x'.decorates = s.decorates
        /\ x'.marks = s.marks
    BY <2>1, <2>2 DEF SearchRest, Finder!Fields
  <2>4. x'.steps \in 0..MaxSearchSteps
    BY <2>1, <2>2, <2>3 DEF SearchRest
  <2> QED BY <2>2, <2>3, <2>4 DEF SearchRest
<1>f. x.field \in Finder!Typed
  BY DEF SearchRest
<1> HIDE DEF Fine
<1>1. CASE Finder!OpenSearch
  <2> DEFINE s == [x EXCEPT !.sid = x.active, !.bar = x.active, !.field = Finder!Blank,
                            !.search = Finder!Blank, !.regexError = FALSE, !.decorates = TRUE]
  <2>1. Finder!Steps({s})
    BY <1>1 DEF Finder!OpenSearch
  <2>2. Fine(s)
    BY <1>0, BlankIsTyped DEF Fine, SearchRest, Finder!Fields
  <2> HIDE DEF s
  <2> QED BY <2>1, <2>2, <1>s
<1>2. ASSUME NEW q \in Queries \cup {None}, Finder!Type(q)
      PROVE  SearchRest(x')
  <2> DEFINE f == [x.field EXCEPT !.text = q]
             s == [x EXCEPT !.field = f, !.timer = TRUE]
  <2>1. [x EXCEPT !.field.text = q, !.timer = TRUE] = s
    BY <1>0 DEF Finder!Fields
  <2>2. f \in Finder!Typed
    BY <1>f DEF Finder!Typed
  <2> HIDE DEF f
  <2>3. Fine(s)
    BY <1>0, <2>2 DEF Fine, SearchRest, Finder!Fields
  <2> HIDE DEF s
  <2>4. Finder!Steps({s})
    BY <1>2, <2>1 DEF Finder!Type
  <2> QED BY <2>3, <2>4, <1>s
<1>3. CASE Finder!ToggleRegex
  <2> DEFINE f == [x.field EXCEPT !.regex = ~@]
             s == [x EXCEPT !.field = f]
  <2>1. [x EXCEPT !.field.regex = ~@] = s
    BY <1>0 DEF Finder!Fields
  <2>2. f \in Finder!Typed
    BY <1>f DEF Finder!Typed
  <2> HIDE DEF f
  <2>3. Fine(s) /\ s.field \in Finder!Typed
    BY <1>0, <2>2 DEF Fine, SearchRest, Finder!Fields
  <2> HIDE DEF s
  <2>4. Finder!Steps(Finder!Run(s, s.field))
    BY <1>3, <2>1 DEF Finder!ToggleRegex
  <2>5. \A r \in Finder!Run(s, s.field) : Fine(r)
    BY <2>3, <1>u
  <2> QED BY <2>4, <2>5, <1>s
<1>4. CASE Finder!Enter \/ Finder!Debounced
  <2> DEFINE s == [x EXCEPT !.timer = FALSE]
  <2>1. Fine(s)
    BY <1>0 DEF Fine, SearchRest, Finder!Fields
  <2>2. Finder!Steps(Finder!Run(s, x.field)) \/ x' \in Finder!Run(s, x.field)
    BY <1>4 DEF Finder!Enter, Finder!Debounced
  <2> HIDE DEF s
  <2>3. \A r \in Finder!Run(s, x.field) : Fine(r)
    BY <2>1, <1>f, <1>u
  <2>4. CASE Finder!Steps(Finder!Run(s, x.field))
    BY <2>3, <2>4, <1>s
  <2>5. CASE x' \in Finder!Run(s, x.field)
    BY <2>3, <2>5 DEF Fine
  <2> QED BY <2>2, <2>4, <2>5
<1>5. ASSUME NEW t \in Finder!Typed, Finder!OrphanDebounced(t)
      PROVE  SearchRest(x')
  <2> DEFINE s == [x EXCEPT !.orphans = @ \ {t}]
  <2>1. Fine(s)
    BY <1>0 DEF Fine, SearchRest, Finder!Fields
  <2>2. x' \in Finder!Run(s, t)
    BY <1>5 DEF Finder!OrphanDebounced
  <2> HIDE DEF s
  <2>3. Fine(x')
    BY <2>1, <2>2, <1>u
  <2> QED BY <2>3 DEF Fine
<1>6. CASE Finder!NextMatch \/ Finder!Close
  <2>1. Finder!Steps(Finder!RunSearch(x)) \/ Finder!Steps({Finder!CloseSearch(x)})
    BY <1>6 DEF Finder!NextMatch, Finder!Close
  <2>2. Fine(Finder!CloseSearch(x)) /\ \A r \in Finder!RunSearch(x) : Fine(r)
    BY <1>0, <1>r, <1>x
  <2> QED BY <2>1, <2>2, <1>s
<1>7. ASSUME NEW a \in Shells, Finder!Select(a)
      PROVE  SearchRest(x')
  <2>1. Finder!Steps({Finder!SetActive(x, a)})
    BY <1>7 DEF Finder!Select
  <2>2. Fine(Finder!SetActive(x, a))
    BY <1>0, <1>a
  <2> QED BY <2>1, <2>2, <1>s
<1>8. ASSUME NEW d \in Shells, Finder!Destroy(d)
      PROVE  SearchRest(x')
  <2> DEFINE b == IF x.bar = d THEN Finder!DropBar(x) ELSE x
             s == [b EXCEPT !.live = @ \ {d}, !.marks[d] = None]
  <2>1. Fine(b)
    BY <1>0, <1>b
  <2>2. \/ Finder!Steps({s}) \/ Finder!Steps({Finder!SetActive(s, None)})
        \/ Finder!Steps({Finder!SetActive(s, a) : a \in s.live})
    BY <1>8 DEF Finder!Destroy
  <2>3. s.live \subseteq Shells
    <3>1. b.live = x.live /\ x.live \subseteq Shells
      BY <1>0 DEF Finder!DropBar, Finder!Inv, Finder!Marked, Finder!Fields
    <3> HIDE DEF b
    <3>2. s.live = b.live \ {d}
      BY <2>1 DEF Fine, SearchRest, Finder!Fields
    <3> QED BY <3>1, <3>2
  <2> HIDE DEF b
  <2>4. Fine(s)
    <3>1. /\ DOMAIN s = Finder!Fields /\ s.steps = b.steps /\ s.active = b.active
          /\ s.field = b.field /\ s.search = b.search /\ s.regexError = b.regexError
          /\ s.timer = b.timer /\ s.orphans = b.orphans /\ s.decorates = b.decorates
          /\ s.marks = [b.marks EXCEPT ![d] = None]
      BY <2>1 DEF Fine, SearchRest, Finder!Fields
    <3> HIDE DEF s
    <3>2. s.marks \in [Shells -> Finder!Typed \cup {None}]
      BY <2>1, <3>1 DEF Fine, SearchRest
    <3> QED BY <2>1, <3>1, <3>2, <1>e DEF Fine, SearchRest
  <2> HIDE DEF s
  <2>5. Fine(Finder!SetActive(s, None)) /\ \A a \in s.live : Fine(Finder!SetActive(s, a))
    BY <2>3, <2>4, <1>a
  <2>6. \A r \in {Finder!SetActive(s, a) : a \in s.live} : Fine(r)
    BY <2>5
  <2> QED BY <2>2, <2>4, <2>5, <2>6, <1>s
<1>9. CASE UNCHANGED x
  BY <1>9
<1> QED BY <1>1, <1>2, <1>3, <1>4, <1>5, <1>6, <1>7, <1>8, <1>9 DEF Finder!Next

\* Paste: the files that are counted, ordered and told of are files of a paste.
PasteJob(b) == b.order \in Seq(1..MaxFiles) /\ DOMAIN b.stages \subseteq 1..MaxFiles
PasteRest(s) ==
    /\ DOMAIN s = {"jobs", "line", "told", "ready", "losses"}
    /\ s.jobs \in Seq(Clipboard!Job) /\ Len(s.jobs) <= MaxJobs
    /\ \A j \in DOMAIN s.jobs : PasteJob(s.jobs[j])
    /\ s.told \subseteq (1..MaxJobs) \X (1..MaxFiles)
    /\ s.ready \in BOOLEAN /\ s.losses \in 0..MaxLosses

\* The numbers of a paste and of its files.
LEMMA PasteNumbers ==
    ASSUME NEW s, PasteRest(s)
    PROVE  /\ DOMAIN s.jobs \subseteq 1..MaxJobs
           /\ \A j \in DOMAIN s.jobs : DOMAIN s.jobs[j].stages \subseteq 1..MaxFiles
<1>1. MaxJobs \in Nat
  BY PageBounds
<1>2. Len(s.jobs) \in Nat /\ DOMAIN s.jobs = 1..Len(s.jobs) /\ Len(s.jobs) <= MaxJobs
  BY LenProperties DEF PasteRest
<1> QED BY <1>1, <1>2 DEF PasteRest, PasteJob

LEMMA PasteTyped == Clipboard!Inv(x) /\ PasteRest(x) => Clipboard!TypeOK
<1> SUFFICES ASSUME Clipboard!Inv(x), PasteRest(x) PROVE Clipboard!TypeOK
  OBVIOUS
<1> DEFINE J == [kind : Clipboard!Kinds, stages : Seq(Clipboard!Stages),
                 sources : Seq(Clipboard!Sources), order : Seq(1..MaxFiles), over : BOOLEAN]
           P == (1..MaxJobs) \X (1..MaxFiles)
           q == x.jobs
           l == x.line
<1>1. q \in Seq(Clipboard!Job) /\ l \in Seq(Nat \X Nat)
  BY DEF Clipboard!Inv, Clipboard!Typed
<1>2. q \in Seq(J)
  <2>1. ASSUME NEW j \in DOMAIN q
        PROVE  q[j] \in J
    <3>1. q[j] \in Clipboard!Job
      BY <1>1
    <3>2. q[j].order \in Seq(1..MaxFiles)
      BY DEF PasteRest, PasteJob
    <3> HIDE DEF q
    <3> QED BY <3>1, <3>2 DEF Clipboard!Job
  <2> HIDE DEF q, J
  <2>2. Len(q) \in Nat /\ DOMAIN q = 1..Len(q) /\ q = [j \in 1..Len(q) |-> q[j]]
    BY <1>1, LenProperties
  <2>3. [j \in 1..Len(q) |-> q[j]] \in Seq(J)
    BY <2>1, <2>2, IsASeq
  <2> QED BY <2>2, <2>3
<1>3. l \in Seq(P)
  <2>1. ASSUME NEW a \in DOMAIN l
        PROVE  l[a] \in P
    <3>1. l[a] \in Nat \X Nat
      BY <1>1
    <3>2. l[a][1] \in DOMAIN x.jobs /\ l[a][2] \in DOMAIN x.jobs[l[a][1]].stages
      BY DEF Clipboard!Inv, Clipboard!InTerminal
    <3>3. l[a][1] \in 1..MaxJobs /\ l[a][2] \in 1..MaxFiles
      BY <3>2, PasteNumbers
    <3> HIDE DEF l
    <3> QED BY <3>1, <3>3
  <2> HIDE DEF l, P
  <2>2. Len(l) \in Nat /\ DOMAIN l = 1..Len(l) /\ l = [a \in 1..Len(l) |-> l[a]]
    BY <1>1, LenProperties
  <2>3. [a \in 1..Len(l) |-> l[a]] \in Seq(P)
    BY <2>1, <2>2, IsASeq
  <2> QED BY <2>2, <2>3
<1>4. Len(x.jobs) <= MaxJobs /\ x.told \subseteq P /\ x.ready \in BOOLEAN /\ x.losses \in 0..MaxLosses
  BY DEF PasteRest
<1> HIDE DEF PasteRest
<1> QED BY <1>2, <1>3, <1>4 DEF Clipboard!TypeOK

LEMMA PasteRestInit == Clipboard!Init => PasteRest(x)
<1> SUFFICES ASSUME Clipboard!Init PROVE PasteRest(x)
  OBVIOUS
<1>1. MaxJobs \in Nat /\ MaxLosses \in Nat
  BY PageBounds
<1>2. /\ DOMAIN x = {"jobs", "line", "told", "ready", "losses"} /\ x.jobs = <<>>
      /\ x.told = {} /\ x.ready = TRUE /\ x.losses = 0
  BY DEF Clipboard!Init
<1>3. Len(x.jobs) = 0 /\ DOMAIN x.jobs = {} /\ x.jobs \in Seq(Clipboard!Job)
  BY <1>2
<1>4. Len(x.jobs) <= MaxJobs /\ x.losses \in 0..MaxLosses
  BY <1>1, <1>2, <1>3
<1>5. x.told \subseteq (1..MaxJobs) \X (1..MaxFiles) /\ x.ready \in BOOLEAN
  BY <1>2
<1>6. \A j \in DOMAIN x.jobs : PasteJob(x.jobs[j])
  BY <1>3
<1> QED BY <1>2, <1>3, <1>4, <1>5, <1>6 DEF PasteRest

\* One paste changes, and what is told of.
LEMMA PasteChanges ==
    ASSUME NEW s, PasteRest(s), NEW j \in DOMAIN s.jobs, NEW c \in Clipboard!Job, PasteJob(c),
           NEW t, DOMAIN t = DOMAIN s, t.jobs = [s.jobs EXCEPT ![j] = c],
           t.told \subseteq (1..MaxJobs) \X (1..MaxFiles), t.ready = s.ready, t.losses = s.losses
    PROVE  PasteRest(t) /\ t.jobs[j] = c /\ DOMAIN t.jobs = DOMAIN s.jobs
<1> DEFINE q == s.jobs
           r == [q EXCEPT ![j] = c]
<1>1. q \in Seq(Clipboard!Job) /\ j \in DOMAIN q
  BY DEF PasteRest
<1>2. t.jobs = r
  OBVIOUS
<1>3. Len(q) <= MaxJobs /\ \A k \in DOMAIN q : PasteJob(q[k])
  BY DEF PasteRest
<1> HIDE DEF q, PasteJob
<1>4. /\ r \in Seq(Clipboard!Job) /\ Len(r) = Len(q) /\ DOMAIN r = DOMAIN q
      /\ \A k \in DOMAIN q : r[k] = IF k = j THEN c ELSE q[k]
  BY <1>1
<1> HIDE DEF r
<1>5. \A k \in DOMAIN r : PasteJob(r[k])
  BY <1>3, <1>4
<1>6. r[j] = c
  BY <1>1, <1>4
<1> QED BY <1>2, <1>3, <1>4, <1>5, <1>6 DEF PasteRest, q

\* A file that goes on, fails or is uploaded.
LEMMA StageRest ==
    ASSUME NEW s, PasteRest(s), NEW j \in DOMAIN s.jobs, NEW i \in DOMAIN s.jobs[j].stages,
           NEW g \in Clipboard!Stages
    PROVE  /\ PasteRest(Clipboard!Stage(s, j, i, g))
           /\ DOMAIN Clipboard!Stage(s, j, i, g).jobs = DOMAIN s.jobs
<1> DEFINE t == Clipboard!Stage(s, j, i, g)
           b == s.jobs[j]
           f == [b.stages EXCEPT ![i] = g]
           c == [b EXCEPT !.stages = f]
<1>1. b \in Clipboard!Job /\ PasteJob(b)
  BY DEF PasteRest
<1>2. t = [s EXCEPT !.jobs = [s.jobs EXCEPT ![j] = c]]
  BY DEF Clipboard!Stage
<1>3. /\ DOMAIN t = DOMAIN s /\ t.jobs = [s.jobs EXCEPT ![j] = c] /\ t.told = s.told
      /\ t.ready = s.ready /\ t.losses = s.losses
  BY <1>2 DEF PasteRest
<1>4. b.stages \in Seq(Clipboard!Stages) /\ i \in DOMAIN b.stages
  BY <1>1 DEF Clipboard!Job
<1> HIDE DEF b
<1>5. f \in Seq(Clipboard!Stages) /\ DOMAIN f = DOMAIN b.stages
  <2> DEFINE q == b.stages
             r == [q EXCEPT ![i] = g]
  <2>1. q \in Seq(Clipboard!Stages) /\ i \in DOMAIN q
    BY <1>4
  <2> HIDE DEF q
  <2>2. r \in Seq(Clipboard!Stages)
    BY <2>1
  <2>3. DOMAIN r = DOMAIN q
    OBVIOUS
  <2> QED BY <2>2, <2>3 DEF q
<1> HIDE DEF f
<1>6. c \in Clipboard!Job /\ c.order = b.order /\ c.stages = f
  BY <1>1, <1>5 DEF Clipboard!Job
<1> HIDE DEF c
<1>7. PasteJob(c)
  BY <1>1, <1>5, <1>6 DEF PasteJob
<1>8. s.told \subseteq (1..MaxJobs) \X (1..MaxFiles)
  BY DEF PasteRest
<1> HIDE DEF t
<1>9. PasteRest(t) /\ DOMAIN t.jobs = DOMAIN s.jobs
  BY <1>3, <1>6, <1>7, <1>8, PasteChanges
<1> QED BY <1>9 DEF t

LEMMA FailsRest ==
    ASSUME NEW s, PasteRest(s), NEW j \in DOMAIN s.jobs, NEW i \in DOMAIN s.jobs[j].stages
    PROVE  PasteRest(Clipboard!Fails(s, j, i))
<1> DEFINE r == Clipboard!Stage(s, j, i, "failed")
           t == Clipboard!Fails(s, j, i)
<1>1. PasteRest(r)
  BY StageRest DEF Clipboard!Stages
<1>2. t = [r EXCEPT !.told = @ \cup {<<j, i>>}]
  BY DEF Clipboard!Fails
<1>3. <<j, i>> \in (1..MaxJobs) \X (1..MaxFiles)
  BY PasteNumbers
<1> HIDE DEF r, t
<1>4. /\ DOMAIN t = DOMAIN r /\ t.jobs = r.jobs /\ t.told = r.told \cup {<<j, i>>}
      /\ t.ready = r.ready /\ t.losses = r.losses
  BY <1>1, <1>2 DEF PasteRest
<1>5. PasteRest(t)
  BY <1>1, <1>3, <1>4 DEF PasteRest
<1> QED BY <1>5 DEF t

LEMMA UploadedRest ==
    ASSUME NEW s, PasteRest(s), NEW j \in DOMAIN s.jobs, NEW i \in DOMAIN s.jobs[j].stages
    PROVE  PasteRest(Clipboard!Uploaded(s, j, i))
<1> DEFINE r == Clipboard!Stage(s, j, i, "uploaded")
           t == Clipboard!Uploaded(s, j, i)
           b == r.jobs[j]
           o == Append(b.order, i)
           c == [b EXCEPT !.order = o]
<1>1. PasteRest(r) /\ DOMAIN r.jobs = DOMAIN s.jobs
  BY StageRest DEF Clipboard!Stages
<1>2. t = [r EXCEPT !.jobs = [r.jobs EXCEPT ![j] = c]]
  BY DEF Clipboard!Uploaded
<1>3. i \in 1..MaxFiles
  BY PasteNumbers
<1> HIDE DEF r
<1>4. b \in Clipboard!Job /\ PasteJob(b)
  BY <1>1 DEF PasteRest
<1> HIDE DEF b
<1>5. o \in Seq(1..MaxFiles) /\ o \in Seq(Nat)
  <2>1. b.order \in Seq(1..MaxFiles) /\ b.order \in Seq(Nat) /\ i \in Nat
    BY <1>3, <1>4 DEF PasteJob, Clipboard!Job
  <2> QED BY <2>1, <1>3, AppendProperties
<1> HIDE DEF o
<1>6. c \in Clipboard!Job /\ c.order = o /\ c.stages = b.stages
  BY <1>4, <1>5 DEF Clipboard!Job
<1>7. PasteJob(c)
  BY <1>4, <1>5, <1>6 DEF PasteJob
<1> HIDE DEF c, t
<1>8. /\ DOMAIN t = DOMAIN r /\ t.jobs = [r.jobs EXCEPT ![j] = c] /\ t.told = r.told
      /\ t.ready = r.ready /\ t.losses = r.losses
  BY <1>1, <1>2 DEF PasteRest
<1>9. r.told \subseteq (1..MaxJobs) \X (1..MaxFiles)
  BY <1>1 DEF PasteRest
<1>10. PasteRest(t)
  BY <1>1, <1>6, <1>7, <1>8, <1>9, PasteChanges
<1> QED BY <1>10 DEF t

LEMMA PasteRestStep ==
    Clipboard!Inv(x) /\ PasteRest(x) /\ [Clipboard!Next]_x => PasteRest(x')
<1> SUFFICES ASSUME Clipboard!Inv(x), PasteRest(x), [Clipboard!Next]_x PROVE PasteRest(x')
  OBVIOUS
<1>1. CASE Clipboard!Begin
  <2>1. PICK n \in 1..MaxFiles : \E kind \in Clipboard!Kinds : \E src \in [1..n -> Clipboard!Sources] :
           x' = [x EXCEPT !.jobs = Append(@, [kind |-> kind, sources |-> src, order |-> <<>>,
                                              stages |-> [i \in 1..n |-> "waiting"],
                                              over |-> FALSE])]
    BY <1>1 DEF Clipboard!Begin
  <2>2. PICK kind \in Clipboard!Kinds : \E src \in [1..n -> Clipboard!Sources] :
           x' = [x EXCEPT !.jobs = Append(@, [kind |-> kind, sources |-> src, order |-> <<>>,
                                              stages |-> [i \in 1..n |-> "waiting"],
                                              over |-> FALSE])]
    BY <2>1
  <2>3. PICK src :
           x' = [x EXCEPT !.jobs = Append(@, [kind |-> kind, sources |-> src, order |-> <<>>,
                                              stages |-> [i \in 1..n |-> "waiting"],
                                              over |-> FALSE])]
    BY <2>2
  <2> DEFINE b == [kind |-> kind, sources |-> src, order |-> <<>>,
                   stages |-> [i \in 1..n |-> "waiting"], over |-> FALSE]
             q == x.jobs
  <2>4. b.order = <<>> /\ DOMAIN b.stages = 1..n
    OBVIOUS
  <2>5. x' = [x EXCEPT !.jobs = Append(q, b)]
    BY <2>3
  <2> HIDE DEF b
  <2>6. MaxFiles \in Nat /\ MaxJobs \in Nat
    BY PageBounds
  <2>7. PasteJob(b)
    <3>1. 1..n \subseteq 1..MaxFiles
      BY <2>6
    <3>2. <<>> \in Seq(1..MaxFiles)
      OBVIOUS
    <3> QED BY <2>4, <3>1, <3>2 DEF PasteJob
  <2>8. /\ DOMAIN x' = DOMAIN x /\ x'.jobs = Append(q, b) /\ x'.told = x.told
        /\ x'.ready = x.ready /\ x'.losses = x.losses
    BY <2>5 DEF PasteRest
  <2>9. x'.jobs \in Seq(Clipboard!Job)
    BY <1>1, PasteBegins DEF Clipboard!Inv, Clipboard!Typed
  <2>10. q \in Seq(Clipboard!Job) /\ Len(q) < MaxJobs /\ \A k \in DOMAIN q : PasteJob(q[k])
    BY <1>1 DEF PasteRest, Clipboard!Begin
  <2> HIDE DEF q
  <2>11. /\ Len(x'.jobs) = Len(q) + 1 /\ DOMAIN x'.jobs = 1..Len(q) + 1
         /\ \A k \in DOMAIN q : x'.jobs[k] = q[k]
         /\ x'.jobs[Len(q) + 1] = b /\ DOMAIN q = 1..Len(q) /\ Len(q) \in Nat
    BY <2>8, <2>9, <2>10
  <2>12. Len(x'.jobs) <= MaxJobs
    BY <2>6, <2>10, <2>11
  <2>13. \A k \in DOMAIN x'.jobs : PasteJob(x'.jobs[k])
    <3> SUFFICES ASSUME NEW k \in DOMAIN x'.jobs PROVE PasteJob(x'.jobs[k])
      OBVIOUS
    <3>1. k \in DOMAIN q \/ k = Len(q) + 1
      BY <2>11
    <3> QED BY <3>1, <2>7, <2>10, <2>11
  <2> QED BY <2>8, <2>9, <2>12, <2>13 DEF PasteRest
<1>2. CASE Clipboard!Lose \/ Clipboard!Ready
  <2>1. MaxLosses \in Nat
    BY PageBounds
  <2>2. /\ DOMAIN x' = DOMAIN x /\ x'.jobs = x.jobs /\ x'.told = x.told /\ x'.ready \in BOOLEAN
        /\ x'.losses = x.losses \/ (x.losses < MaxLosses /\ x'.losses = x.losses + 1)
    BY <1>2 DEF Clipboard!Lose, Clipboard!Ready, PasteRest
  <2>3. x'.losses \in 0..MaxLosses
    BY <2>1, <2>2 DEF PasteRest
  <2> QED BY <2>2, <2>3 DEF PasteRest
<1>3. ASSUME NEW j \in DOMAIN x.jobs, Clipboard!Finish(j)
      PROVE  PasteRest(x')
  <2> DEFINE b == x.jobs[j]
             c == [b EXCEPT !.over = TRUE]
             l == x.line \o [k \in DOMAIN Clipboard!Paths(b) |-> <<j, Clipboard!Paths(b)[k]>>]
  <2>1. x' = [x EXCEPT !.jobs[j].over = TRUE, !.line = l]
    BY <1>3 DEF Clipboard!Finish
  <2> HIDE DEF l
  <2>2. /\ DOMAIN x' = DOMAIN x /\ x'.jobs = [x.jobs EXCEPT ![j] = c] /\ x'.told = x.told
        /\ x'.ready = x.ready /\ x'.losses = x.losses
    BY <2>1 DEF PasteRest
  <2>3. b \in Clipboard!Job /\ PasteJob(b)
    BY DEF PasteRest
  <2> HIDE DEF b
  <2>4. c \in Clipboard!Job /\ c.order = b.order /\ c.stages = b.stages
    BY <2>3 DEF Clipboard!Job
  <2>5. PasteJob(c)
    BY <2>3, <2>4 DEF PasteJob
  <2> HIDE DEF c
  <2>6. x.told \subseteq (1..MaxJobs) \X (1..MaxFiles)
    BY DEF PasteRest
  <2> QED BY <2>2, <2>4, <2>5, <2>6, PasteChanges
<1>4. ASSUME NEW j \in DOMAIN x.jobs, NEW i \in DOMAIN x.jobs[j].stages,
             Clipboard!Start(j, i) \/ Clipboard!Read(j, i) \/ Clipboard!Answer(j, i)
      PROVE  PasteRest(x')
  <2>1. \/ \E g \in {"reading", "sent", "failed"} : x' = Clipboard!Stage(x, j, i, g)
        \/ x' = Clipboard!Fails(x, j, i) \/ x' = Clipboard!Uploaded(x, j, i)
    BY <1>4, Zenon DEF Clipboard!Start, Clipboard!Upload, Clipboard!Read, Clipboard!Answer,
                       Clipboard!Silently
  <2>2. {"reading", "sent", "failed"} \subseteq Clipboard!Stages
    BY DEF Clipboard!Stages
  <2> QED BY <2>1, <2>2, StageRest, FailsRest, UploadedRest
<1>5. CASE UNCHANGED x
  BY <1>5
<1> QED BY <1>1, <1>2, <1>3, <1>4, <1>5, Zenon DEF Clipboard!Next

\* Locking: who is told, idle and in focus are tabs.
LocksRest(s) ==
    /\ DOMAIN s = Locks!Fields
    /\ s.cached \in [Locks!Devices -> BOOLEAN] /\ s.server \subseteq Tabs /\ s.idle \subseteq Tabs
    /\ s.focus \in Tabs \cup {None} /\ s.steps \in 0..MaxLockSteps

LEMMA LocksTyped == Locks!Inv(x) /\ LocksRest(x) => Locks!TypeOK
  BY DEF Locks!Inv, Locks!Typed, LocksRest, Locks!TypeOK

LEMMA LocksRestInit == Locks!Init => LocksRest(x)
<1>1. MaxLockSteps \in Nat
  BY PageBounds
<1> QED BY <1>1 DEF Locks!Init, LocksRest, Locks!Fields

LEMMA LocksRestStep ==
    Locks!Inv(x) /\ LocksRest(x) /\ [Locks!Next]_x => LocksRest(x')
<1> SUFFICES ASSUME Locks!Inv(x), LocksRest(x), [Locks!Next]_x PROVE LocksRest(x')
  OBVIOUS
<1> DEFINE Fine(r) == LocksRest(r) /\ r.steps = x.steps
<1>0. Fine(x) /\ DOMAIN x = Locks!Fields
  BY DEF LocksRest
\* A step changes some of these fields, to values that have their types.
<1>e. ASSUME NEW s, Fine(s), NEW r, DOMAIN r = Locks!Fields, r.steps = s.steps,
             r.cached \in [Locks!Devices -> BOOLEAN], r.server \subseteq Tabs,
             r.idle \subseteq s.idle, r.focus \in {s.focus, None}
      PROVE  Fine(r)
  BY <1>e DEF LocksRest
<1>d. \A t \in Tabs : DeviceOf[t] \in Locks!Devices
  BY DEF Locks!Devices
<1>g. ASSUME NEW s, Fine(s), NEW t \in Tabs
      PROVE  Fine(Locks!Signals(s, t))
  BY <1>g, <1>e DEF Locks!Signals, LocksRest, Locks!Fields
<1>r. ASSUME NEW s, Fine(s), NEW t \in Tabs
      PROVE  Fine(Locks!Reload(s, t))
  <2> DEFINE r == Locks!Reload(s, t)
  <2>1. /\ DOMAIN r = Locks!Fields /\ r.steps = s.steps /\ r.cached = s.cached
        /\ r.server = s.server /\ r.idle = s.idle \ {t} /\ r.focus = s.focus
    BY <1>r DEF Locks!Reload, LocksRest, Locks!Fields
  <2> HIDE DEF r
  <2>2. Fine(r)
    BY <2>1, <1>r, <1>e DEF LocksRest
  <2> QED BY <2>2 DEF r
<1>l. ASSUME NEW s, Fine(s), NEW t \in Tabs
      PROVE  Fine(Locks!Lock(s, t))
  <2> DEFINE here == {u \in Locks!Mates(t) : s.page[u] # "gone"}
             r == [s EXCEPT !.cached[DeviceOf[t]] = FALSE, !.lockReq[DeviceOf[t]] = TRUE,
                            !.owes = @ \cup here, !.missed = @ \ here]
  <2>1. /\ DOMAIN r = Locks!Fields /\ r.steps = s.steps
        /\ r.cached = [s.cached EXCEPT ![DeviceOf[t]] = FALSE]
        /\ r.server = s.server /\ r.idle = s.idle /\ r.focus = s.focus
    BY <1>l DEF LocksRest, Locks!Fields
  <2>2. Locks!Lock(s, t) = Locks!Reload(Locks!Signals(r, t), t)
    BY DEF Locks!Lock
  <2> HIDE DEF r
  <2>3. r.cached \in [Locks!Devices -> BOOLEAN]
    BY <2>1, <1>l DEF LocksRest
  <2>4. Fine(r)
    BY <2>1, <2>3, <1>l, <1>e DEF LocksRest
  <2> QED BY <2>2, <2>4, <1>g, <1>r
<1>s. ASSUME NEW s, Fine(s), Locks!Steps(s)
      PROVE  LocksRest(x')
  <2>1. MaxLockSteps \in Nat
    BY PageBounds
  <2>2. /\ DOMAIN x' = Locks!Fields /\ x'.steps = s.steps + 1 /\ x'.cached = s.cached
        /\ x'.server = s.server /\ x'.idle = s.idle /\ x'.focus = s.focus
        /\ s.steps = x.steps /\ x.steps < MaxLockSteps
    BY <1>s DEF Locks!Steps, LocksRest, Locks!Fields
  <2>3. x'.steps \in 0..MaxLockSteps
    BY <2>1, <2>2, <1>s DEF LocksRest
  <2> QED BY <2>2, <2>3, <1>s DEF LocksRest
<1>f. \A s : Fine(s) => LocksRest(s)
  OBVIOUS
<1> HIDE DEF Fine
<1>1. CASE Locks!TimePasses
  <2> DEFINE s == [x EXCEPT !.idle = Tabs]
  <2>1. Fine(s)
    BY <1>0 DEF Fine, LocksRest, Locks!Fields
  <2>2. Locks!Steps(s)
    BY <1>1 DEF Locks!TimePasses
  <2> HIDE DEF s
  <2> QED BY <2>1, <2>2, <1>s
<1>2. ASSUME NEW t \in Tabs, Locks!LockHere(t) \/ Locks!Autolock(t)
      PROVE  LocksRest(x')
  <2>1. Locks!Steps(Locks!Lock(x, t))
    BY <1>2 DEF Locks!LockHere, Locks!Autolock
  <2> QED BY <2>1, <1>0, <1>l, <1>s
<1>3. ASSUME NEW t \in Tabs, Locks!LockAll(t)
      PROVE  LocksRest(x')
  <2> DEFINE s == [x EXCEPT !.server = @ \cup {u \in Tabs \ {t} : x.page[u] = "open"}]
  <2>1. Fine(s)
    BY <1>0 DEF Fine, LocksRest, Locks!Fields
  <2>2. Locks!Steps(Locks!Lock(s, t))
    BY <1>3 DEF Locks!LockAll
  <2> HIDE DEF s
  <2> QED BY <2>1, <2>2, <1>l, <1>s
<1>4. ASSUME NEW t \in Tabs, Locks!LockAllArrives(t)
      PROVE  LocksRest(x')
  <2> DEFINE s == [x EXCEPT !.server = @ \ {t}]
  <2>1. Fine(s)
    BY <1>0 DEF Fine, LocksRest, Locks!Fields
  <2>2. x' = Locks!Lock(s, t) \/ x' = s
    BY <1>4 DEF Locks!LockAllArrives
  <2> HIDE DEF s
  <2> QED BY <2>1, <2>2, <1>l, <1>f
<1>5. ASSUME NEW t \in Tabs, Locks!Activity(t) \/ Locks!Focus(t)
      PROVE  LocksRest(x')
  <2>1. x' = [x EXCEPT !.idle = @ \ {t}] \/ x' = [x EXCEPT !.focus = t]
    BY <1>5 DEF Locks!Activity, Locks!Focus
  <2> QED BY <2>1, <1>0 DEF LocksRest, Locks!Fields
<1>6. ASSUME NEW t \in Tabs, Locks!StorageEvent(t)
      PROVE  LocksRest(x')
  <2> DEFINE s == [x EXCEPT !.told[t] = @ - 1]
  <2>1. Fine(s)
    BY <1>0 DEF Fine, LocksRest, Locks!Fields
  <2>2. x' = Locks!Reload(s, t)
    BY <1>6 DEF Locks!StorageEvent
  <2> HIDE DEF s
  <2> QED BY <2>1, <2>2, <1>r, <1>f
<1>7. ASSUME NEW t \in Tabs, Locks!EnterSecret(t)
      PROVE  LocksRest(x')
  <2> DEFINE s == [x EXCEPT !.page[t] = "deriving"]
  <2>1. Fine(s)
    BY <1>0 DEF Fine, LocksRest, Locks!Fields
  <2>2. Locks!Steps(s)
    BY <1>7 DEF Locks!EnterSecret
  <2> HIDE DEF s
  <2> QED BY <2>1, <2>2, <1>s
<1>8. ASSUME NEW t \in Tabs, Locks!Derived(t)
      PROVE  LocksRest(x')
  <2>1. x' = [x EXCEPT !.page[t] = "joining", !.cached[DeviceOf[t]] = TRUE]
    BY <1>8 DEF Locks!Derived
  <2>2. /\ DOMAIN x' = Locks!Fields /\ x'.steps = x.steps
        /\ x'.cached = [x.cached EXCEPT ![DeviceOf[t]] = TRUE]
        /\ x'.server = x.server /\ x'.idle = x.idle /\ x'.focus = x.focus
    BY <2>1, <1>0 DEF Locks!Fields
  <2>3. x'.cached \in [Locks!Devices -> BOOLEAN]
    BY <2>2 DEF LocksRest
  <2> QED BY <2>2, <2>3 DEF LocksRest
<1>9. ASSUME NEW t \in Tabs, Locks!Authenticated(t)
      PROVE  LocksRest(x')
  <2> DEFINE s  == [x EXCEPT !.page[t] = "open", !.lockReq[DeviceOf[t]] = FALSE]
             o  == {u \in s.owes : /\ DeviceOf[u] = DeviceOf[t]
                                   /\ s.page[u] = "frozen" /\ s.told[u] = 0}
             s1 == [s EXCEPT !.missed = @ \cup o]
  <2>1. Fine(s)
    BY <1>0 DEF Fine, LocksRest, Locks!Fields
  <2>2. x' = Locks!Signals(s1, t) \/ x' = s
    BY <1>9 DEF Locks!Authenticated
  <2> HIDE DEF s, o
  <2>3. Fine(s1)
    BY <2>1 DEF Fine, LocksRest, Locks!Fields
  <2> HIDE DEF s1
  <2> QED BY <2>1, <2>2, <2>3, <1>g, <1>f
<1>10. ASSUME NEW t \in Tabs, Locks!Freeze(t) \/ Locks!Close(t)
       PROVE  LocksRest(x')
  <2> DEFINE f == IF x.focus = t THEN None ELSE x.focus
             s == [x EXCEPT !.page[t] = "frozen", !.focus = f]
             c == [x EXCEPT !.page[t] = "gone", !.told[t] = 0, !.focus = f,
                            !.owes = @ \ {t}, !.missed = @ \ {t}]
  <2>1. Locks!Steps(s) \/ Locks!Steps(c)
    BY <1>10 DEF Locks!Freeze, Locks!Close
  <2>2. f \in Tabs \cup {None}
    BY DEF LocksRest
  <2> HIDE DEF f
  <2>3. Fine(s) /\ Fine(c)
    BY <1>0, <2>2 DEF Fine, LocksRest, Locks!Fields
  <2> HIDE DEF s, c
  <2> QED BY <2>1, <2>3, <1>s
<1>11. ASSUME NEW t \in Tabs, Locks!Restore(t)
       PROVE  LocksRest(x')
  <2>1. x' = Locks!Reload(x, t) \/ x' = [x EXCEPT !.page[t] = "open"]
    BY <1>11 DEF Locks!Restore
  <2>2. LocksRest([x EXCEPT !.page[t] = "open"])
    BY DEF LocksRest, Locks!Fields
  <2> QED BY <2>1, <2>2, <1>0, <1>r, <1>f
<1>12. ASSUME NEW t \in Tabs, Locks!Open(t)
       PROVE  LocksRest(x')
  <2>1. Locks!Steps(Locks!Reload(x, t))
    BY <1>12 DEF Locks!Open
  <2> QED BY <2>1, <1>0, <1>r, <1>s
<1>13. CASE UNCHANGED x
  BY <1>13
<1> QED BY <1>1, <1>2, <1>3, <1>4, <1>5, <1>6, <1>7, <1>8, <1>9, <1>10, <1>11, <1>12, <1>13
           DEF Locks!Next

\* AppUpdate: what is being installed, what the page runs and what was announced
\* are versions.
VersionsRest(s) ==
    /\ DOMAIN s = Versions!Fields
    /\ s.todo \subseteq Versions!Urls /\ s.page \in [Versions!Urls -> Versions!Some]
    /\ s.checked \in BOOLEAN /\ s.requested \in BOOLEAN /\ s.stashing \in BOOLEAN
    /\ s.retry \in BOOLEAN /\ s.updatedTo \in Versions!Some /\ s.awaits \in Versions!Some
    /\ s.loads \in 0..MaxLoads

LEMMA VersionsTyped == Versions!Inv(x) /\ VersionsRest(x) => Versions!TypeOK
  BY DEF Versions!Inv, Versions!Typed, Versions!Followed, Versions!Marked, VersionsRest,
         Versions!TypeOK

LEMMA VersionsRestInit == Versions!Init => VersionsRest(x)
<1>1. MaxLoads \in Nat
  BY PageBounds
<1> QED BY <1>1 DEF Versions!Init, VersionsRest, Versions!Fields, Versions!Unloaded,
         Versions!Some

LEMMA VersionsRestStep ==
    Versions!Inv(x) /\ VersionsRest(x) /\ [Versions!Next]_x => VersionsRest(x')
<1> SUFFICES ASSUME Versions!Inv(x), VersionsRest(x), [Versions!Next]_x PROVE VersionsRest(x')
  OBVIOUS
<1>0. DOMAIN x = Versions!Fields /\ x.server \in Versions!Versions
  BY DEF VersionsRest, Versions!Inv, Versions!Typed
<1>n. None \in Versions!Some /\ x.server \in Versions!Some
  BY <1>0 DEF Versions!Some
<1> DEFINE Fine(r) == VersionsRest(r) /\ r.loads = x.loads
<1>h. Fine(x)
  OBVIOUS
<1>a. ASSUME NEW s, Fine(s), NEW v
      PROVE  Fine(Versions!Activate(s, v))
  <2> DEFINE r == Versions!Activate(s, v)
  <2>1. /\ DOMAIN r = Versions!Fields /\ r.todo = s.todo /\ r.page = s.page
        /\ r.checked = s.checked /\ r.requested = s.requested /\ r.stashing = s.stashing
        /\ r.retry = s.retry /\ r.updatedTo = s.updatedTo /\ r.awaits = s.awaits
        /\ r.loads = s.loads
    BY <1>a DEF Versions!Activate, Versions!Disturbed, VersionsRest, Versions!Fields
  <2> HIDE DEF r
  <2>2. Fine(r)
    BY <2>1, <1>a DEF VersionsRest
  <2> QED BY <2>2 DEF r
<1>l. ASSUME NEW s, Fine(s), Versions!MayLoad
      PROVE  VersionsRest(Versions!Load(s)) /\ (Versions!ForceReload(s) => VersionsRest(x'))
  <2>1. ASSUME NEW q, Fine(q)
        PROVE  VersionsRest(Versions!Load(q))
    <3> DEFINE r == Versions!Load(q)
    <3>1. /\ DOMAIN r = Versions!Fields /\ r.todo = q.todo
          /\ r.page = [u \in Versions!Urls |-> None]
          /\ r.checked = FALSE /\ r.requested = FALSE /\ r.stashing = FALSE
          /\ r.retry = q.retry /\ r.updatedTo = q.updatedTo /\ r.awaits = None
          /\ r.loads = q.loads + 1
      BY <2>1 DEF Versions!Load, Versions!Unloaded, VersionsRest, Versions!Fields
    <3> HIDE DEF r
    <3>2. MaxLoads \in Nat
      BY PageBounds
    <3>3. q.loads \in 0..MaxLoads /\ q.loads < MaxLoads
      BY <2>1, <1>l DEF VersionsRest, Versions!MayLoad
    <3>4. r.loads \in 0..MaxLoads
      BY <3>1, <3>2, <3>3
    <3>5. r.page \in [Versions!Urls -> Versions!Some]
      BY <3>1, <1>n
    <3>6. VersionsRest(r)
      BY <3>1, <3>4, <3>5, <2>1, <1>n DEF VersionsRest
    <3> QED BY <3>6 DEF r
  <2> DEFINE F(b) == [s EXCEPT !.installing = None, !.todo = {}, !.waiting = None,
                               !.active = None,
                               !.cache = [v \in Versions!Versions |-> Versions!Empty],
                               !.stamped = b]
  <2>2. ASSUME NEW b
        PROVE  Fine(F(b))
    <3> DEFINE r == F(b)
    <3>1. /\ DOMAIN r = Versions!Fields /\ r.todo = {} /\ r.page = s.page
          /\ r.checked = s.checked /\ r.requested = s.requested /\ r.stashing = s.stashing
          /\ r.retry = s.retry /\ r.updatedTo = s.updatedTo /\ r.awaits = s.awaits
          /\ r.loads = s.loads
      BY <1>l DEF VersionsRest, Versions!Fields
    <3> HIDE DEF r
    <3>2. Fine(r)
      BY <1>l, <3>1 DEF VersionsRest
    <3> QED BY <3>2 DEF r
  <2>3. Versions!ForceReload(s) => \E b : x' = Versions!Load(F(b))
    BY DEF Versions!ForceReload
  <2> HIDE DEF F
  <2> QED BY <2>1, <2>2, <2>3, <1>l
<1>c. ASSUME NEW u \in Versions!Urls
      PROVE  VersionsRest([Versions!CacheFirst(x, u) EXCEPT !.at = "asset"])
             /\ VersionsRest([Versions!CacheFirst(x, u) EXCEPT !.at = "ready"])
  <2> DEFINE r == Versions!CacheFirst(x, u)
             k == IF u = "html" /\ x.stamped THEN "stamped" ELSE u
             have == {v \in Versions!Versions : x.cache[v][k] # None}
             least == Versions!Least(have)
  <2>1. /\ DOMAIN r = Versions!Fields /\ r.todo = x.todo
        /\ r.checked = x.checked /\ r.requested = x.requested /\ r.stashing = x.stashing
        /\ r.retry = x.retry /\ r.updatedTo = x.updatedTo /\ r.awaits = x.awaits
        /\ r.loads = x.loads
        /\ \/ r.page = [x.page EXCEPT ![u] = x.server]
           \/ have # {} /\ r.page = [x.page EXCEPT ![u] = x.cache[least][k]]
    BY <1>0 DEF Versions!CacheFirst, Versions!Network, Versions!Fields
  <2>2. have # {} => x.cache[least][k] \in Versions!Some
    <3>1. SUFFICES ASSUME have # {} PROVE x.cache[least][k] \in Versions!Some
      OBVIOUS
    <3>2. MaxVersion \in Nat
      BY PageAssumption
    <3>3. have \subseteq Nat
      BY <3>2 DEF Versions!Versions
    <3>4. \E v \in have : \A w \in have : v <= w
      BY <3>1, <3>3, LeastNat
    <3>5. least \in have
      BY <3>4 DEF Versions!Least
    <3>6. x.cache \in [Versions!Versions -> [Versions!Keys -> Versions!Some]]
      BY DEF Versions!Inv, Versions!Typed
    <3>7. k \in Versions!Keys
      BY DEF Versions!Keys
    <3> HIDE DEF have, least, k
    <3>8. least \in Versions!Versions
      BY <3>5 DEF have
    <3> QED BY <3>6, <3>7, <3>8
  <2> HIDE DEF r, have, least, k
  <2>3. r.page \in [Versions!Urls -> Versions!Some]
    <3>1. x.page \in [Versions!Urls -> Versions!Some]
      BY DEF VersionsRest
    <3>2. \A v \in Versions!Some : [x.page EXCEPT ![u] = v] \in [Versions!Urls -> Versions!Some]
      BY <3>1
    <3> QED BY <2>1, <2>2, <3>2, <1>n
  <2>4. VersionsRest(r)
    BY <2>1, <2>3 DEF VersionsRest
  <2>5. VersionsRest([r EXCEPT !.at = "asset"]) /\ VersionsRest([r EXCEPT !.at = "ready"])
    BY <2>4 DEF VersionsRest, Versions!Fields
  <2> QED BY <2>5 DEF r
<1>f. \A s : Fine(s) => VersionsRest(s)
  OBVIOUS
<1> HIDE DEF Fine
<1>1. CASE Versions!FetchHtml \/ Versions!FetchAsset
  <2>1. "html" \in Versions!Urls /\ "asset" \in Versions!Urls
    BY DEF Versions!Urls
  <2>2. \E u \in Versions!Urls : \/ x' = [Versions!CacheFirst(x, u) EXCEPT !.at = "asset"]
                                 \/ x' = [Versions!CacheFirst(x, u) EXCEPT !.at = "ready"]
    BY <1>1, <2>1 DEF Versions!FetchHtml, Versions!FetchAsset
  <2> QED BY <2>2, <1>c
<1>2. CASE Versions!Register
  BY <1>2, <1>0 DEF Versions!Register, VersionsRest, Versions!Fields
<1>3. CASE Versions!Installed
  <2> DEFINE s == [x EXCEPT !.installing = None]
  <2>1. Fine(s)
    BY <1>0 DEF Fine, VersionsRest, Versions!Fields
  <2>2. x' = Versions!Activate(s, x.installing) \/ x' = [s EXCEPT !.waiting = x.installing]
    BY <1>3 DEF Versions!Installed
  <2> HIDE DEF s
  <2>3. VersionsRest([s EXCEPT !.waiting = x.installing])
    BY <2>1 DEF Fine, VersionsRest, Versions!Fields
  <2> QED BY <2>1, <2>2, <2>3, <1>a, <1>f
<1>4. CASE Versions!Apply
  BY <1>4, <1>0 DEF Versions!Apply, VersionsRest, Versions!Fields
<1>5. CASE Versions!Stashed
  <2>1. PICK n \in {x.updatedTo, x.server} :
           x' = [x EXCEPT !.stashing = FALSE, !.requested = TRUE, !.updatedTo = n]
    BY <1>5 DEF Versions!Stashed
  <2>2. n \in Versions!Some
    BY <1>n DEF VersionsRest
  <2> QED BY <2>1, <2>2, <1>0 DEF VersionsRest, Versions!Fields
<1>6. CASE Versions!SkipWaiting
  <2> DEFINE s == Versions!Activate(x, x.waiting)
  <2>1. Fine(s)
    BY <1>h, <1>a
  <2>2. Versions!MayLoad /\ (x' = Versions!Load(s) \/ x' = s)
    BY <1>6 DEF Versions!SkipWaiting
  <2> HIDE DEF s
  <2> QED BY <2>1, <2>2, <1>l, <1>f
<1>7. CASE Versions!Reload
  <2>1. PICK b : x' = Versions!Load([x EXCEPT !.forced = 0, !.stamped = b])
    BY <1>7 DEF Versions!Reload
  <2> DEFINE s == [x EXCEPT !.forced = 0, !.stamped = b]
  <2>2. Fine(s)
    BY <1>0 DEF Fine, VersionsRest, Versions!Fields
  <2>3. Versions!MayLoad /\ x' = Versions!Load(s)
    BY <1>7, <2>1 DEF Versions!Reload
  <2> HIDE DEF s
  <2> QED BY <2>2, <2>3, <1>l
<1>15. CASE Versions!EscapeHatch
  <2> DEFINE s == [x EXCEPT !.forced = 0]
  <2>1. Fine(s)
    BY <1>0 DEF Fine, VersionsRest, Versions!Fields
  <2>2. Versions!MayLoad /\ Versions!ForceReload(s)
    BY <1>15 DEF Versions!EscapeHatch
  <2> HIDE DEF s
  <2> QED BY <2>1, <2>2, <1>l
<1>8. CASE Versions!ToastUpdated
  <2> DEFINE s == [x EXCEPT !.checked = TRUE]
             r == [s EXCEPT !.retry = TRUE, !.forced = @ + 1]
             e == [s EXCEPT !.updatedTo = None, !.retry = FALSE, !.forced = 0]
  <2>1. \/ x' = s \/ x' = e
        \/ Versions!MayLoad /\ Versions!ForceReload(r)
    BY <1>8 DEF Versions!ToastUpdated
  <2>2. Fine(s)
    BY <1>0 DEF Fine, VersionsRest, Versions!Fields
  <2> HIDE DEF s
  <2>3. Fine(r) /\ Fine(e)
    BY <2>2, <1>n DEF Fine, VersionsRest, Versions!Fields
  <2> HIDE DEF r, e
  <2> QED BY <2>1, <2>2, <2>3, <1>l, <1>f
<1>9. CASE Versions!AskServer
  <2>1. MaxVersion \in Nat
    BY PageAssumption
  <2>2. x.server + 1 \in Versions!Some
    BY <1>9, <2>1, <1>0 DEF Versions!AskServer, Versions!Some, Versions!Versions
  <2>3. x' = [x EXCEPT !.awaits = x.server + 1, !.updatedTo = x.server + 1]
    BY <1>9 DEF Versions!AskServer
  <2> DEFINE n == x.server + 1
  <2>4. n \in Versions!Some /\ x' = [x EXCEPT !.awaits = n, !.updatedTo = n]
    BY <2>2, <2>3
  <2> HIDE DEF n
  <2> QED BY <2>4, <1>0 DEF VersionsRest, Versions!Fields
<1>10. CASE Versions!PwaReloadAfterUpdate
  <2> DEFINE s == [x EXCEPT !.retry = FALSE, !.forced = 0]
  <2>1. Fine(s)
    BY <1>0 DEF Fine, VersionsRest, Versions!Fields
  <2>2. Versions!MayLoad /\ Versions!ForceReload(s)
    BY <1>10 DEF Versions!PwaReloadAfterUpdate
  <2> HIDE DEF s
  <2> QED BY <2>1, <2>2, <1>l
<1>11. CASE Versions!GiveUp
  BY <1>11, <1>0, <1>n DEF Versions!GiveUp, VersionsRest, Versions!Fields
<1>12. CASE Versions!Deploy
  <2> DEFINE s == [x EXCEPT !.server = @ + 1]
  <2>1. Fine(s)
    BY <1>0 DEF Fine, VersionsRest, Versions!Fields
  <2>2. x' = s \/ x' = [s EXCEPT !.clean = FALSE]
    BY <1>12 DEF Versions!Deploy, Versions!Disturbed
  <2> HIDE DEF s
  <2>3. VersionsRest([s EXCEPT !.clean = FALSE])
    BY <2>1 DEF Fine, VersionsRest, Versions!Fields
  <2> QED BY <2>1, <2>2, <2>3, <1>f
<1>13. ASSUME NEW u \in Versions!Urls, Versions!Cached(u)
       PROVE  VersionsRest(x')
  <2>1. PICK got : x' = [x EXCEPT !.todo = @ \ {u}, !.cache[x.installing][u] = got]
    BY <1>13 DEF Versions!Cached
  <2>2. /\ DOMAIN x' = Versions!Fields /\ x'.todo = x.todo \ {u} /\ x'.page = x.page
        /\ x'.checked = x.checked /\ x'.requested = x.requested /\ x'.stashing = x.stashing
        /\ x'.retry = x.retry /\ x'.updatedTo = x.updatedTo /\ x'.awaits = x.awaits
        /\ x'.loads = x.loads
    BY <2>1, <1>0 DEF Versions!Fields
  <2> QED BY <2>2 DEF VersionsRest
<1>14. CASE UNCHANGED x
  BY <1>14
<1> QED BY <1>1, <1>2, <1>3, <1>4, <1>5, <1>6, <1>7, <1>8, <1>9, <1>10, <1>11, <1>12, <1>13,
           <1>14, <1>15 DEF Versions!Next

\* The part that runs is one of them, with its invariant and the rest of its types.
AllTyped ==
    /\ part \in {"screen", "claims", "prompt", "dialogs", "newShell", "bell", "gestures", "search",
                 "paste", "locking", "update"}
    /\ part = "screen"     => Screens!Inv(x) /\ ScreenRest(x)
    /\ part = "claims"     => Sizes!Inv(x) /\ ClaimsRest(x)
    /\ part = "prompt"     => Field!Inv(x) /\ FieldRest(x)
    /\ part = "dialogs"    => Stack!Inv(x) /\ DialogsRest(x)
    /\ part = "newShell"   => Chain!Inv(x) /\ ChainRest(x)
    /\ part = "bell"       => Ring!Inv(x) /\ BellRest(x)
    /\ part = "gestures"   => Touch!Inv(x) /\ TouchRest(x)
    /\ part = "search"     => Finder!Inv(x) /\ SearchRest(x)
    /\ part = "paste"      => Clipboard!Inv(x) /\ PasteRest(x)
    /\ part = "locking"    => Locks!Inv(x) /\ LocksRest(x)
    /\ part = "update"     => Versions!Inv(x) /\ VersionsRest(x)

\* Page!TypeOK: the state of every part of the page has its types: no queue, stack
\* or list holds what it is not for, no highlight or place is past its list, and
\* no count leaves its bounds, whichever part it is and however long it runs.
THEOREM PageTyped == Spec => []TypeOK
<1>1. Init => AllTyped
  <2> SUFFICES ASSUME Init PROVE AllTyped
    OBVIOUS
  <2>1. CASE part = "screen" /\ Screens!Init
    BY <2>1, ScreenInit, ScreenRestInit DEF AllTyped
  <2>2. CASE part = "claims" /\ Sizes!Init
    BY <2>2, ClaimsInit, ClaimsRestInit DEF AllTyped
  <2>3. CASE part = "prompt" /\ Field!Init
    BY <2>3, PromptInit, FieldRestInit DEF AllTyped
  <2>4. CASE part = "dialogs" /\ Stack!Init
    BY <2>4, DialogsInit, DialogsRestInit DEF AllTyped
  <2>5. CASE part = "newShell" /\ Chain!Init
    BY <2>5, ChainInit, ChainRestInit DEF AllTyped
  <2>6. CASE part = "bell" /\ Ring!Init
    BY <2>6, BellInit, BellRestInit DEF AllTyped
  <2>7. CASE part = "gestures" /\ Touch!Init
    BY <2>7, GesturesInit, TouchRestInit DEF AllTyped
  <2>8. CASE part = "search" /\ Finder!Init
    BY <2>8, SearchInit, SearchRestInit DEF AllTyped
  <2>9. CASE part = "paste" /\ Clipboard!Init
    BY <2>9, PasteInit, PasteRestInit DEF AllTyped
  <2>10. CASE part = "locking" /\ Locks!Init
    BY <2>10, LockingInit, LocksRestInit DEF AllTyped
  <2>11. CASE part = "update" /\ Versions!Init
    BY <2>11, UpdateInit, VersionsRestInit DEF AllTyped
  <2> QED BY <2>1, <2>2, <2>3, <2>4, <2>5, <2>6, <2>7, <2>8, <2>9, <2>10, <2>11 DEF Init
<1>2. AllTyped /\ [Next]_vars => AllTyped'
  <2> SUFFICES ASSUME AllTyped, [Next]_vars PROVE AllTyped'
    OBVIOUS
  <2>0. part' = part
    BY PartAlone
  <2>1. CASE part = "screen"
    <3>1. Screens!Inv(x) /\ ScreenRest(x) /\ [Screens!Next]_x
      BY <2>1, PartAlone DEF AllTyped
    <3>2. Screens!Inv(x)' /\ ScreenRest(x')
      BY <3>1, ScreenStep, ScreenRestStep
    <3> QED BY <2>0, <2>1, <3>2 DEF AllTyped
  <2>2. CASE part = "claims"
    <3>1. Sizes!Inv(x) /\ ClaimsRest(x) /\ [Sizes!Next]_x
      BY <2>2, PartAlone DEF AllTyped
    <3>2. Sizes!Inv(x)' /\ ClaimsRest(x')
      BY <3>1, ClaimsStep, ClaimsRestStep
    <3> QED BY <2>0, <2>2, <3>2 DEF AllTyped
  <2>3. CASE part = "prompt"
    <3>1. Field!Inv(x) /\ FieldRest(x) /\ [Field!Next]_x
      BY <2>3, PartAlone DEF AllTyped
    <3>2. Field!Inv(x)' /\ FieldRest(x')
      BY <3>1, PromptStep, FieldRestStep
    <3> QED BY <2>0, <2>3, <3>2 DEF AllTyped
  <2>4. CASE part = "dialogs"
    <3>1. Stack!Inv(x) /\ DialogsRest(x) /\ [Stack!Next]_x
      BY <2>4, PartAlone DEF AllTyped
    <3>2. Stack!Inv(x)' /\ DialogsRest(x')
      BY <3>1, DialogsStep, DialogsRestStep
    <3> QED BY <2>0, <2>4, <3>2 DEF AllTyped
  <2>5. CASE part = "newShell"
    <3>1. Chain!Inv(x) /\ ChainRest(x) /\ [Chain!Next]_x
      BY <2>5, PartAlone DEF AllTyped
    <3>2. Chain!Inv(x)' /\ ChainRest(x')
      BY <3>1, ChainStep, ChainRestStep
    <3> QED BY <2>0, <2>5, <3>2 DEF AllTyped
  <2>6. CASE part = "bell"
    <3>1. Ring!Inv(x) /\ BellRest(x) /\ [Ring!Next]_x
      BY <2>6, PartAlone DEF AllTyped
    <3>2. Ring!Inv(x)' /\ BellRest(x')
      BY <3>1, BellStep, BellRestStep
    <3> QED BY <2>0, <2>6, <3>2 DEF AllTyped
  <2>7. CASE part = "gestures"
    <3>1. Touch!Inv(x) /\ TouchRest(x) /\ [Touch!Next]_x
      BY <2>7, PartAlone DEF AllTyped
    <3>2. Touch!Inv(x)' /\ TouchRest(x')
      BY <3>1, GesturesStep, TouchRestStep
    <3> QED BY <2>0, <2>7, <3>2 DEF AllTyped
  <2>8. CASE part = "search"
    <3>1. Finder!Inv(x) /\ SearchRest(x) /\ [Finder!Next]_x
      BY <2>8, PartAlone DEF AllTyped
    <3>2. Finder!Inv(x)' /\ SearchRest(x')
      BY <3>1, SearchStep, SearchRestStep
    <3> QED BY <2>0, <2>8, <3>2 DEF AllTyped
  <2>9. CASE part = "paste"
    <3>1. Clipboard!Inv(x) /\ PasteRest(x) /\ [Clipboard!Next]_x
      BY <2>9, PartAlone DEF AllTyped
    <3>2. Clipboard!Inv(x)' /\ PasteRest(x')
      BY <3>1, PasteStep, PasteRestStep
    <3> QED BY <2>0, <2>9, <3>2 DEF AllTyped
  <2>10. CASE part = "locking"
    <3>1. Locks!Inv(x) /\ LocksRest(x) /\ [Locks!Next]_x
      BY <2>10, PartAlone DEF AllTyped
    <3>2. Locks!Inv(x)' /\ LocksRest(x')
      BY <3>1, LockingStep, LocksRestStep
    <3> QED BY <2>0, <2>10, <3>2 DEF AllTyped
  <2>11. CASE part = "update"
    <3>1. Versions!Inv(x) /\ VersionsRest(x) /\ [Versions!Next]_x
      BY <2>11, PartAlone DEF AllTyped
    <3>2. Versions!Inv(x)' /\ VersionsRest(x')
      BY <3>1, UpdateStep, VersionsRestStep
    <3> QED BY <2>0, <2>11, <3>2 DEF AllTyped
  <2> QED BY <2>1, <2>2, <2>3, <2>4, <2>5, <2>6, <2>7, <2>8, <2>9, <2>10, <2>11 DEF AllTyped
<1>3. AllTyped => TypeOK
  <2> SUFFICES ASSUME AllTyped PROVE TypeOK
    OBVIOUS
  <2>1. CASE part = "screen"
    <3>1. Screens!TypeOK
      BY <2>1, ScreenTyped DEF AllTyped
    <3> QED BY <2>1, <3>1 DEF TypeOK
  <2>2. CASE part = "claims"
    <3>1. Sizes!TypeOK
      BY <2>2, ClaimsTyped DEF AllTyped
    <3> QED BY <2>2, <3>1 DEF TypeOK
  <2>3. CASE part = "prompt"
    <3>1. Field!TypeOK
      BY <2>3, FieldTyped DEF AllTyped
    <3> QED BY <2>3, <3>1 DEF TypeOK
  <2>4. CASE part = "dialogs"
    <3>1. Stack!TypeOK
      BY <2>4, DialogsTyped DEF AllTyped
    <3> QED BY <2>4, <3>1 DEF TypeOK
  <2>5. CASE part = "newShell"
    <3>1. Chain!TypeOK
      BY <2>5, ChainTyped DEF AllTyped
    <3> QED BY <2>5, <3>1 DEF TypeOK
  <2>6. CASE part = "bell"
    <3>1. Ring!TypeOK
      BY <2>6, BellTyped DEF AllTyped
    <3> QED BY <2>6, <3>1 DEF TypeOK
  <2>7. CASE part = "gestures"
    <3>1. Touch!TypeOK
      BY <2>7, TouchTyped DEF AllTyped
    <3> QED BY <2>7, <3>1 DEF TypeOK
  <2>8. CASE part = "search"
    <3>1. Finder!TypeOK
      BY <2>8, SearchTyped DEF AllTyped
    <3> QED BY <2>8, <3>1 DEF TypeOK
  <2>9. CASE part = "paste"
    <3>1. Clipboard!TypeOK
      BY <2>9, PasteTyped DEF AllTyped
    <3> QED BY <2>9, <3>1 DEF TypeOK
  <2>10. CASE part = "locking"
    <3>1. Locks!TypeOK
      BY <2>10, LocksTyped DEF AllTyped
    <3> QED BY <2>10, <3>1 DEF TypeOK
  <2>11. CASE part = "update"
    <3>1. Versions!TypeOK
      BY <2>11, VersionsTyped DEF AllTyped
    <3> QED BY <2>11, <3>1 DEF TypeOK
  <2> QED BY <2>1, <2>2, <2>3, <2>4, <2>5, <2>6, <2>7, <2>8, <2>9, <2>10, <2>11 DEF AllTyped
<1> QED BY <1>1, <1>2, <1>3, PTL DEF Spec

=============================================================================
