----------------------- MODULE PictureDecision_proofs -----------------------
(***************************************************************************)
(* Proofs about one release: its cut into mini-GOPs, the coding order and  *)
(* the reference rows of a mini-GOP, the three passes of the decision walk *)
(* over its pictures, and the buffers a release leaves behind.             *)
(***************************************************************************)
EXTENDS PictureDecision, SequenceTheorems, WellFoundedInduction, FiniteSetTheorems,
        FunctionTheorems, TLAPS

\* A set that holds 0 and the successor of each of its numbers holds all of them.
LEMMA Induction ==
  ASSUME NEW T, 0 \in T, \A n \in Nat : n \in T => n + 1 \in T
  PROVE  Nat \subseteq T
<1>. DEFINE R == OpToRel(<, Nat)
            U == Nat \ T
<1>. SUFFICES ASSUME U # {}
              PROVE  FALSE
  OBVIOUS
<1>1. IsWellFoundedOn(R, Nat)
  BY NatLessThanWellFounded
<1>. HIDE DEF R
<1>2. U \subseteq Nat
  OBVIOUS
<1>3. PICK x \in U : \A y \in U : ~ (<<y, x>> \in R)
  <2>. HIDE DEF U
  <2>. QED
    BY <1>1, <1>2, WFMin
<1>4. x \in Nat /\ x # 0
  OBVIOUS
<1>5. x - 1 \in T
  <2>1. x - 1 \in Nat
    BY <1>4
  <2>2. <<x - 1, x>> \in R
    BY <1>4, <2>1 DEF R, OpToRel
  <2>. QED
    BY <1>3, <2>1, <2>2
<1>. QED
  BY <1>4, <1>5

-----------------------------------------------------------------------------
(* The cut.                                                                *)

\* Where the shapes from index g on begin, and the pictures in a shape of level h.
ShapeStart(g) == IF g < MINI_GOP_MAX_COUNT THEN Stats(g).start ELSE 32

Width == <<2, 4, 8, 16, 32>>

Shape == [hier : 1..5, start : 0..30, end : 1..31]

Size(g) == MINI_GOP_OFFSET[Stats(g).hier - MIN_HIERARCHICAL_LEVEL + 1]

\* A shape's halves fill it from its start, and what follows its subtree starts
\* behind it.
ShapeFits(g) ==
  /\ Stats(g) \in Shape /\ Stats(g).end % 2 = 1
  /\ Stats(g).end - Stats(g).start + 1 = Width[Stats(g).hier]
  /\ Size(g) \in 1..31 /\ g + Size(g) <= MINI_GOP_MAX_COUNT
  /\ ShapeStart(g + Size(g)) = Stats(g).end + 1
  /\ Stats(g).hier >= 2 => ShapeStart(g + 1) = Stats(g).start
  /\ Stats(g).hier = 1 => Size(g) = 1

\* The powers of two below 64.
LEMMA Powers ==
  2 ^ 0 = 1 /\ 2 ^ 1 = 2 /\ 2 ^ 2 = 4 /\ 2 ^ 3 = 8 /\ 2 ^ 4 = 16 /\ 2 ^ 5 = 32
OBVIOUS

LEMMA WidthIsPower ==
  ASSUME NEW h \in 1..5
  PROVE  Width[h] = 2 ^ h /\ Width[h] \in 2..32 /\ (h >= 2 => Width[h] >= 4)
<1>. USE Powers DEF Width
<1>1. h = 1 \/ h = 2 \/ h = 3 \/ h = 4 \/ h = 5
  OBVIOUS
<1>2. CASE h = 1
  BY <1>2
<1>3. CASE h = 2
  BY <1>3
<1>4. CASE h = 3
  BY <1>4
<1>5. CASE h = 4
  BY <1>5
<1>6. CASE h = 5
  BY <1>6
<1>. QED
  BY <1>1, <1>2, <1>3, <1>4, <1>5, <1>6

LEMMA StatsRows0 ==
  /\ Stats(0) = [hier |-> 5, start |-> 0, end |-> 31]
  /\ Stats(1) = [hier |-> 4, start |-> 0, end |-> 15]
  /\ Stats(2) = [hier |-> 3, start |-> 0, end |-> 7]
  /\ Stats(3) = [hier |-> 2, start |-> 0, end |-> 3]
  /\ Stats(4) = [hier |-> 1, start |-> 0, end |-> 1]
  /\ Stats(5) = [hier |-> 1, start |-> 2, end |-> 3]
  /\ Stats(6) = [hier |-> 2, start |-> 4, end |-> 7]
  /\ Stats(7) = [hier |-> 1, start |-> 4, end |-> 5]
BY DEF Stats, MINI_GOP_STATS_ARRAY

LEMMA StatsRows1 ==
  /\ Stats(8) = [hier |-> 1, start |-> 6, end |-> 7]
  /\ Stats(9) = [hier |-> 3, start |-> 8, end |-> 15]
  /\ Stats(10) = [hier |-> 2, start |-> 8, end |-> 11]
  /\ Stats(11) = [hier |-> 1, start |-> 8, end |-> 9]
  /\ Stats(12) = [hier |-> 1, start |-> 10, end |-> 11]
  /\ Stats(13) = [hier |-> 2, start |-> 12, end |-> 15]
  /\ Stats(14) = [hier |-> 1, start |-> 12, end |-> 13]
  /\ Stats(15) = [hier |-> 1, start |-> 14, end |-> 15]
BY DEF Stats, MINI_GOP_STATS_ARRAY

LEMMA StatsRows2 ==
  /\ Stats(16) = [hier |-> 4, start |-> 16, end |-> 31]
  /\ Stats(17) = [hier |-> 3, start |-> 16, end |-> 23]
  /\ Stats(18) = [hier |-> 2, start |-> 16, end |-> 19]
  /\ Stats(19) = [hier |-> 1, start |-> 16, end |-> 17]
  /\ Stats(20) = [hier |-> 1, start |-> 18, end |-> 19]
  /\ Stats(21) = [hier |-> 2, start |-> 20, end |-> 23]
  /\ Stats(22) = [hier |-> 1, start |-> 20, end |-> 21]
  /\ Stats(23) = [hier |-> 1, start |-> 22, end |-> 23]
BY DEF Stats, MINI_GOP_STATS_ARRAY

LEMMA StatsRows3 ==
  /\ Stats(24) = [hier |-> 3, start |-> 24, end |-> 31]
  /\ Stats(25) = [hier |-> 2, start |-> 24, end |-> 27]
  /\ Stats(26) = [hier |-> 1, start |-> 24, end |-> 25]
  /\ Stats(27) = [hier |-> 1, start |-> 26, end |-> 27]
  /\ Stats(28) = [hier |-> 2, start |-> 28, end |-> 31]
  /\ Stats(29) = [hier |-> 1, start |-> 28, end |-> 29]
  /\ Stats(30) = [hier |-> 1, start |-> 30, end |-> 31]
BY DEF Stats, MINI_GOP_STATS_ARRAY

LEMMA Offsets ==
  /\ MINI_GOP_OFFSET[1] = 1 /\ MINI_GOP_OFFSET[2] = 3 /\ MINI_GOP_OFFSET[3] = 7
  /\ MINI_GOP_OFFSET[4] = 15 /\ MINI_GOP_OFFSET[5] = 31
BY DEF MINI_GOP_OFFSET

LEMMA ShapesNest ==
  \A g \in 0..(MINI_GOP_MAX_COUNT - 1) : ShapeFits(g)
<1>. DEFINE shapes == 0..(MINI_GOP_MAX_COUNT - 1)
<1>. USE StatsRows0, StatsRows1, StatsRows2, StatsRows3, Offsets
     DEF ShapeStart, Size, Width, MIN_HIERARCHICAL_LEVEL, MINI_GOP_MAX_COUNT
<1>1. \A g \in shapes : Stats(g) \in Shape
  BY DEF Shape
<1>7. \A g \in shapes : Stats(g).end % 2 = 1
  OBVIOUS
<1>2. \A g \in shapes : Stats(g).end - Stats(g).start + 1 = Width[Stats(g).hier]
  OBVIOUS
<1>3. \A g \in shapes : Size(g) \in 1..31 /\ g + Size(g) <= MINI_GOP_MAX_COUNT
  OBVIOUS
<1>4. \A g \in shapes : ShapeStart(g + Size(g)) = Stats(g).end + 1
  OBVIOUS
<1>5. \A g \in shapes : Stats(g).hier >= 2 => ShapeStart(g + 1) = Stats(g).start
  OBVIOUS
<1>6. \A g \in shapes : Stats(g).hier = 1 => Size(g) = 1
  OBVIOUS
<1>. QED
  BY ONLY <1>1, <1>2, <1>3, <1>4, <1>5, <1>6, <1>7 DEF ShapeFits

\* The shapes taken whole lie inside the release, and short of its key frame.
LEMMA ChosenFit ==
  ASSUME NEW n \in 1..32, NEW idr \in BOOLEAN, NEW g \in 0..(MINI_GOP_MAX_COUNT - 1),
         g \in Deactivated(n, idr), Stats(g).hier >= 2
  PROVE  Stats(g).end < n /\ (idr => Stats(g).end < n - 1)
<1>. USE StatsRows0, StatsRows1, StatsRows2, StatsRows3
<1>1. g \in {0, 1, 2, 3, 10, 17, 18, 25} \/ g \in {26, 19, 11, 4, 29, 22, 14, 7}
  BY DEF Deactivated, Four, Pair
<1>2. g \in {0, 1, 2, 3, 10, 17, 18, 25}
  BY <1>1
<1>3. g = 0 => Fits(n, 32, idr)
  BY DEF Deactivated, Four, Pair
<1>4. g = 1 => Fits(n, 16, idr)
  BY DEF Deactivated, Four, Pair
<1>5. g = 2 => Fits(n, 8, idr)
  BY DEF Deactivated, Four, Pair
<1>6. g = 3 => Fits(n, 4, idr)
  BY DEF Deactivated, Four, Pair
<1>7. g = 10 => Fits(n, 8, idr) /\ Fits(n - 8, 4, idr)
  BY DEF Deactivated, Four, Pair
<1>8. g = 17 => Fits(n, 16, idr) /\ Fits(n - 16, 8, idr)
  BY DEF Deactivated, Four, Pair
<1>9. g = 18 => Fits(n, 16, idr) /\ Fits(n - 16, 4, idr)
  BY DEF Deactivated, Four, Pair
<1>10. g = 25 => Fits(n, 16, idr) /\ Fits(n - 16, 8, idr) /\ Fits(n - 24, 4, idr)
  BY DEF Deactivated, Four, Pair
<1>. QED
  BY <1>2, <1>3, <1>4, <1>5, <1>6, <1>7, <1>8, <1>9, <1>10 DEF Fits

\* The body of WindowSplit's recursion.
SplitBody(f, g, n, idr) ==
  IF g >= MINI_GOP_MAX_COUNT
    THEN <<>>
    ELSE (IF Stats(g).end < n /\ ~Active(g, n, idr) THEN <<Stats(g)>> ELSE <<>>)
         \o f[g + Stride(g, n, idr)]

\* The split's loop moves on, and never past the end of the table.
LEMMA StrideMovesOn ==
  ASSUME NEW n \in 1..32, NEW idr \in BOOLEAN, NEW g \in 0..(MINI_GOP_MAX_COUNT - 1)
  PROVE  /\ Stride(g, n, idr) \in 1..31 /\ g + Stride(g, n, idr) <= MINI_GOP_MAX_COUNT
         /\ Stride(g, n, idr) = IF Active(g, n, idr) THEN 1 ELSE Size(g)
<1>1. Stride(g, n, idr) = IF Active(g, n, idr) THEN 1 ELSE Size(g)
  BY DEF Stride, Size
<1>2. ShapeFits(g)
  BY ShapesNest
<1>. QED
  BY <1>1, <1>2 DEF ShapeFits, MINI_GOP_MAX_COUNT

LEMMA SplitExists ==
  ASSUME NEW n \in 1..32, NEW idr \in BOOLEAN
  PROVE  \E f : f = [g \in 0..62 |-> SplitBody(f, g, n, idr)]
<1>. DEFINE T == {k \in Nat :
                   k <= 62 => \E f : f = [g \in (62 - k)..62 |-> SplitBody(f, g, n, idr)]}
<1>1. 0 \in T
  <2>. DEFINE f == [g \in 62..62 |-> <<>>]
  <2>1. f = [g \in (62 - 0)..62 |-> SplitBody(f, g, n, idr)]
    BY DEF SplitBody, MINI_GOP_MAX_COUNT
  <2>. HIDE DEF f
  <2>. QED
    BY <2>1
<1>2. ASSUME NEW k \in Nat, k \in T
      PROVE  k + 1 \in T
  <2>. SUFFICES ASSUME k + 1 <= 62
                PROVE  \E f : f = [g \in (62 - (k + 1))..62 |-> SplitBody(f, g, n, idr)]
    OBVIOUS
  <2>1. PICK f : f = [g \in (62 - k)..62 |-> SplitBody(f, g, n, idr)]
    BY <1>2
  <2>. DEFINE a  == 62 - (k + 1)
              ff == [g \in a..62 |-> IF g = a THEN SplitBody(f, a, n, idr) ELSE f[g]]
  <2>2. \A g \in a..62 : ff[g] = IF g = a THEN SplitBody(f, a, n, idr) ELSE f[g]
    OBVIOUS
  <2>6. a \in 0..61 /\ 62 - k = a + 1
    OBVIOUS
  <2>7. ff = [g \in a..62 |-> ff[g]]
    OBVIOUS
  <2>. HIDE DEF ff, a, T
  <2>3. ASSUME NEW g \in a..62
        PROVE  SplitBody(ff, g, n, idr) = SplitBody(f, g, n, idr)
    <3>1. CASE g >= MINI_GOP_MAX_COUNT
      BY <3>1 DEF SplitBody
    <3>2. CASE g \in 0..(MINI_GOP_MAX_COUNT - 1)
      <4>. DEFINE next == g + Stride(g, n, idr)
      <4>1. next \in (g + 1)..62
        <5>1. Stride(g, n, idr) \in 1..31 /\ next <= MINI_GOP_MAX_COUNT
          BY <3>2, StrideMovesOn
        <5>2. g \in Nat
          BY <2>6
        <5>. QED
          BY <5>1, <5>2 DEF MINI_GOP_MAX_COUNT
      <4>. HIDE DEF next
      <4>2. ff[next] = f[next]
        BY <2>2, <2>6, <4>1
      <4>. QED
        BY <4>2, Zenon DEF SplitBody, next
    <3>. QED
      BY <2>6, <3>1, <3>2 DEF MINI_GOP_MAX_COUNT
  <2>4. \A g \in a..62 : ff[g] = SplitBody(ff, g, n, idr)
    <3>1. \A g \in (a + 1)..62 : f[g] = SplitBody(f, g, n, idr)
      BY <2>1, <2>6
    <3>2. \A g \in a..62 : g = a \/ g \in (a + 1)..62
      BY <2>6
    <3>. QED
      BY <2>2, <2>3, <3>1, <3>2
  <2>5. ff = [g \in a..62 |-> SplitBody(ff, g, n, idr)]
    BY <2>4, <2>7
  <2>. QED
    BY <2>5 DEF a
<1>. HIDE DEF T
<1>3. 62 \in T
  BY <1>1, <1>2, Induction
<1>. QED
  BY <1>3 DEF T

LEMMA SplitUnfolds ==
  ASSUME NEW n \in 1..32, NEW idr \in BOOLEAN
  PROVE  \E f : /\ WindowSplit(n, idr) = f[0]
                /\ \A g \in 0..62 : f[g] = SplitBody(f, g, n, idr)
<1>. DEFINE f == CHOOSE h : h = [g \in 0..62 |-> SplitBody(h, g, n, idr)]
<1>1. f = [g \in 0..62 |-> SplitBody(f, g, n, idr)]
  BY SplitExists
<1>2. WindowSplit(n, idr) = f[0]
  BY DEF WindowSplit, SplitBody, MINI_GOP_MAX_COUNT
<1>. HIDE DEF f
<1>. QED
  BY <1>1, <1>2

\* A run of whole shapes that covers the pictures from a to e.
Run(s, a, e) ==
  /\ s \in Seq(Shape) /\ s # <<>>
  /\ s[1].start = a /\ s[Len(s)].end = e
  /\ \A i \in 1..Len(s) : s[i].end - s[i].start + 1 = Width[s[i].hier]
  /\ \A i \in 1..(Len(s) - 1) : s[i + 1].start = s[i].end + 1

LEMMA RunOfOne ==
  ASSUME NEW x \in Shape, x.end - x.start + 1 = Width[x.hier]
  PROVE  Run(<<x>>, x.start, x.end)
BY DEF Run

LEMMA RunExtends ==
  ASSUME NEW x \in Shape, x.end - x.start + 1 = Width[x.hier],
         NEW s, NEW e, Run(s, x.end + 1, e)
  PROVE  /\ Run(<<x>> \o s, x.start, e)
         /\ (<<x>> \o s)[Len(<<x>> \o s)] = s[Len(s)]
<1>. DEFINE t == <<x>> \o s
<1>1. s \in Seq(Shape) /\ Len(s) \in Nat \ {0} /\ <<x>> \in Seq(Shape)
  BY EmptySeq DEF Run
<1>2. t \in Seq(Shape) /\ Len(t) = Len(s) + 1 /\ t[1] = x /\ t # <<>>
  BY <1>1
<1>3. \A i \in 2..Len(t) : t[i] = s[i - 1]
  BY <1>1, <1>2
<1>4. t[Len(t)] = s[Len(s)]
  BY <1>1, <1>2, <1>3
<1>. HIDE DEF t
<1>5. \A i \in 1..Len(t) : t[i].end - t[i].start + 1 = Width[t[i].hier]
  <2>1. \A i \in 1..Len(t) : i = 1 \/ (i \in 2..Len(t) /\ i - 1 \in 1..Len(s))
    BY <1>1, <1>2
  <2>2. \A i \in 1..Len(s) : s[i].end - s[i].start + 1 = Width[s[i].hier]
    BY Zenon DEF Run
  <2>. QED
    BY <1>2, <1>3, <2>1, <2>2, Zenon
<1>6. \A i \in 1..(Len(t) - 1) : t[i + 1].start = t[i].end + 1
  <2>1. ASSUME NEW i \in 1..(Len(t) - 1)
        PROVE  t[i + 1].start = t[i].end + 1
    <3>1. t[i + 1] = s[i]
      BY <1>1, <1>2, <1>3
    <3>2. CASE i = 1
      BY <1>2, <3>1, <3>2 DEF Run
    <3>3. CASE i > 1
      <4>1. t[i] = s[i - 1] /\ i - 1 \in 1..(Len(s) - 1) /\ (i - 1) + 1 = i
        BY <1>1, <1>2, <1>3, <3>3
      <4>. QED
        BY <3>1, <4>1 DEF Run
    <3>. QED
      BY <1>2, <3>2, <3>3
  <2>. QED
    BY <2>1
<1>. QED
  BY <1>2, <1>4, <1>5, <1>6 DEF Run, t

\* The last picture of an even number of pictures at the front of the release.
LastPaired(n) == 2 * (n \div 2) - 1

\* What the split takes from index g on: whole shapes up to the last paired picture,
\* the last of them a pair when it ends on the key frame.
TakenFrom(s, g, n, idr) ==
  /\ ShapeStart(g) + 1 < n =>
       Run(s, ShapeStart(g), LastPaired(n)) /\ (idr /\ n % 2 = 0 => s[Len(s)].hier = 1)
  /\ ~(ShapeStart(g) + 1 < n) => s = <<>>

LEMMA LastOdd ==
  ASSUME NEW n \in 1..32, NEW e \in 1..31, e % 2 = 1, e < n, e + 2 >= n
  PROVE  LastPaired(n) = e /\ (e = n - 1 <=> n % 2 = 0)
BY DEF LastPaired

\* The facts about a shape that ShapeFits holds, under their own names.
LEMMA ShapeFacts ==
  ASSUME NEW g \in 0..(MINI_GOP_MAX_COUNT - 1)
  PROVE  /\ g \in 0..30 /\ Stats(g) \in Shape /\ Stats(g).hier \in 1..5
         /\ Stats(g).start \in 0..30 /\ Stats(g).end \in 1..31
         /\ Stats(g).start < Stats(g).end /\ Stats(g).end % 2 = 1
         /\ Stats(g).end - Stats(g).start + 1 = Width[Stats(g).hier]
         /\ ShapeStart(g) = Stats(g).start
         /\ ShapeStart(g + Size(g)) = Stats(g).end + 1
         /\ Stats(g).hier >= 2 => ShapeStart(g + 1) = Stats(g).start
         /\ Stats(g).hier = 1 => Stats(g).end = Stats(g).start + 1
<1>. DEFINE x == Stats(g)
<1>1. /\ x \in Shape /\ x.end % 2 = 1 /\ x.end - x.start + 1 = Width[x.hier]
      /\ ShapeStart(g + Size(g)) = x.end + 1 /\ (x.hier >= 2 => ShapeStart(g + 1) = x.start)
  BY ShapesNest DEF ShapeFits
<1>2. g \in 0..30 /\ ShapeStart(g) = x.start
  BY DEF ShapeStart, MINI_GOP_MAX_COUNT
<1>. HIDE DEF x
<1>3. x.hier \in 1..5 /\ x.start \in 0..30 /\ x.end \in 1..31
  BY <1>1 DEF Shape
<1>4. Width[x.hier] \in 2..32 /\ Width[1] = 2
  BY <1>3, WidthIsPower, Powers
<1>5. x.start < x.end /\ (x.hier = 1 => x.end = x.start + 1)
  <2>. DEFINE w == Width[x.hier]
  <2>1. w \in 2..32 /\ (x.hier = 1 => w = 2) /\ x.end - x.start + 1 = w
    BY <1>1, <1>4
  <2>. HIDE DEF w
  <2>. QED
    BY <1>3, <2>1
<1>. QED
  BY <1>1, <1>2, <1>3, <1>5 DEF x

LEMMA ShapeTaken ==
  ASSUME NEW n \in 1..32, NEW idr \in BOOLEAN, NEW g \in 0..(MINI_GOP_MAX_COUNT - 1),
         Stats(g).end < n, Stats(g).hier >= 2 /\ idr => Stats(g).end < n - 1,
         NEW s, TakenFrom(s, g + Size(g), n, idr)
  PROVE  TakenFrom(<<Stats(g)>> \o s, g, n, idr)
<1>. DEFINE x == Stats(g)
            t == <<x>> \o s
<1>1. /\ x \in Shape /\ x.hier \in 1..5 /\ x.start \in 0..30 /\ x.end \in 1..31
      /\ x.start < x.end /\ x.end % 2 = 1 /\ x.end - x.start + 1 = Width[x.hier]
      /\ ShapeStart(g) = x.start /\ ShapeStart(g + Size(g)) = x.end + 1
  BY ShapeFacts
<1>2. x.end < n /\ (x.hier >= 2 /\ idr => x.end < n - 1)
  OBVIOUS
<1>. HIDE DEF x
<1>3. x.start + 1 < n
  BY <1>1, <1>2
<1>. SUFFICES Run(t, x.start, LastPaired(n)) /\ (idr /\ n % 2 = 0 => t[Len(t)].hier = 1)
  BY <1>1, <1>3, Zenon DEF TakenFrom, x
<1>4. CASE x.end + 1 + 1 < n
  <2>1. Run(s, x.end + 1, LastPaired(n)) /\ (idr /\ n % 2 = 0 => s[Len(s)].hier = 1)
    BY <1>1, <1>4, Zenon DEF TakenFrom
  <2>2. Run(t, x.start, LastPaired(n)) /\ t[Len(t)] = s[Len(s)]
    BY <1>1, <2>1, RunExtends
  <2>. QED
    BY <2>1, <2>2
<1>5. CASE ~(x.end + 1 + 1 < n)
  <2>1. s = <<>>
    BY <1>1, <1>5, Zenon DEF TakenFrom
  <2>2. t = <<x>>
    BY <2>1
  <2>. HIDE DEF t
  <2>3. LastPaired(n) = x.end /\ (x.end = n - 1 <=> n % 2 = 0)
    BY <1>1, <1>2, <1>5, LastOdd
  <2>4. Run(t, x.start, LastPaired(n))
    BY <1>1, <2>2, <2>3, RunOfOne
  <2>5. idr /\ n % 2 = 0 => x.hier = 1
    BY <1>1, <1>2, <2>3
  <2>. QED
    BY <2>2, <2>4, <2>5
<1>. QED
  BY <1>4, <1>5

LEMMA TakenStep ==
  ASSUME NEW n \in 1..32, NEW idr \in BOOLEAN, NEW g \in 0..(MINI_GOP_MAX_COUNT - 1), NEW f,
         f[g] = SplitBody(f, g, n, idr),
         TakenFrom(f[g + Stride(g, n, idr)], g + Stride(g, n, idr), n, idr)
  PROVE  TakenFrom(f[g], g, n, idr)
<1>. DEFINE x == Stats(g)
            next == g + Stride(g, n, idr)
            rest == f[next]
<1>1. f[g] = (IF x.end < n /\ ~Active(g, n, idr) THEN <<x>> ELSE <<>>) \o rest
  <2>1. ~(g >= MINI_GOP_MAX_COUNT)
    BY DEF MINI_GOP_MAX_COUNT
  <2>. QED
    BY <2>1, Zenon DEF SplitBody
<1>2. rest = <<>> \/ \E S : rest \in Seq(S)
  BY DEF TakenFrom, Run
<1>3. TakenFrom(rest, next, n, idr)
  OBVIOUS
<1>. HIDE DEF rest
<1>4. CASE Active(g, n, idr)
  <2>1. x.hier >= 2
    BY <1>4, ShapeFacts DEF Active, MIN_HIERARCHICAL_LEVEL
  <2>2. next = g + 1 /\ ShapeStart(next) = ShapeStart(g)
    BY <1>4, <2>1, StrideMovesOn, ShapeFacts, Zenon
  <2>3. f[g] = rest
    <3>1. f[g] = <<>> \o rest
      BY <1>1, <1>4, Zenon
    <3>. QED
      BY <1>2, <3>1
  <2>. QED
    BY <1>3, <2>2, <2>3, Zenon DEF TakenFrom
<1>5. CASE ~Active(g, n, idr)
  <2>1. next = g + Size(g)
    BY <1>5, StrideMovesOn, Zenon
  <2>2. x.hier >= 2 => x.end < n /\ (idr => x.end < n - 1)
    BY <1>5, ShapeFacts, ChosenFit DEF Active, MIN_HIERARCHICAL_LEVEL
  <2>3. CASE x.end < n
    <3>1. f[g] = <<x>> \o rest
      BY <1>1, <1>5, <2>3, Zenon
    <3>. QED
      BY <1>3, <2>1, <2>2, <2>3, <3>1, ShapeTaken, Zenon
  <2>4. CASE ~(x.end < n)
    <3>1. x.start \in 0..30 /\ x.end = x.start + 1 /\ x.end + 1 \in Nat
      BY <2>2, <2>4, ShapeFacts
    <3>2. ~(x.start + 1 < n) /\ ~(x.end + 1 + 1 < n)
      <4>. HIDE DEF x
      <4>. QED
        BY <2>4, <3>1
    <3>3. rest = <<>>
      BY <1>3, <2>1, <3>2, ShapeFacts, Zenon DEF TakenFrom
    <3>4. f[g] = <<>>
      <4>1. f[g] = <<>> \o rest
        BY <1>1, <2>4, Zenon
      <4>. QED
        BY <3>3, <4>1
    <3>. QED
      BY <3>2, <3>4, ShapeFacts, Zenon DEF TakenFrom
  <2>. QED
    BY <2>3, <2>4
<1>. QED
  BY <1>4, <1>5

LEMMA NextShape ==
  ASSUME NEW g \in 0..30, NEW d \in 1..31, g + d <= 31
  PROVE  g \in 0..62 /\ g + d \in 0..62 /\ g + d > g
OBVIOUS

\* The chosen shapes tile the paired pictures of the release.
LEMMA SplitIsRun ==
  ASSUME NEW n \in 1..32, NEW idr \in BOOLEAN
  PROVE  TakenFrom(WindowSplit(n, idr), 0, n, idr)
<1>1. PICK f : WindowSplit(n, idr) = f[0] /\ \A g \in 0..62 : f[g] = SplitBody(f, g, n, idr)
  BY SplitUnfolds
<1>. DEFINE T == {k \in Nat : \A g \in 0..62 : g >= 62 - k => TakenFrom(f[g], g, n, idr)}
<1>. HIDE DEF T
<1>2. ASSUME NEW g \in 0..62, g >= MINI_GOP_MAX_COUNT
      PROVE  TakenFrom(f[g], g, n, idr)
  <2>1. f[g] = <<>>
    BY <1>1, <1>2, Zenon DEF SplitBody
  <2>2. ShapeStart(g) = 32
    BY <1>2 DEF ShapeStart, MINI_GOP_MAX_COUNT
  <2>3. ~(ShapeStart(g) + 1 < n)
    BY <2>2
  <2>. QED
    BY <2>1, <2>3, Zenon DEF TakenFrom
<1>3. ASSUME NEW g \in 0..(MINI_GOP_MAX_COUNT - 1),
             \A h \in 0..62 : h > g => TakenFrom(f[h], h, n, idr)
      PROVE  TakenFrom(f[g], g, n, idr)
  <2>. DEFINE d == Stride(g, n, idr)
  <2>1. d \in 1..31 /\ g + d <= MINI_GOP_MAX_COUNT
    BY StrideMovesOn
  <2>2. g \in 0..30
    BY DEF MINI_GOP_MAX_COUNT
  <2>. HIDE DEF d
  <2>3. g \in 0..62 /\ g + d \in 0..62 /\ g + d > g
    BY <2>1, <2>2, NextShape DEF MINI_GOP_MAX_COUNT
  <2>4. TakenFrom(f[g + d], g + d, n, idr) /\ f[g] = SplitBody(f, g, n, idr)
    BY <1>1, <1>3, <2>3
  <2>. QED
    BY <2>4, TakenStep, Zenon DEF d
<1>4. 0 \in T
  BY <1>2 DEF MINI_GOP_MAX_COUNT, T
<1>5. ASSUME NEW k \in Nat, k \in T
      PROVE  k + 1 \in T
  <2>. SUFFICES ASSUME NEW g \in 0..62, g >= 62 - (k + 1)
                PROVE  TakenFrom(f[g], g, n, idr)
    BY DEF T
  <2>1. \A h \in 0..62 : h > g => TakenFrom(f[h], h, n, idr)
    BY <1>5 DEF T
  <2>2. g >= MINI_GOP_MAX_COUNT \/ g \in 0..(MINI_GOP_MAX_COUNT - 1)
    BY DEF MINI_GOP_MAX_COUNT
  <2>. QED
    BY <1>2, <1>3, <2>1, <2>2
<1>6. 62 \in T
  BY <1>4, <1>5, Induction
<1>. QED
  BY <1>1, <1>6 DEF T

\* A cut as MiniGops builds it, before and after each mini-GOP gets its length and
\* its key frame flag.
RawMiniGop == [hier : 0..5, start : 0..31, end : 0..31]

MiniGop == [hier : 0..5, start : 0..31, end : 0..31, length : 1..32, idr : BOOLEAN]

IsRawCut(n, idr, r) ==
  /\ r \in Seq(RawMiniGop) /\ r # <<>>
  /\ r[1].start = 0 /\ r[Len(r)].end = n - 1
  /\ \A i \in 1..Len(r) : r[i].start <= r[i].end
  /\ \A i \in 1..(Len(r) - 1) : r[i + 1].start = r[i].end + 1
  /\ \A i \in 1..(Len(r) - 1) : r[i].end - r[i].start + 1 = 2 ^ r[i].hier
  /\ LET last == r[Len(r)]
     IN  /\ idr => \/ last.start = last.end /\ (n > 1 => last.hier = 1)
                   \/ last.end = last.start + 1 /\ last.hier = 1
         /\ ~idr => \/ last.end - last.start + 1 = 2 ^ last.hier
                    \/ last.start = last.end /\ last.hier = 1

\* A release of n pictures in mini-GOPs: all but the last are complete, the last may
\* hold the key frame, alone or behind one picture, or be one picture at level 1.
IsCut(n, idr, mgs) ==
  /\ mgs \in Seq(MiniGop) /\ mgs # <<>>
  /\ mgs[1].start = 0 /\ mgs[Len(mgs)].end = n - 1
  /\ \A i \in 1..Len(mgs) : mgs[i].start <= mgs[i].end
  /\ \A i \in 1..Len(mgs) : mgs[i].length = mgs[i].end - mgs[i].start + 1
  /\ \A i \in 1..Len(mgs) : mgs[i].idr <=> (idr /\ i = Len(mgs))
  /\ \A i \in 1..(Len(mgs) - 1) : mgs[i + 1].start = mgs[i].end + 1
  /\ \A i \in 1..Len(mgs) :
       \/ Complete(mgs[i])
       \/ mgs[i].idr /\ mgs[i].length = 1 /\ (n > 1 => mgs[i].hier = 1)
       \/ mgs[i].idr /\ mgs[i].length = 2 /\ mgs[i].hier = 1
       \/ ~mgs[i].idr /\ i = Len(mgs) /\ mgs[i].length = 1 /\ mgs[i].hier = 1

LEMMA RunIsRawCut ==
  ASSUME NEW n \in 1..32, NEW idr \in BOOLEAN, NEW s, Run(s, 0, n - 1),
         idr => s[Len(s)].hier = 1
  PROVE  IsRawCut(n, idr, s)
<1>1. s \in Seq(Shape) /\ s # <<>> /\ Len(s) \in Nat \ {0}
  BY DEF Run
<1>2. \A i \in 1..Len(s) : s[i] \in Shape
  BY <1>1
<1>3. s \in Seq(RawMiniGop)
  <2>1. Shape \subseteq RawMiniGop
    BY DEF Shape, RawMiniGop
  <2>. QED
    BY <1>1, <2>1, SeqMonotonic
<1>4. \A i \in 1..Len(s) : /\ s[i].end - s[i].start + 1 = 2 ^ s[i].hier
                           /\ s[i].start <= s[i].end
                           /\ (s[i].hier = 1 => s[i].end = s[i].start + 1)
  <2>1. ASSUME NEW i \in 1..Len(s)
        PROVE  /\ s[i].end - s[i].start + 1 = 2 ^ s[i].hier
               /\ s[i].start <= s[i].end
               /\ (s[i].hier = 1 => s[i].end = s[i].start + 1)
    <3>. DEFINE h == s[i].hier
                a == s[i].start
                e == s[i].end
    <3>1. h \in 1..5 /\ a \in 0..30 /\ e \in 1..31
      BY <1>2 DEF Shape
    <3>2. e - a + 1 = Width[h]
      BY DEF Run
    <3>. HIDE DEF h, a, e
    <3>3. Width[h] = 2 ^ h /\ Width[h] \in 2..32 /\ (h = 1 => Width[h] = 2)
      BY <3>1, WidthIsPower, Powers
    <3>4. e - a + 1 = 2 ^ h
      BY <3>2, <3>3
    <3>5. a <= e /\ (h = 1 => e = a + 1)
      <4>. DEFINE w == Width[h]
      <4>1. w \in 2..32 /\ (h = 1 => w = 2) /\ e - a + 1 = w
        BY <3>2, <3>3
      <4>. HIDE DEF w
      <4>. QED
        BY <3>1, <4>1
    <3>. QED
      BY <3>4, <3>5, Zenon DEF h, a, e
  <2>. QED
    BY <2>1
<1>. QED
  BY <1>1, <1>3, <1>4 DEF IsRawCut, Run

LEMMA RunAndTail ==
  ASSUME NEW n \in 2..32, n % 2 = 1, NEW idr \in BOOLEAN, NEW s, Run(s, 0, n - 2)
  PROVE  IsRawCut(n, idr, Append(s, [hier |-> 1, start |-> n - 1, end |-> n - 1]))
<1>. DEFINE tail == [hier |-> 1, start |-> n - 1, end |-> n - 1]
            r    == Append(s, tail)
<1>1. s \in Seq(Shape) /\ s # <<>> /\ Len(s) \in Nat \ {0} /\ s[Len(s)].end = n - 2
  BY DEF Run
<1>2. IsRawCut(n - 1, FALSE, s)
  <2>1. n - 1 \in 1..32 /\ (n - 1) - 1 = n - 2
    OBVIOUS
  <2>. QED
    BY <2>1, RunIsRawCut
<1>3. /\ s \in Seq(RawMiniGop) /\ tail \in RawMiniGop
      /\ tail.start = n - 1 /\ tail.end = n - 1 /\ tail.hier = 1
  BY <1>2 DEF IsRawCut, RawMiniGop
<1>. HIDE DEF tail
<1>4. r \in Seq(RawMiniGop) /\ r # <<>> /\ Len(r) = Len(s) + 1 /\ r[Len(r)] = tail
  BY <1>3
<1>5. \A i \in 1..Len(s) : r[i] = s[i]
  BY <1>3
<1>. HIDE DEF r
<1>6. \A i \in 1..Len(s) : s[i].start <= s[i].end /\ s[i].end - s[i].start + 1 = 2 ^ s[i].hier
  <2>1. \A i \in 1..Len(s) : s[i] \in RawMiniGop
    BY <1>3
  <2>2. \A i \in 1..Len(s) : i \in 1..(Len(s) - 1) \/ i = Len(s)
    BY <1>1
  <2>3. \A i \in 1..Len(s) : s[i].end - s[i].start + 1 = Width[s[i].hier] /\ s[i] \in Shape
    BY <1>1 DEF Run
  <2>4. \A i \in 1..Len(s) : s[i].hier \in 1..5
    BY <2>3 DEF Shape
  <2>. QED
    BY <1>2, <2>3, <2>4, WidthIsPower DEF IsRawCut
<1>7. \A i \in 1..Len(r) : i \in 1..Len(s) \/ i = Len(r)
  BY <1>1, <1>4
<1>8. \A i \in 1..(Len(r) - 1) : r[i + 1].start = r[i].end + 1
  <2>1. ASSUME NEW i \in 1..(Len(r) - 1)
        PROVE  r[i + 1].start = r[i].end + 1
    <3>1. i \in 1..Len(s) /\ r[i] = s[i]
      BY <1>1, <1>4, <1>5
    <3>2. CASE i = Len(s)
      BY <1>1, <1>3, <1>4, <3>1, <3>2
    <3>3. CASE i \in 1..(Len(s) - 1)
      <4>1. r[i + 1] = s[i + 1]
        BY <1>1, <1>5, <3>3
      <4>. QED
        BY <1>2, <3>1, <3>3, <4>1 DEF IsRawCut
    <3>. QED
      BY <1>1, <3>1, <3>2, <3>3
  <2>. QED
    BY <2>1
<1>9. /\ r[1].start = 0 /\ r[Len(r)].end = n - 1
      /\ \A i \in 1..Len(r) : r[i].start <= r[i].end
      /\ \A i \in 1..(Len(r) - 1) : r[i].end - r[i].start + 1 = 2 ^ r[i].hier
  <2>1. r[1] = s[1]
    BY <1>1, <1>5
  <2>2. \A i \in 1..(Len(r) - 1) : i \in 1..Len(s)
    BY <1>1, <1>4
  <2>3. s[1].start = 0
    BY DEF Run
  <2>4. r[Len(r)].end = n - 1 /\ r[Len(r)].start <= r[Len(r)].end
    BY <1>3, <1>4
  <2>5. \A i \in 1..Len(s) : r[i].start <= r[i].end /\ r[i].end - r[i].start + 1 = 2 ^ r[i].hier
    BY <1>5, <1>6, Zenon
  <2>. QED
    BY <1>7, <2>1, <2>2, <2>3, <2>4, <2>5, Zenon
<1>. QED
  BY <1>3, <1>4, <1>8, <1>9, Zenon DEF IsRawCut, r, tail

\* IncompleteWindow covers what WindowSplit leaves.
LEMMA IncompleteWindowCuts ==
  ASSUME NEW n \in 1..32, NEW idr \in BOOLEAN, n > 1 \/ ~idr, NEW hier \in 0..5
  PROVE  IsRawCut(n, idr, IncompleteWindow(n, hier, WindowSplit(n, idr)))
<1>. DEFINE s == WindowSplit(n, idr)
            r == IncompleteWindow(n, hier, s)
<1>1. TakenFrom(s, 0, n, idr) /\ ShapeStart(0) = 0
  BY SplitIsRun, StatsRows0 DEF ShapeStart, MINI_GOP_MAX_COUNT
<1>. HIDE DEF s
<1>2. CASE n = 1
  <2>1. s = <<>> /\ idr = FALSE
    BY <1>1, <1>2 DEF TakenFrom
  <2>. DEFINE h == IF hier < MIN_HIERARCHICAL_LEVEL THEN hier ELSE MIN_HIERARCHICAL_LEVEL
              x == [hier |-> h, start |-> 0, end |-> 0]
  <2>2. h \in 0..1
    BY DEF MIN_HIERARCHICAL_LEVEL
  <2>3. r = <<x>>
    BY <1>2, <2>1 DEF IncompleteWindow
  <2>. HIDE DEF h, r
  <2>4. x \in RawMiniGop /\ x.start = 0 /\ x.end = 0 /\ x.hier = h
    BY <2>2 DEF RawMiniGop
  <2>. HIDE DEF x
  <2>5. x.end - x.start + 1 = 2 ^ x.hier \/ x.hier = 1
    <3>1. h = 0 \/ h = 1
      BY <2>2
    <3>2. h = 0 => 2 ^ h = 1
      BY Powers
    <3>3. x.end - x.start + 1 = 1
      BY <2>4
    <3>. QED
      BY <2>4, <3>1, <3>2, <3>3, Zenon
  <2>6. /\ r \in Seq(RawMiniGop) /\ r # <<>> /\ Len(r) = 1 /\ r[1] = x
        /\ 1..(Len(r) - 1) = {} /\ 1..Len(r) = {1} /\ n - 1 = 0
    BY <1>2, <2>3, <2>4
  <2>7. IsRawCut(n, idr, r)
    BY <2>1, <2>4, <2>5, <2>6 DEF IsRawCut
  <2>. QED
    BY <2>7 DEF r, s
<1>3. CASE n > 1 /\ n % 2 = 0
  <2>1. LastPaired(n) = n - 1
    BY <1>3 DEF LastPaired
  <2>2. Run(s, 0, n - 1) /\ (idr => s[Len(s)].hier = 1)
    <3>1. 0 + 1 < n
      BY <1>3
    <3>. QED
      BY <1>1, <1>3, <2>1, <3>1, Zenon DEF TakenFrom
  <2>3. r = s
    BY <2>2 DEF IncompleteWindow, Run
  <2>. HIDE DEF r
  <2>4. IsRawCut(n, idr, r)
    BY <2>2, <2>3, RunIsRawCut
  <2>. QED
    BY <2>4 DEF r, s
<1>4. CASE n > 1 /\ n % 2 = 1
  <2>1. LastPaired(n) = n - 2 /\ n \in 2..32 /\ n - 2 + 1 = n - 1 /\ n - 2 < n - 1
    BY <1>4 DEF LastPaired
  <2>2. Run(s, 0, n - 2)
    <3>1. 0 + 1 < n
      BY <1>4
    <3>. QED
      BY <1>1, <2>1, <3>1, Zenon DEF TakenFrom
  <2>3. s # <<>> /\ s[Len(s)].end = n - 2
    BY <2>2 DEF Run
  <2>4. r = Append(s, [hier |-> 1, start |-> n - 1, end |-> n - 1])
    BY <2>1, <2>3, Zenon DEF IncompleteWindow, MIN_HIERARCHICAL_LEVEL
  <2>. HIDE DEF r
  <2>5. IsRawCut(n, idr, r)
    BY <1>4, <2>1, <2>2, <2>4, RunAndTail
  <2>. QED
    BY <2>5 DEF r, s
<1>. QED
  BY <1>2, <1>3, <1>4

LEMMA LoneKeyCut ==
  ASSUME NEW hier \in 0..5
  PROVE  IsRawCut(1, TRUE, <<[hier |-> hier, start |-> 0, end |-> 0]>>)
<1>. DEFINE x == [hier |-> hier, start |-> 0, end |-> 0]
            r == <<x>>
<1>1. x \in RawMiniGop /\ x.start = 0 /\ x.end = 0
  BY DEF RawMiniGop
<1>. HIDE DEF x
<1>2. /\ r \in Seq(RawMiniGop) /\ r # <<>> /\ Len(r) = 1 /\ r[1] = x
      /\ 1..(Len(r) - 1) = {} /\ 1..Len(r) = {1} /\ 1 - 1 = 0
  BY <1>1
<1>. HIDE DEF r
<1>3. IsRawCut(1, TRUE, r)
  BY <1>1, <1>2 DEF IsRawCut
<1>. QED
  BY <1>3 DEF r, x

\* The lengths and the key frame flag of a cut.
LEMMA RawCutIsCut ==
  ASSUME NEW n \in 1..32, NEW idr \in BOOLEAN, NEW r, IsRawCut(n, idr, r)
  PROVE  IsCut(n, idr, [i \in 1..Len(r) |->
                          [hier   |-> r[i].hier,
                           start  |-> r[i].start,
                           end    |-> r[i].end,
                           length |-> r[i].end - r[i].start + 1,
                           idr    |-> idr /\ i = Len(r)]])
<1>. DEFINE mg(i) == [hier   |-> r[i].hier,
                      start  |-> r[i].start,
                      end    |-> r[i].end,
                      length |-> r[i].end - r[i].start + 1,
                      idr    |-> idr /\ i = Len(r)]
            mgs   == [i \in 1..Len(r) |-> mg(i)]
<1>1. r \in Seq(RawMiniGop) /\ r # <<>> /\ Len(r) \in Nat \ {0}
  BY DEF IsRawCut
<1>2. \A i \in 1..Len(r) : r[i].hier \in 0..5 /\ r[i].start \in 0..31 /\ r[i].end \in 0..31
  <2>1. \A i \in 1..Len(r) : r[i] \in RawMiniGop
    BY <1>1
  <2>. QED
    BY <2>1 DEF RawMiniGop
<1>3. \A i \in 1..Len(r) : r[i].end - r[i].start + 1 \in 1..32
  <2>1. ASSUME NEW i \in 1..Len(r)
        PROVE  r[i].end - r[i].start + 1 \in 1..32
    <3>. DEFINE a == r[i].start
                e == r[i].end
    <3>1. a \in 0..31 /\ e \in 0..31 /\ a <= e
      BY <1>2 DEF IsRawCut
    <3>. HIDE DEF a, e
    <3>2. e - a + 1 \in 1..32
      BY <3>1
    <3>. QED
      BY <3>2 DEF a, e
  <2>. QED
    BY <2>1
<1>4. \A i \in 1..Len(r) : mg(i) \in MiniGop
  BY <1>2, <1>3 DEF MiniGop
<1>5. mgs \in Seq(MiniGop) /\ Len(mgs) = Len(r) /\ mgs # <<>>
  <2>1. mgs \in [1..Len(r) -> MiniGop]
    BY <1>4
  <2>. HIDE DEF mgs
  <2>. QED
    BY <1>1, <2>1, SeqDef
<1>6. \A i \in 1..Len(r) : /\ mgs[i].hier = r[i].hier /\ mgs[i].start = r[i].start
                           /\ mgs[i].end = r[i].end
                           /\ mgs[i].length = r[i].end - r[i].start + 1
                           /\ mgs[i].idr <=> (idr /\ i = Len(r))
  OBVIOUS
<1>. HIDE DEF mgs
<1>7. /\ mgs[1].start = 0 /\ mgs[Len(mgs)].end = n - 1
      /\ \A i \in 1..Len(mgs) : mgs[i].start <= mgs[i].end
      /\ \A i \in 1..(Len(mgs) - 1) : mgs[i + 1].start = mgs[i].end + 1
  <2>1. 1 \in 1..Len(r) /\ Len(r) \in 1..Len(r)
    BY <1>1
  <2>2. \A i \in 1..(Len(r) - 1) : i \in 1..Len(r) /\ i + 1 \in 1..Len(r)
    BY <1>1
  <2>. QED
    BY <1>5, <1>6, <2>1, <2>2 DEF IsRawCut
<1>8. ASSUME NEW i \in 1..Len(mgs)
      PROVE  \/ Complete(mgs[i])
             \/ mgs[i].idr /\ mgs[i].length = 1 /\ (n > 1 => mgs[i].hier = 1)
             \/ mgs[i].idr /\ mgs[i].length = 2 /\ mgs[i].hier = 1
             \/ ~mgs[i].idr /\ i = Len(mgs) /\ mgs[i].length = 1 /\ mgs[i].hier = 1
  <2>. DEFINE a == r[i].start
              e == r[i].end
              h == r[i].hier
  <2>1. a \in 0..31 /\ e \in 0..31 /\ h \in 0..5
    BY <1>2, <1>5
  <2>2. /\ mgs[i].length = e - a + 1 /\ mgs[i].hier = h
        /\ mgs[i].idr <=> (idr /\ i = Len(r))
    BY <1>5, <1>6
  <2>3. CASE i # Len(r)
    <3>1. i \in 1..(Len(r) - 1)
      BY <1>1, <1>5, <2>3
    <3>2. e - a + 1 = 2 ^ h
      BY <3>1 DEF IsRawCut
    <3>. QED
      BY <2>2, <2>3, <3>2 DEF Complete
  <2>4. CASE i = Len(r) /\ idr
    <3>1. (a = e /\ (n > 1 => h = 1)) \/ (e = a + 1 /\ h = 1)
      BY <2>4 DEF IsRawCut
    <3>2. (e - a + 1 = 1 /\ (n > 1 => h = 1)) \/ (e - a + 1 = 2 /\ h = 1)
      <4>. HIDE DEF a, e
      <4>. QED
        BY <2>1, <3>1
    <3>. QED
      BY <2>2, <2>4, <3>2
  <2>5. CASE i = Len(r) /\ ~idr
    <3>1. e - a + 1 = 2 ^ h \/ (a = e /\ h = 1)
      BY <2>5 DEF IsRawCut
    <3>2. e - a + 1 = 2 ^ h \/ (e - a + 1 = 1 /\ h = 1)
      <4>. HIDE DEF a, e
      <4>. QED
        BY <2>1, <3>1
    <3>. QED
      BY <1>5, <2>2, <2>5, <3>2 DEF Complete
  <2>. QED
    BY <2>3, <2>4, <2>5
<1>9. IsCut(n, idr, mgs)
  <2>1. /\ \A i \in 1..Len(mgs) : mgs[i].length = mgs[i].end - mgs[i].start + 1
        /\ \A i \in 1..Len(mgs) : mgs[i].idr <=> (idr /\ i = Len(mgs))
    BY <1>5, <1>6
  <2>. QED
    BY <1>5, <1>7, <1>8, <2>1, Zenon DEF IsCut
<1>. QED
  BY <1>9 DEF mgs

\* set_mini_gop_structure cuts every release into mini-GOPs.
LEMMA MiniGopsCut ==
  ASSUME NEW n \in 1..32, NEW idr \in BOOLEAN, NEW hier \in 0..5
  PROVE  IsCut(n, idr, MiniGops(n, idr, hier))
<1>. DEFINE r == IF n > 1 \/ ~idr
                   THEN IncompleteWindow(n, hier, WindowSplit(n, idr))
                   ELSE <<[hier |-> hier, start |-> 0, end |-> n - 1]>>
<1>1. IsRawCut(n, idr, r)
  <2>1. CASE n > 1 \/ ~idr
    BY <2>1, IncompleteWindowCuts
  <2>2. CASE ~(n > 1 \/ ~idr)
    <3>1. n = 1 /\ idr = TRUE /\ n - 1 = 0
      BY <2>2
    <3>. QED
      BY <2>2, <3>1, LoneKeyCut
  <2>. QED
    BY <2>1, <2>2
<1>. HIDE DEF r
<1>2. IsCut(n, idr, [i \in 1..Len(r) |->
                       [hier   |-> r[i].hier,
                        start  |-> r[i].start,
                        end    |-> r[i].end,
                        length |-> r[i].end - r[i].start + 1,
                        idr    |-> idr /\ i = Len(r)]])
  BY <1>1, RawCutIsCut
<1>. QED
  BY <1>2 DEF MiniGops, r

LEMMA CutTilesRelease ==
  ASSUME NEW n, NEW idr, NEW mgs, IsCut(n, idr, mgs)
  PROVE  Tiles(n, mgs)
<1>1. mgs # <<>> /\ mgs[1].start = 0 /\ mgs[Len(mgs)].end = n - 1
  BY Zenon DEF IsCut
<1>2. \A i \in 1..Len(mgs) : mgs[i].start <= mgs[i].end
  BY Zenon DEF IsCut
<1>3. \A i \in 1..(Len(mgs) - 1) : mgs[i + 1].start = mgs[i].end + 1
  BY Zenon DEF IsCut
<1>. QED
  BY <1>1, <1>2, <1>3, Zenon DEF Tiles

LEMMA CutTailIsShallow ==
  ASSUME NEW n \in 1..32, NEW idr \in BOOLEAN, NEW mgs, IsCut(n, idr, mgs)
  PROVE  ShallowTail(n, mgs)
<1>1. mgs \in Seq(MiniGop) /\ Len(mgs) \in Nat \ {0}
  BY EmptySeq DEF IsCut
<1>2. \A i \in 1..Len(mgs) : mgs[i].idr <=> (idr /\ i = Len(mgs))
  BY DEF IsCut
<1>3. \A i \in 1..Len(mgs) :
        \/ Complete(mgs[i])
        \/ mgs[i].idr /\ mgs[i].length = 1 /\ (n > 1 => mgs[i].hier = 1)
        \/ mgs[i].idr /\ mgs[i].length = 2 /\ mgs[i].hier = 1
        \/ ~mgs[i].idr /\ i = Len(mgs) /\ mgs[i].length = 1 /\ mgs[i].hier = 1
  BY Zenon DEF IsCut
<1>4. \A i \in 1..(Len(mgs) - 1) : i \in 1..Len(mgs) /\ i # Len(mgs)
  BY <1>1
<1>5. \A i \in 1..(Len(mgs) - 1) : Complete(mgs[i])
  BY <1>2, <1>3, <1>4, Zenon
<1>. DEFINE last == mgs[Len(mgs)]
<1>6. Len(mgs) \in 1..Len(mgs)
  BY <1>1
<1>7. ~Complete(last) /\ n > 1 => (last.length = 1 \/ last.length = 2) /\ last.hier = 1
  BY <1>3, <1>6, Zenon
<1>8. ~Complete(last) /\ n > 1 => last.length <= 2 /\ last.hier <= 1
  BY <1>7
<1>. QED
  BY <1>5, <1>8, Zenon DEF ShallowTail

-----------------------------------------------------------------------------
(* The order of a complete mini-GOP: its base picture, then the others depth *)
(* first.                                                                    *)

\* The k-th picture to code of a complete mini-GOP of level h is the
\* Coded[h + 1][k]-th in display order; its temporal layer is CodedLayer[h + 1][k].
Coded ==
  <<<<1>>, <<2, 1>>, <<4, 2, 1, 3>>, <<8, 4, 2, 1, 3, 6, 5, 7>>,
    <<16, 8, 4, 2, 1, 3, 6, 5, 7, 12, 10, 9, 11, 14, 13, 15>>,
    <<32, 16, 8, 4, 2, 1, 3, 6, 5, 7, 12, 10, 9, 11, 14, 13, 15,
      24, 20, 18, 17, 19, 22, 21, 23, 28, 26, 25, 27, 30, 29, 31>>>>

CodedLayer ==
  <<<<0>>, <<0, 1>>, <<0, 1, 2, 2>>, <<0, 1, 2, 3, 3, 2, 3, 3>>,
    <<0, 1, 2, 3, 4, 4, 3, 4, 4, 2, 3, 4, 4, 3, 4, 4>>,
    <<0, 1, 2, 3, 4, 5, 5, 4, 5, 5, 3, 4, 5, 5, 4, 5, 5,
      2, 3, 4, 5, 5, 4, 5, 5, 3, 4, 5, 5, 4, 5, 5>>>>

Power == <<1, 2, 4, 8, 16, 32>>

\* A picture of layer l stands between two of the layers above it, Reach(h, l) away.
Reach(h, l) == Power[h - l + 1]

\* The picture of layer l around the i-th picture, which is of a deeper layer.
Above(h, l, i) == Reach(h, l) * (2 * (i \div (2 * Reach(h, l))) + 1)

\* The number of pictures in front of those the k-th coded picture stands among.
Left(h, k) == Coded[h + 1][k] - Reach(h, CodedLayer[h + 1][k])

\* pred_struct_position of the i-th picture.
Place(h, i) == IF i = Power[h + 1] THEN 0 ELSE i

\* The walk codes each picture once, and the tables say when.
OrderFits(h) ==
  /\ \A k \in 1..Power[h + 1] :
       /\ Coded[h + 1][k] \in 1..Power[h + 1]
       /\ CodedLayer[h + 1][k] \in 0..h
       /\ DecodeOrder(h, Place(h, Coded[h + 1][k])) = k - 1
       /\ TemporalLayer(h, Place(h, Coded[h + 1][k])) = CodedLayer[h + 1][k]
  /\ \A i \in 1..Power[h + 1] :
       /\ DecodeOrder(h, Place(h, i)) \in 0..(Power[h + 1] - 1)
       /\ Coded[h + 1][DecodeOrder(h, Place(h, i)) + 1] = i
       /\ TemporalLayer(h, Place(h, i)) \in 0..h
  /\ Coded[h + 1][1] = Power[h + 1] /\ CodedLayer[h + 1][1] = 0 /\ Left(h, 1) = 0
  /\ \A k \in 2..Power[h + 1] :
       /\ Coded[h + 1][k] < Power[h + 1] /\ CodedLayer[h + 1][k] >= 1
       /\ Left(h, k) \in 0..31 /\ Left(h, k) < Coded[h + 1][k]
       /\ CodedLayer[h + 1][k] = h => Coded[h + 1][k] = Left(h, k) + 1

\* From one picture behind the base picture to the next.
NextFits(h) ==
  \A k \in 2..(Power[h + 1] - 1) :
    /\ CodedLayer[h + 1][k + 1] <= CodedLayer[h + 1][k] + 1
    /\ Left(h, k + 1) = IF CodedLayer[h + 1][k] = h THEN Left(h, k) + 2 ELSE Left(h, k)
    /\ CodedLayer[h + 1][k + 1] <= CodedLayer[h + 1][k] => Coded[h + 1][k] <= Left(h, k + 1)
    /\ CodedLayer[h + 1][k] < CodedLayer[h + 1][k + 1]
         => Above(h, CodedLayer[h + 1][k], Coded[h + 1][k + 1]) = Coded[h + 1][k]

\* The pictures around the next one of the walk.
AboveFits(h, l) ==
  /\ \A k \in 2..(Power[h + 1] - 1) :
       l < CodedLayer[h + 1][k] =>
         IF l < CodedLayer[h + 1][k + 1]
           THEN Above(h, l, Coded[h + 1][k + 1]) = Above(h, l, Coded[h + 1][k])
           ELSE Above(h, l, Coded[h + 1][k]) <= Left(h, k + 1)
  /\ \A k \in 2..Power[h + 1] :
       l < CodedLayer[h + 1][k] =>
         /\ Above(h, l, Coded[h + 1][k]) \in 1..31
         /\ Above(h, l, Coded[h + 1][k]) < Power[h + 1]
         /\ \A m \in 1..(l - 1) : Above(h, m, Coded[h + 1][k]) # Above(h, l, Coded[h + 1][k])

\* The walk starts with the base picture and the one in the middle, and ends with
\* the last picture but one.
EndsFit(h) ==
  h >= 1 => /\ CodedLayer[h + 1][2] = 1 /\ Left(h, 2) = 0
            /\ CodedLayer[h + 1][Power[h + 1]] = h
            /\ Left(h, Power[h + 1]) + 2 = Power[h + 1]

LEMMA PowerIs ==
  ASSUME NEW h \in 0..5
  PROVE  Power[h + 1] = 2 ^ h /\ Power[h + 1] \in 1..32 /\ (h >= 1 => Power[h + 1] \in 2..32)
<1>1. \A g \in 0..5 : Power[g + 1] \in 1..32 /\ (g >= 1 => Power[g + 1] \in 2..32)
  BY DEF Power
<1>2. h = 0 \/ h \in 1..5
  OBVIOUS
<1>3. h = 0 => Power[h + 1] = 2 ^ h
  BY Powers DEF Power
<1>4. \A g \in 1..5 : Power[g + 1] = Width[g]
  BY DEF Power, Width
<1>. QED
  BY <1>1, <1>2, <1>3, <1>4, WidthIsPower, Zenon

LEMMA Levels == \A h \in 0..5 : h = 0 \/ h = 1 \/ h = 2 \/ h = 3 \/ h = 4 \/ h = 5
OBVIOUS

LEMMA LayersAgree ==
  \A h \in 0..5 : \A k \in 1..Power[h + 1] :
    TemporalLayer(h, Place(h, Coded[h + 1][k])) = CodedLayer[h + 1][k]
<1>1. \A k \in 1..Power[0 + 1] :
       TemporalLayer(0, Place(0, Coded[0 + 1][k])) = CodedLayer[0 + 1][k]
  BY DEF Coded, CodedLayer, Power, Place, TemporalLayer, PRED_STRUCT_TEMPORAL_LAYER
<1>2. \A k \in 1..Power[1 + 1] :
       TemporalLayer(1, Place(1, Coded[1 + 1][k])) = CodedLayer[1 + 1][k]
  BY DEF Coded, CodedLayer, Power, Place, TemporalLayer, PRED_STRUCT_TEMPORAL_LAYER
<1>3. \A k \in 1..Power[2 + 1] :
       TemporalLayer(2, Place(2, Coded[2 + 1][k])) = CodedLayer[2 + 1][k]
  BY DEF Coded, CodedLayer, Power, Place, TemporalLayer, PRED_STRUCT_TEMPORAL_LAYER
<1>4. \A k \in 1..Power[3 + 1] :
       TemporalLayer(3, Place(3, Coded[3 + 1][k])) = CodedLayer[3 + 1][k]
  BY DEF Coded, CodedLayer, Power, Place, TemporalLayer, PRED_STRUCT_TEMPORAL_LAYER
<1>5. \A k \in 1..Power[4 + 1] :
       TemporalLayer(4, Place(4, Coded[4 + 1][k])) = CodedLayer[4 + 1][k]
  BY DEF Coded, CodedLayer, Power, Place, TemporalLayer, PRED_STRUCT_TEMPORAL_LAYER
<1>6. \A k \in 1..Power[5 + 1] :
       TemporalLayer(5, Place(5, Coded[5 + 1][k])) = CodedLayer[5 + 1][k]
  BY DEF Coded, CodedLayer, Power, Place, TemporalLayer, PRED_STRUCT_TEMPORAL_LAYER
<1>. QED
  BY <1>1, <1>2, <1>3, <1>4, <1>5, <1>6, Levels

LEMMA LeftStays ==
  \A h \in 0..5 : \A k \in 2..(Power[h + 1] - 1) :
    CodedLayer[h + 1][k] # h => Left(h, k + 1) = Left(h, k)
<1>1. \A k \in 2..(Power[0 + 1] - 1) :
       CodedLayer[0 + 1][k] # 0 => Left(0, k + 1) = Left(0, k)
  BY DEF Coded, CodedLayer, Power, Left, Reach
<1>2. \A k \in 2..(Power[1 + 1] - 1) :
       CodedLayer[1 + 1][k] # 1 => Left(1, k + 1) = Left(1, k)
  BY DEF Coded, CodedLayer, Power, Left, Reach
<1>3. \A k \in 2..(Power[2 + 1] - 1) :
       CodedLayer[2 + 1][k] # 2 => Left(2, k + 1) = Left(2, k)
  <2>1. Power[2 + 1] - 1 = 3
    BY DEF Power
  <2>2. \A k \in 2..3 : CodedLayer[2 + 1][k] # 2 => Left(2, k + 1) = Left(2, k)
    BY DEF Coded, CodedLayer, Power, Left, Reach
  <2>. QED
    BY <2>1, <2>2
<1>4. \A k \in 2..(Power[3 + 1] - 1) :
       CodedLayer[3 + 1][k] # 3 => Left(3, k + 1) = Left(3, k)
  BY DEF Coded, CodedLayer, Power, Left, Reach
<1>5. \A k \in 2..(Power[4 + 1] - 1) :
       CodedLayer[4 + 1][k] # 4 => Left(4, k + 1) = Left(4, k)
  BY DEF Coded, CodedLayer, Power, Left, Reach
<1>6. \A k \in 2..(Power[5 + 1] - 1) :
       CodedLayer[5 + 1][k] # 5 => Left(5, k + 1) = Left(5, k)
  BY DEF Coded, CodedLayer, Power, Left, Reach
<1>. QED
  BY <1>1, <1>2, <1>3, <1>4, <1>5, <1>6, Levels

LEMMA AboveIsBehind ==
  \A h \in 0..5 : \A l \in 1..4 : \A k \in 2..(Power[h + 1] - 1) :
    l < CodedLayer[h + 1][k] /\ ~(l < CodedLayer[h + 1][k + 1])
      => Above(h, l, Coded[h + 1][k]) <= Left(h, k + 1)
<1>1. \A l \in 1..4 : \A k \in 2..(Power[0 + 1] - 1) :
       l < CodedLayer[0 + 1][k] /\ ~(l < CodedLayer[0 + 1][k + 1])
      => Above(0, l, Coded[0 + 1][k]) <= Left(0, k + 1)
  BY DEF Coded, CodedLayer, Power, Left, Reach, Above
<1>2. \A l \in 1..4 : \A k \in 2..(Power[1 + 1] - 1) :
       l < CodedLayer[1 + 1][k] /\ ~(l < CodedLayer[1 + 1][k + 1])
      => Above(1, l, Coded[1 + 1][k]) <= Left(1, k + 1)
  BY DEF Coded, CodedLayer, Power, Left, Reach, Above
<1>3. \A l \in 1..4 : \A k \in 2..(Power[2 + 1] - 1) :
       l < CodedLayer[2 + 1][k] /\ ~(l < CodedLayer[2 + 1][k + 1])
      => Above(2, l, Coded[2 + 1][k]) <= Left(2, k + 1)
  BY DEF Coded, CodedLayer, Power, Left, Reach, Above
<1>4. \A l \in 1..4 : \A k \in 2..(Power[3 + 1] - 1) :
       l < CodedLayer[3 + 1][k] /\ ~(l < CodedLayer[3 + 1][k + 1])
      => Above(3, l, Coded[3 + 1][k]) <= Left(3, k + 1)
  <2>1. Power[3 + 1] - 1 = 7
    BY DEF Power
  <2>2. \A l \in 1..4 : \A k \in 2..7 :
          l < CodedLayer[3 + 1][k] /\ ~(l < CodedLayer[3 + 1][k + 1])
            => Above(3, l, Coded[3 + 1][k]) <= Left(3, k + 1)
    BY DEF Coded, CodedLayer, Power, Left, Reach, Above
  <2>. QED
    BY <2>1, <2>2
<1>5. \A l \in 1..4 : \A k \in 2..(Power[4 + 1] - 1) :
       l < CodedLayer[4 + 1][k] /\ ~(l < CodedLayer[4 + 1][k + 1])
      => Above(4, l, Coded[4 + 1][k]) <= Left(4, k + 1)
  BY DEF Coded, CodedLayer, Power, Left, Reach, Above
<1>6. \A l \in 1..4 : \A k \in 2..(Power[5 + 1] - 1) :
       l < CodedLayer[5 + 1][k] /\ ~(l < CodedLayer[5 + 1][k + 1])
      => Above(5, l, Coded[5 + 1][k]) <= Left(5, k + 1)
  BY DEF Coded, CodedLayer, Power, Left, Reach, Above
<1>. QED
  BY <1>1, <1>2, <1>3, <1>4, <1>5, <1>6, Levels

LEMMA CodingOrder == \A h \in 0..5 : OrderFits(h)
<1>. DEFINE size(h) == Power[h + 1]
            at(h, k) == Coded[h + 1][k]
            layer(h, k) == CodedLayer[h + 1][k]
<1>. USE DEF Coded, CodedLayer, Power
<1>1. \A h \in 0..5 : \A k \in 1..size(h) : at(h, k) \in 1..size(h)
  OBVIOUS
<1>2. \A h \in 0..5 : \A k \in 1..size(h) : layer(h, k) \in 0..h
  OBVIOUS
<1>3. \A h \in 0..5 : \A k \in 1..size(h) : DecodeOrder(h, Place(h, at(h, k))) = k - 1
  BY DEF Place, DecodeOrder, PRED_STRUCT_DECODE_ORDER
<1>4. \A h \in 0..5 : \A k \in 1..size(h) : TemporalLayer(h, Place(h, at(h, k))) = layer(h, k)
  BY LayersAgree
<1>5. \A h \in 0..5 : \A i \in 1..size(h) : DecodeOrder(h, Place(h, i)) \in 0..(size(h) - 1)
  BY DEF Place, DecodeOrder, PRED_STRUCT_DECODE_ORDER
<1>6. \A h \in 0..5 : \A i \in 1..size(h) : at(h, DecodeOrder(h, Place(h, i)) + 1) = i
  BY DEF Place, DecodeOrder, PRED_STRUCT_DECODE_ORDER
<1>7. \A h \in 0..5 : \A i \in 1..size(h) : TemporalLayer(h, Place(h, i)) \in 0..h
  BY DEF Place, TemporalLayer, PRED_STRUCT_TEMPORAL_LAYER
<1>8. \A h \in 0..5 : at(h, 1) = size(h) /\ layer(h, 1) = 0 /\ Left(h, 1) = 0
  BY DEF Left, Reach
<1>9. \A h \in 0..5 : \A k \in 2..size(h) : at(h, k) < size(h) /\ layer(h, k) >= 1
  OBVIOUS
<1>10. \A h \in 0..5 : \A k \in 2..size(h) : Left(h, k) \in 0..31 /\ Left(h, k) < at(h, k)
  BY DEF Left, Reach
<1>11. \A h \in 0..5 : \A k \in 2..size(h) : layer(h, k) = h => at(h, k) = Left(h, k) + 1
  BY DEF Left, Reach
<1>. HIDE DEF Coded, CodedLayer, Power
<1>12. ASSUME NEW h \in 0..5
       PROVE  OrderFits(h)
  <2>1. \A k \in 1..size(h) : /\ at(h, k) \in 1..size(h) /\ layer(h, k) \in 0..h
                              /\ DecodeOrder(h, Place(h, at(h, k))) = k - 1
                              /\ TemporalLayer(h, Place(h, at(h, k))) = layer(h, k)
    BY <1>1, <1>2, <1>3, <1>4, Zenon
  <2>2. \A i \in 1..size(h) : /\ DecodeOrder(h, Place(h, i)) \in 0..(size(h) - 1)
                              /\ at(h, DecodeOrder(h, Place(h, i)) + 1) = i
                              /\ TemporalLayer(h, Place(h, i)) \in 0..h
    BY <1>5, <1>6, <1>7, Zenon
  <2>3. \A k \in 2..size(h) : /\ at(h, k) < size(h) /\ layer(h, k) >= 1
                              /\ Left(h, k) \in 0..31 /\ Left(h, k) < at(h, k)
                              /\ layer(h, k) = h => at(h, k) = Left(h, k) + 1
    BY <1>9, <1>10, <1>11, Zenon
  <2>4. at(h, 1) = size(h) /\ layer(h, 1) = 0 /\ Left(h, 1) = 0
    BY <1>8, Zenon
  <2>. QED
    BY <2>1, <2>2, <2>3, <2>4, Zenon DEF OrderFits
<1>. QED
  BY <1>12

LEMMA CodingNext == \A h \in 0..5 : NextFits(h)
<1>. DEFINE steps(h) == 2..(Power[h + 1] - 1)
            at(h, k) == Coded[h + 1][k]
            layer(h, k) == CodedLayer[h + 1][k]
<1>. USE DEF Coded, CodedLayer, Power, Left, Reach, Above
<1>1. \A h \in 0..5 : \A k \in steps(h) : layer(h, k + 1) <= layer(h, k) + 1
  OBVIOUS
<1>2. \A h \in 0..5 : \A k \in steps(h) :
        layer(h, k) = h => Left(h, k + 1) = Left(h, k) + 2
  OBVIOUS
<1>5. \A h \in 0..5 : \A k \in steps(h) :
        layer(h, k) # h => Left(h, k + 1) = Left(h, k)
  BY LeftStays
<1>3. \A h \in 0..5 : \A k \in steps(h) :
        layer(h, k + 1) <= layer(h, k) => at(h, k) <= Left(h, k + 1)
  OBVIOUS
<1>4. \A h \in 0..5 : \A k \in steps(h) :
        layer(h, k) < layer(h, k + 1) => Above(h, layer(h, k), at(h, k + 1)) = at(h, k)
  OBVIOUS
<1>. HIDE DEF Coded, CodedLayer, Power, Left, Above
<1>. QED
  BY <1>1, <1>2, <1>3, <1>4, <1>5, Zenon DEF NextFits

LEMMA CodingEnds == \A h \in 0..5 : EndsFit(h)
BY DEF EndsFit, Coded, CodedLayer, Power, Left, Reach

LEMMA CodingAbove == \A h \in 0..5, l \in 1..4 : AboveFits(h, l)
<1>. DEFINE steps(h) == 2..(Power[h + 1] - 1)
            behind(h) == 2..Power[h + 1]
            at(h, k) == Coded[h + 1][k]
            layer(h, k) == CodedLayer[h + 1][k]
<1>. USE DEF Coded, CodedLayer, Power, Left, Reach, Above
<1>1. \A h \in 0..5, l \in 1..4 : \A k \in steps(h) :
        l < layer(h, k) /\ l < layer(h, k + 1) => Above(h, l, at(h, k + 1)) = Above(h, l, at(h, k))
  OBVIOUS
<1>2. \A h \in 0..5, l \in 1..4 : \A k \in steps(h) :
        l < layer(h, k) /\ ~(l < layer(h, k + 1)) => Above(h, l, at(h, k)) <= Left(h, k + 1)
  BY AboveIsBehind
<1>3. \A h \in 0..5, l \in 1..4 : \A k \in behind(h) :
        l < layer(h, k) => Above(h, l, at(h, k)) \in 1..31
  OBVIOUS
<1>4. \A h \in 0..5, l \in 1..4 : \A k \in behind(h) :
        l < layer(h, k) => Above(h, l, at(h, k)) < Power[h + 1]
  OBVIOUS
<1>5. \A h \in 0..5, l \in 1..4 : \A k \in behind(h) :
        l < layer(h, k) =>
          \A m \in 1..(l - 1) : Above(h, m, at(h, k)) # Above(h, l, at(h, k))
  OBVIOUS
<1>. HIDE DEF Coded, CodedLayer, Power, Left, Above
<1>. QED
  BY <1>1, <1>2, <1>3, <1>4, <1>5, Zenon DEF AboveFits
-----------------------------------------------------------------------------
(* The rows of the reference tables, for the pictures of that order.         *)

SlotNames == {"B2", "B1", "B0", "L1c", "L1p", "L2", "L3", "L4"}

\* The slot of the newest picture of a layer.
LayerName == <<"L1c", "L2", "L3", "L4">>

\* The slots that hold a picture behind the i-th one, which is of the given layer,
\* when that one is coded: the new base picture's and those around it.
Future(h, i, layer, name) ==
  \/ name = "B2"
  \/ \E l \in 1..4 : name = LayerName[l] /\ l < layer /\ i < Above(h, l, i)

\* LAST looks back and BWDREF ahead, at a slot that no other list 0 entry names.
GoodRow(h, i, layer, row) ==
  /\ Len(row) = 7 /\ \A r \in 1..7 : row[r] \in SlotNames
  /\ ~Future(h, i, layer, row[LAST])
  /\ Future(h, i, layer, row[BWD])
  /\ \A r \in LAST2..GOLD : row[r] # row[BWD]

\* After a picture of the top layer the next one in display order is shown.
GoodShow(h, i) ==
  LET name == ShowExistingSlot(h, i - 1)
  IN  \/ name = "B2" /\ i + 1 = Power[h + 1]
      \/ \E l \in 1..4 : name = LayerName[l] /\ l < h /\ i + 1 = Above(h, l, i)

RowFits(h, i, layer) ==
  \A scheme \in 0..2, more \in BOOLEAN :
    GoodRow(h, i, layer, SlotTable(h, layer, i - 1, scheme, more))

LEMMA ShowRows ==
  \A h \in 1..5 : \A k \in 2..Power[h + 1] :
    CodedLayer[h + 1][k] = h => GoodShow(h, Coded[h + 1][k])
<1>. USE DEF GoodShow, ShowExistingSlot, LayerName, Above, Power, Reach
<1>1. GoodShow(1, 1) /\ GoodShow(2, 1) /\ GoodShow(2, 3)
  BY Powers
<1>2. GoodShow(3, 1) /\ GoodShow(3, 3) /\ GoodShow(3, 5) /\ GoodShow(3, 7)
  BY Powers
<1>3. GoodShow(4, 1) /\ GoodShow(4, 3) /\ GoodShow(4, 5) /\ GoodShow(4, 7)
  BY Powers
<1>4. GoodShow(4, 9) /\ GoodShow(4, 11) /\ GoodShow(4, 13) /\ GoodShow(4, 15)
  BY Powers
<1>5. GoodShow(5, 1) /\ GoodShow(5, 3) /\ GoodShow(5, 5) /\ GoodShow(5, 7)
  BY Powers
<1>6. GoodShow(5, 9) /\ GoodShow(5, 11) /\ GoodShow(5, 13) /\ GoodShow(5, 15)
  BY Powers
<1>7. GoodShow(5, 17) /\ GoodShow(5, 19) /\ GoodShow(5, 21) /\ GoodShow(5, 23)
  BY Powers
<1>8. GoodShow(5, 25) /\ GoodShow(5, 27) /\ GoodShow(5, 29) /\ GoodShow(5, 31)
  BY Powers
<1>. HIDE DEF GoodShow
<1>. QED
  BY <1>1, <1>2, <1>3, <1>4, <1>5, <1>6, <1>7, <1>8 DEF Coded, CodedLayer

LEMMA TableRows ==
  \A h \in 1..5 : \A k \in 2..Power[h + 1] :
    RowFits(h, Coded[h + 1][k], CodedLayer[h + 1][k])
<1>. USE DEF RowFits, GoodRow, Future, SlotNames, LayerName, LAST, LAST2, GOLD, BWD, Above,
             Power, Reach, SlotTable
<1>1. RowFits(1, 1, 1)
  BY DEF Layer1Row
<1>2. RowFits(2, 2, 1)
  BY DEF Layer1Row
<1>3. RowFits(2, 1, 2) /\ RowFits(2, 3, 2)
  BY DEF Layer2Row
<1>4. RowFits(3, 4, 1)
  BY DEF Layer1Row
<1>5. RowFits(3, 2, 2) /\ RowFits(3, 6, 2)
  BY DEF Layer2Row
<1>6. RowFits(3, 1, 3) /\ RowFits(3, 3, 3) /\ RowFits(3, 5, 3) /\ RowFits(3, 7, 3)
  BY DEF Layer3Row
<1>7. RowFits(4, 8, 1)
  BY DEF Layer1Row
<1>8. RowFits(4, 4, 2) /\ RowFits(4, 12, 2)
  BY DEF Layer2Row
<1>9. RowFits(4, 2, 3) /\ RowFits(4, 6, 3) /\ RowFits(4, 10, 3) /\ RowFits(4, 14, 3)
  BY DEF Layer3Row
<1>10. RowFits(4, 1, 4) /\ RowFits(4, 3, 4) /\ RowFits(4, 5, 4) /\ RowFits(4, 7, 4)
  BY DEF Layer4Row
<1>11. RowFits(4, 9, 4) /\ RowFits(4, 11, 4) /\ RowFits(4, 13, 4) /\ RowFits(4, 15, 4)
  BY DEF Layer4Row
<1>12. RowFits(5, 16, 1)
  BY DEF Layer1Row
<1>13. RowFits(5, 8, 2) /\ RowFits(5, 24, 2)
  BY DEF Layer2Row
<1>14. RowFits(5, 4, 3) /\ RowFits(5, 12, 3) /\ RowFits(5, 20, 3) /\ RowFits(5, 28, 3)
  BY DEF Layer3Row
<1>15. RowFits(5, 2, 4) /\ RowFits(5, 6, 4) /\ RowFits(5, 10, 4) /\ RowFits(5, 14, 4)
  BY DEF Layer4Row
<1>16. RowFits(5, 18, 4) /\ RowFits(5, 22, 4) /\ RowFits(5, 26, 4) /\ RowFits(5, 30, 4)
  BY DEF Layer4Row
<1>17. RowFits(5, 1, 5) /\ RowFits(5, 3, 5) /\ RowFits(5, 5, 5) /\ RowFits(5, 7, 5)
  BY DEF Layer5Row
<1>18. RowFits(5, 9, 5) /\ RowFits(5, 11, 5) /\ RowFits(5, 13, 5) /\ RowFits(5, 15, 5)
  BY DEF Layer5Row
<1>19. RowFits(5, 17, 5) /\ RowFits(5, 19, 5) /\ RowFits(5, 21, 5) /\ RowFits(5, 23, 5)
  BY DEF Layer5Row
<1>20. RowFits(5, 25, 5) /\ RowFits(5, 27, 5) /\ RowFits(5, 29, 5) /\ RowFits(5, 31, 5)
  BY DEF Layer5Row
<1>. HIDE DEF RowFits
<1>. QED
  BY <1>1, <1>2, <1>3, <1>4, <1>5, <1>6, <1>7, <1>8, <1>9, <1>10,
     <1>11, <1>12, <1>13, <1>14, <1>15, <1>16, <1>17, <1>18, <1>19, <1>20 DEF Coded, CodedLayer

-----------------------------------------------------------------------------
(* Levels of the cut.                                                      *)

\* A flat GOP is cut into flat mini-GOPs only, any other GOP into none; a release
\* of an even number of pictures in front of no key frame is cut into complete ones.
LEMMA MiniGopLevels ==
  ASSUME NEW n \in 1..32, NEW idr \in BOOLEAN, NEW hier \in 0..5, hier = 0 => n = 1
  PROVE  /\ \A i \in 1..Len(MiniGops(n, idr, hier)) :
              MiniGops(n, idr, hier)[i].hier = 0 <=> hier = 0
         /\ ~idr /\ (n % 2 = 0 \/ hier = 0) =>
              \A i \in 1..Len(MiniGops(n, idr, hier)) : Complete(MiniGops(n, idr, hier)[i])
<1>. DEFINE s == WindowSplit(n, idr)
            r == IF n > 1 \/ ~idr THEN IncompleteWindow(n, hier, s)
                                  ELSE <<[hier |-> hier, start |-> 0, end |-> n - 1]>>
            mgs == MiniGops(n, idr, hier)
<1>1. TakenFrom(s, 0, n, idr) /\ ShapeStart(0) = 0
  BY SplitIsRun, StatsRows0 DEF ShapeStart, MINI_GOP_MAX_COUNT
<1>2. mgs = [i \in 1..Len(r) |->
               [hier   |-> r[i].hier,
                start  |-> r[i].start,
                end    |-> r[i].end,
                length |-> r[i].end - r[i].start + 1,
                idr    |-> idr /\ i = Len(r)]]
  BY DEF MiniGops
<1>. HIDE DEF s, mgs
<1>. SUFFICES /\ Len(r) \in Nat
              /\ \A i \in 1..Len(r) : r[i].hier = 0 <=> hier = 0
              /\ ~idr /\ (n % 2 = 0 \/ hier = 0) =>
                   \A i \in 1..Len(r) : r[i].end - r[i].start + 1 = 2 ^ r[i].hier
  <2>. HIDE DEF r
  <2>1. Len(mgs) = Len(r)
    BY <1>2
  <2>2. \A i \in 1..Len(r) : /\ mgs[i].hier = r[i].hier
                             /\ mgs[i].length = r[i].end - r[i].start + 1
                             /\ mgs[i].idr <=> idr /\ i = Len(r)
    BY <1>2
  <2>. QED
    BY <2>1, <2>2 DEF mgs, Complete
<1>3. CASE n = 1
  <2>. DEFINE h == IF idr THEN hier
                   ELSE IF hier < MIN_HIERARCHICAL_LEVEL THEN hier ELSE MIN_HIERARCHICAL_LEVEL
              x == [hier |-> h, start |-> 0, end |-> 0]
  <2>1. h = 0 <=> hier = 0
    BY DEF MIN_HIERARCHICAL_LEVEL
  <2>2. ~idr => s = <<>>
    BY <1>1, <1>3 DEF TakenFrom
  <2>3. r = <<x>>
    BY <1>3, <2>2 DEF IncompleteWindow
  <2>. HIDE DEF h, r
  <2>4. x.hier = h /\ x.start = 0 /\ x.end = 0
    OBVIOUS
  <2>. HIDE DEF x
  <2>5. Len(r) = 1 /\ 1..Len(r) = {1} /\ r[1] = x
    BY <2>3
  <2>6. hier = 0 => x.end - x.start + 1 = 2 ^ x.hier
    BY <2>1, <2>4, Powers
  <2>. QED
    BY <1>3, <2>1, <2>4, <2>5, <2>6
<1>4. CASE n > 1
  <2>1. hier # 0 /\ r = IncompleteWindow(n, hier, s)
    BY <1>4
  <2>. DEFINE tail == [hier |-> 1, start |-> LastPaired(n) + 1, end |-> n - 1]
  <2>2. Run(s, 0, LastPaired(n))
    <3>1. 0 + 1 < n
      BY <1>4
    <3>. QED
      BY <1>1, <3>1, Zenon DEF TakenFrom
  <2>3. /\ s # <<>> /\ s[Len(s)].end = LastPaired(n) /\ s \in Seq(Shape) /\ Len(s) \in Nat
    BY <2>2 DEF Run
  <2>4. r = IF LastPaired(n) < n - 1 THEN Append(s, tail) ELSE s
    BY <2>1, <2>3 DEF IncompleteWindow, MIN_HIERARCHICAL_LEVEL
  <2>5. n % 2 = 0 => ~(LastPaired(n) < n - 1)
    BY <1>4 DEF LastPaired
  <2>. HIDE DEF r
  <2>6. tail.hier = 1
    OBVIOUS
  <2>. HIDE DEF tail
  <2>7. \A i \in 1..Len(s) : s[i].hier \in 1..5
    <3>1. \A i \in 1..Len(s) : s[i] \in Shape
      BY <2>3
    <3>. QED
      BY <3>1 DEF Shape
  <2>8. Len(r) \in Nat /\ \A i \in 1..Len(r) : r[i].hier \in 1..5
    <3>1. Len(Append(s, tail)) = Len(s) + 1
      BY <2>3
    <3>2. \A i \in 1..(Len(s) + 1) :
            Append(s, tail)[i] = tail \/ (i \in 1..Len(s) /\ Append(s, tail)[i] = s[i])
      BY <2>3
    <3>. QED
      BY <2>3, <2>4, <2>6, <2>7, <3>1, <3>2
  <2>9. n % 2 = 0 => \A i \in 1..Len(r) : r[i].end - r[i].start + 1 = 2 ^ r[i].hier
    BY <2>2, <2>4, <2>5, <2>7, WidthIsPower DEF Run
  <2>. QED
    BY <2>1, <2>8, <2>9
<1>. QED
  BY <1>3, <1>4

-----------------------------------------------------------------------------
(* The walks, unfolded.                                                    *)

\* The bodies of the three recursions, and their first values.
FirstBody(f, i, c, mg, pd, inputs) ==
  IF i = 0 THEN [pd |-> [pd EXCEPT !.prev_hier = mg.hier], pics |-> <<>>]
           ELSE PassOne(c, mg, pd.prev_hier # mg.hier, f[i - 1], inputs[i])

ThirdBody(f, i, c, acc, pics) == IF i = 0 THEN acc ELSE PassThree(c, f[i - 1], pics[i])

MiniGopBody(f, i, c, pd, inputs, mgs) ==
  IF i = 0 THEN [pd |-> pd, emit |-> <<>>] ELSE DecideMiniGop(c, inputs, f[i - 1], mgs[i])

LEMMA FirstPassUnfolds ==
  ASSUME NEW c, NEW mg, NEW pd, NEW inputs, Len(inputs) \in Nat
  PROVE  \A i \in 0..Len(inputs) :
           FirstPass(c, mg, pd, inputs)[i]
             = FirstBody(FirstPass(c, mg, pd, inputs), i, c, mg, pd, inputs)
<1>. DEFINE B(f, i) == FirstBody(f, i, c, mg, pd, inputs)
            T == {k \in Nat : \E f : f = [i \in 0..k |-> B(f, i)]}
<1>1. 0 \in T
  <2>. DEFINE f == [i \in 0..0 |-> [pd |-> [pd EXCEPT !.prev_hier = mg.hier], pics |-> <<>>]]
  <2>1. f = [i \in 0..0 |-> B(f, i)]
    BY DEF FirstBody
  <2>. QED
    BY <2>1
<1>2. ASSUME NEW k \in Nat, k \in T
      PROVE  k + 1 \in T
  <2>1. PICK f : f = [i \in 0..k |-> B(f, i)]
    BY <1>2
  <2>. DEFINE ff == [i \in 0..(k + 1) |-> IF i = k + 1 THEN B(f, k + 1) ELSE f[i]]
  <2>2. \A i \in 0..k : ff[i] = f[i]
    OBVIOUS
  <2>3. \A i \in 0..(k + 1) : ff[i] = B(f, i)
    <3>1. \A i \in 0..(k + 1) : i = k + 1 \/ i \in 0..k
      OBVIOUS
    <3>. QED
      BY <2>1, <3>1, Zenon
  <2>4. ff = [i \in 0..(k + 1) |-> ff[i]]
    OBVIOUS
  <2>. HIDE DEF ff
  <2>5. ASSUME NEW i \in 0..(k + 1)
        PROVE  B(ff, i) = B(f, i)
    <3>1. i = 0 \/ ff[i - 1] = f[i - 1]
      BY <2>2
    <3>. QED
      BY <3>1, Zenon DEF FirstBody
  <2>6. ff = [i \in 0..(k + 1) |-> B(ff, i)]
    BY <2>3, <2>4, <2>5
  <2>. QED
    BY <2>6
<1>. HIDE DEF T
<1>3. Len(inputs) \in T
  BY <1>1, <1>2, Induction
<1>4. \E f : f = [i \in 0..Len(inputs) |-> B(f, i)]
  BY <1>3 DEF T
<1>. DEFINE w == CHOOSE f : f = [i \in 0..Len(inputs) |-> B(f, i)]
<1>5. w = [i \in 0..Len(inputs) |-> B(w, i)]
  BY <1>4
<1>6. FirstPass(c, mg, pd, inputs) = w
  BY DEF FirstPass, FirstBody
<1>. QED
  BY <1>5, <1>6

LEMMA ThirdPassUnfolds ==
  ASSUME NEW c, NEW acc, NEW pics, Len(pics) \in Nat
  PROVE  \A i \in 0..Len(pics) :
           ThirdPass(c, acc, pics)[i]
             = ThirdBody(ThirdPass(c, acc, pics), i, c, acc, pics)
<1>. DEFINE B(f, i) == ThirdBody(f, i, c, acc, pics)
            T == {k \in Nat : \E f : f = [i \in 0..k |-> B(f, i)]}
<1>1. 0 \in T
  <2>. DEFINE f == [i \in 0..0 |-> acc]
  <2>1. f = [i \in 0..0 |-> B(f, i)]
    BY DEF ThirdBody
  <2>. QED
    BY <2>1
<1>2. ASSUME NEW k \in Nat, k \in T
      PROVE  k + 1 \in T
  <2>1. PICK f : f = [i \in 0..k |-> B(f, i)]
    BY <1>2
  <2>. DEFINE ff == [i \in 0..(k + 1) |-> IF i = k + 1 THEN B(f, k + 1) ELSE f[i]]
  <2>2. \A i \in 0..k : ff[i] = f[i]
    OBVIOUS
  <2>3. \A i \in 0..(k + 1) : ff[i] = B(f, i)
    <3>1. \A i \in 0..(k + 1) : i = k + 1 \/ i \in 0..k
      OBVIOUS
    <3>. QED
      BY <2>1, <3>1, Zenon
  <2>4. ff = [i \in 0..(k + 1) |-> ff[i]]
    OBVIOUS
  <2>. HIDE DEF ff
  <2>5. ASSUME NEW i \in 0..(k + 1)
        PROVE  B(ff, i) = B(f, i)
    <3>1. i = 0 \/ ff[i - 1] = f[i - 1]
      BY <2>2
    <3>. QED
      BY <3>1, Zenon DEF ThirdBody
  <2>6. ff = [i \in 0..(k + 1) |-> B(ff, i)]
    BY <2>3, <2>4, <2>5
  <2>. QED
    BY <2>6
<1>. HIDE DEF T
<1>3. Len(pics) \in T
  BY <1>1, <1>2, Induction
<1>4. \E f : f = [i \in 0..Len(pics) |-> B(f, i)]
  BY <1>3 DEF T
<1>. DEFINE w == CHOOSE f : f = [i \in 0..Len(pics) |-> B(f, i)]
<1>5. w = [i \in 0..Len(pics) |-> B(w, i)]
  BY <1>4
<1>6. ThirdPass(c, acc, pics) = w
  BY DEF ThirdPass, ThirdBody
<1>. QED
  BY <1>5, <1>6

LEMMA MiniGopWalkUnfolds ==
  ASSUME NEW c, NEW pd, NEW inputs, NEW mgs, Len(mgs) \in Nat
  PROVE  \A i \in 0..Len(mgs) :
           MiniGopWalk(c, pd, inputs, mgs)[i]
             = MiniGopBody(MiniGopWalk(c, pd, inputs, mgs), i, c, pd, inputs, mgs)
<1>. DEFINE B(f, i) == MiniGopBody(f, i, c, pd, inputs, mgs)
            T == {k \in Nat : \E f : f = [i \in 0..k |-> B(f, i)]}
<1>1. 0 \in T
  <2>. DEFINE f == [i \in 0..0 |-> [pd |-> pd, emit |-> <<>>]]
  <2>1. f = [i \in 0..0 |-> B(f, i)]
    BY DEF MiniGopBody
  <2>. QED
    BY <2>1
<1>2. ASSUME NEW k \in Nat, k \in T
      PROVE  k + 1 \in T
  <2>1. PICK f : f = [i \in 0..k |-> B(f, i)]
    BY <1>2
  <2>. DEFINE ff == [i \in 0..(k + 1) |-> IF i = k + 1 THEN B(f, k + 1) ELSE f[i]]
  <2>2. \A i \in 0..k : ff[i] = f[i]
    OBVIOUS
  <2>3. \A i \in 0..(k + 1) : ff[i] = B(f, i)
    <3>1. \A i \in 0..(k + 1) : i = k + 1 \/ i \in 0..k
      OBVIOUS
    <3>. QED
      BY <2>1, <3>1, Zenon
  <2>4. ff = [i \in 0..(k + 1) |-> ff[i]]
    OBVIOUS
  <2>. HIDE DEF ff
  <2>5. ASSUME NEW i \in 0..(k + 1)
        PROVE  B(ff, i) = B(f, i)
    <3>1. i = 0 \/ ff[i - 1] = f[i - 1]
      BY <2>2
    <3>. QED
      BY <3>1, Zenon DEF MiniGopBody
  <2>6. ff = [i \in 0..(k + 1) |-> B(ff, i)]
    BY <2>3, <2>4, <2>5
  <2>. QED
    BY <2>6
<1>. HIDE DEF T
<1>3. Len(mgs) \in T
  BY <1>1, <1>2, Induction
<1>4. \E f : f = [i \in 0..Len(mgs) |-> B(f, i)]
  BY <1>3 DEF T
<1>. DEFINE w == CHOOSE f : f = [i \in 0..Len(mgs) |-> B(f, i)]
<1>5. w = [i \in 0..Len(mgs) |-> B(w, i)]
  BY <1>4
<1>6. MiniGopWalk(c, pd, inputs, mgs) = w
  BY DEF MiniGopWalk, MiniGopBody
<1>. QED
  BY <1>5, <1>6

-----------------------------------------------------------------------------
(* Pass 1.                                                                 *)

Decision ==
  [position : Nat, after_key : BOOLEAN, prev_hier : 0..5, lay0 : 0..7, lay1 : 0..1,
   dpb : [Slots -> Nat], base : Nat, alt : Nat, ok : BOOLEAN]

Input == [display_order : Nat, is_key : BOOLEAN, is_eos : BOOLEAN]

\* The members of a mini-GOP: a key frame only at its end, the others where the
\* prediction structure has a position for them.
Members(mg, inputs) ==
  /\ inputs \in Seq(Input)
  /\ \A j \in 1..Len(inputs) : inputs[j].is_key => j = Len(inputs)
  /\ \A j \in 1..Len(inputs) : ~inputs[j].is_key => j <= Power[mg.hier + 1]

Position(mg, input, j) == IF input.is_key THEN 0 ELSE Place(mg.hier, j)

Level(c, mg, input) == IF input.is_key THEN c.hierarchical_levels ELSE mg.hier

\* What pass 1 makes of the j-th member, and the decision state behind i members.
FirstPic(c, mg, input, j) ==
  [poc |-> input.display_order, key |-> input.is_key, hier |-> Level(c, mg, input),
   cut_short |-> CutShort(mg, input.is_key), position |-> Position(mg, input, j),
   layer |-> TemporalLayer(Level(c, mg, input), Position(mg, input, j)),
   frame_offset |-> input.display_order, pic_idx |-> j - 1,
   held |-> input.is_key /\ ~input.is_eos]

AfterFirst(pd, mg, inputs, i) ==
  [position |-> IF i = 0 THEN 0 ELSE Position(mg, inputs[i], i),
   after_key |-> IF i = 0 THEN pd.after_key ELSE inputs[i].is_key,
   prev_hier |-> mg.hier, lay0 |-> pd.lay0, lay1 |-> pd.lay1, dpb |-> pd.dpb,
   base |-> pd.base, alt |-> pd.alt, ok |-> pd.ok]

LEMMA PassOneIs ==
  ASSUME NEW c, c.hierarchical_levels \in 0..5, NEW mg, mg.hier \in 0..5,
         NEW pd \in Decision, NEW inputs, Members(mg, inputs), NEW i \in 1..Len(inputs),
         NEW restart \in BOOLEAN, NEW pics, Len(pics) = i - 1, pics = <<>> <=> i = 1
  PROVE  PassOne(c, mg, restart, [pd |-> AfterFirst(pd, mg, inputs, i - 1), pics |-> pics],
                 inputs[i])
           = [pd |-> AfterFirst(pd, mg, inputs, i),
              pics |-> Append(pics, FirstPic(c, mg, inputs[i], i))]
<1>. DEFINE key  == inputs[i].is_key
            hier == Level(c, mg, inputs[i])
            was  == AfterFirst(pd, mg, inputs, i - 1)
            pos  == NextPosition(was, key, restart /\ pics = <<>>, 2 ^ hier)
<1>1. inputs[i] \in Input /\ Len(inputs) \in Nat /\ i \in Nat \ {0}
  BY DEF Members
<1>2. hier \in 0..5 /\ 2 ^ hier = Power[hier + 1] /\ Power[hier + 1] \in 1..32
  BY PowerIs DEF Level
<1>3. pos = Position(mg, inputs[i], i)
  <2>1. CASE key
    BY <1>2, <2>1 DEF NextPosition, Position
  <2>2. CASE ~key
    <3>1. i <= Power[hier + 1] /\ hier = mg.hier
      BY <2>2 DEF Members, Level
    <3>2. i = 1 \/ (i - 1 \in 1..Len(inputs) /\ i - 1 # Len(inputs))
      BY <1>1
    <3>3. i # 1 => ~inputs[i - 1].is_key
      BY <3>2 DEF Members
    <3>4. i # 1 => was.after_key = inputs[i - 1].is_key /\ was.position = Place(hier, i - 1)
      BY <1>1, <3>1, <3>3 DEF AfterFirst, Position
    <3>5. i # 1 => was.position = i - 1 /\ ~was.after_key
      BY <1>1, <1>2, <3>1, <3>3, <3>4 DEF Place
    <3>6. i = 1 => was.position = 0
      BY <1>1 DEF AfterFirst
    <3>7. pos = IF i = 2 ^ hier THEN 0 ELSE i
      BY <1>1, <2>2, <3>5, <3>6 DEF NextPosition
    <3>. QED
      BY <1>2, <2>2, <3>1, <3>7 DEF Position, Place
  <2>. QED
    BY <2>1, <2>2
<1>4. pos \in Nat /\ pos < 2 ^ hier
  <2>1. ~key => hier = mg.hier /\ i <= Power[hier + 1]
    BY DEF Members, Level
  <2>2. pos = 0 \/ (~key /\ pos = Place(hier, i))
    BY <1>3, <2>1 DEF Position
  <2>3. Place(hier, i) = IF i = Power[hier + 1] THEN 0 ELSE i
    BY DEF Place
  <2>. DEFINE top == Power[hier + 1]
  <2>4. top \in 1..32 /\ 2 ^ hier = top /\ Place(hier, i) = IF i = top THEN 0 ELSE i
    BY <1>2, <2>3
  <2>5. ~key => i <= top
    BY <2>1
  <2>. HIDE DEF pos, key, top, hier
  <2>6. pos \in Nat /\ pos < top
    BY <1>1, <2>2, <2>4, <2>5
  <2>. QED
    BY <2>4, <2>6
<1>5. [was EXCEPT !.position = pos, !.after_key = key, !.ok = @ /\ pos < 2 ^ hier]
        = AfterFirst(pd, mg, inputs, i)
  <2>1. AfterFirst(pd, mg, inputs, i) =
          [position |-> pos, after_key |-> key, prev_hier |-> mg.hier, lay0 |-> pd.lay0,
           lay1 |-> pd.lay1, dpb |-> pd.dpb, base |-> pd.base, alt |-> pd.alt, ok |-> pd.ok]
    <3>1. i # 0
      BY <1>1
    <3>. QED
      BY <1>3, <3>1, Zenon DEF AfterFirst
  <2>2. (pd.ok /\ pos < 2 ^ hier) = pd.ok
    BY <1>4 DEF Decision
  <2>3. PICK p, k : was = [position |-> p, after_key |-> k, prev_hier |-> mg.hier,
                           lay0 |-> pd.lay0, lay1 |-> pd.lay1, dpb |-> pd.dpb,
                           base |-> pd.base, alt |-> pd.alt, ok |-> pd.ok]
    BY Zenon DEF AfterFirst
  <2>4. was.ok = pd.ok
    BY <2>3
  <2>. DEFINE one   == [was EXCEPT !.position = pos]
              two   == [one EXCEPT !.after_key = key]
              three == [two EXCEPT !.ok = pd.ok]
  <2>5. [was EXCEPT !.position = pos, !.after_key = key, !.ok = @ /\ pos < 2 ^ hier]
          = [was EXCEPT !.position = pos, !.after_key = key, !.ok = pd.ok]
    BY <2>2, <2>4, Zenon
  <2>. HIDE DEF pos, was, key, hier
  <2>6. [was EXCEPT !.position = pos, !.after_key = key, !.ok = pd.ok] = three
    OBVIOUS
  <2>7. one = [position |-> pos, after_key |-> k, prev_hier |-> mg.hier, lay0 |-> pd.lay0,
               lay1 |-> pd.lay1, dpb |-> pd.dpb, base |-> pd.base, alt |-> pd.alt, ok |-> pd.ok]
    BY <2>3
  <2>. HIDE DEF one
  <2>8. two = [position |-> pos, after_key |-> key, prev_hier |-> mg.hier, lay0 |-> pd.lay0,
               lay1 |-> pd.lay1, dpb |-> pd.dpb, base |-> pd.base, alt |-> pd.alt, ok |-> pd.ok]
    BY <2>7
  <2>. HIDE DEF two
  <2>9. three = AfterFirst(pd, mg, inputs, i)
    BY <2>1, <2>8
  <2>. QED
    BY <2>5, <2>6, <2>9, Zenon
<1>6. FirstPic(c, mg, inputs[i], i) =
        [poc |-> inputs[i].display_order, key |-> key, hier |-> hier,
         cut_short |-> CutShort(mg, key), position |-> pos,
         layer |-> IF pos < 2 ^ hier THEN TemporalLayer(hier, pos) ELSE 0,
         frame_offset |-> inputs[i].display_order, pic_idx |-> Len(pics),
         held |-> key /\ ~inputs[i].is_eos]
  BY <1>3, <1>4, Zenon DEF FirstPic
<1>. DEFINE acc == [pd |-> was, pics |-> pics]
<1>7. acc.pd = was /\ acc.pics = pics
  OBVIOUS
<1>. HIDE DEF acc, was
<1>8. PassOne(c, mg, restart, acc, inputs[i])
        = [pd |-> AfterFirst(pd, mg, inputs, i),
           pics |-> Append(pics, FirstPic(c, mg, inputs[i], i))]
  BY <1>5, <1>6, <1>7, Zenon DEF PassOne, Level
<1>. QED
  BY <1>8 DEF acc, was

FirstPics(c, mg, inputs, i) == [j \in 1..i |-> FirstPic(c, mg, inputs[j], j)]

\* Pass 1 over i members.
LEMMA FirstPassIs ==
  ASSUME NEW c, c.hierarchical_levels \in 0..5, NEW mg, mg.hier \in 0..5,
         NEW pd \in Decision, pd.position = 0, NEW inputs, Members(mg, inputs)
  PROVE  \A i \in 0..Len(inputs) :
           FirstPass(c, mg, pd, inputs)[i] =
             [pd |-> AfterFirst(pd, mg, inputs, i), pics |-> FirstPics(c, mg, inputs, i)]
<1>. DEFINE walk == FirstPass(c, mg, pd, inputs)
            Is(i) == walk[i] = [pd   |-> AfterFirst(pd, mg, inputs, i),
                                pics |-> FirstPics(c, mg, inputs, i)]
            T == {i \in Nat : i <= Len(inputs) => Is(i)}
<1>1. Len(inputs) \in Nat
  BY DEF Members
<1>2. \A i \in 0..Len(inputs) : walk[i] = FirstBody(walk, i, c, mg, pd, inputs)
  BY <1>1, FirstPassUnfolds
<1>. HIDE DEF walk
<1>3. 0 \in T
  <2>1. walk[0] = [pd |-> [pd EXCEPT !.prev_hier = mg.hier], pics |-> <<>>]
    BY <1>1, <1>2 DEF FirstBody
  <2>2. [pd EXCEPT !.prev_hier = mg.hier] = AfterFirst(pd, mg, inputs, 0)
    <3>1. pd = [position |-> 0, after_key |-> pd.after_key, prev_hier |-> pd.prev_hier,
                lay0 |-> pd.lay0, lay1 |-> pd.lay1, dpb |-> pd.dpb, base |-> pd.base,
                alt |-> pd.alt, ok |-> pd.ok]
      BY DEF Decision
    <3>2. AfterFirst(pd, mg, inputs, 0) =
               [position |-> 0, after_key |-> pd.after_key, prev_hier |-> mg.hier,
                lay0 |-> pd.lay0, lay1 |-> pd.lay1, dpb |-> pd.dpb, base |-> pd.base,
                alt |-> pd.alt, ok |-> pd.ok]
      BY DEF AfterFirst
    <3>. QED
      BY <3>1, <3>2
  <2>3. FirstPics(c, mg, inputs, 0) = <<>>
    BY DEF FirstPics
  <2>. QED
    BY <2>1, <2>2, <2>3
<1>4. ASSUME NEW n \in Nat, n \in T
      PROVE  n + 1 \in T
  <2>. SUFFICES ASSUME n + 1 <= Len(inputs)
                PROVE  Is(n + 1)
    OBVIOUS
  <2>. DEFINE i == n + 1
              restart == pd.prev_hier # mg.hier
              pics == FirstPics(c, mg, inputs, n)
  <2>1. i \in 1..Len(inputs) /\ i - 1 = n /\ i # 0 /\ n \in 0..Len(inputs) /\ n <= Len(inputs)
    BY <1>1
  <2>2. Is(n)
    BY <1>4, <2>1
  <2>3. walk[i] = PassOne(c, mg, restart, walk[n], inputs[i])
    BY <1>2, <2>1 DEF FirstBody
  <2>4. pics \in Seq({FirstPic(c, mg, inputs[j], j) : j \in 1..n}) /\ Len(pics) = n
    BY SeqDef DEF FirstPics
  <2>5. pics = <<>> <=> i = 1
    BY <2>4
  <2>6. Append(pics, FirstPic(c, mg, inputs[i], i)) = FirstPics(c, mg, inputs, i)
    BY <2>4 DEF FirstPics
  <2>. HIDE DEF i, restart, pics
  <2>7. PassOne(c, mg, restart, [pd |-> AfterFirst(pd, mg, inputs, n), pics |-> pics], inputs[i])
          = [pd   |-> AfterFirst(pd, mg, inputs, i),
             pics |-> Append(pics, FirstPic(c, mg, inputs[i], i))]
    <3>1. restart \in BOOLEAN
      BY DEF restart
    <3>2. Len(pics) = i - 1
      BY <2>1, <2>4
    <3>3. PassOne(c, mg, restart, [pd |-> AfterFirst(pd, mg, inputs, i - 1), pics |-> pics],
                  inputs[i])
            = [pd   |-> AfterFirst(pd, mg, inputs, i),
               pics |-> Append(pics, FirstPic(c, mg, inputs[i], i))]
      BY <2>1, <2>5, <3>1, <3>2, PassOneIs
    <3>. QED
      BY <2>1, <3>3, Zenon
  <2>8. Is(i)
    BY <2>2, <2>3, <2>6, <2>7, Zenon DEF pics
  <2>. QED
    BY <2>8 DEF i
<1>. HIDE DEF T
<1>5. Nat \subseteq T
  BY <1>3, <1>4, Induction
<1>6. \A i \in 0..Len(inputs) : i \in Nat /\ i <= Len(inputs)
  BY <1>1
<1>7. \A i \in 0..Len(inputs) : Is(i)
  BY <1>5, <1>6, Zenon DEF T
<1>. QED
  BY <1>7 DEF walk

-----------------------------------------------------------------------------
(* Pass 2.                                                                 *)

\* rank[i] pictures come before the i-th, and the k-th to come is at[k].
Ranks(n, rank, at) ==
  /\ rank \in [1..n -> 0..(n - 1)] /\ at \in [1..n -> 1..n]
  /\ \A k \in 1..n : rank[at[k]] = k - 1
  /\ \A i \in 1..n : at[rank[i] + 1] = i

LEMMA RankCounts ==
  ASSUME NEW n \in Nat, NEW rank, NEW at, Ranks(n, rank, at), NEW i \in 1..n
  PROVE  Cardinality({j \in 1..n : rank[j] < rank[i]}) = rank[i]
<1>. DEFINE S == {j \in 1..n : rank[j] < rank[i]}
            f == [k \in 1..rank[i] |-> at[k]]
<1>1. rank[i] \in 0..(n - 1)
  BY DEF Ranks
<1>2. f \in Bijection(1..rank[i], S)
  <2>1. \A k \in 1..rank[i] : k \in 1..n /\ at[k] \in 1..n /\ rank[at[k]] = k - 1
    BY <1>1 DEF Ranks
  <2>2. \A k \in 1..rank[i] : f[k] \in S
    BY <1>1, <2>1
  <2>3. \A j, k \in 1..rank[i] : f[j] = f[k] => j = k
    BY <1>1, <2>1
  <2>4. \A j \in S : \E k \in 1..rank[i] : f[k] = j
    <3>1. ASSUME NEW j \in S
          PROVE  rank[j] + 1 \in 1..rank[i] /\ f[rank[j] + 1] = j
      <4>1. j \in 1..n /\ rank[j] \in 0..(n - 1) /\ rank[j] < rank[i] /\ at[rank[j] + 1] = j
        BY DEF Ranks
      <4>. QED
        BY <1>1, <4>1
    <3>. QED
      BY <3>1
  <2>5. f \in [1..rank[i] -> S]
    BY <2>2
  <2>. HIDE DEF f, S
  <2>. QED
    BY <2>3, <2>4, <2>5, Fun_IsBij
<1>3. IsFiniteSet(1..rank[i]) /\ Cardinality(1..rank[i]) = rank[i]
  <2>. DEFINE m == rank[i]
  <2>1. m \in Int /\ 1 \in Int /\ m >= 0
    BY <1>1
  <2>. HIDE DEF m
  <2>2. IsFiniteSet(1..m) /\ Cardinality(1..m) = IF 1 > m THEN 0 ELSE m - 1 + 1
    BY <2>1, FS_Interval
  <2>3. (IF 1 > m THEN 0 ELSE m - 1 + 1) = m
    BY <2>1
  <2>. QED
    BY <2>2, <2>3 DEF m
<1>. HIDE DEF f, S
<1>4. Cardinality(S) = rank[i]
  BY <1>2, <1>3, FS_Bijection, Zenon DEF ExistsBijection
<1>. QED
  BY <1>4 DEF S

\* store_mg_picture_arrays sorts by decode order.
LEMMA InDecodeOrderIs ==
  ASSUME NEW n \in Nat, NEW pics, DOMAIN pics = 1..n, NEW first \in Nat,
         NEW rank, NEW at, Ranks(n, rank, at),
         \A i \in 1..n : pics[i].decode_order = first + rank[i]
  PROVE  InDecodeOrder(pics) = [k \in 1..n |-> pics[at[k]]]
<1>1. \A i \in 1..n : rank[i] \in 0..(n - 1)
  BY DEF Ranks
<1>2. ASSUME NEW i \in 1..n
      PROVE  Cardinality(Ahead(pics, i)) = rank[i]
  <2>1. \A j \in 1..n : pics[j].decode_order < pics[i].decode_order <=> rank[j] < rank[i]
    BY <1>1
  <2>2. Ahead(pics, i) = {j \in 1..n : rank[j] < rank[i]}
    BY <2>1 DEF Ahead
  <2>. QED
    BY <2>2, RankCounts
<1>3. ASSUME NEW k \in 1..n
      PROVE  (CHOOSE i \in DOMAIN pics : Cardinality(Ahead(pics, i)) = k - 1) = at[k]
  <2>1. at[k] \in 1..n /\ rank[at[k]] = k - 1
    BY DEF Ranks
  <2>2. \A i \in 1..n : rank[i] = k - 1 => i = at[k]
    <3>1. \A i \in 1..n : at[rank[i] + 1] = i
      BY DEF Ranks
    <3>. QED
      BY <1>1, <3>1
  <2>. QED
    BY <1>2, <2>1, <2>2
<1>. QED
  <2>. DEFINE pick(k) == CHOOSE i \in DOMAIN pics : Cardinality(Ahead(pics, i)) = k - 1
  <2>1. InDecodeOrder(pics) = [k \in 1..n |-> pics[pick(k)]]
    BY Zenon DEF InDecodeOrder
  <2>2. \A k \in 1..n : pick(k) = at[k]
    BY <1>3
  <2>. HIDE DEF pick
  <2>. QED
    BY <2>1, <2>2

\* The j-th member behind pass 2, in the turn d.
CodedPic(c, mg, input, j, d) ==
  [poc |-> input.display_order, key |-> input.is_key, hier |-> Level(c, mg, input),
   cut_short |-> CutShort(mg, input.is_key), position |-> Position(mg, input, j),
   layer |-> TemporalLayer(Level(c, mg, input), Position(mg, input, j)),
   frame_offset |-> input.display_order, pic_idx |-> j - 1,
   held |-> input.is_key /\ ~input.is_eos, decode_order |-> d]

LEMMA CodedFields ==
  \A c, mg, input, j, d :
    /\ CodedPic(c, mg, input, j, d).poc = input.display_order
    /\ CodedPic(c, mg, input, j, d).key = input.is_key
    /\ CodedPic(c, mg, input, j, d).hier = Level(c, mg, input)
    /\ CodedPic(c, mg, input, j, d).cut_short = CutShort(mg, input.is_key)
    /\ CodedPic(c, mg, input, j, d).layer
         = TemporalLayer(Level(c, mg, input), Position(mg, input, j))
    /\ CodedPic(c, mg, input, j, d).pic_idx = j - 1
    /\ CodedPic(c, mg, input, j, d).held = (input.is_key /\ ~input.is_eos)
    /\ CodedPic(c, mg, input, j, d).decode_order = d
BY DEF CodedPic

LEMMA FirstFields ==
  \A c, mg, input, j :
         /\ FirstPic(c, mg, input, j).hier = Level(c, mg, input)
         /\ FirstPic(c, mg, input, j).position = Position(mg, input, j)
BY DEF FirstPic

LEMMA WithOrderIs ==
  ASSUME NEW c, NEW mg, NEW input, NEW j, NEW d
  PROVE  WithFields(FirstPic(c, mg, input, j), [decode_order |-> d])
           = CodedPic(c, mg, input, j, d)
<1>1. PICK p, k, h, s, o, l, f, i, e :
        /\ FirstPic(c, mg, input, j) =
             [poc |-> p, key |-> k, hier |-> h, cut_short |-> s, position |-> o, layer |-> l,
              frame_offset |-> f, pic_idx |-> i, held |-> e]
        /\ CodedPic(c, mg, input, j, d) =
             [poc |-> p, key |-> k, hier |-> h, cut_short |-> s, position |-> o, layer |-> l,
              frame_offset |-> f, pic_idx |-> i, held |-> e, decode_order |-> d]
  BY Zenon DEF FirstPic, CodedPic
<1>. QED
  BY <1>1 DEF WithFields

\* The members behind pass 2, in the order of the tables, or in display order.
InTableOrder(c, mg, pd, inputs) ==
  InDecodeOrder(WithDecodeOrder(pd, mg, FirstPics(c, mg, inputs, Len(inputs))))
    = [k \in 1..Len(inputs) |->
         CodedPic(c, mg, inputs[Coded[mg.hier + 1][k]], Coded[mg.hier + 1][k], pd.base + k - 1)]

InInputOrder(c, mg, pd, inputs) ==
  InDecodeOrder(WithDecodeOrder(pd, mg, FirstPics(c, mg, inputs, Len(inputs))))
    = [k \in 1..Len(inputs) |-> CodedPic(c, mg, inputs[k], k, pd.alt + k - 1)]

\* The members of a complete mini-GOP in the order of the tables.
LEMMA CompleteOrder ==
  ASSUME NEW c, NEW mg, mg.hier \in 0..5, Complete(mg),
         NEW pd, pd.base \in Nat, NEW inputs, Members(mg, inputs),
         Len(inputs) = Power[mg.hier + 1], \A j \in 1..Len(inputs) : ~inputs[j].is_key
  PROVE  InTableOrder(c, mg, pd, inputs)
<1>. DEFINE h     == mg.hier
            n     == Power[h + 1]
            pics  == FirstPics(c, mg, inputs, n)
            rank  == [i \in 1..n |-> DecodeOrder(h, Place(h, i))]
            at    == [k \in 1..n |-> Coded[h + 1][k]]
            timed == WithDecodeOrder(pd, mg, pics)
            first == pd.base
<1>1. h \in 0..5 /\ n \in 1..32
  BY PowerIs
<1>0. n = 2 ^ h
  BY PowerIs
<1>2. Ranks(n, rank, at)
  <2>1. /\ \A k \in 1..n : /\ Coded[h + 1][k] \in 1..n
                          /\ DecodeOrder(h, Place(h, Coded[h + 1][k])) = k - 1
        /\ \A i \in 1..n : /\ DecodeOrder(h, Place(h, i)) \in 0..(n - 1)
                           /\ Coded[h + 1][DecodeOrder(h, Place(h, i)) + 1] = i
    BY <1>1, CodingOrder, Zenon DEF OrderFits
  <2>. HIDE DEF n, h
  <2>2. /\ \A k \in 1..n : at[k] = Coded[h + 1][k]
        /\ \A i \in 1..n : rank[i] = DecodeOrder(h, Place(h, i))
    OBVIOUS
  <2>3. rank \in [1..n -> 0..(n - 1)] /\ at \in [1..n -> 1..n]
    BY <2>1
  <2>. HIDE DEF rank, at
  <2>6. n \in 1..32
    BY <1>1
  <2>4. \A k \in 1..n : rank[at[k]] = k - 1
    BY <2>1, <2>2
  <2>5. \A i \in 1..n : at[rank[i] + 1] = i
    <3>1. \A i \in 1..n : rank[i] + 1 \in 1..n
      BY <2>1, <2>2, <2>6
    <3>. QED
      BY <2>1, <2>2, <3>1
  <2>. QED
    BY <2>3, <2>4, <2>5, Zenon DEF Ranks
<1>3. /\ DOMAIN pics = 1..n /\ Len(pics) = n
      /\ \A i \in 1..n : pics[i] = FirstPic(c, mg, inputs[i], i)
  BY <1>1 DEF FirstPics
<1>4. ASSUME NEW i \in 1..n
      PROVE  pics[i].hier = h /\ pics[i].position = Place(h, i)
  <2>1. ~inputs[i].is_key
    OBVIOUS
  <2>. QED
    <3>1. pics[i] = FirstPic(c, mg, inputs[i], i)
      BY <1>3
    <3>. HIDE DEF pics
    <3>. QED
      BY <2>1, <3>1, FirstFields DEF Level, Position
<1>. HIDE DEF pics
<1>5. DOMAIN timed = 1..n
  BY <1>3 DEF WithDecodeOrder
<1>6. ASSUME NEW i \in 1..n
      PROVE  timed[i] = CodedPic(c, mg, inputs[i], i, pd.base + rank[i])
  <2>1. timed[i] = WithFields(pics[i], [decode_order |->
                     IF ~mg.idr /\ mg.length = 2 ^ pics[i].hier
                       THEN pd.base + DecodeOrder(pics[i].hier, pics[i].position)
                       ELSE pd.alt + i - 1])
    BY <1>3 DEF WithDecodeOrder
  <2>2. ~mg.idr /\ mg.length = 2 ^ pics[i].hier
    BY <1>4 DEF Complete
  <2>3. DecodeOrder(pics[i].hier, pics[i].position) = rank[i]
    BY <1>4
  <2>4. timed[i] = WithFields(FirstPic(c, mg, inputs[i], i), [decode_order |-> pd.base + rank[i]])
    BY <1>3, <2>1, <2>2, <2>3, Zenon
  <2>. HIDE DEF timed, rank
  <2>. QED
    BY <2>4, WithOrderIs, Zenon
<1>10. first \in Nat
  OBVIOUS
<1>. HIDE DEF timed, rank, at, n
<1>7. \A i \in 1..n : timed[i].decode_order = first + rank[i]
  <2>1. \A i \in 1..n : timed[i] = CodedPic(c, mg, inputs[i], i, first + rank[i])
    BY <1>6
  <2>. HIDE DEF first
  <2>. QED
    BY <2>1, CodedFields
<1>8. InDecodeOrder(timed) = [k \in 1..n |-> timed[at[k]]]
  <2>1. n \in Nat
    BY <1>1
  <2>. HIDE DEF first
  <2>. QED
    BY ONLY <1>2, <1>5, <1>7, <1>10, <2>1, InDecodeOrderIs
<1>9. ASSUME NEW k \in 1..n
      PROVE  timed[at[k]]
             = CodedPic(c, mg, inputs[Coded[h + 1][k]], Coded[h + 1][k], pd.base + k - 1)
  <2>1. at[k] \in 1..n /\ rank[at[k]] = k - 1 /\ pd.base + rank[at[k]] = pd.base + k - 1
    BY <1>2 DEF Ranks
  <2>2. at[k] = Coded[h + 1][k]
    BY DEF at
  <2>. QED
    BY <1>6, <2>1, <2>2, Zenon
<1>. QED
  BY <1>8, <1>9, Zenon DEF InTableOrder, timed, pics, n, h

\* Any other mini-GOP is coded in display order.
LEMMA ShortOrder ==
  ASSUME NEW c, NEW mg, NEW pd, pd.alt \in Nat, NEW inputs, Len(inputs) \in Nat,
         mg.idr \/ \A j \in 1..Len(inputs) : mg.length # 2 ^ Level(c, mg, inputs[j])
  PROVE  InInputOrder(c, mg, pd, inputs)
<1>. DEFINE n     == Len(inputs)
            pics  == FirstPics(c, mg, inputs, n)
            rank  == [i \in 1..n |-> i - 1]
            at    == [k \in 1..n |-> k]
            timed == WithDecodeOrder(pd, mg, pics)
            first == pd.alt
<1>1. Ranks(n, rank, at)
  BY DEF Ranks
<1>2. /\ DOMAIN pics = 1..n /\ Len(pics) = n
      /\ \A i \in 1..n : pics[i] = FirstPic(c, mg, inputs[i], i)
  BY DEF FirstPics
<1>. HIDE DEF pics
<1>3. DOMAIN timed = 1..n
  BY <1>2 DEF WithDecodeOrder
<1>4. ASSUME NEW i \in 1..n
      PROVE  timed[i] = CodedPic(c, mg, inputs[i], i, pd.alt + i - 1)
  <2>1. timed[i] = WithFields(pics[i], [decode_order |->
                     IF ~mg.idr /\ mg.length = 2 ^ pics[i].hier
                       THEN pd.base + DecodeOrder(pics[i].hier, pics[i].position)
                       ELSE pd.alt + i - 1])
    BY <1>2 DEF WithDecodeOrder
  <2>2. ~(~mg.idr /\ mg.length = 2 ^ pics[i].hier)
    BY <1>2 DEF FirstPic
  <2>3. timed[i] = WithFields(FirstPic(c, mg, inputs[i], i), [decode_order |-> pd.alt + i - 1])
    BY <1>2, <2>1, <2>2, Zenon
  <2>. QED
    BY <2>3, WithOrderIs, Zenon
<1>7. first \in Nat /\ n \in Nat
  OBVIOUS
<1>8. \A i \in 1..n : pd.alt + i - 1 = first + rank[i]
  OBVIOUS
<1>. HIDE DEF timed, n, rank
<1>5. \A i \in 1..n : timed[i].decode_order = first + rank[i]
  <2>1. \A i \in 1..n : timed[i] = CodedPic(c, mg, inputs[i], i, first + rank[i])
    BY <1>4, <1>8, Zenon
  <2>. HIDE DEF first
  <2>. QED
    BY <2>1, CodedFields
<1>6. InDecodeOrder(timed) = [k \in 1..n |-> timed[at[k]]]
  <2>. HIDE DEF at, first
  <2>. QED
    BY ONLY <1>1, <1>3, <1>5, <1>7, InDecodeOrderIs
<1>. QED
  <2>1. \A k \in 1..n : at[k] = k
    OBVIOUS
  <2>2. \A k \in 1..n : timed[at[k]] = CodedPic(c, mg, inputs[k], k, pd.alt + k - 1)
    BY <1>4, <2>1, Zenon
  <2>. QED
    BY <1>6, <2>2, Zenon DEF InInputOrder, timed, pics, n

-----------------------------------------------------------------------------
(* Pass 3: what DecideInter makes of a picture.                             *)

\* A picture is none of those around it.
LEMMA AboveIsOther ==
  \A h \in 0..5, l \in 1..4 : \A k \in 2..Power[h + 1] :
    l < CodedLayer[h + 1][k] => Above(h, l, Coded[h + 1][k]) # Coded[h + 1][k]
<1>. DEFINE behind(h) == 2..Power[h + 1]
            at(h, k) == Coded[h + 1][k]
            layer(h, k) == CodedLayer[h + 1][k]
<1>. USE DEF Coded, CodedLayer, Power, Left, Reach, Above
<1>1. \A h \in 0..5, l \in 1..4 : \A k \in behind(h) :
        l < layer(h, k) => Above(h, l, at(h, k)) # at(h, k)
  OBVIOUS
<1>. QED
  BY <1>1

\* The fields a picture has after passes 1 and 2.
PicFields == {"poc", "key", "hier", "cut_short", "position", "layer", "frame_offset", "pic_idx",
              "held", "decode_order"}

LEMMA CodedDomain ==
  \A c, mg, input, j, d : DOMAIN CodedPic(c, mg, input, j, d) = PicFields
BY DEF CodedPic, PicFields

\* What pass 3 adds to them.
Choice(refs, pocs, list0, list1, refresh, show, show_existing) ==
  [refs |-> refs, ref_pocs |-> pocs, list0 |-> list0, list1 |-> list1, refresh |-> refresh,
   show |-> show, show_existing |-> show_existing]

LEMMA ChosenFields ==
  ASSUME NEW pic, DOMAIN pic = PicFields,
         NEW refs, NEW pocs, NEW list0, NEW list1, NEW refresh, NEW show, NEW show_existing,
         NEW p, p = WithFields(pic, Choice(refs, pocs, list0, list1, refresh, show, show_existing))
  PROVE  /\ p.poc = pic.poc /\ p.key = pic.key /\ p.layer = pic.layer
         /\ p.cut_short = pic.cut_short
         /\ p.refs = refs /\ p.ref_pocs = pocs /\ p.list1 = list1 /\ p.refresh = refresh
         /\ p.show = show /\ p.show_existing = show_existing
<1>. DEFINE more == Choice(refs, pocs, list0, list1, refresh, show, show_existing)
            added == {"refs", "ref_pocs", "list0", "list1", "refresh", "show", "show_existing"}
<1>1. /\ DOMAIN more = added
      /\ more.refs = refs /\ more.ref_pocs = pocs /\ more.list1 = list1 /\ more.refresh = refresh
      /\ more.show = show /\ more.show_existing = show_existing
  BY DEF Choice
<1>. HIDE DEF more
<1>2. p = [f \in PicFields \cup added |-> IF f \in PicFields THEN pic[f] ELSE more[f]]
  BY <1>1 DEF WithFields, more
<1>3. \A f \in PicFields : p[f] = pic[f]
  BY <1>2
<1>4. \A f \in added : f \notin PicFields => p[f] = more[f]
  BY <1>2
<1>5. p.poc = pic.poc /\ p.key = pic.key /\ p.layer = pic.layer /\ p.cut_short = pic.cut_short
  BY <1>3 DEF PicFields
<1>6. /\ p.refs = more.refs /\ p.ref_pocs = more.ref_pocs /\ p.list1 = more.list1
      /\ p.refresh = more.refresh /\ p.show = more.show /\ p.show_existing = more.show_existing
  BY <1>4 DEF PicFields
<1>. QED
  BY <1>1, <1>5, <1>6

\* The definitions inside DecideInter.
RowOf(c, pic) ==
  SlotTable(pic.hier, pic.layer, pic.pic_idx, c.mrp.referencing_scheme, c.mrp.more_5l_refs # 0)

SlotsOf(c, pd, pic) ==
  IF pic.hier = 0 THEN FlatRow(pd.lay0)
  ELSE [i \in 1..Len(RowOf(c, pic)) |-> SlotIndex(pd, pic)[RowOf(c, pic)[i]]]

PocsOf(pd, slots) == [i \in 1..Len(slots) |-> pd.dpb[slots[i]]]

FreshOf(c, pd, pic) ==
  Refresh(pd, pic, IsPicUsedAsRef(pic.hier, pic.layer, pic.pic_idx, c.mrp.referencing_scheme))

Shown(pic) == ShowExistingSlot(pic.hier, pic.pic_idx)

\* The picture is shown when it is coded, whatever its layer.
Direct(pic) == pic.cut_short \/ pic.hier = 0

\* The picture stays hidden, or is followed by the next one.
TopOf(pic) == ~Direct(pic) /\ pic.layer = pic.hier

LEMMA EntriesFit ==
  ASSUME NEW counts, NEW entry, entry = PrunedEntry(counts)
  PROVE  /\ \A r \in 1..7 : entry[r] \in 1..7
         /\ entry[LAST] = LAST
         /\ ~(counts.list1 < 1) => entry[BWD] = BWD
BY DEF PrunedEntry, LAST, LAST2, LAST3, GOLD, BWD, ALT2, ALT

\* The toggles and the refreshed slots of a picture.
FreshIs(pd, pic, fresh) ==
  /\ fresh.lay0 = (IF pic.hier = 0 THEN CircInc(pd.lay0, 0, 7)
                   ELSE IF pic.layer = 0 THEN CircInc(pd.lay0, 0, 2) ELSE pd.lay0)
  /\ fresh.lay1 = (IF pic.layer = 1 THEN 1 - pd.lay1 ELSE pd.lay1)
  /\ fresh.lay0 \in 0..7 /\ fresh.lay1 \in 0..1
  /\ pic.hier > 0 => fresh.lay0 \in 0..2
  /\ pic.layer = 0 => fresh.mask = {fresh.lay0}
  /\ pic.layer = 1 => fresh.mask \in {{}, {LAY1_OFF + fresh.lay1}}
  /\ pic.layer = 2 => fresh.mask \in {{}, {LAY2_OFF}}
  /\ pic.layer = 3 => fresh.mask \in {{}, {LAY3_OFF}}
  /\ pic.layer = 4 => fresh.mask \in {{}, {LAY4_OFF}}
  /\ pic.layer = 5 => fresh.mask = {}
  /\ pic.layer < pic.hier => fresh.mask # {}
  /\ fresh.mask \subseteq Slots

LEMMA FreshFits ==
  ASSUME NEW c, NEW pd \in Decision, NEW pic, pic.hier \in 0..5, pic.layer \in 0..pic.hier,
         pic.hier > 0 => pd.lay0 \in 0..2
  PROVE  FreshIs(pd, pic, FreshOf(c, pd, pic))
<1>. DEFINE fresh == FreshOf(c, pd, pic)
<1>1. pd.lay0 \in 0..7 /\ pd.lay1 \in 0..1
  BY DEF Decision
<1>. DEFINE used == IsPicUsedAsRef(pic.hier, pic.layer, pic.pic_idx, c.mrp.referencing_scheme)
            lay0 == IF pic.hier = 0 THEN CircInc(pd.lay0, 0, 7)
                    ELSE IF pic.layer = 0 THEN CircInc(pd.lay0, 0, 2) ELSE pd.lay0
            lay1 == IF pic.layer = 1 THEN 1 - pd.lay1 ELSE pd.lay1
            none == \/ pic.hier = 5 /\ pic.layer = 5
                    \/ pic.hier > 0 /\ pic.layer = pic.hier /\ ~used
            slot == CASE pic.layer = 0 -> lay0
                      [] pic.layer = 1 -> LAY1_OFF + lay1
                      [] pic.layer = 2 -> LAY2_OFF
                      [] pic.layer = 3 -> LAY3_OFF
                      [] OTHER         -> LAY4_OFF
<1>2. fresh = [lay0 |-> lay0, lay1 |-> lay1, mask |-> IF none THEN {} ELSE {slot}]
  BY Zenon DEF FreshOf, Refresh
<1>3. fresh.lay0 = lay0 /\ fresh.lay1 = lay1 /\ fresh.mask = IF none THEN {} ELSE {slot}
  BY <1>2
<1>4. lay0 \in 0..7 /\ lay1 \in 0..1 /\ (pic.hier > 0 => lay0 \in 0..2)
  BY <1>1 DEF CircInc
<1>5. /\ pic.layer = 0 => slot = lay0 /\ ~none
      /\ pic.layer = 1 => slot = LAY1_OFF + lay1
      /\ pic.layer = 2 => slot = LAY2_OFF
      /\ pic.layer = 3 => slot = LAY3_OFF
      /\ pic.layer \in {4, 5} => slot = LAY4_OFF
  OBVIOUS
<1>6. pic.layer = 5 => none
  OBVIOUS
<1>7. pic.layer < pic.hier => ~none
  OBVIOUS
<1>8. slot \in Slots
  BY <1>4, <1>5 DEF Slots, LAY1_OFF, LAY2_OFF, LAY3_OFF, LAY4_OFF
<1>. HIDE DEF none, slot
<1>9. pic.layer = 0 => fresh.mask = {fresh.lay0}
  BY <1>3, <1>5
<1>10. pic.layer \in 0..5
  OBVIOUS
<1>. HIDE DEF fresh
<1>11. FreshIs(pd, pic, fresh)
  BY <1>3, <1>4, <1>5, <1>6, <1>7, <1>8, <1>9, <1>10 DEF FreshIs
<1>. QED
  BY <1>11 DEF fresh

\* The configurations' fields as picture decision reads them.
Config(c) ==
  /\ c.hierarchical_levels \in 0..5
  /\ c.mrp.referencing_scheme \in 0..2
  /\ c.mrp.base_ref_list1_count \in 1..3 /\ c.mrp.non_base_ref_list1_count \in 1..3

\* list 1 keeps its first entry unless list 0 has it already.
LEMMA ListOneKept ==
  ASSUME NEW c, Config(c), NEW pic, ~pic.cut_short, NEW pocs,
         \A r \in LAST2..GOLD : pocs[BWD] # pocs[r]
  PROVE  ~(RefListCounts(c, pic, pocs).list1 < 1)
<1>. DEFINE cap0  == IF Boosted(pic) THEN c.mrp.base_ref_list0_count
                                     ELSE c.mrp.non_base_ref_list0_count
            cap1  == IF Boosted(pic) THEN c.mrp.base_ref_list1_count
                                     ELSE c.mrp.non_base_ref_list1_count
            list0 == Smaller(1 + DistinctRun(pocs, [i \in LAST2..GOLD |-> LAST..(i - 1)]), cap0)
            seen  == [i \in BWD..ALT |-> {j \in (IF i = BWD THEN LAST2 ELSE LAST)..(i - 1) :
                                            j <= GOLD => j <= list0}]
            list1 == IF pic.cut_short THEN 0 ELSE Smaller(DistinctRun(pocs, seen), cap1)
<1>1. RefListCounts(c, pic, pocs) = [list0 |-> list0, list1 |-> list1]
  BY Zenon DEF RefListCounts
<1>2. cap1 \in 1..3
  BY DEF Config
<1>3. DistinctRun(pocs, seen) \in Nat \ {0}
  <2>. DEFINE entries == DOMAIN seen
              stops   == {i \in entries : \E j \in seen[i] : pocs[i] = pocs[j]}
              kept    == {i \in entries : \A s \in stops : i < s}
  <2>1. entries = 5..7 /\ seen[BWD] \subseteq LAST2..GOLD
    BY DEF BWD, ALT, LAST2, GOLD
  <2>. HIDE DEF seen
  <2>2. BWD \in entries /\ BWD \notin stops
    BY <2>1 DEF BWD
  <2>. HIDE DEF stops
  <2>3. \A s \in stops : s \in 5..7
    BY <2>1 DEF stops
  <2>4. BWD \in kept
    BY <2>1, <2>2, <2>3 DEF BWD
  <2>5. kept \subseteq 5..7
    BY <2>1
  <2>. HIDE DEF kept
  <2>6. IsFiniteSet(5..7)
    <3>1. 5 \in Int /\ 7 \in Int
      OBVIOUS
    <3>. QED
      BY <3>1, FS_Interval, Zenon
  <2>7. IsFiniteSet(kept) /\ Cardinality(kept) \in Nat /\ Cardinality(kept) # 0
    BY <2>4, <2>5, <2>6, FS_Subset, FS_CardinalityType, FS_EmptySet
  <2>. QED
    BY <2>7, Zenon DEF DistinctRun, kept, stops
<1>. HIDE DEF seen, cap1, list0
<1>4. list1 \in Nat \ {0}
  BY <1>2, <1>3 DEF Smaller
<1>. QED
  BY <1>1, <1>4

\* The decision about an inter picture that has seven slots to reference.
Decides(c, pd, pic, q, p) ==
  /\ q \in Decision
  /\ q.position = pd.position /\ q.base = pd.base /\ q.alt = pd.alt /\ q.ok = pd.ok
  /\ q.lay0 = FreshOf(c, pd, pic).lay0 /\ q.lay1 = FreshOf(c, pd, pic).lay1
  /\ q.dpb = [s \in Slots |-> IF s \in p.refresh THEN pic.poc ELSE pd.dpb[s]]
  /\ p.poc = pic.poc /\ p.key = pic.key /\ p.layer = pic.layer /\ p.cut_short = pic.cut_short
  /\ Len(p.refs) = 7
  /\ \A r \in 1..7 : /\ p.refs[r] \in Slots
                     /\ p.ref_pocs[r] = pd.dpb[p.refs[r]]
                     /\ \E i \in 1..7 : p.refs[r] = SlotsOf(c, pd, pic)[i]
  /\ p.refs[LAST] = SlotsOf(c, pd, pic)[LAST]
  /\ (~pic.cut_short /\ \A r \in LAST2..GOLD :
         pd.dpb[SlotsOf(c, pd, pic)[BWD]] # pd.dpb[SlotsOf(c, pd, pic)[r]])
       => p.refs[BWD] = SlotsOf(c, pd, pic)[BWD]
  /\ p.refresh = FreshOf(c, pd, pic).mask
  /\ p.show = (Direct(pic) \/ pic.layer = pic.hier)
  /\ p.show_existing = IF TopOf(pic) THEN SlotIndex(pd, pic)[Shown(pic)] ELSE NoSlot

\* An inter picture that pass 3 does not reject.
Accepted(c, pd, pic) ==
  /\ DOMAIN pic = PicFields /\ pic.poc \in Nat /\ pic.hier \in 0..5
  /\ pic.layer \in 0..pic.hier /\ (pic.hier > 0 => pd.lay0 \in 0..2)
  /\ Len(SlotsOf(c, pd, pic)) = 7 /\ \A i \in 1..7 : SlotsOf(c, pd, pic)[i] \in Slots
  /\ ~(TopOf(pic) /\ Shown(pic) = "")

LEMMA InterDecides ==
  ASSUME NEW c, Config(c), NEW pd \in Decision, NEW pic, Accepted(c, pd, pic)
  PROVE  Decides(c, pd, pic, DecideInter(c, pd, pic).pd, DecideInter(c, pd, pic).pic)
<1>. DEFINE slots  == SlotsOf(c, pd, pic)
            pocs   == PocsOf(pd, slots)
            counts == RefListCounts(c, pic, pocs)
            entry  == PrunedEntry(counts)
            fresh  == FreshOf(c, pd, pic)
            q == DecideInter(c, pd, pic).pd
            p == DecideInter(c, pd, pic).pic
            dpb == [s \in Slots |-> IF s \in fresh.mask THEN pic.poc ELSE pd.dpb[s]]
            refs == [i \in 1..7 |-> slots[entry[i]]]
            ref_pocs == [i \in 1..7 |-> pocs[entry[i]]]
            show == Direct(pic) \/ pic.layer = pic.hier
            show_existing == IF TopOf(pic) THEN SlotIndex(pd, pic)[Shown(pic)] ELSE NoSlot
<1>a. ~(TopOf(pic) /\ Shown(pic) = "")
  BY Zenon DEF Accepted
<1>b. DOMAIN pic = PicFields
  BY DEF Accepted
<1>c. pic.poc \in Nat
  BY DEF Accepted
<1>d. Len(slots) = 7 /\ \A i \in 1..7 : slots[i] \in Slots
  BY DEF Accepted
<1>1. SlotsOf(c, pd, pic) # NoRow
  <2>. HIDE DEF slots
  <2>1. Len(NoRow) = 0
    BY DEF NoRow
  <2>2. Len(slots) # Len(NoRow)
    BY <1>d, <2>1
  <2>3. slots # NoRow
    BY <2>2, Zenon
  <2>. QED
    BY <2>3 DEF slots
<1>2. /\ q = [pd EXCEPT !.lay0 = fresh.lay0, !.lay1 = fresh.lay1, !.dpb = dpb]
      /\ p = WithFields(pic, Choice(refs, ref_pocs, counts.list0, counts.list1, fresh.mask, show,
                                    show_existing))
  <2>. DEFINE qq == [pd EXCEPT !.lay0 = fresh.lay0, !.lay1 = fresh.lay1,
                               !.dpb = [s \in Slots |-> IF s \in fresh.mask THEN pic.poc ELSE @[s]]]
              pp == WithFields(pic, Choice(refs, ref_pocs, counts.list0, counts.list1, fresh.mask,
                                           show, show_existing))
  <2>1. DecideInter(c, pd, pic) = [pd |-> qq, pic |-> pp]
    BY <1>1, <1>a, Zenon
       DEF DecideInter, SlotsOf, RowOf, PocsOf, FreshOf, Shown, Direct, TopOf, Choice
  <2>2. qq = [pd EXCEPT !.lay0 = fresh.lay0, !.lay1 = fresh.lay1, !.dpb = dpb]
    <3>. DEFINE one == [pd EXCEPT !.lay0 = fresh.lay0]
                two == [one EXCEPT !.lay1 = fresh.lay1]
    <3>1. two.dpb = pd.dpb
      BY DEF Decision
    <3>2. qq = [two EXCEPT !.dpb = [s \in Slots |-> IF s \in fresh.mask THEN pic.poc ELSE @[s]]]
      OBVIOUS
    <3>3. [pd EXCEPT !.lay0 = fresh.lay0, !.lay1 = fresh.lay1, !.dpb = dpb]
            = [two EXCEPT !.dpb = dpb]
      OBVIOUS
    <3>. HIDE DEF two
    <3>. QED
      BY <3>1, <3>2, <3>3, Zenon
  <2>. HIDE DEF qq, pp
  <2>3. q = qq /\ p = pp
    BY <2>1
  <2>. QED
    BY <2>2, <2>3, Zenon DEF pp
<1>3. /\ fresh.lay0 \in 0..7 /\ fresh.lay1 \in 0..1 /\ fresh.mask \subseteq Slots
  <2>1. pic.hier \in 0..5 /\ pic.layer \in 0..pic.hier /\ (pic.hier > 0 => pd.lay0 \in 0..2)
    BY Zenon DEF Accepted
  <2>. QED
    BY <2>1, FreshFits, Zenon DEF FreshIs
<1>4. dpb \in [Slots -> Nat]
  BY <1>c DEF Decision
<1>. HIDE DEF q, p, fresh, show, show_existing, counts, dpb, refs, ref_pocs, entry, slots
<1>5. /\ q \in Decision /\ q.lay0 = fresh.lay0 /\ q.lay1 = fresh.lay1 /\ q.dpb = dpb
      /\ q.position = pd.position /\ q.base = pd.base /\ q.alt = pd.alt /\ q.ok = pd.ok
  <2>. DEFINE a == fresh.lay0
              b == fresh.lay1
  <2>1. a \in 0..7 /\ b \in 0..1 /\ q = [pd EXCEPT !.lay0 = a, !.lay1 = b, !.dpb = dpb]
    BY <1>2, <1>3, Zenon
  <2>. HIDE DEF a, b
  <2>2. /\ q \in Decision /\ q.lay0 = a /\ q.lay1 = b /\ q.dpb = dpb
        /\ q.position = pd.position /\ q.base = pd.base /\ q.alt = pd.alt /\ q.ok = pd.ok
    BY ONLY pd \in Decision, <1>4, <2>1 DEF Decision
  <2>. QED
    BY <2>2 DEF a, b
<1>6. /\ p.poc = pic.poc /\ p.key = pic.key /\ p.layer = pic.layer
      /\ p.cut_short = pic.cut_short
      /\ p.refs = refs /\ p.ref_pocs = ref_pocs /\ p.list1 = counts.list1 /\ p.refresh = fresh.mask
      /\ p.show = show /\ p.show_existing = show_existing
  BY <1>2, <1>b, ChosenFields
<1>7. /\ \A r \in 1..7 : entry[r] \in 1..7
      /\ entry[LAST] = LAST
      /\ ~(counts.list1 < 1) => entry[BWD] = BWD
  BY EntriesFit DEF entry
<1>8. \A i \in 1..7 : pocs[i] = pd.dpb[slots[i]]
  BY <1>d DEF PocsOf
<1>9. (~pic.cut_short /\ \A r \in LAST2..GOLD : pd.dpb[slots[BWD]] # pd.dpb[slots[r]])
        => ~(counts.list1 < 1)
  <2>1. \A r \in LAST2..GOLD : r \in 1..7 /\ BWD \in 1..7
    BY DEF LAST2, GOLD, BWD
  <2>. HIDE DEF pocs
  <2>2. SUFFICES ASSUME ~pic.cut_short, \A r \in LAST2..GOLD : pd.dpb[slots[BWD]] # pd.dpb[slots[r]]
                 PROVE  ~(counts.list1 < 1)
    OBVIOUS
  <2>3. \A r \in LAST2..GOLD : pocs[BWD] # pocs[r]
    <3>1. BWD \in 1..7
      BY DEF BWD
    <3>. QED
      BY <1>8, <2>1, <2>2, <3>1
  <2>. QED
    BY <2>2, <2>3, ListOneKept, Zenon DEF counts
<1>. HIDE DEF pocs
<1>10. \A r \in 1..7 : refs[r] = slots[entry[r]] /\ ref_pocs[r] = pocs[entry[r]]
  BY DEF refs, ref_pocs
<1>11. Len(refs) = 7
  BY DEF refs
<1>12. \A r \in 1..7 : /\ p.refs[r] \in Slots
                       /\ p.ref_pocs[r] = pd.dpb[p.refs[r]]
                       /\ \E i \in 1..7 : p.refs[r] = slots[i]
  <2>1. ASSUME NEW r \in 1..7
        PROVE  /\ p.refs[r] = slots[entry[r]] /\ entry[r] \in 1..7
               /\ p.ref_pocs[r] = pd.dpb[slots[entry[r]]]
    BY <1>6, <1>7, <1>8, <1>10
  <2>. QED
    BY <1>d, <2>1
<1>13. p.refs[LAST] = slots[LAST]
  BY <1>6, <1>7, <1>10 DEF LAST
<1>14. ~(counts.list1 < 1) => p.refs[BWD] = slots[BWD]
  BY <1>6, <1>7, <1>10 DEF BWD
<1>. QED
  BY <1>5, <1>6, <1>9, <1>11, <1>12, <1>13, <1>14, Zenon DEF Decides, q, p, fresh, show,
     show_existing, dpb, slots

-----------------------------------------------------------------------------
(* Pass 3 over a complete mini-GOP of the pyramid.                          *)

\* The slot behind each name for a picture that is coded in its place, and the
\* picture in it.
SlotAt(pd) ==
  [B2 |-> pd.lay0, B1 |-> CircDec(pd.lay0, 0, 2), B0 |-> CircDec(CircDec(pd.lay0, 0, 2), 0, 2),
   L1c |-> LAY1_OFF + pd.lay1, L1p |-> CircDec(LAY1_OFF + pd.lay1, LAY1_OFF, LAY1_OFF + 1),
   L2 |-> LAY2_OFF, L3 |-> LAY3_OFF, L4 |-> LAY4_OFF]

Held(pd, name) == pd.dpb[SlotAt(pd)[name]]

LEMMA SlotIndexIs ==
  ASSUME NEW pd, NEW pic, ~pic.cut_short \/ pic.layer = 0
  PROVE  SlotIndex(pd, pic) = SlotAt(pd)
<1>. DEFINE ahead == pic.cut_short /\ pic.layer # 0
            b2    == IF ahead THEN CircInc(pd.lay0, 0, 2) ELSE pd.lay0
            b1    == CircDec(b2, 0, 2)
            l1    == IF ahead /\ pic.pic_idx < 2 ^ (pic.hier - 1) - 1 THEN 1 - pd.lay1 ELSE pd.lay1
<1>1. ~ahead
  OBVIOUS
<1>. HIDE DEF ahead
<1>2. b2 = pd.lay0 /\ l1 = pd.lay1
  BY <1>1, Zenon
<1>. QED
  BY <1>2, Zenon DEF SlotIndex, SlotAt, ahead

LEMMA SlotsAre ==
  ASSUME NEW pd \in Decision, pd.lay0 \in 0..2
  PROVE  /\ \A name \in SlotNames : SlotAt(pd)[name] \in Slots
         /\ {SlotAt(pd).B2, SlotAt(pd).B1, SlotAt(pd).B0} = 0..2
         /\ SlotAt(pd).B2 = pd.lay0
         /\ SlotAt(pd)["L1c"] = LAY1_OFF + pd.lay1
         /\ SlotAt(pd)["L1p"] = LAY1_OFF + 1 - pd.lay1
         /\ SlotAt(pd)["L2"] = 5 /\ SlotAt(pd)["L3"] = 6 /\ SlotAt(pd)["L4"] = 7
         /\ SlotAt(pd).B1 = CircDec(pd.lay0, 0, 2)
         /\ SlotAt(pd).B0 = CircDec(CircDec(pd.lay0, 0, 2), 0, 2)
<1>0. pd.lay1 \in 0..1
  BY DEF Decision
<1>1. SlotAt(pd).B2 = pd.lay0 /\ SlotAt(pd).B1 = CircDec(pd.lay0, 0, 2)
      /\ SlotAt(pd).B0 = CircDec(CircDec(pd.lay0, 0, 2), 0, 2)
  BY DEF SlotAt
<1>2. /\ SlotAt(pd).L1c = LAY1_OFF + pd.lay1
      /\ SlotAt(pd).L1p = CircDec(LAY1_OFF + pd.lay1, LAY1_OFF, LAY1_OFF + 1)
      /\ SlotAt(pd).L2 = LAY2_OFF /\ SlotAt(pd).L3 = LAY3_OFF /\ SlotAt(pd).L4 = LAY4_OFF
  BY DEF SlotAt
<1>3. SlotAt(pd).L1p = LAY1_OFF + 1 - pd.lay1
  BY <1>0, <1>2 DEF CircDec, LAY1_OFF
<1>4. {SlotAt(pd).B2, SlotAt(pd).B1, SlotAt(pd).B0} = 0..2
  BY <1>1 DEF CircDec
<1>5. \A name \in SlotNames : SlotAt(pd)[name] \in 0..7
  BY <1>0, <1>1, <1>2, <1>3, <1>4 DEF SlotNames, LAY1_OFF, LAY2_OFF, LAY3_OFF, LAY4_OFF, CircDec
<1>. QED
  BY <1>1, <1>2, <1>3, <1>4, <1>5 DEF Slots, LAY2_OFF, LAY3_OFF, LAY4_OFF

\* The base picture and the pictures around the k-th one to code are in the buffer,
\* when the mini-GOP follows the picture b; the rest of it is behind them.
Around(pd, h, b, k) ==
  /\ Held(pd, "B2") = b + Power[h + 1]
  /\ Held(pd, "B1") <= b /\ Held(pd, "B0") <= b /\ Held(pd, "L1p") <= b
  /\ \A l \in 1..4 : IF l < CodedLayer[h + 1][k]
                       THEN Held(pd, LayerName[l]) = b + Above(h, l, Coded[h + 1][k])
                       ELSE Held(pd, LayerName[l]) <= b + Left(h, k)

\* The buffer holds pictures from key on to picture last.
Within(pd, key, last) == \A s \in Slots : key <= pd.dpb[s] /\ pd.dpb[s] <= last

InGop(pd, h, b, key, k) ==
  /\ pd \in Decision /\ pd.ok /\ pd.lay0 \in 0..2
  /\ Within(pd, key, b + Power[h + 1])
  /\ Around(pd, h, b, k)

LEMMA HeldIsNat ==
  ASSUME NEW pd \in Decision, pd.lay0 \in 0..2, NEW name \in SlotNames
  PROVE  Held(pd, name) \in Nat
<1>1. SlotAt(pd)[name] \in Slots
  BY SlotsAre
<1>. QED
  BY <1>1 DEF Held, Decision

LEMMA NamesAre ==
  /\ \A l \in 1..4 : LayerName[l] \in SlotNames
  /\ \A l \in 1..4 : LayerName[l] \notin {"B2", "B1", "B0", "L1p"}
  /\ \A l, m \in 1..4 : LayerName[l] = LayerName[m] => l = m
  /\ \A name \in SlotNames :
        name \in {"B2", "B1", "B0", "L1p"} \/ \E l \in 1..4 : name = LayerName[l]
  /\ {"B2", "B1", "B0", "L1p"} \subseteq SlotNames
BY DEF LayerName, SlotNames

\* The pictures a picture can look ahead to are behind it, each in one slot, and
\* those it cannot are in front of it.
LEMMA HeldAround ==
  ASSUME NEW h \in 1..5, NEW k \in 2..Power[h + 1], NEW b \in Nat, NEW key \in Nat,
         NEW pd, InGop(pd, h, b, key, k), NEW i, i = Coded[h + 1][k],
         NEW layer, layer = CodedLayer[h + 1][k]
  PROVE  /\ i \in Nat
         /\ \A name \in SlotNames :
              IF Future(h, i, layer, name) THEN b + i < Held(pd, name) ELSE Held(pd, name) < b + i
         /\ \A m, n \in SlotNames : Future(h, i, layer, m) /\ Future(h, i, layer, n) /\ m # n
                                      => Held(pd, m) # Held(pd, n)
<1>1. Power[h + 1] \in 2..32 /\ k \in 1..Power[h + 1]
  BY PowerIs
<1>2. /\ i \in 1..Power[h + 1] /\ layer \in 0..h
      /\ i < Power[h + 1] /\ layer >= 1 /\ Left(h, k) \in 0..31 /\ Left(h, k) < i
  <2>1. OrderFits(h)
    BY CodingOrder
  <2>2. /\ Coded[h + 1][k] \in 1..Power[h + 1] /\ CodedLayer[h + 1][k] \in 0..h
        /\ Coded[h + 1][k] < Power[h + 1] /\ CodedLayer[h + 1][k] >= 1
        /\ Left(h, k) \in 0..31 /\ Left(h, k) < Coded[h + 1][k]
    BY <1>1, <2>1, Zenon DEF OrderFits
  <2>. QED
    BY <2>2
<1>3. \A l \in 1..4 : l < layer =>
        /\ Above(h, l, i) \in 1..31 /\ Above(h, l, i) < Power[h + 1] /\ Above(h, l, i) # i
        /\ \A m \in 1..(l - 1) : Above(h, m, i) # Above(h, l, i)
  <2>. SUFFICES ASSUME NEW l \in 1..4, l < layer
                PROVE  /\ Above(h, l, i) \in 1..31 /\ Above(h, l, i) < Power[h + 1]
                       /\ Above(h, l, i) # i
                       /\ \A m \in 1..(l - 1) : Above(h, m, i) # Above(h, l, i)
    OBVIOUS
  <2>1. h \in 0..5
    OBVIOUS
  <2>2. AboveFits(h, l) /\ Above(h, l, i) # i
    BY <2>1, CodingAbove, AboveIsOther, Zenon
  <2>. QED
    BY <2>2, Zenon DEF AboveFits
<1>4. \A l \in 1..4 : IF l < layer THEN Held(pd, LayerName[l]) = b + Above(h, l, i)
                                   ELSE Held(pd, LayerName[l]) <= b + Left(h, k)
  BY DEF InGop, Around
<1>5. /\ Held(pd, "B2") = b + Power[h + 1]
      /\ Held(pd, "B1") <= b /\ Held(pd, "B0") <= b /\ Held(pd, "L1p") <= b
  BY DEF InGop, Around
<1>6. \A name \in SlotNames : Held(pd, name) \in Nat
  BY HeldIsNat DEF InGop
<1>7. \A l \in 1..4 : Future(h, i, layer, LayerName[l]) <=> l < layer /\ i < Above(h, l, i)
  BY NamesAre DEF Future
<1>8. /\ Future(h, i, layer, "B2") /\ ~Future(h, i, layer, "B1") /\ ~Future(h, i, layer, "B0")
      /\ ~Future(h, i, layer, "L1p")
  BY DEF Future, LayerName
<1>9. ASSUME NEW l \in 1..4
      PROVE  IF Future(h, i, layer, LayerName[l]) THEN b + i < Held(pd, LayerName[l])
                                                  ELSE Held(pd, LayerName[l]) < b + i
  <2>1. Held(pd, LayerName[l]) \in Nat
    BY <1>6, NamesAre
  <2>2. CASE l < layer
    BY <1>2, <1>3, <1>4, <1>7, <2>1, <2>2
  <2>3. CASE ~(l < layer)
    BY <1>2, <1>4, <1>7, <2>1, <2>3
  <2>. QED
    BY <2>2, <2>3
<1>10. \A name \in {"B2", "B1", "B0", "L1p"} :
         IF Future(h, i, layer, name) THEN b + i < Held(pd, name) ELSE Held(pd, name) < b + i
  <2>1. Held(pd, "B1") \in Nat /\ Held(pd, "B0") \in Nat /\ Held(pd, "L1p") \in Nat
    BY <1>6, NamesAre
  <2>. QED
    BY <1>1, <1>2, <1>5, <1>8, <2>1
<1>11. \A m, n \in SlotNames : Future(h, i, layer, m) /\ Future(h, i, layer, n) /\ m # n
                                 => Held(pd, m) # Held(pd, n)
  <2>1. \A name \in SlotNames : Future(h, i, layer, name) =>
          name = "B2" \/ \E l \in 1..4 : name = LayerName[l] /\ l < layer
    BY DEF Future
  <2>2. \A l \in 1..4 : l < layer => Held(pd, LayerName[l]) # Held(pd, "B2")
    BY <1>1, <1>3, <1>4, <1>5
  <2>3. \A l, m \in 1..4 : l < layer /\ m < layer /\ l # m
                             => Held(pd, LayerName[l]) # Held(pd, LayerName[m])
    <3>1. ASSUME NEW l \in 1..4, NEW m \in 1..4, l < layer, m < layer, l # m
          PROVE  Above(h, l, i) # Above(h, m, i)
      <4>1. m \in 1..(l - 1) \/ l \in 1..(m - 1)
        BY <3>1
      <4>. QED
        BY <1>3, <3>1, <4>1
    <3>2. \A l \in 1..4 :
            l < layer => /\ Above(h, l, i) \in Nat
                         /\ Held(pd, LayerName[l]) = b + Above(h, l, i)
      BY <1>3, <1>4
    <3>. SUFFICES ASSUME NEW l \in 1..4, NEW m \in 1..4, l < layer, m < layer, l # m
                  PROVE  Held(pd, LayerName[l]) # Held(pd, LayerName[m])
      OBVIOUS
    <3>3. Above(h, l, i) # Above(h, m, i)
      BY <3>1
    <3>4. /\ Above(h, l, i) \in Nat /\ Held(pd, LayerName[l]) = b + Above(h, l, i)
          /\ Above(h, m, i) \in Nat /\ Held(pd, LayerName[m]) = b + Above(h, m, i)
      BY <3>2
    <3>. QED
      BY ONLY b \in Nat, <3>3, <3>4
  <2>4. ASSUME NEW m \in SlotNames, NEW n \in SlotNames, Future(h, i, layer, m),
               Future(h, i, layer, n), m # n
        PROVE  Held(pd, m) # Held(pd, n)
    <3>1. m = "B2" \/ \E l \in 1..4 : m = LayerName[l] /\ l < layer
      BY <2>1, <2>4
    <3>2. n = "B2" \/ \E l \in 1..4 : n = LayerName[l] /\ l < layer
      BY <2>1, <2>4
    <3>. QED
      BY <2>2, <2>3, <2>4, <3>1, <3>2, Zenon
  <2>. QED
    BY <2>4, Zenon
<1>12. \A name \in SlotNames :
         IF Future(h, i, layer, name) THEN b + i < Held(pd, name) ELSE Held(pd, name) < b + i
  <2>. SUFFICES ASSUME NEW name \in SlotNames
                PROVE  IF Future(h, i, layer, name) THEN b + i < Held(pd, name)
                                                    ELSE Held(pd, name) < b + i
    OBVIOUS
  <2>1. CASE name \in {"B2", "B1", "B0", "L1p"}
    BY <1>10, <2>1, Zenon
  <2>2. ASSUME NEW l \in 1..4, name = LayerName[l]
        PROVE  IF Future(h, i, layer, name) THEN b + i < Held(pd, name)
                                            ELSE Held(pd, name) < b + i
    BY <1>9, <2>2
  <2>. QED
    BY <2>1, <2>2, NamesAre, Zenon
<1>. QED
  BY <1>2, <1>11, <1>12

\* A B picture predicts from both sides, any other inter picture from the past only,
\* and one that is cut short from the picture right before it.
Brackets(pic) ==
  IF pic.cut_short \/ pic.layer = 0
    THEN /\ \A r \in 1..7 : pic.ref_pocs[r] < pic.poc
         /\ pic.cut_short => pic.ref_pocs[LAST] = pic.poc - 1
    ELSE pic.ref_pocs[LAST] < pic.poc /\ pic.poc < pic.ref_pocs[BWD]

\* A decided picture finds its references in the buffer d, none of them before the
\* key frame first, and leaves the buffer e; the pictures shown so far end before
\* due, then before next.
Links(first, pic, d, due, e, next) ==
  /\ pic.poc \in Nat /\ pic.show \in BOOLEAN /\ pic.refresh \subseteq Slots
  /\ \A r \in 1..Len(pic.refs) : d[pic.refs[r]] = pic.ref_pocs[r]
  /\ e = [s \in Slots |-> IF s \in pic.refresh THEN pic.poc ELSE d[s]]
  /\ pic.key => /\ pic.refs = <<>> /\ pic.refresh = Slots
                /\ pic.show /\ pic.show_existing = NoSlot
  /\ ~pic.key => /\ Len(pic.refs) = 7
                 /\ \A r \in 1..7 : pic.refs[r] \in Slots /\ first <= pic.ref_pocs[r]
                 /\ Brackets(pic)
  /\ ~pic.show => pic.show_existing = NoSlot /\ next = due
  /\ pic.show => /\ pic.poc = due
                 /\ \/ pic.show_existing = NoSlot /\ next = due + 1
                    \/ pic.show_existing \in Slots /\ e[pic.show_existing] = due + 1
                       /\ next = due + 2

\* The k-th picture to code of a complete mini-GOP of 2 ^ h pictures behind picture b.
InTurn(pic, h, b, k) ==
  /\ DOMAIN pic = PicFields
  /\ pic.poc = b + Coded[h + 1][k] /\ pic.hier = h /\ pic.layer = CodedLayer[h + 1][k]
  /\ pic.pic_idx = Coded[h + 1][k] - 1
  /\ pic.cut_short = FALSE /\ pic.key = FALSE /\ pic.held = FALSE

LEMMA NamesAreSet == "B2" # "" /\ \A l \in 1..4 : LayerName[l] # ""
BY DEF LayerName

LEMMA BRow ==
  ASSUME NEW c, Config(c), NEW h \in 1..5, NEW k \in 2..Power[h + 1], NEW b \in Nat,
         NEW pic, InTurn(pic, h, b, k)
  PROVE  /\ GoodRow(h, Coded[h + 1][k], CodedLayer[h + 1][k], RowOf(c, pic))
         /\ TopOf(pic) => GoodShow(h, Coded[h + 1][k]) /\ Shown(pic) # ""
<1>. DEFINE i == Coded[h + 1][k]
            layer == CodedLayer[h + 1][k]
            more == c.mrp.more_5l_refs # 0
            scheme == c.mrp.referencing_scheme
<1>1. pic.hier = h /\ pic.layer = layer /\ pic.pic_idx = i - 1
  BY Zenon DEF InTurn
<1>2. RowOf(c, pic) = SlotTable(h, layer, i - 1, scheme, more)
  BY <1>1, Zenon DEF RowOf
<1>3. more \in BOOLEAN /\ scheme \in 0..2
  BY DEF Config
<1>4. RowFits(h, i, layer)
  BY TableRows, Zenon
<1>5. GoodRow(h, i, layer, RowOf(c, pic))
  <2>. HIDE DEF more, scheme, i, layer
  <2>. QED
    BY <1>2, <1>3, <1>4, Zenon DEF RowFits
<1>6. TopOf(pic) => layer = h
  BY <1>1, Zenon DEF TopOf
<1>7. layer = h => GoodShow(h, i)
  BY ShowRows, Zenon
<1>8. Shown(pic) = ShowExistingSlot(h, i - 1)
  BY <1>1, Zenon DEF Shown
<1>9. GoodShow(h, i) => ShowExistingSlot(h, i - 1) # ""
  <2>. DEFINE name == ShowExistingSlot(h, i - 1)
  <2>1. GoodShow(h, i) => name = "B2" \/ \E l \in 1..4 : name = LayerName[l]
    BY Zenon DEF GoodShow
  <2>. HIDE DEF name, i
  <2>. QED
    BY <2>1, NamesAreSet, Zenon DEF name
<1>. QED
  BY <1>5, <1>6, <1>7, <1>8, <1>9, Zenon

LEMMA BAccepted ==
  ASSUME NEW c, Config(c), NEW h \in 1..5, NEW k \in 2..Power[h + 1], NEW b \in Nat,
         NEW key \in Nat, NEW pd, InGop(pd, h, b, key, k), NEW pic, InTurn(pic, h, b, k)
  PROVE  /\ Accepted(c, pd, pic)
         /\ \A r \in 1..7 : RowOf(c, pic)[r] \in SlotNames
                            /\ SlotsOf(c, pd, pic)[r] = SlotAt(pd)[RowOf(c, pic)[r]]
<1>. DEFINE row == RowOf(c, pic)
            slots == SlotsOf(c, pd, pic)
<1>1. /\ DOMAIN pic = PicFields /\ pic.hier = h /\ pic.layer = CodedLayer[h + 1][k]
      /\ pic.poc = b + Coded[h + 1][k] /\ ~pic.cut_short
  BY Zenon DEF InTurn
<1>2. pd \in Decision /\ pd.lay0 \in 0..2
  BY Zenon DEF InGop
<1>3. Len(row) = 7 /\ \A r \in 1..7 : row[r] \in SlotNames
  BY BRow, Zenon DEF GoodRow
<1>4. SlotIndex(pd, pic) = SlotAt(pd)
  BY <1>1, SlotIndexIs, Zenon
<1>5. slots = [r \in 1..7 |-> SlotAt(pd)[row[r]]]
  <2>1. pic.hier # 0
    BY <1>1
  <2>2. slots = [r \in 1..Len(row) |-> SlotIndex(pd, pic)[row[r]]]
    BY <2>1, Zenon DEF SlotsOf
  <2>. HIDE DEF slots, row
  <2>. QED
    BY <1>3, <1>4, <2>2, Zenon
<1>6. \A name \in SlotNames : SlotAt(pd)[name] \in Slots
  BY <1>2, SlotsAre
<1>. HIDE DEF slots, row
<1>7. Len(slots) = 7 /\ \A r \in 1..7 : slots[r] = SlotAt(pd)[row[r]] /\ slots[r] \in Slots
  BY <1>3, <1>5, <1>6
<1>8. pic.poc \in Nat /\ pic.layer \in 0..pic.hier
  <2>1. OrderFits(h) /\ k \in 1..Power[h + 1]
    BY CodingOrder
  <2>2. Coded[h + 1][k] \in 1..Power[h + 1] /\ CodedLayer[h + 1][k] \in 0..h
    BY <2>1, Zenon DEF OrderFits
  <2>. QED
    BY <1>1, <2>2
<1>9. ~(TopOf(pic) /\ Shown(pic) = "")
  BY BRow, Zenon
<1>10. pic.hier \in 0..5
  BY <1>1
<1>. QED
  BY <1>1, <1>2, <1>3, <1>7, <1>8, <1>9, <1>10, Zenon DEF Accepted, slots, row

\* The picture's references are around it.
LEMMA BLinks ==
  ASSUME NEW c, Config(c), NEW h \in 1..5, NEW k \in 2..Power[h + 1], NEW b \in Nat,
         NEW key \in Nat, NEW pd, InGop(pd, h, b, key, k), NEW pic, InTurn(pic, h, b, k),
         NEW q, NEW p, Decides(c, pd, pic, q, p), p.refresh \subseteq Slots
  PROVE  /\ Brackets(p)
         /\ \A r \in 1..7 : key <= p.ref_pocs[r]
<1>. DEFINE i == Coded[h + 1][k]
            layer == CodedLayer[h + 1][k]
            row == RowOf(c, pic)
            slots == SlotsOf(c, pd, pic)
<1>1. /\ pic.layer = layer /\ pic.poc = b + i /\ pic.cut_short = FALSE
  BY Zenon DEF InTurn
<1>2. /\ p.poc = b + i /\ p.layer = layer /\ p.cut_short = FALSE
  BY <1>1, Zenon DEF Decides
<1>3. /\ \A r \in 1..7 : row[r] \in SlotNames
      /\ ~Future(h, i, layer, row[LAST])
      /\ Future(h, i, layer, row[BWD])
      /\ \A r \in LAST2..GOLD : row[r] # row[BWD]
  BY BRow, Zenon DEF GoodRow
<1>4. \A r \in 1..7 : slots[r] = SlotAt(pd)[row[r]]
  <2>1. \A r \in 1..7 : RowOf(c, pic)[r] \in SlotNames
                        /\ SlotsOf(c, pd, pic)[r] = SlotAt(pd)[RowOf(c, pic)[r]]
    BY BAccepted
  <2>. QED
    BY <2>1
<1>5. /\ \A name \in SlotNames :
           IF Future(h, i, layer, name) THEN b + i < Held(pd, name) ELSE Held(pd, name) < b + i
      /\ \A m, n \in SlotNames : Future(h, i, layer, m) /\ Future(h, i, layer, n) /\ m # n
                                   => Held(pd, m) # Held(pd, n)
  BY HeldAround, Zenon
<1>6. /\ \A r \in 1..7 : p.refs[r] \in Slots /\ p.ref_pocs[r] = pd.dpb[p.refs[r]]
      /\ p.refs[LAST] = slots[LAST]
      /\ (~pic.cut_short /\ \A r \in LAST2..GOLD : pd.dpb[slots[BWD]] # pd.dpb[slots[r]])
           => p.refs[BWD] = slots[BWD]
  BY Zenon DEF Decides
<1>7. \A s \in Slots : key <= pd.dpb[s]
  BY Zenon DEF InGop, Within
<1>8. LAST \in 1..7 /\ BWD \in 1..7 /\ \A r \in LAST2..GOLD : r \in 1..7
  BY DEF LAST, BWD, LAST2, GOLD
<1>9. \A r \in 1..7 : pd.dpb[slots[r]] = Held(pd, row[r])
  BY <1>4, Zenon DEF Held
<1>10. layer # 0 /\ i \in Nat
  <2>1. OrderFits(h) /\ k \in 1..Power[h + 1]
    BY CodingOrder
  <2>2. layer >= 1 /\ i \in 1..Power[h + 1] /\ layer \in 0..h
    BY <2>1, Zenon DEF OrderFits
  <2>3. Power[h + 1] \in 2..32
    BY PowerIs
  <2>. HIDE DEF layer, i
  <2>. QED
    BY <2>2, <2>3
<1>. HIDE DEF i, layer, row, slots
<1>11. \A r \in LAST2..GOLD : Held(pd, row[BWD]) # Held(pd, row[r])
  <2>. SUFFICES ASSUME NEW r \in LAST2..GOLD
                PROVE  Held(pd, row[BWD]) # Held(pd, row[r])
    OBVIOUS
  <2>. DEFINE x == row[r]
              y == row[BWD]
  <2>1. x \in SlotNames /\ y \in SlotNames /\ x # y /\ Future(h, i, layer, y)
    BY <1>3, <1>8
  <2>. HIDE DEF x, y
  <2>2. ASSUME Future(h, i, layer, x)
        PROVE  Held(pd, y) # Held(pd, x)
    BY <1>5, <2>1, <2>2
  <2>3. ASSUME ~Future(h, i, layer, x)
        PROVE  Held(pd, y) # Held(pd, x)
    <3>. DEFINE v == Held(pd, x)
                w == Held(pd, y)
    <3>1. v < b + i /\ b + i < w
      BY <1>5, <2>1, <2>3
    <3>2. v \in Nat /\ w \in Nat
      BY <2>1, HeldIsNat, Zenon DEF InGop
    <3>. HIDE DEF v, w
    <3>3. v # w
      BY <1>10, <3>1, <3>2
    <3>. QED
      BY <3>3 DEF v, w
  <2>4. Held(pd, y) # Held(pd, x)
    BY <2>2, <2>3
  <2>. QED
    BY <2>4 DEF x, y
<1>12. p.refs[BWD] = slots[BWD]
  BY <1>1, <1>6, <1>8, <1>9, <1>11
<1>13. p.ref_pocs[LAST] = Held(pd, row[LAST]) /\ p.ref_pocs[BWD] = Held(pd, row[BWD])
  BY <1>6, <1>8, <1>9, <1>12
<1>14. Held(pd, row[LAST]) < b + i /\ b + i < Held(pd, row[BWD])
  BY <1>3, <1>5, <1>8
<1>15. Brackets(p)
  BY <1>2, <1>10, <1>13, <1>14, Zenon DEF Brackets
<1>16. \A r \in 1..7 : key <= p.ref_pocs[r]
  BY <1>6, <1>7
<1>. QED
  BY <1>15, <1>16

\* A B picture enters its layer's slot, or none, and leaves the others alone.
Enters(pd, pic, q) ==
  /\ q \in Decision /\ q.lay0 = pd.lay0
  /\ \A name \in {"B2", "B1", "B0"} : Held(q, name) = Held(pd, name)
  /\ Held(q, "L1p") = Held(pd, IF pic.layer = 1 THEN "L1c" ELSE "L1p")
  /\ \A l \in 1..4 : l # pic.layer => Held(q, LayerName[l]) = Held(pd, LayerName[l])
  /\ pic.layer \in 1..4 =>
       Held(q, LayerName[pic.layer]) \in
         IF pic.layer < pic.hier THEN {pic.poc}
         ELSE {pic.poc, Held(pd, LayerName[pic.layer]), Held(pd, "L1p")}
  /\ \A s \in Slots : q.dpb[s] \in {pic.poc, pd.dpb[s]}

LEMMA BHeld ==
  ASSUME NEW c, NEW pd \in Decision, pd.lay0 \in 0..2,
         NEW pic, pic.hier \in 1..5, pic.layer \in 1..pic.hier,
         NEW q, NEW p, Decides(c, pd, pic, q, p)
  PROVE  Enters(pd, pic, q)
<1>. DEFINE layer == pic.layer
            hier == pic.hier
            poc == pic.poc
            mask == p.refresh
<1>1. /\ q \in Decision /\ q.lay0 = FreshOf(c, pd, pic).lay0 /\ q.lay1 = FreshOf(c, pd, pic).lay1
      /\ q.dpb = [s \in Slots |-> IF s \in mask THEN poc ELSE pd.dpb[s]]
      /\ mask = FreshOf(c, pd, pic).mask
  BY Zenon DEF Decides
<1>2. layer \in 1..5 /\ hier \in 1..5 /\ layer <= hier
  OBVIOUS
<1>. DEFINE fresh == FreshOf(c, pd, pic)
<1>3. FreshIs(pd, pic, fresh)
  <2>1. hier \in 0..5 /\ layer \in 0..hier /\ (hier > 0 => pd.lay0 \in 0..2)
    OBVIOUS
  <2>. QED
    BY <2>1, FreshFits, Zenon
<1>4. q.lay0 = pd.lay0 /\ q.lay1 = (IF layer = 1 THEN 1 - pd.lay1 ELSE pd.lay1)
  BY <1>1, <1>2, <1>3 DEF FreshIs
<1>5. /\ layer = 1 => mask = {} \/ mask = {LAY1_OFF + q.lay1}
      /\ layer = 2 => mask = {} \/ mask = {5}
      /\ layer = 3 => mask = {} \/ mask = {6}
      /\ layer = 4 => mask = {} \/ mask = {7}
      /\ layer = 5 => mask = {}
      /\ layer < hier => mask # {}
  BY <1>1, <1>2, <1>3, <1>4 DEF FreshIs, LAY2_OFF, LAY3_OFF, LAY4_OFF
<1>. HIDE DEF fresh, mask, layer, hier, poc
<1>6. \A s \in Slots : q.dpb[s] = IF s \in mask THEN poc ELSE pd.dpb[s]
  BY <1>1
<1>7. pd.lay1 \in 0..1 /\ q.lay1 \in 0..1
  BY <1>1 DEF Decision
<1>8. /\ SlotAt(q)["B2"] = pd.lay0 /\ SlotAt(pd)["B2"] = pd.lay0
      /\ SlotAt(q)["B1"] = SlotAt(pd)["B1"] /\ SlotAt(q)["B0"] = SlotAt(pd)["B0"]
      /\ SlotAt(pd)["B1"] \in 0..2 /\ SlotAt(pd)["B0"] \in 0..2
      /\ SlotAt(pd)["L2"] = 5 /\ SlotAt(pd)["L3"] = 6 /\ SlotAt(pd)["L4"] = 7
      /\ SlotAt(q)["L2"] = 5 /\ SlotAt(q)["L3"] = 6 /\ SlotAt(q)["L4"] = 7
      /\ SlotAt(pd)["L1c"] = 3 + pd.lay1 /\ SlotAt(pd)["L1p"] = 4 - pd.lay1
      /\ SlotAt(q)["L1c"] = 3 + q.lay1 /\ SlotAt(q)["L1p"] = 4 - q.lay1
  BY <1>1, <1>4, <1>7, SlotsAre DEF LAY1_OFF
<1>9. \A name \in {"B2", "B1", "B0"} : Held(q, name) = Held(pd, name)
  <2>1. \A s \in 0..2 : s \in Slots /\ s \notin mask
    BY <1>2, <1>5, <1>7 DEF LAY1_OFF, Slots
  <2>2. \A name \in {"B2", "B1", "B0"} :
          SlotAt(q)[name] = SlotAt(pd)[name] /\ SlotAt(pd)[name] \in 0..2
    BY <1>8
  <2>. QED
    BY <1>6, <2>1, <2>2 DEF Held
<1>10. Held(q, "L1p") = Held(pd, IF layer = 1 THEN "L1c" ELSE "L1p")
  <2>1. SlotAt(q)["L1p"] \in Slots /\ SlotAt(q)["L1p"] \notin mask
    BY <1>2, <1>5, <1>7, <1>8 DEF LAY1_OFF, Slots
  <2>2. SlotAt(q)["L1p"] = SlotAt(pd)[IF layer = 1 THEN "L1c" ELSE "L1p"]
    BY <1>4, <1>7, <1>8
  <2>. QED
    BY <1>6, <2>1, <2>2 DEF Held
<1>11. /\ layer # 1 => Held(q, "L1c") = Held(pd, "L1c")
       /\ layer # 2 => Held(q, "L2") = Held(pd, "L2")
       /\ layer # 3 => Held(q, "L3") = Held(pd, "L3")
       /\ layer # 4 => Held(q, "L4") = Held(pd, "L4")
  <2>1. layer # 1 => SlotAt(q)["L1c"] = SlotAt(pd)["L1c"]
    BY <1>4, <1>8
  <2>2. /\ layer # 1 => SlotAt(q)["L1c"] \notin mask
        /\ layer # 2 => SlotAt(q)["L2"] \notin mask
        /\ layer # 3 => SlotAt(q)["L3"] \notin mask
        /\ layer # 4 => SlotAt(q)["L4"] \notin mask
    BY <1>2, <1>5, <1>7, <1>8 DEF LAY1_OFF
  <2>3. /\ SlotAt(q)["L1c"] \in Slots /\ SlotAt(q)["L2"] \in Slots
        /\ SlotAt(q)["L3"] \in Slots /\ SlotAt(q)["L4"] \in Slots
    BY <1>7, <1>8 DEF Slots
  <2>. QED
    BY <1>6, <1>8, <2>1, <2>2, <2>3 DEF Held
<1>12. ASSUME layer \in 1..4
       PROVE  Held(q, LayerName[layer]) \in
                IF layer < hier THEN {poc}
                ELSE {poc, Held(pd, LayerName[layer]), Held(pd, "L1p")}
  <2>. DEFINE s == SlotAt(q)[LayerName[layer]]
  <2>1. s \in Slots /\ (mask = {} \/ mask = {s})
    BY <1>5, <1>7, <1>8, <1>12 DEF LayerName, LAY1_OFF, Slots
  <2>2. s = SlotAt(pd)[LayerName[layer]] \/ s = SlotAt(pd)["L1p"]
    BY <1>4, <1>7, <1>8, <1>12 DEF LayerName
  <2>. HIDE DEF s
  <2>3. layer < hier => mask = {s}
    BY <1>5, <2>1
  <2>4. q.dpb[s] = IF mask = {s} THEN poc ELSE pd.dpb[s]
    BY <1>6, <2>1
  <2>5. Held(q, LayerName[layer]) = q.dpb[s]
    BY Zenon DEF Held, s
  <2>. QED
    BY <2>2, <2>3, <2>4, <2>5 DEF Held
<1>13. \A l \in 1..4 : l # layer => Held(q, LayerName[l]) = Held(pd, LayerName[l])
  <2>1. LayerName[1] = "L1c" /\ LayerName[2] = "L2" /\ LayerName[3] = "L3" /\ LayerName[4] = "L4"
    BY DEF LayerName
  <2>. SUFFICES ASSUME NEW l \in 1..4, l # layer
                PROVE  Held(q, LayerName[l]) = Held(pd, LayerName[l])
    OBVIOUS
  <2>2. l = 1 \/ l = 2 \/ l = 3 \/ l = 4
    OBVIOUS
  <2>3. CASE l = 1
    BY <1>11, <2>1, <2>3
  <2>4. CASE l = 2
    BY <1>11, <2>1, <2>4
  <2>5. CASE l = 3
    BY <1>11, <2>1, <2>5
  <2>6. CASE l = 4
    BY <1>11, <2>1, <2>6
  <2>. QED
    BY <2>2, <2>3, <2>4, <2>5, <2>6
<1>14. \A s \in Slots : q.dpb[s] \in {poc, pd.dpb[s]}
  BY <1>6
<1>. QED
  BY <1>1, <1>4, <1>9, <1>10, <1>12, <1>13, <1>14, Zenon DEF Enters, layer, hier, poc

\* A turn behind the base picture's: it codes the i-th picture, which is of the given
\* layer, and left pictures are in front of those it stands among.
Turn(h, i, layer, left) ==
  /\ Power[h + 1] \in 2..32 /\ i \in 1..(Power[h + 1] - 1) /\ layer \in 1..h
  /\ left \in 0..31 /\ left < i /\ (layer = h => i = left + 1)
  /\ \A l \in 1..4 : l < layer => Above(h, l, i) \in 1..31 /\ Above(h, l, i) < Power[h + 1]

LEMMA TurnFacts ==
  ASSUME NEW h \in 1..5, NEW k \in 2..Power[h + 1]
  PROVE  Turn(h, Coded[h + 1][k], CodedLayer[h + 1][k], Left(h, k))
<1>. DEFINE i == Coded[h + 1][k]
            layer == CodedLayer[h + 1][k]
            left == Left(h, k)
<1>1. Power[h + 1] \in 2..32 /\ k \in 1..Power[h + 1] /\ h \in 0..5
  BY PowerIs
<1>2. OrderFits(h) /\ \A l \in 1..4 : AboveFits(h, l)
  BY <1>1, CodingOrder, CodingAbove, Zenon
<1>3. /\ i \in 1..Power[h + 1] /\ layer \in 0..h /\ i < Power[h + 1] /\ layer >= 1
      /\ left \in 0..31 /\ left < i /\ (layer = h => i = left + 1)
  BY <1>1, <1>2, Zenon DEF OrderFits
<1>4. \A l \in 1..4 : l < layer => Above(h, l, i) \in 1..31 /\ Above(h, l, i) < Power[h + 1]
  BY <1>2, Zenon DEF AboveFits
<1>. HIDE DEF i, layer, left
<1>5. Turn(h, i, layer, left)
  BY <1>1, <1>3, <1>4 DEF Turn
<1>. QED
  BY <1>5 DEF i, layer, left

\* What the next turn finds around its picture.
Onward(h, k, i, layer, left, j, deeper, then) ==
  /\ deeper <= layer + 1
  /\ then = IF layer = h THEN left + 2 ELSE left
  /\ deeper <= layer => i <= then
  /\ layer < deeper => Above(h, layer, j) = i
  /\ \A l \in 1..4 : l < layer =>
       IF l < deeper THEN Above(h, l, j) = Above(h, l, i) ELSE Above(h, l, i) <= then

LEMMA TurnMovesOn ==
  ASSUME NEW h \in 1..5, NEW k \in 2..(Power[h + 1] - 1)
  PROVE  Onward(h, k, Coded[h + 1][k], CodedLayer[h + 1][k], Left(h, k),
                Coded[h + 1][k + 1], CodedLayer[h + 1][k + 1], Left(h, k + 1))
<1>1. h \in 0..5
  OBVIOUS
<1>2. NextFits(h) /\ \A l \in 1..4 : AboveFits(h, l)
  BY <1>1, CodingNext, CodingAbove, Zenon
<1>3. \A l \in 1..4 : l < CodedLayer[h + 1][k] =>
        IF l < CodedLayer[h + 1][k + 1]
          THEN Above(h, l, Coded[h + 1][k + 1]) = Above(h, l, Coded[h + 1][k])
          ELSE Above(h, l, Coded[h + 1][k]) <= Left(h, k + 1)
  BY <1>2, Zenon DEF AboveFits
<1>. QED
  BY <1>2, <1>3, Zenon DEF NextFits, Onward

\* A mini-GOP has one picture of layer 1, behind its base picture.
LEMMA LoneLayer ==
  \A h \in 1..5 : \A k \in 2..Power[h + 1] : CodedLayer[h + 1][k] = 1 => Left(h, k) = 0
<1>1. \A h \in 0..5 : \A k \in 2..Power[h + 1] : CodedLayer[h + 1][k] = 1 => Left(h, k) = 0
  BY DEF Coded, CodedLayer, Power, Left, Reach
<1>. QED
  BY <1>1

LEMMA BNext ==
  ASSUME NEW c, NEW h \in 1..5, NEW k \in 2..(Power[h + 1] - 1), NEW b \in Nat, NEW key \in Nat,
         key <= b, NEW pd, InGop(pd, h, b, key, k), NEW pic, InTurn(pic, h, b, k),
         NEW q, NEW p, Decides(c, pd, pic, q, p)
  PROVE  InGop(q, h, b, key, k + 1)
<1>. DEFINE i == Coded[h + 1][k]
            layer == CodedLayer[h + 1][k]
            left == Left(h, k)
            j == Coded[h + 1][k + 1]
            deeper == CodedLayer[h + 1][k + 1]
            then == Left(h, k + 1)
            n == Power[h + 1]
            now(l) == Held(pd, LayerName[l])
            next(l) == Held(q, LayerName[l])
            above(l) == Above(h, l, i)
<1>0. n \in 2..32
  BY PowerIs
<1>1. Turn(h, i, layer, left) /\ k \in 2..n
  <2>1. k \in 2..n
    BY <1>0
  <2>. QED
    BY <2>1, TurnFacts, Zenon
<1>2. Onward(h, k, i, layer, left, j, deeper, then)
  BY TurnMovesOn, Zenon
<1>3. pic.hier = h /\ pic.layer = layer /\ pic.poc = b + i
  BY Zenon DEF InTurn
<1>4. /\ pd \in Decision /\ pd.ok /\ pd.lay0 \in 0..2
      /\ Within(pd, key, b + n) /\ Around(pd, h, b, k)
  BY Zenon DEF InGop
<1>5. Enters(pd, pic, q)
  <2>1. pic.hier \in 1..5 /\ pic.layer \in 1..pic.hier
    BY <1>1, <1>3 DEF Turn
  <2>. QED
    BY <1>4, <2>1, BHeld, Zenon
<1>6. q.ok
  BY <1>4, Zenon DEF Decides
<1>7. /\ Held(pd, "B2") = b + n /\ Held(pd, "B1") <= b /\ Held(pd, "B0") <= b
      /\ Held(pd, "L1p") <= b
      /\ \A l \in 1..4 : IF l < layer THEN now(l) = b + above(l) ELSE now(l) <= b + left
  BY <1>4, Zenon DEF Around
<1>8. \A l \in 1..4 : now(l) \in Nat
  BY <1>4, HeldIsNat, NamesAre
<1>9. Held(pd, "L1p") \in Nat
  BY <1>4, HeldIsNat, NamesAre
<1>. HIDE DEF i, layer, left, j, deeper, then, n, now, next, above
<1>14. /\ q \in Decision /\ q.lay0 = pd.lay0
       /\ \A name \in {"B2", "B1", "B0"} : Held(q, name) = Held(pd, name)
       /\ Held(q, "L1p") = Held(pd, IF layer = 1 THEN "L1c" ELSE "L1p")
       /\ \A l \in 1..4 : l # layer => next(l) = now(l)
       /\ layer \in 1..4 => next(layer) \in IF layer < h THEN {b + i}
                                            ELSE {b + i, now(layer), Held(pd, "L1p")}
       /\ \A s \in Slots : q.dpb[s] \in {b + i, pd.dpb[s]}
  BY <1>3, <1>5, Zenon DEF Enters, next, now
<1>15. /\ n \in 2..32 /\ i \in 1..(n - 1) /\ layer \in 1..h
       /\ left \in 0..31 /\ left < i /\ (layer = h => i = left + 1)
       /\ \A l \in 1..4 : l < layer => above(l) \in 1..31 /\ above(l) < n
  BY <1>1, Zenon DEF Turn, n, above
<1>10. Within(q, key, b + n)
  <2>1. key <= b + i /\ b + i <= b + n
    BY <1>0, <1>15
  <2>. QED
    BY <1>4, <1>14, <2>1 DEF Within
<1>11. ASSUME NEW l \in 1..4
       PROVE  IF l < deeper THEN next(l) = b + Above(h, l, j) ELSE next(l) <= b + then
  <2>1. /\ deeper <= layer + 1
        /\ then = IF layer = h THEN left + 2 ELSE left
        /\ deeper <= layer => i <= then
        /\ layer < deeper => Above(h, layer, j) = i
        /\ l < layer => IF l < deeper THEN Above(h, l, j) = above(l) ELSE above(l) <= then
    BY <1>2, Zenon DEF Onward, above
  <2>2. deeper \in 0..h
    <3>1. OrderFits(h) /\ k + 1 \in 1..n
      BY <1>0, CodingOrder DEF n
    <3>. QED
      BY <3>1, Zenon DEF OrderFits, n, deeper
  <2>3. CASE l < layer
    <3>1. next(l) = b + above(l) /\ above(l) \in Nat
      BY <1>15, <1>14, <1>7, <2>3 
    <3>. QED
      BY <1>15, <2>1, <2>3, <3>1
  <2>4. CASE l = layer
    <3>1. l < h => next(l) = b + i
      BY <1>14, <2>4
    <3>2. next(l) = b + i \/ next(l) <= b + left
      <4>1. next(l) = b + i \/ next(l) = now(l) \/ next(l) = Held(pd, "L1p")
        BY <1>14, <2>4
      <4>2. now(l) <= b + left
        BY <1>7, <2>4
      <4>3. Held(pd, "L1p") <= b + left
        BY <1>15, <1>7, <1>9
      <4>. QED
        BY <4>1, <4>2, <4>3
    <3>3. CASE layer < deeper
      <4>1. l < h /\ l < deeper
        BY <1>15, <2>2, <2>4, <3>3
      <4>. QED
        BY <2>1, <2>4, <3>1, <3>3, <4>1
    <3>4. CASE deeper <= layer
      <4>1. i <= then /\ left <= then
        BY <1>15, <2>1, <3>4
      <4>2. b + i <= b + then /\ b + left <= b + then
        BY <1>15, <2>1, <4>1
      <4>3. next(l) <= b + then
        <5>1. next(l) = b + i \/ next(l) = now(l) \/ next(l) = Held(pd, "L1p")
          BY <1>14, <2>4
        <5>2. next(l) \in Nat
          BY <1>15, <1>8, <1>9, <5>1
        <5>. QED
          BY <1>15, <2>1, <3>2, <4>1, <4>2, <5>2
      <4>. QED
        BY <1>15, <2>2, <2>4, <3>4, <4>3
    <3>. QED
      BY <1>15, <2>2, <3>3, <3>4
  <2>5. CASE layer < l
    <3>1. next(l) = now(l) /\ now(l) <= b + left
      BY <1>15, <1>14, <1>7, <2>5
    <3>2. left <= then /\ ~(l < deeper)
      BY <1>15, <2>1, <2>2, <2>5
    <3>3. next(l) <= b + then
      BY <1>15, <1>8, <2>1, <3>1, <3>2
    <3>. QED
      BY <3>2, <3>3
  <2>. QED
    BY <1>15, <2>3, <2>4, <2>5
<1>12. Held(q, "L1p") <= b
  <2>1. CASE layer # 1
    BY <1>14, <1>7, <2>1
  <2>2. CASE layer = 1
    <3>1. now(1) <= b + left
      BY <1>7, <2>2
    <3>2. left = 0
      BY <1>1, <2>2, LoneLayer, Zenon DEF layer, left, n
    <3>. QED
      BY <1>14, <2>2, <3>1, <3>2 DEF now, LayerName
  <2>. QED
    BY <2>1, <2>2
<1>13. Around(q, h, b, k + 1)
  <2>1. Held(q, "B2") = b + n /\ Held(q, "B1") <= b /\ Held(q, "B0") <= b
    BY <1>14, <1>7
  <2>. QED
    BY <1>11, <1>12, <2>1, Zenon DEF Around, n, next, deeper, then, j
<1>. QED
  BY <1>4, <1>14, <1>6, <1>10, <1>13 DEF InGop, n

\* A picture of the top layer is shown, and the hidden one behind it right after; any
\* other stays hidden.
BShow(h, i, layer, left, b, p, q) ==
  IF layer = h
    THEN /\ p.show = TRUE /\ p.poc = b + left + 1
         /\ p.show_existing \in Slots /\ q.dpb[p.show_existing] = b + left + 2
    ELSE p.show = FALSE /\ p.show_existing = NoSlot

LEMMA BShows ==
  ASSUME NEW c, Config(c), NEW h \in 1..5, NEW k \in 2..Power[h + 1], NEW b \in Nat,
         NEW key \in Nat, NEW pd, InGop(pd, h, b, key, k), NEW pic, InTurn(pic, h, b, k),
         NEW q, NEW p, Decides(c, pd, pic, q, p)
  PROVE  BShow(h, Coded[h + 1][k], CodedLayer[h + 1][k], Left(h, k), b, p, q)
<1>. DEFINE i == Coded[h + 1][k]
            layer == CodedLayer[h + 1][k]
            left == Left(h, k)
            name == Shown(pic)
<1>1. Turn(h, i, layer, left)
  BY TurnFacts, Zenon
<1>2. /\ pic.hier = h /\ pic.layer = layer /\ pic.poc = b + i /\ pic.cut_short = FALSE
  BY Zenon DEF InTurn
<1>3. ~Direct(pic) /\ (TopOf(pic) <=> layer = h)
  <2>1. pic.hier # 0
    BY <1>2
  <2>. QED
    BY <1>2, <2>1, Zenon DEF Direct, TopOf
<1>4. /\ p.poc = b + i
      /\ p.show = (layer = h)
      /\ p.show_existing = IF layer = h THEN SlotIndex(pd, pic)[name] ELSE NoSlot
  <2>1. /\ p.poc = pic.poc /\ p.show = (Direct(pic) \/ pic.layer = pic.hier)
        /\ p.show_existing = IF TopOf(pic) THEN SlotIndex(pd, pic)[name] ELSE NoSlot
    BY Zenon DEF Decides
  <2>2. p.show = (layer = h)
    <3>1. p.show = (Direct(pic) \/ layer = h)
      BY <1>2, <2>1, Zenon
    <3>2. (Direct(pic) \/ layer = h) = (layer = h)
      BY <1>3
    <3>. QED
      BY <3>1, <3>2, Zenon
  <2>. QED
    BY <1>2, <1>3, <2>1, <2>2, Zenon
<1>5. pd \in Decision /\ pd.lay0 \in 0..2 /\ Around(pd, h, b, k)
  BY Zenon DEF InGop
<1>6. SlotIndex(pd, pic) = SlotAt(pd)
  BY <1>2, SlotIndexIs, Zenon
<1>7. Enters(pd, pic, q)
  <2>1. pic.hier \in 1..5 /\ pic.layer \in 1..pic.hier
    BY <1>1, <1>2 DEF Turn
  <2>. QED
    BY <1>5, <2>1, BHeld, Zenon
<1>8. q.lay0 = pd.lay0 /\ (layer # 1 => q.lay1 = pd.lay1)
  <2>1. q.lay0 = pd.lay0
    BY <1>7, Zenon DEF Enters
  <2>2. q.lay1 = FreshOf(c, pd, pic).lay1
    BY Zenon DEF Decides
  <2>3. FreshIs(pd, pic, FreshOf(c, pd, pic))
    <3>1. pic.hier \in 0..5 /\ pic.layer \in 0..pic.hier /\ (pic.hier > 0 => pd.lay0 \in 0..2)
      BY <1>1, <1>2, <1>5 DEF Turn
    <3>. QED
      BY <1>5, <3>1, FreshFits, Zenon
  <2>4. layer # 1 => q.lay1 = pd.lay1
    BY <1>2, <2>2, <2>3, Zenon DEF FreshIs
  <2>. QED
    BY <2>1, <2>4
<1>9. ASSUME layer = h
      PROVE  /\ SlotAt(pd)[name] \in Slots
             /\ q.dpb[SlotAt(pd)[name]] = b + i + 1
  <2>1. GoodShow(h, i)
    BY <1>3, <1>9, BRow, Zenon
  <2>2. name = ShowExistingSlot(h, i - 1)
    <3>1. pic.pic_idx = i - 1
      BY Zenon DEF InTurn
    <3>. QED
      BY <1>2, <3>1, Zenon DEF Shown
  <2>3. \/ name = "B2" /\ i + 1 = Power[h + 1]
        \/ \E l \in 1..4 : name = LayerName[l] /\ l < h /\ i + 1 = Above(h, l, i)
    BY <2>1, <2>2, Zenon DEF GoodShow
  <2>4. name \in SlotNames
    BY <2>3, NamesAre, Zenon
  <2>5. SlotAt(pd)[name] \in Slots
    BY <1>5, <2>4, SlotsAre, Zenon
  <2>6. Held(pd, name) = b + i + 1
    <3>1. CASE name = "B2" /\ i + 1 = Power[h + 1]
      <4>1. Held(pd, "B2") = b + Power[h + 1]
        BY <1>5, Zenon DEF Around
      <4>. QED
        BY <1>1, <3>1, <4>1 DEF Turn
    <3>2. ASSUME NEW l \in 1..4, name = LayerName[l], l < h, i + 1 = Above(h, l, i)
          PROVE  Held(pd, name) = b + i + 1
      <4>1. l < layer => Held(pd, LayerName[l]) = b + Above(h, l, i)
        BY <1>5, Zenon DEF Around
      <4>2. l < layer
        BY <1>9, <3>2, Zenon
      <4>3. Held(pd, name) = b + (i + 1)
        BY <3>2, <4>1, <4>2, Zenon
      <4>. QED
        BY <1>1, <4>3 DEF Turn
    <3>. QED
      BY <2>3, <3>1, <3>2, Zenon
  <2>7. Held(q, name) = Held(pd, name)
    <3>1. /\ Held(q, "B2") = Held(pd, "B2")
          /\ \A l \in 1..4 : l # pic.layer => Held(q, LayerName[l]) = Held(pd, LayerName[l])
      BY <1>7, Zenon DEF Enters
    <3>2. \A l \in 1..4 : l < h => l # pic.layer
      BY <1>2, <1>9
    <3>. QED
      BY <2>3, <3>1, <3>2, Zenon
  <2>8. SlotAt(q)[name] = SlotAt(pd)[name]
    <3>1. name = "B2" \/ layer # 1
      BY <1>9, <2>3
    <3>2. SlotAt(q)["B2"] = SlotAt(pd)["B2"]
      BY <1>8 DEF SlotAt
    <3>3. layer # 1 => SlotAt(q) = SlotAt(pd)
      BY <1>8, Zenon DEF SlotAt
    <3>. QED
      BY <3>1, <3>2, <3>3, Zenon
  <2>9. q.dpb[SlotAt(q)[name]] = Held(q, name)
    BY Zenon DEF Held
  <2>. QED
    BY <2>5, <2>6, <2>7, <2>8, <2>9, Zenon
<1>. HIDE DEF i, layer, left, name
<1>10. i \in Nat /\ left \in Nat /\ (layer = h => i = left + 1)
  BY <1>1 DEF Turn
<1>11. BShow(h, i, layer, left, b, p, q)
  <2>1. CASE layer = h
    <3>1. p.show = TRUE
      <4>1. (layer = h) = TRUE
        BY <2>1
      <4>. QED
        BY <1>4, <4>1, Zenon
    <3>4. p.poc = b + left + 1
      <4>1. i = left + 1 /\ p.poc = b + i
        BY <1>4, <1>10, <2>1, Zenon
      <4>. QED
        BY <1>10, <4>1
    <3>2. p.show_existing \in Slots /\ q.dpb[p.show_existing] = b + i + 1
      BY <1>4, <1>6, <1>9, <2>1, Zenon
    <3>3. b + i + 1 = b + left + 2
      BY <1>10, <2>1
    <3>. QED
      BY <2>1, <3>1, <3>2, <3>3, <3>4, Zenon DEF BShow
  <2>2. CASE layer # h
    <3>1. p.show = FALSE /\ p.show_existing = NoSlot
      BY <1>4, <2>2
    <3>. QED
      BY <2>2, <3>1, Zenon DEF BShow
  <2>. QED
    BY <2>1, <2>2
<1>. QED
  BY <1>11, Zenon DEF i, layer, left

\* Pass 3 accepts a picture of display order poc: it joins the emit order, finds its
\* references and leaves the pictures shown so far ahead of next.
Codes(first, acc, poc, due, r, next) ==
  /\ r.pd \in Decision /\ r.pd.ok
  /\ r.pd.position = acc.pd.position /\ r.pd.base = acc.pd.base /\ r.pd.alt = acc.pd.alt
  /\ \E p : /\ r.emit = Append(acc.emit, p) /\ p.poc = poc
            /\ Links(first, p, acc.pd.dpb, due, r.pd.dpb, next)

\* Links of an inter picture, from its parts.
LEMMA InterLinks ==
  ASSUME NEW c, NEW pd, NEW pic, NEW q, NEW p, Decides(c, pd, pic, q, p),
         pic.poc \in Nat, pic.key = FALSE, p.refresh \subseteq Slots, p.show \in BOOLEAN,
         NEW first, Brackets(p), \A r \in 1..7 : first <= p.ref_pocs[r],
         NEW due, NEW next,
         ~p.show => p.show_existing = NoSlot /\ next = due,
         p.show => /\ p.poc = due
                   /\ \/ p.show_existing = NoSlot /\ next = due + 1
                      \/ p.show_existing \in Slots /\ q.dpb[p.show_existing] = due + 1
                         /\ next = due + 2
  PROVE  Links(first, p, pd.dpb, due, q.dpb, next)
<1>1. /\ q.dpb = [s \in Slots |-> IF s \in p.refresh THEN p.poc ELSE pd.dpb[s]]
      /\ p.poc = pic.poc /\ p.key = pic.key /\ Len(p.refs) = 7
      /\ \A r \in 1..7 : p.refs[r] \in Slots /\ p.ref_pocs[r] = pd.dpb[p.refs[r]]
  BY Zenon DEF Decides
<1>2. ~p.key
  BY <1>1
<1>3. \A r \in 1..Len(p.refs) : pd.dpb[p.refs[r]] = p.ref_pocs[r]
  BY <1>1, Zenon
<1>4. p.poc \in Nat
  BY <1>1, Zenon
<1>. QED
  BY <1>1, <1>2, <1>3, <1>4, Zenon DEF Links

\* PassThree of an inter picture that is not rejected.
LEMMA PassThreeInter ==
  ASSUME NEW c, NEW acc, acc.pd.ok, NEW pic, pic.key = FALSE, pic.held = FALSE,
         DecideInter(c, acc.pd, pic).pd.ok
  PROVE  PassThree(c, acc, pic) = [pd   |-> DecideInter(c, acc.pd, pic).pd,
                                   emit |-> Append(acc.emit, DecideInter(c, acc.pd, pic).pic)]
<1>. DEFINE d == DecideInter(c, acc.pd, pic)
            e == IF pic.key THEN DecideKey(acc.pd, pic) ELSE d
<1>1. PassThree(c, acc, pic) =
        IF acc.pd.ok
          THEN [pd   |-> e.pd,
                emit |-> IF e.pd.ok /\ ~pic.held THEN Append(acc.emit, e.pic) ELSE acc.emit]
          ELSE acc
  BY Zenon DEF PassThree
<1>. HIDE DEF d
<1>2. e = d
  OBVIOUS
<1>. HIDE DEF e
<1>3. d.pd.ok /\ ~pic.held
  BY DEF d
<1>. QED
  BY <1>1, <1>2, <1>3, Zenon DEF d

LEMMA BCodes ==
  ASSUME NEW c, Config(c), NEW h \in 1..5, NEW k \in 2..Power[h + 1], NEW b \in Nat,
         NEW key \in Nat, NEW acc, InGop(acc.pd, h, b, key, k), NEW pic, InTurn(pic, h, b, k)
  PROVE  /\ Codes(key, acc, b + Coded[h + 1][k], b + Left(h, k) + 1, PassThree(c, acc, pic),
                  b + Left(h, k) + IF CodedLayer[h + 1][k] = h THEN 3 ELSE 1)
         /\ \E p : Decides(c, acc.pd, pic, PassThree(c, acc, pic).pd, p)
<1>. DEFINE pd == acc.pd
            i == Coded[h + 1][k]
            layer == CodedLayer[h + 1][k]
            left == Left(h, k)
            due == b + left + 1
            next == b + left + IF layer = h THEN 3 ELSE 1
            d == DecideInter(c, pd, pic)
            q == d.pd
            p == d.pic
            r == PassThree(c, acc, pic)
<1>1. pd \in Decision /\ pd.ok /\ pd.lay0 \in 0..2
  BY Zenon DEF InGop
<1>2. pic.key = FALSE /\ pic.held = FALSE /\ pic.poc = b + i /\ pic.hier = h /\ pic.layer = layer
  BY Zenon DEF InTurn
<1>3. Turn(h, i, layer, left)
  BY TurnFacts, Zenon
<1>4. Accepted(c, pd, pic)
  BY BAccepted, Zenon
<1>5. Decides(c, pd, pic, q, p)
  BY <1>1, <1>4, InterDecides, Zenon
<1>6. /\ q \in Decision /\ q.ok /\ q.position = pd.position /\ q.base = pd.base /\ q.alt = pd.alt
      /\ p.poc = pic.poc /\ p.refresh = FreshOf(c, pd, pic).mask
  BY <1>1, <1>5, Zenon DEF Decides
<1>7. r = [pd |-> q, emit |-> Append(acc.emit, p)]
  BY <1>1, <1>2, <1>6, PassThreeInter, Zenon
<1>8. r.pd = q /\ r.emit = Append(acc.emit, p)
  <2>. HIDE DEF r, q, p
  <2>. QED
    BY <1>7
<1>9. p.refresh \subseteq Slots
  <2>1. pic.hier \in 0..5 /\ pic.layer \in 0..pic.hier /\ (pic.hier > 0 => pd.lay0 \in 0..2)
    BY <1>1, <1>2, <1>3 DEF Turn
  <2>2. FreshIs(pd, pic, FreshOf(c, pd, pic))
    BY <1>1, <2>1, FreshFits, Zenon
  <2>. QED
    BY <1>6, <2>2, Zenon DEF FreshIs
<1>10. Brackets(p) /\ \A s \in 1..7 : key <= p.ref_pocs[s]
  BY <1>5, <1>9, BLinks, Zenon
<1>11. BShow(h, i, layer, left, b, p, q)
  BY <1>5, BShows, Zenon
<1>. HIDE DEF q, p, r, d, i, layer, left
<1>12. left \in Nat /\ i \in Nat
  BY <1>3 DEF Turn
<1>13. p.show \in BOOLEAN
  BY <1>11 DEF BShow
<1>14. ~p.show => p.show_existing = NoSlot /\ next = due
  BY <1>11, <1>12 DEF BShow
<1>15. p.show => /\ p.poc = due
                 /\ p.show_existing \in Slots /\ q.dpb[p.show_existing] = due + 1
                 /\ next = due + 2
  BY <1>11, <1>12 DEF BShow
<1>16. pic.poc \in Nat
  BY <1>2, <1>12
<1>17. Links(key, p, pd.dpb, due, q.dpb, next)
  <2>. HIDE DEF due, next, pd
  <2>. QED
    BY <1>2, <1>5, <1>9, <1>10, <1>13, <1>14, <1>15, <1>16, InterLinks, Zenon
<1>18. Codes(key, acc, b + i, due, r, next)
  <2>. HIDE DEF due, next
  <2>. QED
    BY <1>2, <1>6, <1>8, <1>17, Zenon DEF Codes
<1>. QED
  BY <1>5, <1>8, <1>18, Zenon DEF i, layer, left, r, q, p

\* Between two mini-GOPs of the pyramid: the newest base picture is the last picture.
AtRest(pd, key, last) ==
  pd.lay0 \in 0..2 /\ Within(pd, key, last) /\ pd.dpb[pd.lay0] = last

LEMMA BLast ==
  ASSUME NEW c, NEW h \in 1..5, NEW b \in Nat, NEW key \in Nat, key <= b,
         NEW pd, InGop(pd, h, b, key, Power[h + 1]), NEW pic, InTurn(pic, h, b, Power[h + 1]),
         NEW q, NEW p, Decides(c, pd, pic, q, p)
  PROVE  AtRest(q, key, b + Power[h + 1])
<1>. DEFINE n == Power[h + 1]
            i == Coded[h + 1][n]
            layer == CodedLayer[h + 1][n]
<1>0. n \in 2..32 /\ n \in 2..n
  BY PowerIs
<1>1. Turn(h, i, layer, Left(h, n))
  BY <1>0, TurnFacts, Zenon
<1>2. pic.hier = h /\ pic.layer = layer /\ pic.poc = b + i
  BY Zenon DEF InTurn
<1>3. pd \in Decision /\ pd.lay0 \in 0..2 /\ Within(pd, key, b + n) /\ Held(pd, "B2") = b + n
  BY Zenon DEF InGop, Around
<1>4. Enters(pd, pic, q)
  <2>1. pic.hier \in 1..5 /\ pic.layer \in 1..pic.hier
    BY <1>1, <1>2 DEF Turn
  <2>. QED
    BY <1>3, <2>1, BHeld, Zenon
<1>5. /\ q.lay0 = pd.lay0 /\ Held(q, "B2") = Held(pd, "B2")
      /\ \A s \in Slots : q.dpb[s] \in {b + i, pd.dpb[s]}
  BY <1>2, <1>4, Zenon DEF Enters
<1>6. SlotAt(q)["B2"] = q.lay0
  BY DEF SlotAt
<1>7. q.dpb[q.lay0] = b + n
  BY <1>3, <1>5, <1>6, Zenon DEF Held
<1>8. i \in 1..(n - 1)
  BY <1>1, Zenon DEF Turn
<1>. HIDE DEF n, i
<1>9. key <= b + i /\ b + i <= b + n
  BY <1>0, <1>8
<1>10. Within(q, key, b + n)
  BY <1>3, <1>5, <1>9 DEF Within
<1>. QED
  BY <1>3, <1>5, <1>7, <1>10, Zenon DEF AtRest, n

-----------------------------------------------------------------------------
(* The base picture of a complete mini-GOP.                                 *)

LEMMA BaseRows ==
  \A h \in 1..5, more \in BOOLEAN :
    Len(BaseRow(h, more)) = 7 /\ \A r \in 1..7 : BaseRow(h, more)[r] \in SlotNames
BY DEF BaseRow, SlotNames

\* A picture that predicts from the past only, and stays hidden.
LEMMA BaseAccepted ==
  ASSUME NEW c, Config(c), NEW h \in 1..5, NEW b \in Nat,
         NEW pd \in Decision, pd.lay0 \in 0..2, NEW pic, InTurn(pic, h, b, 1)
  PROVE  Accepted(c, pd, pic)
<1>. DEFINE row == RowOf(c, pic)
            slots == SlotsOf(c, pd, pic)
            more == c.mrp.more_5l_refs # 0
<1>1. OrderFits(h) /\ Power[h + 1] \in 2..32
  BY CodingOrder, PowerIs
<1>2. /\ DOMAIN pic = PicFields /\ pic.hier = h /\ pic.layer = 0
      /\ pic.poc = b + Power[h + 1] /\ ~pic.cut_short
  BY <1>1, Zenon DEF InTurn, OrderFits
<1>3. row = BaseRow(h, more)
  <2>1. row = SlotTable(h, 0, pic.pic_idx, c.mrp.referencing_scheme, more)
    BY <1>2, Zenon DEF RowOf
  <2>2. ~(h \notin 1..5 \/ 0 > h)
    OBVIOUS
  <2>. HIDE DEF row, more
  <2>. QED
    BY <2>1, <2>2 DEF SlotTable
<1>4. Len(row) = 7 /\ \A r \in 1..7 : row[r] \in SlotNames
  <2>1. more \in BOOLEAN
    OBVIOUS
  <2>. HIDE DEF row, more
  <2>. QED
    BY <1>3, <2>1, BaseRows, Zenon
<1>5. SlotIndex(pd, pic) = SlotAt(pd)
  BY <1>2, SlotIndexIs, Zenon
<1>6. slots = [r \in 1..7 |-> SlotAt(pd)[row[r]]]
  <2>1. pic.hier # 0
    BY <1>2
  <2>2. slots = [r \in 1..Len(row) |-> SlotIndex(pd, pic)[row[r]]]
    BY <2>1, Zenon DEF SlotsOf
  <2>. HIDE DEF slots, row
  <2>. QED
    BY <1>4, <1>5, <2>2, Zenon
<1>7. \A name \in SlotNames : SlotAt(pd)[name] \in Slots
  BY SlotsAre
<1>. HIDE DEF slots, row
<1>8. Len(slots) = 7 /\ \A r \in 1..7 : slots[r] \in Slots
  BY <1>4, <1>6, <1>7
<1>9. pic.poc \in Nat /\ pic.layer \in 0..pic.hier /\ pic.hier \in 0..5
  BY <1>1, <1>2
<1>10. ~TopOf(pic)
  <2>1. pic.layer # pic.hier
    BY <1>2
  <2>. QED
    BY <2>1, Zenon DEF TopOf
<1>. QED
  BY <1>2, <1>8, <1>9, <1>10, Zenon DEF Accepted, slots

LEMMA BaseCodes ==
  ASSUME NEW c, Config(c), NEW h \in 1..5, NEW b \in Nat, NEW key \in Nat, key <= b,
         NEW acc, acc.pd \in Decision, acc.pd.ok, AtRest(acc.pd, key, b),
         NEW pic, InTurn(pic, h, b, 1)
  PROVE  /\ Codes(key, acc, b + Coded[h + 1][1], b + 1, PassThree(c, acc, pic), b + 1)
         /\ InGop(PassThree(c, acc, pic).pd, h, b, key, 2)
<1>. DEFINE pd == acc.pd
            n == Power[h + 1]
            d == DecideInter(c, pd, pic)
            q == d.pd
            p == d.pic
            r == PassThree(c, acc, pic)
            due == b + 1
<1>1. OrderFits(h) /\ n \in 2..32
  BY CodingOrder, PowerIs
<1>2. /\ pic.key = FALSE /\ pic.held = FALSE /\ pic.hier = h /\ pic.layer = 0
      /\ pic.poc = b + n /\ ~pic.cut_short /\ Coded[h + 1][1] = n
  BY <1>1, Zenon DEF InTurn, OrderFits
<1>3. pd \in Decision /\ pd.ok /\ pd.lay0 \in 0..2 /\ Within(pd, key, b) /\ pd.dpb[pd.lay0] = b
  BY Zenon DEF AtRest
<1>4. Accepted(c, pd, pic)
  BY <1>3, BaseAccepted, Zenon
<1>5. Decides(c, pd, pic, q, p)
  BY <1>3, <1>4, InterDecides, Zenon
<1>6. /\ q \in Decision /\ q.ok /\ q.position = pd.position /\ q.base = pd.base /\ q.alt = pd.alt
      /\ p.poc = pic.poc /\ p.refresh = FreshOf(c, pd, pic).mask
      /\ q.lay0 = FreshOf(c, pd, pic).lay0 /\ q.lay1 = FreshOf(c, pd, pic).lay1
      /\ q.dpb = [s \in Slots |-> IF s \in p.refresh THEN pic.poc ELSE pd.dpb[s]]
      /\ p.cut_short = pic.cut_short /\ p.layer = pic.layer
      /\ \A s \in 1..7 : p.refs[s] \in Slots /\ p.ref_pocs[s] = pd.dpb[p.refs[s]]
  BY <1>3, <1>5, Zenon DEF Decides
<1>7. r = [pd |-> q, emit |-> Append(acc.emit, p)]
  <2>1. pic.key = FALSE /\ pic.held = FALSE /\ acc.pd.ok /\ q.ok
    BY <1>2, <1>6, Zenon
  <2>. QED
    BY <2>1, PassThreeInter, Zenon
<1>8. r.pd = q /\ r.emit = Append(acc.emit, p)
  <2>. HIDE DEF r, q, p
  <2>. QED
    BY <1>7
<1>9. FreshIs(pd, pic, FreshOf(c, pd, pic))
  <2>1. pic.hier \in 0..5 /\ pic.layer \in 0..pic.hier /\ (pic.hier > 0 => pd.lay0 \in 0..2)
    BY <1>2, <1>3
  <2>. QED
    BY <1>3, <2>1, FreshFits, Zenon
<1>10. ~Direct(pic) /\ ~TopOf(pic) /\ pic.layer # pic.hier
  <2>1. pic.layer # pic.hier /\ pic.hier # 0
    BY <1>2
  <2>. QED
    BY <1>2, <2>1, Zenon DEF TopOf, Direct
<1>11. p.show = FALSE /\ p.show_existing = NoSlot
  <2>1. p.show = (Direct(pic) \/ pic.layer = pic.hier)
        /\ p.show_existing = IF TopOf(pic) THEN SlotIndex(pd, pic)[Shown(pic)] ELSE NoSlot
    BY <1>5, Zenon DEF Decides
  <2>2. (Direct(pic) \/ pic.layer = pic.hier) = FALSE
    BY <1>10
  <2>. QED
    BY <1>10, <2>1, <2>2, Zenon
<1>. HIDE DEF q, p, r, d
<1>12. /\ p.refresh \subseteq Slots /\ p.refresh = {q.lay0} /\ q.lay1 = pd.lay1
       /\ q.lay0 = CircInc(pd.lay0, 0, 2)
  <2>1. pic.hier # 0 /\ pic.layer # 1
    BY <1>2
  <2>. QED
    BY <1>2, <1>6, <1>9, <2>1, Zenon DEF FreshIs
<1>13. q.lay0 \in 0..2 /\ q.lay0 # pd.lay0
  BY <1>3, <1>12 DEF CircInc
<1>14. \A s \in Slots : pd.dpb[s] \in Nat
  BY <1>3 DEF Decision
<1>15. \A s \in 1..7 : key <= p.ref_pocs[s] /\ p.ref_pocs[s] <= b
  BY <1>3, <1>6, Zenon DEF Within
<1>16. \A s \in 1..7 : p.ref_pocs[s] \in Nat
  BY <1>6, <1>14, Zenon
<1>. HIDE DEF n
<1>17. b < b + n /\ b <= b + n /\ key <= b + n
  BY <1>1
<1>18. Brackets(p)
  <2>1. \A s \in 1..7 : p.ref_pocs[s] < p.poc
    BY <1>1, <1>2, <1>6, <1>15, <1>16
  <2>. QED
    BY <1>2, <1>6, <2>1, Zenon DEF Brackets
<1>19. pic.poc \in Nat /\ p.show \in BOOLEAN
  <2>1. b + n \in Nat
    BY <1>1
  <2>. QED
    BY <1>2, <1>11, <2>1, Zenon
<1>20. Links(key, p, pd.dpb, due, q.dpb, due)
  <2>1. ~p.show /\ ~p.show => p.show_existing = NoSlot /\ due = due
    BY <1>11
  <2>2. p.show => /\ p.poc = due
                  /\ \/ p.show_existing = NoSlot /\ due = due + 1
                     \/ p.show_existing \in Slots /\ q.dpb[p.show_existing] = due + 1
                        /\ due = due + 2
    BY <1>11
  <2>. HIDE DEF due, pd
  <2>. QED
    BY <1>2, <1>5, <1>11, <1>12, <1>15, <1>18, <1>19, <2>1, <2>2, InterLinks, Zenon
<1>21. Codes(key, acc, b + n, due, r, due)
  <2>. HIDE DEF due
  <2>. QED
    BY <1>2, <1>6, <1>8, <1>20, Zenon DEF Codes
<1>22. \A s \in Slots : q.dpb[s] = IF s = q.lay0 THEN b + n ELSE pd.dpb[s]
  BY <1>2, <1>6, <1>12
<1>23. Within(q, key, b + n)
  <2>. SUFFICES ASSUME NEW s \in Slots
                PROVE  key <= q.dpb[s] /\ q.dpb[s] <= b + n
    BY DEF Within
  <2>1. key <= pd.dpb[s] /\ pd.dpb[s] <= b /\ pd.dpb[s] \in Nat
    BY <1>3, <1>14 DEF Within
  <2>. QED
    BY <1>1, <1>22, <2>1
<1>24. /\ SlotAt(q)["B2"] = q.lay0 /\ SlotAt(q)["B1"] \in 0..2 /\ SlotAt(q)["B0"] \in 0..2
       /\ SlotAt(q)["B1"] # q.lay0 /\ SlotAt(q)["B0"] # q.lay0
  BY <1>13 DEF SlotAt, CircDec
<1>25. \A name \in SlotNames : name \notin {"B2", "B1", "B0"} =>
         SlotAt(q)[name] \in Slots /\ SlotAt(q)[name] \notin 0..2
  BY <1>6, <1>13, SlotsAre DEF SlotNames, LAY1_OFF, Decision
<1>26. Held(q, "B2") = b + n
  BY <1>13, <1>22, <1>24 DEF Held, Slots
<1>27. \A name \in SlotNames : name # "B2" => Held(q, name) <= b
  <2>. SUFFICES ASSUME NEW name \in SlotNames, name # "B2"
                PROVE  Held(q, name) <= b
    OBVIOUS
  <2>1. SlotAt(q)[name] \in Slots /\ SlotAt(q)[name] # q.lay0
    BY <1>13, <1>24, <1>25 DEF Slots
  <2>2. Held(q, name) = pd.dpb[SlotAt(q)[name]]
    BY <1>22, <2>1, Zenon DEF Held
  <2>. QED
    BY <1>3, <2>1, <2>2, Zenon DEF Within
<1>28. Left(h, 2) = 0 /\ CodedLayer[h + 1][2] = 1
  <2>1. h \in 0..5 /\ h >= 1
    OBVIOUS
  <2>. QED
    BY <2>1, CodingEnds, Zenon DEF EndsFit
<1>29. Around(q, h, b, 2)
  <2>1. Held(q, "B1") <= b /\ Held(q, "B0") <= b /\ Held(q, "L1p") <= b
    BY <1>27 DEF SlotNames
  <2>2. \A l \in 1..4 : Held(q, LayerName[l]) <= b
    BY <1>27, NamesAre
  <2>3. \A l \in 1..4 : ~(l < CodedLayer[h + 1][2])
    BY <1>28
  <2>4. b + Left(h, 2) = b
    BY <1>28
  <2>5. Held(q, "B2") = b + Power[h + 1]
    BY <1>26 DEF n
  <2>. QED
    BY <2>1, <2>2, <2>3, <2>4, <2>5, Zenon DEF Around
<1>30. InGop(q, h, b, key, 2)
  BY <1>6, <1>13, <1>23, <1>29, Zenon DEF InGop, n
<1>. QED
  BY <1>2, <1>8, <1>21, <1>30, Zenon DEF n, r

-----------------------------------------------------------------------------
(* A picture that is shown when it is coded: of a flat GOP, cut short, or a *)
(* key frame.                                                               *)

\* An inter picture that predicts from the past only and is shown at once.
LEMMA DirectCodes ==
  ASSUME NEW c, Config(c), NEW key \in Nat, NEW last \in Nat, key <= last,
         NEW acc, acc.pd \in Decision, acc.pd.ok, Within(acc.pd, key, last),
         NEW pic, Accepted(c, acc.pd, pic), Direct(pic), pic.poc = last + 1,
         pic.key = FALSE, pic.held = FALSE, pic.cut_short \in BOOLEAN,
         pic.cut_short \/ pic.layer = 0,
         pic.cut_short => acc.pd.dpb[SlotsOf(c, acc.pd, pic)[LAST]] = last
  PROVE  /\ Codes(key, acc, last + 1, last + 1, PassThree(c, acc, pic), last + 2)
         /\ \E p : Decides(c, acc.pd, pic, PassThree(c, acc, pic).pd, p)
<1>. DEFINE pd == acc.pd
            d == DecideInter(c, pd, pic)
            q == d.pd
            p == d.pic
            r == PassThree(c, acc, pic)
            due == last + 1
<1>5. Decides(c, pd, pic, q, p)
  BY InterDecides, Zenon
<1>6. /\ q \in Decision /\ q.ok /\ q.position = pd.position /\ q.base = pd.base /\ q.alt = pd.alt
      /\ p.poc = pic.poc /\ p.refresh = FreshOf(c, pd, pic).mask
      /\ p.cut_short = pic.cut_short /\ p.layer = pic.layer
      /\ p.refs[LAST] = SlotsOf(c, pd, pic)[LAST]
      /\ \A s \in 1..7 : p.refs[s] \in Slots /\ p.ref_pocs[s] = pd.dpb[p.refs[s]]
  BY <1>5, Zenon DEF Decides
<1>7. r = [pd |-> q, emit |-> Append(acc.emit, p)]
  <2>1. q.ok
    BY <1>6, Zenon
  <2>. QED
    BY <2>1, PassThreeInter, Zenon
<1>8. r.pd = q /\ r.emit = Append(acc.emit, p)
  <2>. HIDE DEF r, q, p
  <2>. QED
    BY <1>7
<1>9. p.refresh \subseteq Slots
  <2>1. pic.hier \in 0..5 /\ pic.layer \in 0..pic.hier /\ (pic.hier > 0 => pd.lay0 \in 0..2)
    BY Zenon DEF Accepted
  <2>2. FreshIs(pd, pic, FreshOf(c, pd, pic))
    BY <2>1, FreshFits, Zenon
  <2>. QED
    BY <1>6, <2>2, Zenon DEF FreshIs
<1>10. p.show = TRUE /\ p.show_existing = NoSlot
  <2>1. p.show = (Direct(pic) \/ pic.layer = pic.hier)
        /\ p.show_existing = IF TopOf(pic) THEN SlotIndex(pd, pic)[Shown(pic)] ELSE NoSlot
    BY <1>5, Zenon DEF Decides
  <2>2. (Direct(pic) \/ pic.layer = pic.hier) = TRUE
    OBVIOUS
  <2>3. ~TopOf(pic)
    BY Zenon DEF TopOf
  <2>. QED
    BY <2>1, <2>2, <2>3, Zenon
<1>. HIDE DEF q, p, r, d
<1>11. \A s \in 1..7 : key <= p.ref_pocs[s] /\ p.ref_pocs[s] <= last
  BY <1>6, Zenon DEF Within
<1>12. \A s \in Slots : pd.dpb[s] \in Nat
  BY DEF Decision
<1>13. \A s \in 1..7 : p.ref_pocs[s] \in Nat
  BY <1>6, <1>12, Zenon
<1>14. p.poc = due /\ due \in Nat /\ due - 1 = last
  BY <1>6
<1>15. Brackets(p)
  <2>1. \A s \in 1..7 : p.ref_pocs[s] < p.poc
    BY <1>11, <1>13, <1>14
  <2>2. p.cut_short => p.ref_pocs[LAST] = p.poc - 1
    <3>1. LAST \in 1..7
      BY DEF LAST
    <3>2. p.cut_short => p.ref_pocs[LAST] = last
      BY <1>6, <3>1, Zenon
    <3>. QED
      BY <1>14, <3>2, Zenon
  <2>3. p.cut_short \/ p.layer = 0
    BY <1>6, Zenon
  <2>. QED
    BY <2>1, <2>2, <2>3, Zenon DEF Brackets
<1>16. last + 2 = due + 1
  OBVIOUS
<1>17. Links(key, p, pd.dpb, due, q.dpb, last + 2)
  <2>1. p.show \in BOOLEAN
    BY <1>10
  <2>. HIDE DEF due, pd
  <2>2. ~p.show => p.show_existing = NoSlot /\ last + 2 = due
    BY <1>10
  <2>3. p.show => /\ p.poc = due
                   /\ \/ p.show_existing = NoSlot /\ last + 2 = due + 1
                      \/ p.show_existing \in Slots /\ q.dpb[p.show_existing] = due + 1
                         /\ last + 2 = due + 2
    BY <1>10, <1>14, <1>16, Zenon
  <2>. QED
    <3>1. pic.poc \in Nat /\ \A s \in 1..7 : key <= p.ref_pocs[s]
      BY <1>6, <1>11, <1>14, Zenon
    <3>. QED
      BY <1>5, <1>9, <1>15, <2>1, <2>2, <2>3, <3>1, InterLinks, Zenon DEF pd
<1>18. Codes(key, acc, due, due, r, last + 2)
  <2>. HIDE DEF due
  <2>. QED
    BY <1>6, <1>8, <1>14, <1>17, Zenon DEF Codes
<1>. QED
  BY <1>5, <1>8, <1>18, Zenon DEF r, q, p

\* The picture of a mini-GOP of a flat GOP.
LEMMA FlatCodes ==
  ASSUME NEW c, Config(c), NEW b \in Nat, NEW key \in Nat, key <= b,
         NEW acc, acc.pd \in Decision, acc.pd.ok, Within(acc.pd, key, b),
         NEW pic, InTurn(pic, 0, b, 1)
  PROVE  /\ Codes(key, acc, b + 1, b + 1, PassThree(c, acc, pic), b + 2)
         /\ Within(PassThree(c, acc, pic).pd, key, b + 1)
<1>. DEFINE pd == acc.pd
            slots == SlotsOf(c, pd, pic)
            q == PassThree(c, acc, pic).pd
<1>1. /\ DOMAIN pic = PicFields /\ pic.hier = 0 /\ pic.layer = 0 /\ pic.poc = b + 1
      /\ pic.cut_short = FALSE /\ pic.key = FALSE /\ pic.held = FALSE
  BY DEF InTurn, Coded, CodedLayer
<1>2. Len(slots) = 7 /\ \A r \in 1..7 : slots[r] \in Slots
  <2>1. slots = FlatRow(pd.lay0)
    BY <1>1, Zenon DEF SlotsOf
  <2>2. pd.lay0 \in 0..7
    BY DEF Decision
  <2>. HIDE DEF slots
  <2>. QED
    BY <2>1, <2>2 DEF FlatRow, Slots
<1>3. Direct(pic) /\ ~TopOf(pic)
  BY <1>1 DEF Direct, TopOf
<1>4. Accepted(c, pd, pic)
  <2>1. pic.poc \in Nat /\ pic.hier \in 0..5 /\ pic.layer \in 0..pic.hier
        /\ (pic.hier > 0 => pd.lay0 \in 0..2)
    BY <1>1
  <2>. QED
    BY <1>1, <1>2, <1>3, <2>1, Zenon DEF Accepted, slots
<1>5. /\ Codes(key, acc, b + 1, b + 1, PassThree(c, acc, pic), b + 2)
      /\ \E p : Decides(c, pd, pic, q, p)
  <2>1. pic.cut_short \in BOOLEAN /\ ~pic.cut_short
    BY <1>1
  <2>. QED
    BY <1>1, <1>3, <1>4, <2>1, DirectCodes, Zenon
<1>6. PICK p : Decides(c, pd, pic, q, p)
  BY <1>5, Zenon
<1>7. q.dpb = [s \in Slots |-> IF s \in p.refresh THEN pic.poc ELSE pd.dpb[s]]
  BY <1>6, Zenon DEF Decides
<1>. HIDE DEF q
<1>8. Within(q, key, b + 1)
  <2>1. \A s \in Slots : q.dpb[s] = b + 1 \/ q.dpb[s] = pd.dpb[s]
    BY <1>1, <1>7
  <2>2. \A s \in Slots : key <= pd.dpb[s] /\ pd.dpb[s] <= b /\ pd.dpb[s] \in Nat
    BY DEF Within, Decision
  <2>. QED
    BY <2>1, <2>2 DEF Within
<1>. QED
  BY <1>5, <1>8, Zenon DEF q

LEMMA ShortRows ==
  \A scheme \in 0..2 :
    /\ Len(Layer1Row(1, scheme)) = 7
    /\ \A r \in 1..7 : Layer1Row(1, scheme)[r] \in SlotNames
    /\ Layer1Row(1, scheme)[LAST] = "B1"
BY DEF Layer1Row, SlotNames, LAST

\* A picture that is cut short, behind picture b.
Short(pic, b) ==
  /\ DOMAIN pic = PicFields
  /\ pic.poc = b + 1 /\ pic.hier = 1 /\ pic.layer = 1 /\ pic.pic_idx = 0
  /\ pic.cut_short = TRUE /\ pic.key = FALSE /\ pic.held = FALSE

\* It looks for its references as if the base picture behind it were there, so that
\* LAST is the picture right before it.
LEMMA ShortCodes ==
  ASSUME NEW c, Config(c), NEW b \in Nat, NEW key \in Nat, key <= b,
         NEW acc, acc.pd \in Decision, acc.pd.ok, AtRest(acc.pd, key, b),
         NEW pic, Short(pic, b)
  PROVE  Codes(key, acc, b + 1, b + 1, PassThree(c, acc, pic), b + 2)
<1>. DEFINE pd == acc.pd
            slots == SlotsOf(c, pd, pic)
            row == RowOf(c, pic)
            scheme == c.mrp.referencing_scheme
            index == SlotIndex(pd, pic)
<1>1. /\ DOMAIN pic = PicFields /\ pic.poc = b + 1 /\ pic.hier = 1 /\ pic.layer = 1
      /\ pic.pic_idx = 0 /\ pic.cut_short = TRUE /\ pic.key = FALSE /\ pic.held = FALSE
  BY Zenon DEF Short
<1>2. pd.lay0 \in 0..2 /\ Within(pd, key, b) /\ pd.dpb[pd.lay0] = b /\ pd.lay1 \in 0..1
  BY DEF AtRest, Decision
<1>3. row = Layer1Row(1, scheme)
  <2>1. row = SlotTable(1, 1, 0, scheme, c.mrp.more_5l_refs # 0)
    BY <1>1, Zenon DEF RowOf
  <2>. HIDE DEF row, scheme
  <2>. QED
    BY <2>1 DEF SlotTable
<1>4. /\ Len(row) = 7 /\ \A r \in 1..7 : row[r] \in SlotNames
      /\ row[LAST] = "B1"
  <2>1. scheme \in 0..2
    BY DEF Config
  <2>. HIDE DEF row, scheme
  <2>. QED
    BY <1>3, <2>1, ShortRows, Zenon
<1>5. index = [B2 |-> CircInc(pd.lay0, 0, 2),
               B1 |-> CircDec(CircInc(pd.lay0, 0, 2), 0, 2),
               B0 |-> CircDec(CircDec(CircInc(pd.lay0, 0, 2), 0, 2), 0, 2),
               L1c |-> LAY1_OFF + pd.lay1,
               L1p |-> CircDec(LAY1_OFF + pd.lay1, LAY1_OFF, LAY1_OFF + 1),
               L2 |-> LAY2_OFF, L3 |-> LAY3_OFF, L4 |-> LAY4_OFF]
  <2>. DEFINE ahead == pic.cut_short /\ pic.layer # 0
              b2    == IF ahead THEN CircInc(pd.lay0, 0, 2) ELSE pd.lay0
              b1    == CircDec(b2, 0, 2)
              one   == 2 ^ (pic.hier - 1) - 1
              l1    == IF ahead /\ pic.pic_idx < one THEN 1 - pd.lay1 ELSE pd.lay1
  <2>1. ahead
    BY <1>1
  <2>2. one = 0
    <3>1. pic.hier - 1 = 0
      BY <1>1
    <3>2. 2 ^ (pic.hier - 1) = 2 ^ 0
      BY <3>1, Zenon
    <3>3. 2 ^ (pic.hier - 1) = 1
      BY <3>2, Powers, Zenon
    <3>. QED
      BY <3>3
  <2>3. ~(pic.pic_idx < one)
    BY <1>1, <2>2
  <2>. HIDE DEF ahead, one
  <2>4. b2 = CircInc(pd.lay0, 0, 2) /\ l1 = pd.lay1
    BY <2>1, <2>3, Zenon
  <2>. QED
    BY <2>4, Zenon DEF SlotIndex, ahead, one
<1>6. /\ \A name \in SlotNames : index[name] \in Slots
      /\ index["B1"] = pd.lay0
  <2>. HIDE DEF index
  <2>. QED
    BY <1>2, <1>5 DEF SlotNames, CircInc, CircDec, LAY1_OFF, LAY2_OFF, LAY3_OFF, LAY4_OFF, Slots
<1>7. slots = [r \in 1..7 |-> index[row[r]]]
  <2>1. pic.hier # 0
    BY <1>1
  <2>2. slots = [r \in 1..Len(row) |-> index[row[r]]]
    BY <2>1, Zenon DEF SlotsOf
  <2>. HIDE DEF slots, row, index
  <2>. QED
    BY <1>4, <2>2, Zenon
<1>. HIDE DEF slots, row, index, scheme
<1>8. Len(slots) = 7 /\ (\A r \in 1..7 : slots[r] \in Slots) /\ slots[LAST] = pd.lay0
  BY <1>4, <1>6, <1>7 DEF LAST
<1>9. Direct(pic) /\ ~TopOf(pic)
  BY <1>1 DEF Direct, TopOf
<1>10. Accepted(c, pd, pic)
  <2>1. pic.poc \in Nat /\ pic.hier \in 0..5 /\ pic.layer \in 0..pic.hier
    BY <1>1
  <2>. QED
    BY <1>1, <1>2, <1>8, <1>9, <2>1, Zenon DEF Accepted, slots
<1>11. pd.dpb[SlotsOf(c, pd, pic)[LAST]] = b
  BY <1>2, <1>8, Zenon DEF slots
<1>12. pic.cut_short \in BOOLEAN /\ (pic.cut_short \/ pic.layer = 0)
  BY <1>1
<1>. QED
  BY <1>1, <1>2, <1>9, <1>10, <1>11, <1>12, DirectCodes, Zenon

\* A key frame empties the buffer of everything else, whether it is coded now or held.
KeyLeft(acc, poc, r) ==
  /\ r.pd \in Decision /\ r.pd.ok
  /\ r.pd.position = acc.pd.position /\ r.pd.base = acc.pd.base /\ r.pd.alt = acc.pd.alt
  /\ r.pd.lay0 = 0 /\ r.pd.dpb = [s \in Slots |-> poc]

\* Coded now, it follows on any buffer.
KeyCoded(acc, poc, r) ==
  \E p : /\ r.emit = Append(acc.emit, p) /\ p.poc = poc /\ p.key
         /\ \A first, d : Links(first, p, d, poc, r.pd.dpb, poc + 1)

KeyDecided(acc, poc, held, r) ==
  /\ KeyLeft(acc, poc, r)
  /\ IF held THEN r.emit = acc.emit ELSE KeyCoded(acc, poc, r)

LEMMA KeyCodes ==
  ASSUME NEW c, NEW acc, acc.pd \in Decision, acc.pd.ok,
         NEW pic, DOMAIN pic = PicFields, pic.key = TRUE, pic.poc \in Nat
  PROVE  KeyDecided(acc, pic.poc, pic.held, PassThree(c, acc, pic))
<1>. DEFINE pd == acc.pd
            dpb == [s \in Slots |-> pic.poc]
            q == [pd EXCEPT !.lay0 = 0, !.lay1 = 0, !.dpb = dpb]
            p == WithFields(pic, Choice(<<>>, <<>>, 0, 0, Slots, TRUE, NoSlot))
            d == DecideKey(pd, pic)
            e == IF pic.key THEN d ELSE DecideInter(c, pd, pic)
            r == PassThree(c, acc, pic)
<1>1. d = [pd |-> q, pic |-> p]
  BY Zenon DEF DecideKey, Choice
<1>2. /\ q \in Decision /\ q.lay0 = 0 /\ q.dpb = dpb
      /\ q.position = pd.position /\ q.base = pd.base /\ q.alt = pd.alt /\ q.ok = pd.ok
  <2>. DEFINE lay0 == 0
              lay1 == 0
  <2>1. pd \in Decision /\ dpb \in [Slots -> Nat] /\ lay0 \in 0..7 /\ lay1 \in 0..1
    OBVIOUS
  <2>. HIDE DEF dpb, q
  <2>2. q = [pd EXCEPT !.lay0 = lay0, !.lay1 = lay1, !.dpb = dpb]
    BY DEF q
  <2>. HIDE DEF lay0, lay1, pd, d, e, r, p
  <2>3. /\ q \in Decision /\ q.lay0 = lay0 /\ q.lay1 = lay1 /\ q.dpb = dpb
        /\ q.position = pd.position /\ q.base = pd.base /\ q.alt = pd.alt /\ q.ok = pd.ok
    BY ONLY <2>1, <2>2 DEF Decision
  <2>. QED
    BY <2>3 DEF lay0
<1>3. /\ p.poc = pic.poc /\ p.key = pic.key /\ p.refs = <<>> /\ p.ref_pocs = <<>>
      /\ p.refresh = Slots /\ p.show = TRUE /\ p.show_existing = NoSlot
  <2>. DEFINE nil == <<>>
              zero == 0
              yes == TRUE
  <2>. HIDE DEF p
  <2>1. p = WithFields(pic, Choice(nil, nil, zero, zero, Slots, yes, NoSlot))
    BY DEF p
  <2>. HIDE DEF nil, zero, yes
  <2>2. /\ p.poc = pic.poc /\ p.key = pic.key /\ p.layer = pic.layer
        /\ p.cut_short = pic.cut_short
        /\ p.refs = nil /\ p.ref_pocs = nil /\ p.list1 = zero /\ p.refresh = Slots
        /\ p.show = yes /\ p.show_existing = NoSlot
    BY <2>1, ChosenFields
  <2>. QED
    BY <2>2, Zenon DEF nil, yes
<1>4. r = IF acc.pd.ok
            THEN [pd   |-> e.pd,
                  emit |-> IF e.pd.ok /\ ~pic.held THEN Append(acc.emit, e.pic) ELSE acc.emit]
            ELSE acc
  BY Zenon DEF PassThree
<1>. HIDE DEF d, q, p
<1>5. e.pd = q /\ e.pic = p
  BY <1>1
<1>. HIDE DEF e
<1>6. q.ok
  BY <1>2
<1>7. r = [pd |-> q, emit |-> IF ~pic.held THEN Append(acc.emit, p) ELSE acc.emit]
  <2>1. (q.ok /\ ~pic.held) = ~pic.held
    BY <1>6
  <2>. HIDE DEF r
  <2>. QED
    BY <1>4, <1>5, <1>6, <2>1, Zenon
<1>8. r.pd = q /\ r.emit = (IF ~pic.held THEN Append(acc.emit, p) ELSE acc.emit)
  <2>. HIDE DEF r
  <2>. QED
    BY <1>7
<1>. HIDE DEF r
<1>9. KeyLeft(acc, pic.poc, r)
  BY <1>2, <1>6, <1>8, Zenon DEF KeyLeft
<1>10. ASSUME NEW first, NEW b
       PROVE  Links(first, p, b, pic.poc, q.dpb, pic.poc + 1)
  <2>1. q.dpb = [s \in Slots |-> IF s \in p.refresh THEN p.poc ELSE b[s]]
    BY <1>2, <1>3
  <2>2. \A s \in 1..Len(p.refs) : b[p.refs[s]] = p.ref_pocs[s]
    BY <1>3
  <2>3. p.poc \in Nat /\ p.show \in BOOLEAN /\ p.refresh \subseteq Slots /\ p.key /\ p.show
    BY <1>3
  <2>. QED
    BY <1>3, <2>1, <2>2, <2>3, Zenon DEF Links
<1>11. ~pic.held => KeyCoded(acc, pic.poc, r)
  <2>1. p.key
    BY <1>3
  <2>. QED
    BY <1>3, <1>8, <1>10, <2>1, Zenon DEF KeyCoded
<1>. QED
  BY <1>8, <1>9, <1>11, Zenon DEF KeyDecided, r

-----------------------------------------------------------------------------
(* The emit order.                                                         *)

\* From the buffer d0 and the first picture not shown yet, due0, the pictures of
\* emit lead to d1 and due1.
Chain(first, d0, due0, emit, d1, due1) ==
  \E d, due :
    /\ d[0] = d0 /\ due[0] = due0 /\ d[Len(emit)] = d1 /\ due[Len(emit)] = due1
    /\ \A i \in 1..Len(emit) : Links(first, emit[i], d[i - 1], due[i - 1], d[i], due[i])

\* The pictures of emit are those of X, each once.
Lists(emit, X) ==
  /\ \E S : emit \in Seq(S)
  /\ X = {emit[i].poc : i \in 1..Len(emit)}
  /\ \A i, j \in 1..Len(emit) : emit[i].poc = emit[j].poc => i = j

\* The last picture of the emit order is shown when it is coded.
EndsShown(emit) == emit # <<>> => emit[Len(emit)].show

Emits(first, d0, due0, acc, X, due) ==
  Chain(first, d0, due0, acc.emit, acc.pd.dpb, due) /\ Lists(acc.emit, X)

LEMMA NothingEmitted ==
  ASSUME NEW first, NEW due, NEW acc, acc.emit = <<>>
  PROVE  Emits(first, acc.pd.dpb, due, acc, {}, due) /\ EndsShown(acc.emit)
<1>. DEFINE e == acc.emit
            d0 == acc.pd.dpb
            d == [i \in 0..0 |-> d0]
            n == [i \in 0..0 |-> due]
<1>1. Len(e) = 0 /\ 1..Len(e) = {} /\ e \in Seq({})
  BY EmptySeq
<1>2. d[0] = d0 /\ n[0] = due
  OBVIOUS
<1>. HIDE DEF d, n, e
<1>3. \A i \in 1..Len(e) : Links(first, e[i], d[i - 1], n[i - 1], d[i], n[i])
  BY <1>1, Zenon
<1>4. Chain(first, d0, due, e, d0, due)
  BY <1>1, <1>2, <1>3, Zenon DEF Chain
<1>5. Lists(e, {})
  <2>1. {} = {e[i].poc : i \in 1..Len(e)} /\ \A i, j \in 1..Len(e) : e[i].poc = e[j].poc => i = j
    BY <1>1
  <2>. QED
    BY <1>1, <2>1, Zenon DEF Lists
<1>. QED
  BY <1>4, <1>5, Zenon DEF Emits, EndsShown, e

LEMMA ChainExtends ==
  ASSUME NEW first, NEW d0, NEW due0, NEW emit, Len(emit) \in Nat, NEW d1, NEW due1,
         Chain(first, d0, due0, emit, d1, due1), NEW p, NEW d2, NEW due2,
         Links(first, p, d1, due1, d2, due2), NEW more, Len(more) = Len(emit) + 1,
         \A i \in 1..Len(emit) : more[i] = emit[i], more[Len(emit) + 1] = p
  PROVE  Chain(first, d0, due0, more, d2, due2)
<1>. DEFINE n == Len(emit)
<1>1. PICK d, due :
        /\ d[0] = d0 /\ due[0] = due0 /\ d[n] = d1 /\ due[n] = due1
        /\ \A i \in 1..n : Links(first, emit[i], d[i - 1], due[i - 1], d[i], due[i])
  BY Zenon DEF Chain
<1>. DEFINE dd == [i \in 0..(n + 1) |-> IF i = n + 1 THEN d2 ELSE d[i]]
            dn == [i \in 0..(n + 1) |-> IF i = n + 1 THEN due2 ELSE due[i]]
<1>2. \A i \in 0..n : dd[i] = d[i] /\ dn[i] = due[i]
  OBVIOUS
<1>3. dd[n + 1] = d2 /\ dn[n + 1] = due2
  OBVIOUS
<1>4. Len(more) = n + 1 /\ 0 \in 0..n /\ n \in 0..n
  OBVIOUS
<1>. HIDE DEF dd, dn
<1>5. ASSUME NEW i \in 1..(n + 1)
      PROVE  Links(first, more[i], dd[i - 1], dn[i - 1], dd[i], dn[i])
  <2>1. CASE i = n + 1
    <3>1. i - 1 = n /\ more[i] = p
      BY <2>1
    <3>2. dd[i - 1] = d1 /\ dn[i - 1] = due1 /\ dd[i] = d2 /\ dn[i] = due2
      BY <1>1, <1>2, <1>3, <1>4, <2>1, <3>1, Zenon
    <3>. QED
      BY <3>1, <3>2, Zenon
  <2>2. CASE i # n + 1
    <3>1. i \in 1..n /\ i - 1 \in 0..n /\ i \in 0..n
      BY <2>2
    <3>. QED
      BY <1>1, <1>2, <3>1, Zenon
  <2>. QED
    BY <2>1, <2>2
<1>6. dd[0] = d0 /\ dn[0] = due0 /\ dd[Len(more)] = d2 /\ dn[Len(more)] = due2
  BY <1>1, <1>2, <1>3, <1>4, Zenon
<1>7. \A i \in 1..Len(more) : Links(first, more[i], dd[i - 1], dn[i - 1], dd[i], dn[i])
  BY <1>4, <1>5, Zenon
<1>. QED
  BY <1>6, <1>7, Zenon DEF Chain

\* The emit order of r lists poc behind the pictures X.
Grown(first, d0, due0, X, due, poc, r, next) ==
  /\ Emits(first, d0, due0, r, X \cup {poc}, next)
  /\ next # due => EndsShown(r.emit)

\* A picture of display order poc joins the emit order.
Joins(first, acc, poc, due, r, next) ==
  \E p : /\ r.emit = Append(acc.emit, p) /\ p.poc = poc
         /\ Links(first, p, acc.pd.dpb, due, r.pd.dpb, next)

\* The emit order grows by the picture that is decided.
LEMMA EmitsJoin ==
  ASSUME NEW first, NEW d0, NEW due0, NEW acc, NEW X, NEW due, Emits(first, d0, due0, acc, X, due),
         NEW poc, poc \notin X, NEW r, NEW next, Joins(first, acc, poc, due, r, next)
  PROVE  Grown(first, d0, due0, X, due, poc, r, next)
<1>1. PICK p : /\ r.emit = Append(acc.emit, p) /\ p.poc = poc
               /\ Links(first, p, acc.pd.dpb, due, r.pd.dpb, next)
  BY Zenon DEF Joins
<1>2. PICK S : acc.emit \in Seq(S)
  BY Zenon DEF Emits, Lists
<1>. DEFINE e == acc.emit
            n == Len(e)
            m == r.emit
<1>3. n \in Nat /\ e \in Seq(S \cup {p}) /\ p \in S \cup {p}
  BY <1>2
<1>4. /\ m \in Seq(S \cup {p}) /\ Len(m) = n + 1 /\ m[n + 1] = p
      /\ \A i \in 1..n : m[i] = e[i]
  BY <1>1, <1>3
<1>. HIDE DEF e, n, m
<1>5. Chain(first, d0, due0, m, r.pd.dpb, next)
  <2>1. Chain(first, d0, due0, e, acc.pd.dpb, due)
    BY Zenon DEF Emits, e
  <2>2. /\ Len(e) \in Nat /\ Len(m) = Len(e) + 1 /\ m[Len(e) + 1] = p
        /\ \A i \in 1..Len(e) : m[i] = e[i]
    BY <1>3, <1>4 DEF n
  <2>. QED
    BY <1>1, <2>1, <2>2, ChainExtends, Zenon
<1>6. X = {e[i].poc : i \in 1..n} /\ \A i, j \in 1..n : e[i].poc = e[j].poc => i = j
  BY Zenon DEF Emits, Lists, e, n
<1>7. 1..(n + 1) = (1..n) \cup {n + 1}
  BY <1>3
<1>8. X \cup {poc} = {m[i].poc : i \in 1..(n + 1)}
  BY <1>1, <1>4, <1>6, <1>7
<1>9. ASSUME NEW i \in 1..(n + 1), NEW j \in 1..(n + 1), m[i].poc = m[j].poc
      PROVE  i = j
  <2>1. \A k \in 1..n : m[k].poc # poc
    BY <1>4, <1>6
  <2>2. m[n + 1].poc = poc
    BY <1>1, <1>4
  <2>. QED
    BY <1>4, <1>6, <1>7, <1>9, <2>1, <2>2
<1>10. Lists(m, X \cup {poc})
  <2>1. /\ X \cup {poc} = {m[i].poc : i \in 1..Len(m)}
        /\ \A i, j \in 1..Len(m) : m[i].poc = m[j].poc => i = j
    BY <1>4, <1>8, <1>9, Zenon
  <2>. QED
    BY <1>4, <2>1, Zenon DEF Lists
<1>11. next # due => EndsShown(m)
  <2>1. next # due => p.show
    BY <1>1, Zenon DEF Links
  <2>. QED
    BY <1>4, <2>1, Zenon DEF EndsShown
<1>. QED
  BY <1>5, <1>10, <1>11, Zenon DEF Emits, Grown, m

LEMMA EmitsMore ==
  ASSUME NEW first, NEW d0, NEW due0, NEW acc, NEW X, NEW due, Emits(first, d0, due0, acc, X, due),
         NEW poc, poc \notin X, NEW r, NEW next, Codes(first, acc, poc, due, r, next)
  PROVE  Grown(first, d0, due0, X, due, poc, r, next)
<1>1. Joins(first, acc, poc, due, r, next)
  BY Zenon DEF Codes, Joins
<1>. QED
  BY <1>1, EmitsJoin, Zenon

-----------------------------------------------------------------------------
(* Pass 3 over a complete mini-GOP.                                         *)

\* The decision state keeps what pass 3 has nothing to do with.
Keeps(pd, q) == q.position = pd.position /\ q.base = pd.base /\ q.alt = pd.alt

CodedUpTo(h, b, k) == {b + Coded[h + 1][j] : j \in 1..k}

LEMMA CodedSets ==
  ASSUME NEW h \in 0..5, NEW b \in Nat
  PROVE  /\ CodedUpTo(h, b, Power[h + 1]) = (b + 1)..(b + Power[h + 1])
         /\ \A k \in 1..Power[h + 1] :
              /\ b + Coded[h + 1][k] \notin CodedUpTo(h, b, k - 1)
              /\ b < b + Coded[h + 1][k]
              /\ CodedUpTo(h, b, k) = CodedUpTo(h, b, k - 1) \cup {b + Coded[h + 1][k]}
<1>. DEFINE n == Power[h + 1]
            at(k) == Coded[h + 1][k]
            turn(i) == DecodeOrder(h, Place(h, i))
<1>1. n \in 1..32
  BY PowerIs
<1>2. /\ \A k \in 1..n : at(k) \in 1..n /\ turn(at(k)) = k - 1
      /\ \A i \in 1..n : turn(i) \in 0..(n - 1) /\ at(turn(i) + 1) = i
  BY CodingOrder, Zenon DEF OrderFits
<1>. HIDE DEF n, at, turn
<1>3. \A k \in Nat : CodedUpTo(h, b, k) = {b + at(j) : j \in 1..k}
  BY Zenon DEF CodedUpTo, at
<1>4. {b + at(j) : j \in 1..n} = (b + 1)..(b + n)
  <2>1. \A j \in 1..n : b + at(j) \in (b + 1)..(b + n)
    BY <1>1, <1>2
  <2>2. \A x \in (b + 1)..(b + n) : \E j \in 1..n : x = b + at(j)
    <3>. SUFFICES ASSUME NEW x \in (b + 1)..(b + n)
                  PROVE  \E j \in 1..n : x = b + at(j)
      OBVIOUS
    <3>1. x - b \in 1..n
      BY <1>1
    <3>2. turn(x - b) + 1 \in 1..n /\ at(turn(x - b) + 1) = x - b
      BY <1>1, <1>2, <3>1
    <3>3. x = b + (x - b)
      BY <1>1
    <3>. QED
      BY <3>2, <3>3, Zenon
  <2>. QED
    BY <2>1, <2>2
<1>5. ASSUME NEW k \in 1..n
      PROVE  /\ b + at(k) \notin CodedUpTo(h, b, k - 1)
             /\ b < b + at(k)
             /\ CodedUpTo(h, b, k) = CodedUpTo(h, b, k - 1) \cup {b + at(k)}
  <2>1. k \in Nat /\ k - 1 \in Nat /\ 1..k = (1..(k - 1)) \cup {k}
    BY <1>1
  <2>2. CodedUpTo(h, b, k - 1) = {b + at(j) : j \in 1..(k - 1)}
        /\ CodedUpTo(h, b, k) = {b + at(j) : j \in 1..k}
    BY <1>3, <2>1, Zenon
  <2>3. \A j \in 1..(k - 1) : j \in 1..n /\ at(j) \in 1..n /\ turn(at(j)) # turn(at(k))
    BY <1>1, <1>2, <2>1
  <2>4. at(k) \in 1..n
    BY <1>2
  <2>5. \A j \in 1..(k - 1) : at(j) # at(k)
    BY <2>3, Zenon
  <2>6. \A j \in 1..(k - 1) : b + at(j) # b + at(k)
    BY <1>1, <2>3, <2>4, <2>5
  <2>. QED
    BY <1>1, <2>1, <2>2, <2>4, <2>6
<1>6. CodedUpTo(h, b, n) = (b + 1)..(b + n)
  <2>1. n \in Nat
    BY <1>1
  <2>. QED
    BY <1>3, <1>4, <2>1, Zenon
<1>. QED
  BY <1>5, <1>6, Zenon DEF n, at

\* The first picture not shown yet behind the k-th turn.
DueAfter(h, b, k) ==
  IF k = Power[h + 1] THEN b + Power[h + 1] + 1 ELSE b + Left(h, k + 1) + 1

LEMMA DueMoves ==
  ASSUME NEW h \in 1..5, NEW b \in Nat
  PROVE  /\ DueAfter(h, b, 1) = b + 1
         /\ DueAfter(h, b, Power[h + 1]) = b + Power[h + 1] + 1
         /\ \A k \in 2..Power[h + 1] :
              /\ DueAfter(h, b, k - 1) = b + Left(h, k) + 1
              /\ (b + Left(h, k) + IF CodedLayer[h + 1][k] = h THEN 3 ELSE 1) = DueAfter(h, b, k)
         /\ DueAfter(h, b, Power[h + 1] - 1) # DueAfter(h, b, Power[h + 1])
<1>. DEFINE n == Power[h + 1]
            left(k) == Left(h, k)
            layer(k) == CodedLayer[h + 1][k]
<1>0. h \in 0..5 /\ h >= 1
  OBVIOUS
<1>1. n \in 2..32
  BY PowerIs
<1>2. left(2) = 0 /\ layer(n) = h /\ left(n) + 2 = n
  BY <1>0, CodingEnds, Zenon DEF EndsFit
<1>3. \A k \in 2..(n - 1) : left(k + 1) = IF layer(k) = h THEN left(k) + 2 ELSE left(k)
  BY <1>0, CodingNext, Zenon DEF NextFits
<1>4. \A k \in 2..n : left(k) \in 0..31
  BY TurnFacts, Zenon DEF Turn
<1>5. \A k : DueAfter(h, b, k) = IF k = n THEN b + n + 1 ELSE b + left(k + 1) + 1
  BY Zenon DEF DueAfter
<1>. HIDE DEF n, left, layer
<1>6. DueAfter(h, b, 1) = b + 1
  BY ONLY <1>1, <1>2, <1>5, b \in Nat
<1>7. DueAfter(h, b, n) = b + n + 1
  BY ONLY <1>5
<1>8. ASSUME NEW k \in 2..n
      PROVE  /\ DueAfter(h, b, k - 1) = b + left(k) + 1
             /\ (b + left(k) + IF layer(k) = h THEN 3 ELSE 1) = DueAfter(h, b, k)
  <2>1. DueAfter(h, b, k - 1) = b + left(k) + 1
    <3>1. k - 1 # n /\ (k - 1) + 1 = k
      BY ONLY <1>1, k \in 2..n
    <3>. QED
      BY <1>5, <3>1, Zenon
  <2>2. left(k) \in 0..31
    BY <1>4, Zenon
  <2>3. CASE k = n
    BY ONLY <1>1, <1>2, <1>7, <2>1, <2>2, <2>3, b \in Nat
  <2>4. CASE k # n
    <3>1. k \in 2..(n - 1)
      BY ONLY <1>1, <2>4, k \in 2..n
    <3>2. left(k + 1) = IF layer(k) = h THEN left(k) + 2 ELSE left(k)
      BY <1>3, <3>1, Zenon
    <3>3. DueAfter(h, b, k) = b + left(k + 1) + 1
      BY <1>5, <2>4, Zenon
    <3>. QED
      BY ONLY <2>1, <2>2, <3>2, <3>3, b \in Nat
  <2>. QED
    BY <2>1, <2>3, <2>4, Zenon
<1>9. DueAfter(h, b, n - 1) # DueAfter(h, b, n)
  <2>1. n \in 2..n
    BY ONLY <1>1
  <2>2. DueAfter(h, b, n - 1) = b + left(n) + 1
    BY <1>8, <2>1, Zenon
  <2>3. left(n) \in 0..31
    BY <1>4, <2>1, Zenon
  <2>. QED
    BY ONLY <1>1, <1>2, <1>7, <2>2, <2>3, b \in Nat
<1>. QED
  BY <1>6, <1>7, <1>8, <1>9, Zenon DEF n, left, layer

-----------------------------------------------------------------------------

\* What pass 3 has done behind the k-th turn of a complete mini-GOP, when it found
\* the decision state pd0 and a walk from d0 and due0 over the pictures X.
Coding(h, b, key, pd0, d0, due0, X, k, w) ==
  /\ Emits(key, d0, due0, w, X \cup CodedUpTo(h, b, k), DueAfter(h, b, k))
  /\ Keeps(pd0, w.pd)
  /\ k < Power[h + 1] => InGop(w.pd, h, b, key, k + 1)
  /\ k = Power[h + 1] => /\ w.pd \in Decision /\ w.pd.ok /\ EndsShown(w.emit)
                         /\ AtRest(w.pd, key, b + Power[h + 1])

\* The k-th picture is none of those coded before, and joins them.
IsNew(h, b, X, k) ==
  /\ b + Coded[h + 1][k] \notin X \cup CodedUpTo(h, b, k - 1)
  /\ X \cup CodedUpTo(h, b, k) = (X \cup CodedUpTo(h, b, k - 1)) \cup {b + Coded[h + 1][k]}

Behind(X, b) == X \subseteq 0..b

LEMMA TurnIsNew ==
  ASSUME NEW h \in 0..5, NEW b \in Nat, NEW X, Behind(X, b), NEW k \in 1..Power[h + 1]
  PROVE  IsNew(h, b, X, k)
<1>. DEFINE poc == b + Coded[h + 1][k]
            was == CodedUpTo(h, b, k - 1)
            now == CodedUpTo(h, b, k)
<1>1. poc \notin was /\ b < poc /\ now = was \cup {poc}
  BY CodedSets, Zenon
<1>2. poc \in Nat
  <2>1. Coded[h + 1][k] \in 1..Power[h + 1] /\ Power[h + 1] \in 1..32
    BY CodingOrder, PowerIs, Zenon DEF OrderFits
  <2>. QED
    BY <2>1
<1>3. X \subseteq 0..b
  BY Zenon DEF Behind
<1>. HIDE DEF poc, was, now
<1>4. poc \notin X
  BY ONLY <1>1, <1>2, <1>3, b \in Nat
<1>5. poc \notin X \cup was /\ X \cup now = (X \cup was) \cup {poc}
  BY ONLY <1>1, <1>4
<1>. QED
  BY <1>5, Zenon DEF poc, was, now, IsNew

LEMMA PyramidStart ==
  ASSUME NEW c, Config(c), NEW h \in 1..5, NEW b \in Nat, NEW key \in Nat, key <= b,
         NEW acc, acc.pd \in Decision, acc.pd.ok, AtRest(acc.pd, key, b),
         NEW d0, NEW due0, NEW X, Behind(X, b), Emits(key, d0, due0, acc, X, b + 1),
         NEW pic, InTurn(pic, h, b, 1)
  PROVE  Coding(h, b, key, acc.pd, d0, due0, X, 1, PassThree(c, acc, pic))
<1>. DEFINE n == Power[h + 1]
            w == PassThree(c, acc, pic)
            poc == b + Coded[h + 1][1]
            one == X \cup CodedUpTo(h, b, 1)
<1>1. n \in 2..32 /\ 1 \in 1..n /\ h \in 0..5 /\ 1 - 1 = 0 /\ 1 + 1 = 2
  BY PowerIs
<1>2. Codes(key, acc, poc, b + 1, w, b + 1) /\ InGop(w.pd, h, b, key, 2)
  BY BaseCodes, Zenon
<1>3. X \cup CodedUpTo(h, b, 0) = X
  <2>1. CodedUpTo(h, b, 0) = {}
    BY DEF CodedUpTo
  <2>. QED
    BY ONLY <2>1
<1>4. poc \notin X /\ one = X \cup {poc}
  <2>. DEFINE k == 1
  <2>1. k = 1 /\ k \in 1..Power[h + 1]
    BY <1>1
  <2>. HIDE DEF k
  <2>2. IsNew(h, b, X, k)
    BY <1>1, <2>1, TurnIsNew, Zenon
  <2>3. IsNew(h, b, X, 1)
    BY <2>1, <2>2, Zenon
  <2>4. /\ poc \notin X \cup CodedUpTo(h, b, 1 - 1)
        /\ one = (X \cup CodedUpTo(h, b, 1 - 1)) \cup {poc}
    BY <2>3, Zenon DEF IsNew
  <2>. QED
    BY <1>1, <1>3, <2>4, Zenon
<1>5. DueAfter(h, b, 1) = b + 1
  BY DueMoves, Zenon
<1>. HIDE DEF w, poc, one
<1>6. Emits(key, d0, due0, w, X \cup {poc}, b + 1)
  <2>1. Grown(key, d0, due0, X, b + 1, poc, w, b + 1)
    BY <1>2, <1>4, EmitsMore, Zenon
  <2>. QED
    BY <2>1, Zenon DEF Grown
<1>7. Emits(key, d0, due0, w, one, DueAfter(h, b, 1))
  BY <1>4, <1>5, <1>6, Zenon
<1>8. Keeps(acc.pd, w.pd)
  BY <1>2, Zenon DEF Codes, Keeps
<1>. HIDE DEF n
<1>9. n # 1
  BY ONLY <1>1
<1>. QED
  BY <1>1, <1>2, <1>7, <1>8, <1>9, Zenon DEF Coding, w, one, n

LEMMA PyramidTurn ==
  ASSUME NEW c, Config(c), NEW h \in 1..5, NEW b \in Nat, NEW key \in Nat, key <= b,
         NEW pd0, NEW d0, NEW due0, NEW X, Behind(X, b), NEW k \in 2..Power[h + 1],
         NEW w, Coding(h, b, key, pd0, d0, due0, X, k - 1, w), NEW pic, InTurn(pic, h, b, k)
  PROVE  Coding(h, b, key, pd0, d0, due0, X, k, PassThree(c, w, pic))
<1>. DEFINE n == Power[h + 1]
            v == PassThree(c, w, pic)
            poc == b + Coded[h + 1][k]
            was == X \cup CodedUpTo(h, b, k - 1)
            now == X \cup CodedUpTo(h, b, k)
            due == DueAfter(h, b, k - 1)
            next == DueAfter(h, b, k)
<1>1. n \in 2..32 /\ h \in 0..5
  BY PowerIs
<1>2. /\ k \in 1..n /\ k - 1 < n /\ (k - 1) + 1 = k
      /\ k < n => k \in 2..(n - 1)
  <2>. HIDE DEF n
  <2>1. k \in 2..n
    BY Zenon DEF n
  <2>. QED
    BY ONLY <1>1, <2>1
<1>3. /\ Emits(key, d0, due0, w, was, due) /\ Keeps(pd0, w.pd) /\ InGop(w.pd, h, b, key, k)
  BY <1>2, Zenon DEF Coding
<1>4. /\ due = b + Left(h, k) + 1
      /\ (b + Left(h, k) + IF CodedLayer[h + 1][k] = h THEN 3 ELSE 1) = next
  BY DueMoves, Zenon
<1>5. Codes(key, w, poc, due, v, next) /\ \E p : Decides(c, w.pd, pic, v.pd, p)
  <2>. DEFINE a == b + Left(h, k) + 1
              z == b + Left(h, k) + IF CodedLayer[h + 1][k] = h THEN 3 ELSE 1
  <2>1. Codes(key, w, poc, a, v, z) /\ \E p : Decides(c, w.pd, pic, v.pd, p)
    BY <1>3, BCodes, Zenon
  <2>2. a = due /\ z = next
    BY <1>4, Zenon
  <2>. HIDE DEF a, z, due, next
  <2>. QED
    BY <2>1, <2>2, Zenon
<1>6. PICK p : Decides(c, w.pd, pic, v.pd, p)
  BY <1>5, Zenon
<1>7. poc \notin was /\ now = was \cup {poc}
  <2>1. IsNew(h, b, X, k)
    BY <1>1, <1>2, TurnIsNew, Zenon
  <2>. QED
    BY <2>1, Zenon DEF IsNew
<1>8. k = n => next # due
  <2>1. DueAfter(h, b, n - 1) # DueAfter(h, b, n)
    BY DueMoves, Zenon
  <2>. HIDE DEF n
  <2>. QED
    BY <2>1, Zenon
<1>9. k < n => InGop(v.pd, h, b, key, k + 1)
  BY <1>2, <1>3, <1>6, BNext, Zenon
<1>10. k = n => AtRest(v.pd, key, b + n)
  BY <1>3, <1>6, BLast, Zenon
<1>. HIDE DEF v, poc, was, now, due, next
<1>11. Emits(key, d0, due0, v, now, next) /\ (next # due => EndsShown(v.emit))
  <2>1. Emits(key, d0, due0, v, was \cup {poc}, next) /\ (next # due => EndsShown(v.emit))
    <3>1. Emits(key, d0, due0, w, was, due) /\ Codes(key, w, poc, due, v, next) /\ poc \notin was
      BY <1>3, <1>5, <1>7, Zenon
    <3>2. Grown(key, d0, due0, was, due, poc, v, next)
      BY ONLY <3>1, EmitsMore, Zenon
    <3>. QED
      BY <3>2, Zenon DEF Grown
  <2>. QED
    BY <1>7, <2>1, Zenon
<1>12. Keeps(pd0, v.pd) /\ v.pd \in Decision /\ v.pd.ok
  BY <1>3, <1>5, Zenon DEF Codes, Keeps
<1>. QED
  BY <1>8, <1>9, <1>10, <1>11, <1>12, Zenon DEF Coding, v, now, next, n

-----------------------------------------------------------------------------

LEMMA PyramidWalk ==
  ASSUME NEW c, Config(c), NEW h \in 1..5, NEW b \in Nat, NEW key \in Nat, key <= b,
         NEW acc, acc.pd \in Decision, acc.pd.ok, AtRest(acc.pd, key, b),
         NEW d0, NEW due0, NEW X, Behind(X, b), Emits(key, d0, due0, acc, X, b + 1),
         NEW pics, Len(pics) = Power[h + 1], \A k \in 1..Power[h + 1] : InTurn(pics[k], h, b, k)
  PROVE  Coding(h, b, key, acc.pd, d0, due0, X, Power[h + 1],
                ThirdPass(c, acc, pics)[Len(pics)])
<1>. DEFINE n == Power[h + 1]
            walk == ThirdPass(c, acc, pics)
            Is(k) == Coding(h, b, key, acc.pd, d0, due0, X, k, walk[k])
            T == {k \in Nat : k + 1 <= n => Is(k + 1)}
<1>1. n \in 2..32 /\ Len(pics) = n
  <2>0. h \in 0..5 /\ h >= 1
    BY ONLY h \in 1..5
  <2>1. n \in 2..32
    BY ONLY <2>0, PowerIs, Zenon
  <2>. QED
    BY <2>1, Zenon
<1>2. Len(pics) \in Nat /\ 0..Len(pics) = 0..n
  <2>. HIDE DEF n
  <2>. QED
    BY ONLY <1>1
<1>3. \A k \in 0..n : walk[k] = IF k = 0 THEN acc ELSE PassThree(c, walk[k - 1], pics[k])
  <2>1. \A k \in 0..Len(pics) : walk[k] = ThirdBody(walk, k, c, acc, pics)
    BY <1>2, ThirdPassUnfolds
  <2>. HIDE DEF walk, n
  <2>. QED
    BY <1>2, <2>1, Zenon DEF ThirdBody
<1>4. \A k \in 1..n : InTurn(pics[k], h, b, k)
  BY Zenon
<1>5. 0 \in 0..n /\ 1 \in 0..n /\ 1 \in 1..n /\ 1 # 0 /\ 1 - 1 = 0
  <2>. HIDE DEF n
  <2>. QED
    BY ONLY <1>1
<1>6. Is(1)
  <2>. HIDE DEF walk
  <2>1. walk[1] = PassThree(c, acc, pics[1])
    BY <1>3, <1>5, Zenon
  <2>2. InTurn(pics[1], h, b, 1)
    BY <1>4, <1>5, Zenon
  <2>3. Coding(h, b, key, acc.pd, d0, due0, X, 1, PassThree(c, acc, pics[1]))
    BY <2>2, PyramidStart, Zenon
  <2>. QED
    BY <2>1, <2>3, Zenon
<1>7. \A k \in 2..n : Is(k - 1) => Is(k)
  <2>. HIDE DEF walk
  <2>. SUFFICES ASSUME NEW k \in 2..n, Is(k - 1)
                PROVE  Is(k)
    OBVIOUS
  <2>1. k \in 0..n /\ k \in 1..n /\ k # 0
    <3>. HIDE DEF n
    <3>. QED
      BY ONLY <1>1, k \in 2..n
  <2>2. walk[k] = PassThree(c, walk[k - 1], pics[k])
    BY <1>3, <2>1, Zenon
  <2>3. InTurn(pics[k], h, b, k)
    BY <1>4, <2>1, Zenon
  <2>4. Coding(h, b, key, acc.pd, d0, due0, X, k, PassThree(c, walk[k - 1], pics[k]))
    BY <2>3, PyramidTurn, Zenon
  <2>. QED
    BY <2>2, <2>4, Zenon
<1>. HIDE DEF Is
<1>8. 0 \in T
  <2>1. 0 + 1 = 1 /\ 0 \in Nat
    OBVIOUS
  <2>. QED
    BY <1>6, <2>1, Zenon
<1>9. ASSUME NEW m \in Nat, m \in T
      PROVE  m + 1 \in T
  <2>. HIDE DEF n
  <2>1. /\ (m + 1) + 1 <= n => (m + 1) + 1 \in 2..n /\ m + 1 <= n
        /\ ((m + 1) + 1) - 1 = m + 1
        /\ m + 1 \in Nat
    BY ONLY <1>1, m \in Nat
  <2>. QED
    BY <1>7, <1>9, <2>1, Zenon
<1>. HIDE DEF T
<1>10. Nat \subseteq T
  BY ONLY <1>8, <1>9, Induction
<1>11. Is(n)
  <2>. HIDE DEF n
  <2>1. n - 1 \in Nat /\ (n - 1) + 1 = n /\ n <= n
    BY ONLY <1>1
  <2>2. n - 1 \in T
    BY ONLY <1>10, <2>1
  <2>. QED
    BY <2>1, <2>2, Zenon DEF T
<1>. QED
  BY <1>1, <1>11, Zenon DEF Is, walk, n

-----------------------------------------------------------------------------
(* One mini-GOP.                                                            *)

\* The decision state pass 3 starts from, and the pictures in the order it takes them.
Entry(pd, mg, members) ==
  [position |-> Position(mg, members[Len(members)], Len(members)),
   after_key |-> members[Len(members)].is_key,
   prev_hier |-> mg.hier, lay0 |-> pd.lay0, lay1 |-> pd.lay1, dpb |-> pd.dpb,
   base |-> pd.base + mg.length, alt |-> pd.alt + mg.length, ok |-> pd.ok]

InOrder(c, mg, pd, members) ==
  InDecodeOrder(WithDecodeOrder(AfterFirst(pd, mg, members, Len(members)), mg,
                                FirstPics(c, mg, members, Len(members))))

LEMMA PositionIsNat ==
  ASSUME NEW mg, NEW input, NEW j \in Nat
  PROVE  Position(mg, input, j) \in Nat
BY DEF Position, Place

LEMMA EntryIs ==
  ASSUME NEW mg, mg.hier \in 0..5, mg.length \in Nat, NEW pd \in Decision,
         NEW members, Members(mg, members), Len(members) >= 1
  PROVE  /\ Counted(AfterFirst(pd, mg, members, Len(members)), mg) = Entry(pd, mg, members)
         /\ Entry(pd, mg, members) \in Decision
         /\ Entry(pd, mg, members).base = pd.base + mg.length
         /\ Entry(pd, mg, members).alt = pd.alt + mg.length
         /\ Entry(pd, mg, members).lay0 = pd.lay0
         /\ Entry(pd, mg, members).dpb = pd.dpb /\ Entry(pd, mg, members).ok = pd.ok
         /\ Entry(pd, mg, members).position
              = Position(mg, members[Len(members)], Len(members))
<1>. DEFINE n == Len(members)
            pos == Position(mg, members[n], n)
            ak == members[n].is_key
            one == AfterFirst(pd, mg, members, n)
            len == mg.length
            hi == mg.hier
<1>1. n \in 1..Len(members) /\ n # 0 /\ n \in Nat /\ members[n] \in Input
  BY DEF Members
<1>2. pos \in Nat /\ ak \in BOOLEAN
  BY <1>1, PositionIsNat DEF Input
<1>3. one = [position |-> pos, after_key |-> ak, prev_hier |-> hi, lay0 |-> pd.lay0,
             lay1 |-> pd.lay1, dpb |-> pd.dpb, base |-> pd.base, alt |-> pd.alt, ok |-> pd.ok]
  <2>. HIDE DEF n
  <2>. QED
    BY <1>1 DEF AfterFirst
<1>4. Counted(one, mg) = [one EXCEPT !.base = one.base + len, !.alt = one.alt + len]
  BY DEF Counted
<1>5. Entry(pd, mg, members) =
        [position |-> pos, after_key |-> ak, prev_hier |-> hi, lay0 |-> pd.lay0,
         lay1 |-> pd.lay1, dpb |-> pd.dpb, base |-> pd.base + len, alt |-> pd.alt + len,
         ok |-> pd.ok]
  BY Zenon DEF Entry
<1>6. hi \in 0..5 /\ len \in Nat /\ pd \in Decision
  OBVIOUS
<1>7. Counted(one, mg) = Entry(pd, mg, members)
  <2>. HIDE DEF pos, ak, len, hi, one
  <2>. QED
    BY ONLY <1>3, <1>4, <1>5
<1>8. pd.lay0 \in 0..7 /\ pd.lay1 \in 0..1 /\ pd.dpb \in [Slots -> Nat] /\ pd.base \in Nat
      /\ pd.alt \in Nat /\ pd.ok \in BOOLEAN
  BY <1>6 DEF Decision
<1>9. Entry(pd, mg, members) \in Decision
  <2>. HIDE DEF pos, ak, len, hi, one
  <2>. QED
    BY ONLY <1>2, <1>5, <1>6, <1>8 DEF Decision
<1>. QED
  BY <1>7, <1>9, Zenon DEF Entry

\* The members are those of the mini-GOP: passes 1 and 2 hand them to pass 3.
Own(inputs, mg, members) == members = SubSeq(inputs, mg.start + 1, mg.end + 1)

Unfolds(c, inputs, acc, mg, members) ==
  DecideMiniGop(c, inputs, acc, mg)
    = ThirdPass(c, [pd |-> Entry(acc.pd, mg, members), emit |-> acc.emit],
                InOrder(c, mg, acc.pd, members))[Len(InOrder(c, mg, acc.pd, members))]

LEMMA GopUnfolds ==
  ASSUME NEW c, c.hierarchical_levels \in 0..5, NEW inputs, NEW mg, mg.hier \in 0..5,
         mg.length \in Nat, NEW acc, acc.pd \in Decision, acc.pd.position = 0,
         NEW members, Own(inputs, mg, members), Members(mg, members), Len(members) >= 1
  PROVE  Unfolds(c, inputs, acc, mg, members)
<1>. DEFINE pics == InOrder(c, mg, acc.pd, members)
            n == Len(members)
            one == FirstPass(c, mg, acc.pd, members)[n]
            first == AfterFirst(acc.pd, mg, members, n)
            fp == FirstPics(c, mg, members, n)
<1>1. n \in 0..Len(members)
  BY DEF Members
<1>2. one = [pd |-> first, pics |-> fp]
  <2>1. \A i \in 0..Len(members) :
           FirstPass(c, mg, acc.pd, members)[i] =
             [pd |-> AfterFirst(acc.pd, mg, members, i), pics |-> FirstPics(c, mg, members, i)]
    BY ONLY c.hierarchical_levels \in 0..5, mg.hier \in 0..5, acc.pd \in Decision,
            acc.pd.position = 0, Members(mg, members), FirstPassIs, SMT
  <2>. QED
    BY ONLY <1>1, <2>1, SMT
<1>. HIDE DEF one
<1>3. one.pd = first /\ one.pics = fp
  BY <1>2
<1>4. Counted(first, mg) = Entry(acc.pd, mg, members)
  BY ONLY mg.hier \in 0..5, mg.length \in Nat, acc.pd \in Decision, Members(mg, members),
          Len(members) >= 1, EntryIs, SMT
<1>5. DecideMiniGop(c, inputs, acc, mg)
        = ThirdPass(c, [pd |-> Counted(one.pd, mg), emit |-> acc.emit],
                    InDecodeOrder(WithDecodeOrder(one.pd, mg, one.pics)))
            [Len(InDecodeOrder(WithDecodeOrder(one.pd, mg, one.pics)))]
  BY Zenon DEF DecideMiniGop, Own, one, n
<1>6. InDecodeOrder(WithDecodeOrder(one.pd, mg, one.pics)) = pics
  BY <1>3, Zenon DEF InOrder
<1>. HIDE DEF first, fp
<1>7. Counted(one.pd, mg) = Entry(acc.pd, mg, members)
  BY <1>3, <1>4, Zenon
<1>. HIDE DEF pics
<1>8. DecideMiniGop(c, inputs, acc, mg)
        = ThirdPass(c, [pd |-> Entry(acc.pd, mg, members), emit |-> acc.emit], pics)[Len(pics)]
  BY <1>5, <1>6, <1>7, Zenon
<1>. QED
  BY <1>8, Zenon DEF Unfolds, pics

-----------------------------------------------------------------------------

\* Between two mini-GOPs: the buffer holds pictures from key to last, the newest base
\* picture being last, which is the last one decided.
Rest(c, pd, key, last) ==
  /\ pd \in Decision /\ pd.ok /\ pd.position = 0
  /\ pd.base = last + 1 /\ pd.alt = last + 1
  /\ key \in Nat /\ last \in Nat /\ key <= last
  /\ Within(pd, key, last)
  /\ c.hierarchical_levels > 0 => AtRest(pd, key, last)

\* A walk from d0 and due0 has decided the pictures X, which end with last.
Reached(c, key, d0, due0, acc, X, last) ==
  /\ Rest(c, acc.pd, key, last)
  /\ Behind(X, last)
  /\ Emits(key, d0, due0, acc, X, last + 1)
  /\ EndsShown(acc.emit)

\* The members are the pictures behind last.
Follow(members, last) == \A j \in 1..Len(members) : members[j].display_order = last + j

NoKeys(members) == \A j \in 1..Len(members) : members[j].is_key = FALSE

AllInTurn(pics, h, last) ==
  Len(pics) = Power[h + 1] /\ \A k \in 1..Power[h + 1] : InTurn(pics[k], h, last, k)

\* The pictures of a complete mini-GOP behind passes 1 and 2.
LEMMA CompleteTurns ==
  ASSUME NEW c, NEW mg, NEW h \in 0..5, mg.hier = h, Complete(mg),
         NEW pd \in Decision, NEW members, Members(mg, members), Len(members) = Power[h + 1],
         NoKeys(members), NEW last \in Nat, Follow(members, last)
  PROVE  AllInTurn(InOrder(c, mg, pd, members), h, last)
<1>. DEFINE n == Power[h + 1]
            pics == InOrder(c, mg, pd, members)
            after == AfterFirst(pd, mg, members, Len(members))
            at(k) == Coded[h + 1][k]
            pic(k) == CodedPic(c, mg, members[at(k)], at(k), after.base + k - 1)
<1>1. n \in 1..32 /\ n \in Nat
  <2>1. n \in 1..32
    BY ONLY h \in 0..5, PowerIs, Zenon
  <2>. QED
    BY ONLY <2>1
<1>2. after.base \in Nat
  BY DEF AfterFirst, Decision
<1>3. pics = [k \in 1..Len(members) |->
                CodedPic(c, mg, members[Coded[mg.hier + 1][k]], Coded[mg.hier + 1][k],
                         after.base + k - 1)]
  <2>1. mg.hier \in 0..5 /\ Len(members) = Power[mg.hier + 1]
    OBVIOUS
  <2>. HIDE DEF after
  <2>2. \A j \in 1..Len(members) : ~members[j].is_key
    BY Zenon DEF NoKeys
  <2>3. InTableOrder(c, mg, after, members)
    BY ONLY <1>2, <2>1, <2>2, Complete(mg), Members(mg, members), CompleteOrder, Zenon
  <2>. QED
    BY ONLY <2>3, Zenon DEF InTableOrder, InOrder, after, pics
<1>4. pics = [k \in 1..n |-> pic(k)]
  BY <1>3, Zenon
<1>5. Len(pics) = n /\ \A k \in 1..n : pics[k] = pic(k)
  <2>. HIDE DEF pics, n, pic
  <2>. QED
    BY ONLY <1>1, <1>4, SeqDef
<1>6. ASSUME NEW k \in 1..n
      PROVE  InTurn(pic(k), h, last, k)
  <2>1. at(k) \in 1..n /\ TemporalLayer(h, Place(h, at(k))) = CodedLayer[h + 1][k]
    BY CodingOrder, Zenon DEF OrderFits
  <2>2. members[at(k)].is_key = FALSE /\ members[at(k)].display_order = last + at(k)
    BY <2>1, Zenon DEF NoKeys, Follow
  <2>3. Level(c, mg, members[at(k)]) = h
    BY <2>2, Zenon DEF Level
  <2>4. Position(mg, members[at(k)], at(k)) = Place(h, at(k))
    BY <2>2, Zenon DEF Position
  <2>5. CutShort(mg, FALSE) = FALSE
    <3>0. Power[h + 1] = 2 ^ h /\ Power[h + 1] \in 1..32
      BY ONLY h \in 0..5, PowerIs, Zenon
    <3>1. ~mg.idr /\ mg.length = 2 ^ mg.hier /\ mg.length \in 1..32
      BY ONLY <3>0, mg.hier = h, Complete(mg), Zenon DEF Complete
    <3>. DEFINE z == 2 ^ mg.hier
    <3>2. ~(mg.length < z)
      <4>1. mg.length = z /\ mg.length \in 1..32
        BY <3>1, Zenon
      <4>. HIDE DEF z
      <4>. QED
        BY ONLY <4>1
    <3>. HIDE DEF z
    <3>3. CutShort(mg, FALSE) = (~FALSE /\ (mg.idr \/ mg.length < z))
      BY Zenon DEF CutShort, z
    <3>. QED
      BY ONLY <3>1, <3>2, <3>3
  <2>6. /\ pic(k).poc = members[at(k)].display_order
        /\ pic(k).key = members[at(k)].is_key
        /\ pic(k).hier = Level(c, mg, members[at(k)])
        /\ pic(k).cut_short = CutShort(mg, members[at(k)].is_key)
        /\ pic(k).layer = TemporalLayer(Level(c, mg, members[at(k)]),
                                        Position(mg, members[at(k)], at(k)))
        /\ pic(k).pic_idx = at(k) - 1
        /\ pic(k).held = (members[at(k)].is_key /\ ~members[at(k)].is_eos)
    <3>. DEFINE x == members[at(k)]
                a == at(k)
                d == after.base + k - 1
    <3>1. pic(k) = CodedPic(c, mg, x, a, d)
      BY Zenon
    <3>. HIDE DEF x, a, d, pic
    <3>2. /\ pic(k).poc = x.display_order /\ pic(k).key = x.is_key
          /\ pic(k).hier = Level(c, mg, x)
          /\ pic(k).cut_short = CutShort(mg, x.is_key)
          /\ pic(k).layer = TemporalLayer(Level(c, mg, x), Position(mg, x, a))
          /\ pic(k).pic_idx = a - 1
          /\ pic(k).held = (x.is_key /\ ~x.is_eos)
      BY ONLY <3>1, CodedFields
    <3>. QED
      BY <3>2, Zenon DEF x, a
  <2>7. DOMAIN pic(k) = PicFields
    BY CodedDomain, Zenon
  <2>. HIDE DEF pic
  <2>8. pic(k).cut_short = FALSE /\ pic(k).held = FALSE /\ pic(k).key = FALSE
    BY ONLY <2>2, <2>5, <2>6
  <2>9. pic(k).layer = CodedLayer[h + 1][k] /\ pic(k).hier = h /\ pic(k).pic_idx = at(k) - 1
        /\ pic(k).poc = last + at(k)
    BY ONLY <2>1, <2>2, <2>3, <2>4, <2>6
  <2>. QED
    BY <2>7, <2>8, <2>9, Zenon DEF InTurn
<1>. QED
  BY <1>5, <1>6, Zenon DEF AllInTurn, n, pics

-----------------------------------------------------------------------------

\* Pass 3 over one picture, and over two.
LEMMA ThirdOfOne ==
  ASSUME NEW c, NEW acc, NEW pics, Len(pics) = 1
  PROVE  ThirdPass(c, acc, pics)[Len(pics)] = PassThree(c, acc, pics[1])
<1>. DEFINE walk == ThirdPass(c, acc, pics)
<1>1. \A i \in 0..Len(pics) : walk[i] = ThirdBody(walk, i, c, acc, pics)
  BY ThirdPassUnfolds
<1>. HIDE DEF walk
<1>2. walk[0] = ThirdBody(walk, 0, c, acc, pics) /\ walk[1] = ThirdBody(walk, 1, c, acc, pics)
  BY <1>1
<1>3. walk[1] = PassThree(c, walk[1 - 1], pics[1]) /\ walk[0] = acc /\ 1 - 1 = 0
  BY <1>2 DEF ThirdBody
<1>. QED
  BY <1>3, Zenon DEF walk

LEMMA ThirdOfTwo ==
  ASSUME NEW c, NEW acc, NEW pics, Len(pics) = 2
  PROVE  ThirdPass(c, acc, pics)[Len(pics)] = PassThree(c, PassThree(c, acc, pics[1]), pics[2])
<1>. DEFINE walk == ThirdPass(c, acc, pics)
<1>1. \A i \in 0..Len(pics) : walk[i] = ThirdBody(walk, i, c, acc, pics)
  BY ThirdPassUnfolds
<1>. HIDE DEF walk
<1>2. /\ walk[0] = ThirdBody(walk, 0, c, acc, pics) /\ walk[1] = ThirdBody(walk, 1, c, acc, pics)
      /\ walk[2] = ThirdBody(walk, 2, c, acc, pics)
  BY <1>1
<1>3. /\ walk[0] = acc /\ walk[1] = PassThree(c, walk[1 - 1], pics[1])
      /\ walk[2] = PassThree(c, walk[2 - 1], pics[2]) /\ 1 - 1 = 0 /\ 2 - 1 = 1
  BY <1>2 DEF ThirdBody
<1>. QED
  BY <1>3, Zenon DEF walk

\* Pass 3 starts from what the mini-GOP before left.
Starts(c, key, start, last, mg, members) ==
  /\ start.pd \in Decision /\ start.pd.ok
  /\ start.pd.position = Position(mg, members[Len(members)], Len(members))
  /\ start.pd.base = last + mg.length + 1 /\ start.pd.alt = last + mg.length + 1
  /\ Within(start.pd, key, last)
  /\ c.hierarchical_levels > 0 => AtRest(start.pd, key, last)

StartOf(acc, mg, members) == [pd |-> Entry(acc.pd, mg, members), emit |-> acc.emit]

Begun(c, inputs, key, d0, due0, acc, X, last, mg, members) ==
  /\ DecideMiniGop(c, inputs, acc, mg)
       = ThirdPass(c, StartOf(acc, mg, members), InOrder(c, mg, acc.pd, members))
           [Len(InOrder(c, mg, acc.pd, members))]
  /\ Starts(c, key, StartOf(acc, mg, members), last, mg, members)
  /\ Emits(key, d0, due0, StartOf(acc, mg, members), X, last + 1)
  /\ StartOf(acc, mg, members).emit = acc.emit

LEMMA GopStarts ==
  ASSUME NEW c, Config(c), NEW inputs, NEW mg, mg.hier \in 0..5, mg.length \in Nat,
         NEW key, NEW d0, NEW due0, NEW acc, NEW X, NEW last,
         Reached(c, key, d0, due0, acc, X, last),
         NEW members, Own(inputs, mg, members), Members(mg, members), Len(members) >= 1
  PROVE  Begun(c, inputs, key, d0, due0, acc, X, last, mg, members)
<1>. DEFINE start == StartOf(acc, mg, members)
            pics == InOrder(c, mg, acc.pd, members)
            pd == acc.pd
            e == Entry(pd, mg, members)
            n == Len(members)
<1>1. /\ pd \in Decision /\ pd.ok /\ pd.position = 0
      /\ pd.base = last + 1 /\ pd.alt = last + 1 /\ last \in Nat
      /\ Within(pd, key, last)
      /\ c.hierarchical_levels > 0 => AtRest(pd, key, last)
  BY Zenon DEF Reached, Rest
<1>2. c.hierarchical_levels \in 0..5
  BY Zenon DEF Config
<1>. HIDE DEF e
<1>3. DecideMiniGop(c, inputs, acc, mg) = ThirdPass(c, start, pics)[Len(pics)]
  <2>0. acc.pd \in Decision /\ acc.pd.position = 0
    BY <1>1, Zenon
  <2>. HIDE DEF pd, n
  <2>1. Unfolds(c, inputs, acc, mg, members)
    BY ONLY <1>2, <2>0, mg.hier \in 0..5, mg.length \in Nat, Own(inputs, mg, members),
            Members(mg, members), Len(members) >= 1, GopUnfolds, Zenon
  <2>. QED
    BY ONLY <2>1, Zenon DEF Unfolds, StartOf, start, pics
<1>4. /\ e \in Decision
      /\ e.base = pd.base + mg.length /\ e.alt = pd.alt + mg.length
      /\ e.lay0 = pd.lay0 /\ e.dpb = pd.dpb /\ e.ok = pd.ok
      /\ e.position = Position(mg, members[n], n)
  <2>0. pd \in Decision
    BY <1>1, Zenon
  <2>. HIDE DEF pd, n
  <2>. QED
    BY ONLY <2>0, mg.hier \in 0..5, mg.length \in Nat, Members(mg, members), Len(members) >= 1,
            EntryIs, SMT DEF e, n
<1>5. start.pd = e /\ start.emit = acc.emit
  BY DEF e, StartOf
<1>. HIDE DEF start, pics
<1>6. start.pd \in Decision /\ start.pd.ok /\ start.pd.dpb = pd.dpb /\ start.pd.lay0 = pd.lay0
      /\ start.pd.position = Position(mg, members[n], n)
  BY <1>1, <1>4, <1>5, Zenon
<1>7. start.pd.base = last + mg.length + 1 /\ start.pd.alt = last + mg.length + 1
  <2>. DEFINE len == mg.length
              sb == start.pd.base
              sa == start.pd.alt
  <2>1. sb = pd.base + len /\ sa = pd.alt + len /\ pd.base = last + 1 /\ pd.alt = last + 1
    BY <1>1, <1>4, <1>5, Zenon
  <2>. HIDE DEF len, sb, sa
  <2>2. len \in Nat
    BY DEF len
  <2>3. sb = last + len + 1 /\ sa = last + len + 1
    BY ONLY <1>1, <2>1, <2>2
  <2>. QED
    BY <2>3, Zenon DEF len, sb, sa
<1>8. Within(start.pd, key, last)
  BY <1>1, <1>6, Zenon DEF Within
<1>9. c.hierarchical_levels > 0 => AtRest(start.pd, key, last)
  BY <1>1, <1>6, <1>8, Zenon DEF AtRest
<1>10. Emits(key, d0, due0, start, X, last + 1)
  BY <1>5, <1>6, Zenon DEF Emits, Reached
<1>. QED
  BY <1>3, <1>5, <1>6, <1>7, <1>8, <1>9, <1>10, Zenon DEF Starts, Begun, start, pics, n

-----------------------------------------------------------------------------

\* Pass 3 over a complete mini-GOP of n pictures has gone from start to r.
Finished(c, key, d0, due0, start, X, last, n, r) ==
  /\ r.pd \in Decision /\ r.pd.ok /\ Keeps(start.pd, r.pd)
  /\ Within(r.pd, key, last + n)
  /\ c.hierarchical_levels > 0 => AtRest(r.pd, key, last + n)
  /\ Emits(key, d0, due0, r, X \cup ((last + 1)..(last + n)), last + n + 1)
  /\ EndsShown(r.emit)

\* A complete mini-GOP of the flat structure is one picture.
LEMMA FlatGop ==
  ASSUME NEW c, Config(c), c.hierarchical_levels = 0, NEW key \in Nat, NEW last \in Nat,
         key <= last, NEW start, start.pd \in Decision, start.pd.ok, Within(start.pd, key, last),
         NEW d0, NEW due0, NEW X, Behind(X, last), Emits(key, d0, due0, start, X, last + 1),
         NEW pics, Len(pics) = 1, InTurn(pics[1], 0, last, 1)
  PROVE  Finished(c, key, d0, due0, start, X, last, 1, ThirdPass(c, start, pics)[Len(pics)])
<1>. DEFINE q == PassThree(c, start, pics[1])
            r == ThirdPass(c, start, pics)[Len(pics)]
            poc == last + 1
            next == last + 2
<1>1. r = q
  BY ThirdOfOne, Zenon
<1>2. Codes(key, start, poc, poc, q, next) /\ Within(q.pd, key, poc)
  BY FlatCodes, Zenon
<1>3. poc \notin X /\ next # poc /\ {poc} = poc..poc /\ poc \in Nat
  BY ONLY Behind(X, last), last \in Nat DEF Behind
<1>. HIDE DEF q, poc, next
<1>4. Emits(key, d0, due0, start, X, poc)
  BY Zenon DEF poc
<1>5. Grown(key, d0, due0, X, poc, poc, q, next)
  BY ONLY <1>2, <1>3, <1>4, EmitsMore, Zenon
<1>6. Emits(key, d0, due0, q, X \cup (poc..poc), next) /\ EndsShown(q.emit)
  BY <1>3, <1>5, Zenon DEF Grown
<1>7. q.pd \in Decision /\ q.pd.ok /\ Keeps(start.pd, q.pd)
  BY <1>2, Zenon DEF Codes, Keeps
<1>. QED
  <2>1. last + 2 = last + 1 + 1 /\ ~(c.hierarchical_levels > 0)
    OBVIOUS
  <2>2. Emits(key, d0, due0, q, X \cup ((last + 1)..(last + 1)), last + 1 + 1)
    BY <1>6, <2>1, Zenon DEF poc, next
  <2>3. Finished(c, key, d0, due0, start, X, last, 1, q)
    BY <1>2, <1>6, <1>7, <2>1, <2>2, Zenon DEF Finished, poc
  <2>. HIDE DEF r
  <2>4. Finished(c, key, d0, due0, start, X, last, 1, r)
    BY <1>1, <2>3, Zenon
  <2>. QED
    BY <2>4, Zenon DEF r

-----------------------------------------------------------------------------

LEMMA CompleteWalk ==
  ASSUME NEW c, Config(c), NEW h \in 0..5, h = 0 <=> c.hierarchical_levels = 0,
         NEW key \in Nat, NEW last \in Nat, key <= last,
         NEW start, start.pd \in Decision, start.pd.ok, Within(start.pd, key, last),
         c.hierarchical_levels > 0 => AtRest(start.pd, key, last),
         NEW d0, NEW due0, NEW X, Behind(X, last), Emits(key, d0, due0, start, X, last + 1),
         NEW pics, Len(pics) = Power[h + 1], \A k \in 1..Power[h + 1] : InTurn(pics[k], h, last, k)
  PROVE  Finished(c, key, d0, due0, start, X, last, Power[h + 1],
                  ThirdPass(c, start, pics)[Len(pics)])
<1>. DEFINE r == ThirdPass(c, start, pics)[Len(pics)]
            n == Power[h + 1]
<1>1. CASE h = 0
  <2>1. c.hierarchical_levels = 0 /\ ~(c.hierarchical_levels > 0)
    BY ONLY <1>1, h = 0 <=> c.hierarchical_levels = 0
  <2>2. n = 1
    BY ONLY <1>1 DEF Power, n
  <2>3. 1 \in 1..1
    OBVIOUS
  <2>4. Len(pics) = 1 /\ InTurn(pics[1], 0, last, 1)
    BY <1>1, <2>2, <2>3, Zenon
  <2>7. Finished(c, key, d0, due0, start, X, last, 1, r)
    BY <2>1, <2>4, FlatGop, Zenon
  <2>. HIDE DEF r, n
  <2>. QED
    BY <2>2, <2>7, Zenon DEF r, n
<1>2. CASE h # 0
  <2>1. h \in 1..5 /\ c.hierarchical_levels > 0
    BY ONLY <1>2, h \in 0..5, h = 0 <=> c.hierarchical_levels = 0, Config(c) DEF Config
  <2>2. AtRest(start.pd, key, last)
    BY <2>1, Zenon
  <2>3. Coding(h, last, key, start.pd, d0, due0, X, n, r)
    BY <2>1, <2>2, PyramidWalk, Zenon
  <2>. HIDE DEF r
  <2>4. /\ Emits(key, d0, due0, r, X \cup CodedUpTo(h, last, n), DueAfter(h, last, n))
        /\ Keeps(start.pd, r.pd)
        /\ r.pd \in Decision /\ r.pd.ok /\ EndsShown(r.emit)
        /\ AtRest(r.pd, key, last + n)
    BY <2>3, Zenon DEF Coding
  <2>5. CodedUpTo(h, last, n) = (last + 1)..(last + n)
    BY CodedSets, Zenon
  <2>6. DueAfter(h, last, n) = last + n + 1
    BY <2>1, DueMoves, Zenon
  <2>. HIDE DEF n
  <2>7. Emits(key, d0, due0, r, X \cup ((last + 1)..(last + n)), last + n + 1)
    BY <2>4, <2>5, <2>6, Zenon
  <2>8. Within(r.pd, key, last + n)
    BY <2>4, Zenon DEF AtRest
  <2>9. Finished(c, key, d0, due0, start, X, last, n, r)
    BY <2>4, <2>7, <2>8, Zenon DEF Finished
  <2>. QED
    BY <2>9, Zenon DEF r, n
<1>. QED
  BY <1>1, <1>2, Zenon

-----------------------------------------------------------------------------

LEMMA CompleteGop ==
  ASSUME NEW c, Config(c), NEW inputs, NEW h \in 0..5, h = 0 <=> c.hierarchical_levels = 0,
         NEW mg, mg.hier = h, Complete(mg),
         NEW key, NEW d0, NEW due0, NEW acc, NEW X, NEW last,
         Reached(c, key, d0, due0, acc, X, last),
         NEW members, Own(inputs, mg, members), Members(mg, members),
         Len(members) = Power[h + 1], NoKeys(members), Follow(members, last)
  PROVE  Reached(c, key, d0, due0, DecideMiniGop(c, inputs, acc, mg),
                 X \cup ((last + 1)..(last + Power[h + 1])), last + Power[h + 1])
<1>. DEFINE n == Power[h + 1]
            start == StartOf(acc, mg, members)
            pics == InOrder(c, mg, acc.pd, members)
            r == ThirdPass(c, start, pics)[Len(pics)]
            now == X \cup ((last + 1)..(last + n))
<1>1. n = 2 ^ h /\ n \in 1..32
  BY ONLY h \in 0..5, PowerIs, Zenon
<1>2. mg.length = n /\ mg.hier \in 0..5
  BY ONLY <1>1, mg.hier = h, h \in 0..5, Complete(mg), Zenon DEF Complete
<1>3. mg.length \in Nat /\ Len(members) >= 1 /\ n \in Nat /\ Len(members) = n /\ n \in 1..n
  <2>1. Len(members) = n
    BY Zenon
  <2>. HIDE DEF n
  <2>. QED
    BY ONLY <1>1, <1>2, <2>1
<1>4. Begun(c, inputs, key, d0, due0, acc, X, last, mg, members)
  BY ONLY <1>2, <1>3, Config(c), Reached(c, key, d0, due0, acc, X, last),
          Own(inputs, mg, members), Members(mg, members), GopStarts, Zenon
<1>5. /\ DecideMiniGop(c, inputs, acc, mg) = r
      /\ Starts(c, key, start, last, mg, members)
      /\ Emits(key, d0, due0, start, X, last + 1)
  BY <1>4, Zenon DEF Begun
<1>6. /\ acc.pd \in Decision /\ key \in Nat /\ last \in Nat /\ key <= last /\ Behind(X, last)
  BY Zenon DEF Reached, Rest
<1>7. /\ start.pd \in Decision /\ start.pd.ok
      /\ start.pd.position = Position(mg, members[Len(members)], Len(members))
      /\ start.pd.base = last + mg.length + 1 /\ start.pd.alt = last + mg.length + 1
      /\ Within(start.pd, key, last)
      /\ c.hierarchical_levels > 0 => AtRest(start.pd, key, last)
  BY <1>5, Zenon DEF Starts
<1>8. Len(pics) = n /\ \A k \in 1..n : InTurn(pics[k], h, last, k)
  <2>1. AllInTurn(pics, h, last)
    BY ONLY <1>6, h \in 0..5, mg.hier = h, Complete(mg), Members(mg, members),
            Len(members) = Power[h + 1], NoKeys(members), Follow(members, last), CompleteTurns,
            Zenon
  <2>. QED
    BY <2>1, Zenon DEF AllInTurn
<1>9. start.pd.position = 0
  <2>1. members[n].is_key = FALSE
    BY <1>3, Zenon DEF NoKeys
  <2>2. Position(mg, members[n], n) = Place(h, n)
    BY <2>1, Zenon DEF Position
  <2>3. Place(h, n) = 0
    BY Zenon DEF Place
  <2>. QED
    BY <1>3, <1>7, <2>2, <2>3, Zenon
<1>. HIDE DEF start, pics
<1>10. Finished(c, key, d0, due0, start, X, last, n, r)
  BY ONLY <1>5, <1>6, <1>7, <1>8, Config(c), h \in 0..5, h = 0 <=> c.hierarchical_levels = 0,
          CompleteWalk, Zenon
<1>. HIDE DEF r, n
<1>11. /\ r.pd \in Decision /\ r.pd.ok /\ Keeps(start.pd, r.pd)
       /\ Within(r.pd, key, last + n)
       /\ c.hierarchical_levels > 0 => AtRest(r.pd, key, last + n)
       /\ Emits(key, d0, due0, r, now, last + n + 1)
       /\ EndsShown(r.emit)
  BY <1>10, Zenon DEF Finished
<1>12. r.pd.position = 0 /\ r.pd.base = last + n + 1 /\ r.pd.alt = last + n + 1
  BY <1>2, <1>7, <1>9, <1>11, Zenon DEF Keeps
<1>13. last + n \in Nat /\ key <= last + n
  BY ONLY <1>3, <1>6
<1>14. Rest(c, r.pd, key, last + n)
  BY <1>6, <1>11, <1>12, <1>13, Zenon DEF Rest
<1>15. Behind(now, last + n)
  BY ONLY <1>3, <1>6 DEF Behind
<1>. HIDE DEF now
<1>16. Reached(c, key, d0, due0, r, now, last + n)
  BY <1>11, <1>14, <1>15, Zenon DEF Reached
<1>. QED
  BY <1>5, <1>16, Zenon DEF now, n

-----------------------------------------------------------------------------
(* The last mini-GOP of a release.                                         *)

\* The k-th picture pass 3 takes is the k-th member.
KeepsTurn(c, mg, pd, members, k) ==
  /\ Len(InOrder(c, mg, pd, members)) = Len(members)
  /\ InOrder(c, mg, pd, members)[k]
       = CodedPic(c, mg, members[k], k, AfterFirst(pd, mg, members, Len(members)).alt + k - 1)

LEMMA CodedInOrder ==
  ASSUME NEW c, NEW mg, NEW pd \in Decision, NEW members, Len(members) \in Nat,
         mg.idr \/ \A j \in 1..Len(members) : mg.length # 2 ^ Level(c, mg, members[j]),
         NEW k \in 1..Len(members)
  PROVE  KeepsTurn(c, mg, pd, members, k)
<1>. DEFINE after == AfterFirst(pd, mg, members, Len(members))
            pics == InOrder(c, mg, pd, members)
            n == Len(members)
            pic(j) == CodedPic(c, mg, members[j], j, after.alt + j - 1)
<1>1. after.alt \in Nat
  BY DEF AfterFirst, Decision
<1>2. InInputOrder(c, mg, after, members)
  <2>. HIDE DEF after
  <2>. QED
    BY ONLY <1>1, Len(members) \in Nat,
            mg.idr \/ \A j \in 1..Len(members) : mg.length # 2 ^ Level(c, mg, members[j]),
            ShortOrder, Zenon
<1>3. pics = [j \in 1..n |-> pic(j)]
  BY ONLY <1>2, Zenon DEF InInputOrder, InOrder, after, pics, n, pic
<1>. HIDE DEF pics, pic, n
<1>4. n \in Nat /\ k \in 1..n
  BY DEF n
<1>5. Len(pics) = n /\ pics[k] = pic(k)
  BY ONLY <1>3, <1>4, SeqDef
<1>. QED
  BY <1>5, Zenon DEF KeepsTurn, pics, pic, n, after

\* A mini-GOP that ends with a key frame leaves the key frame's buffer; held, the key
\* frame stays out of the emit order.
KeyGop(acc, n, poc, held, r) ==
  /\ r.pd \in Decision /\ r.pd.ok /\ r.pd.position = 0
  /\ r.pd.base = acc.pd.base + n /\ r.pd.alt = acc.pd.alt + n
  /\ r.pd.lay0 = 0 /\ r.pd.dpb = [s \in Slots |-> poc]
  /\ IF held THEN r.emit = acc.emit ELSE KeyCoded(acc, poc, r)

\* The key frame of a mini-GOP behind passes 1 and 2.
LEMMA KeyFields ==
  ASSUME NEW c, NEW mg, NEW x \in Input, x.is_key = TRUE, NEW j, NEW d,
         NEW pic, pic = CodedPic(c, mg, x, j, d)
  PROVE  /\ DOMAIN pic = PicFields /\ pic.key = TRUE /\ pic.poc = x.display_order
         /\ pic.poc \in Nat /\ pic.held = ~x.is_eos
<1>1. pic.poc = x.display_order /\ pic.key = x.is_key /\ pic.held = (x.is_key /\ ~x.is_eos)
  BY ONLY pic = CodedPic(c, mg, x, j, d), CodedFields
<1>2. x.is_eos \in BOOLEAN /\ x.display_order \in Nat
  BY DEF Input
<1>3. pic.held = ~x.is_eos
  BY ONLY <1>1, <1>2, x.is_key = TRUE
<1>. QED
  BY <1>1, <1>2, <1>3, CodedDomain, Zenon

\* A key frame alone in its mini-GOP.
LEMMA LoneKeyGop ==
  ASSUME NEW c, c.hierarchical_levels \in 0..5, NEW inputs, NEW mg, mg.hier \in 0..5,
         mg.length = 1, mg.idr, NEW acc, acc.pd \in Decision, acc.pd.ok, acc.pd.position = 0,
         NEW members, Own(inputs, mg, members), Members(mg, members), Len(members) = 1,
         members[1].is_key = TRUE
  PROVE  KeyGop(acc, 1, members[1].display_order, ~members[1].is_eos,
                DecideMiniGop(c, inputs, acc, mg))
<1>. DEFINE pics == InOrder(c, mg, acc.pd, members)
            start == StartOf(acc, mg, members)
            x == members[1]
            pd == acc.pd
            e == Entry(pd, mg, members)
            r == DecideMiniGop(c, inputs, acc, mg)
<1>1. mg.length \in Nat /\ Len(members) >= 1 /\ x \in Input /\ 1 \in 1..Len(members)
  <2>1. members \in Seq(Input)
    BY Zenon DEF Members
  <2>2. x \in Input
    BY ONLY <2>1, Len(members) = 1
  <2>3. mg.length \in Nat
    BY ONLY mg.length = 1
  <2>4. Len(members) >= 1 /\ 1 \in 1..Len(members)
    BY ONLY Len(members) = 1
  <2>. QED
    BY <2>2, <2>3, <2>4, Zenon
<1>2. r = ThirdPass(c, start, pics)[Len(pics)]
  <2>1. Unfolds(c, inputs, acc, mg, members)
    BY ONLY <1>1, c.hierarchical_levels \in 0..5, mg.hier \in 0..5, acc.pd \in Decision,
            acc.pd.position = 0, Own(inputs, mg, members), Members(mg, members), GopUnfolds, Zenon
  <2>. QED
    BY ONLY <2>1, Zenon DEF Unfolds, StartOf, start, pics, r
<1>3. /\ e \in Decision
      /\ e.base = pd.base + mg.length /\ e.alt = pd.alt + mg.length
      /\ e.ok = pd.ok /\ e.position = Position(mg, members[Len(members)], Len(members))
  <2>0. pd \in Decision
    OBVIOUS
  <2>1. mg.length \in Nat /\ Len(members) >= 1
    BY <1>1, Zenon
  <2>. HIDE DEF pd
  <2>. QED
    BY ONLY <2>0, <2>1, mg.hier \in 0..5, Members(mg, members), EntryIs, SMT DEF e
<1>4. e.base = pd.base + 1 /\ e.alt = pd.alt + 1 /\ e.ok
  BY ONLY <1>3, mg.length = 1, acc.pd.ok, Zenon DEF pd
<1>5. e.position = 0
  <2>1. members[Len(members)] = x
    OBVIOUS
  <2>. QED
    BY <1>3, <2>1, Zenon DEF Position
<1>6. start.pd = e /\ start.emit = acc.emit
  BY DEF StartOf
<1>7. /\ Len(pics) = 1
      /\ pics[1] = CodedPic(c, mg, x, 1, AfterFirst(pd, mg, members, Len(members)).alt + 1 - 1)
  <2>1. Len(pics) = Len(members)
        /\ pics[1] = CodedPic(c, mg, x, 1, AfterFirst(pd, mg, members, Len(members)).alt + 1 - 1)
    <3>. DEFINE one == 1
    <3>0. Len(members) \in Nat /\ one \in 1..Len(members)
      OBVIOUS
    <3>. HIDE DEF one
    <3>1. KeepsTurn(c, mg, acc.pd, members, one)
      BY ONLY <3>0, acc.pd \in Decision, mg.idr, CodedInOrder, Zenon
    <3>. QED
      BY <3>1, Zenon DEF KeepsTurn, one
  <2>. QED
    BY ONLY <2>1, Len(members) = 1
<1>. HIDE DEF pics, start, e, r
<1>8. r = PassThree(c, start, pics[1])
  BY <1>2, <1>7, ThirdOfOne, Zenon
<1>. DEFINE pic == pics[1]
<1>9. DOMAIN pic = PicFields /\ pic.key = TRUE /\ pic.poc = x.display_order
      /\ pic.poc \in Nat /\ pic.held = ~x.is_eos
  <2>. DEFINE d == AfterFirst(pd, mg, members, Len(members)).alt + 1 - 1
              one == 1
  <2>1. pic = CodedPic(c, mg, x, one, d)
    BY <1>7
  <2>2. x.is_key = TRUE
    BY Zenon
  <2>. HIDE DEF d, pic, one, x
  <2>. QED
    BY ONLY <1>1, <2>1, <2>2, KeyFields, Zenon
<1>10. KeyDecided(start, x.display_order, ~x.is_eos, r)
  <2>1. start.pd \in Decision /\ start.pd.ok
    BY <1>3, <1>4, <1>6, Zenon
  <2>. HIDE DEF pic
  <2>2. KeyDecided(start, pic.poc, pic.held, PassThree(c, start, pic))
    BY ONLY <1>9, <2>1, KeyCodes, Zenon
  <2>. QED
    BY <1>8, <1>9, <2>2, Zenon DEF pic
<1>11. KeyLeft(start, x.display_order, r)
       /\ IF ~x.is_eos THEN r.emit = start.emit ELSE KeyCoded(start, x.display_order, r)
  BY <1>10, Zenon DEF KeyDecided
<1>12. KeyCoded(start, x.display_order, r) => KeyCoded(acc, x.display_order, r)
  BY <1>6, Zenon DEF KeyCoded
<1>13. /\ r.pd \in Decision /\ r.pd.ok /\ r.pd.position = 0
       /\ r.pd.base = pd.base + 1 /\ r.pd.alt = pd.alt + 1
       /\ r.pd.lay0 = 0 /\ r.pd.dpb = [s \in Slots |-> x.display_order]
  BY <1>4, <1>5, <1>6, <1>11, Zenon DEF KeyLeft
<1>. QED
  BY <1>6, <1>11, <1>12, <1>13, Zenon DEF KeyGop, r, x, pd

-----------------------------------------------------------------------------

\* The end of a release of the pictures from..end: a held key frame is the only picture
\* left in the buffer and is not listed.
HeldBack(c, key, d0, due0, from, end, r) ==
  /\ \E d1 : Chain(key, d0, due0, r.emit, d1, end)
  /\ Lists(r.emit, from..(end - 1))
  /\ Rest(c, r.pd, end, end)
  /\ r.pd.dpb = [s \in Slots |-> end]

\* The emit order has nothing but a key frame at poc.
KeyOnly(poc, r) == \A i \in 1..Len(r.emit) : r.emit[i].poc = poc => r.emit[i].key

\* ... whether it ends with a key frame, and whether that is held.
Ended(c, key, d0, due0, from, end, idr, held, r) ==
  /\ r.pd \in Decision /\ r.pd.ok /\ r.pd.base = end + 1 /\ r.pd.alt = end + 1
  /\ EndsShown(r.emit)
  /\ idr => KeyOnly(end, r)
  /\ IF held THEN HeldBack(c, key, d0, due0, from, end, r)
             ELSE Emits(key, d0, due0, r, from..end, end + 1)

\* The key frame r.pd was left by.
AtKey(poc, r) ==
  /\ r.pd \in Decision /\ r.pd.ok /\ r.pd.position = 0
  /\ r.pd.base = poc + 1 /\ r.pd.alt = poc + 1
  /\ r.pd.lay0 = 0 /\ r.pd.dpb = [s \in Slots |-> poc]

LEMMA KeyRests ==
  ASSUME NEW c, NEW poc \in Nat, NEW r, AtKey(poc, r)
  PROVE  Rest(c, r.pd, poc, poc)
<1>1. /\ r.pd \in Decision /\ r.pd.ok /\ r.pd.position = 0
      /\ r.pd.base = poc + 1 /\ r.pd.alt = poc + 1
      /\ r.pd.lay0 = 0 /\ r.pd.dpb = [s \in Slots |-> poc]
  BY Zenon DEF AtKey
<1>2. poc <= poc
  OBVIOUS
<1>3. \A s \in Slots : r.pd.dpb[s] = poc
  BY <1>1
<1>4. Within(r.pd, poc, poc)
  BY <1>2, <1>3, Zenon DEF Within
<1>5. r.pd.lay0 \in 0..2 /\ r.pd.lay0 \in Slots
  BY <1>1 DEF Slots
<1>6. AtRest(r.pd, poc, poc)
  BY <1>3, <1>4, <1>5, Zenon DEF AtRest
<1>. QED
  BY <1>1, <1>2, <1>4, <1>6, Zenon DEF Rest

LEMMA KeyEnds ==
  ASSUME NEW c, NEW key, NEW d0, NEW due0, NEW acc, NEW from \in Nat, NEW poc \in Nat,
         Emits(key, d0, due0, acc, from..(poc - 1), poc), EndsShown(acc.emit), from <= poc,
         NEW r, AtKey(poc, r), NEW held,
         IF held THEN r.emit = acc.emit ELSE KeyCoded(acc, poc, r)
  PROVE  Ended(c, key, d0, due0, from, poc, TRUE, held, r)
<1>. DEFINE X == from..(poc - 1)
            next == poc + 1
<1>1. Rest(c, r.pd, poc, poc)
  BY KeyRests, Zenon
<1>2. /\ r.pd \in Decision /\ r.pd.ok /\ r.pd.base = poc + 1 /\ r.pd.alt = poc + 1
      /\ r.pd.dpb = [s \in Slots |-> poc]
  BY Zenon DEF AtKey
<1>3. ASSUME held
      PROVE  HeldBack(c, key, d0, due0, from, poc, r) /\ EndsShown(r.emit)
  BY <1>1, <1>2, <1>3, Zenon DEF HeldBack, Emits
<1>4. ASSUME ~held
      PROVE  Emits(key, d0, due0, r, from..poc, poc + 1) /\ EndsShown(r.emit)
  <2>1. Joins(key, acc, poc, poc, r, next)
    BY <1>4, Zenon DEF KeyCoded, Joins
  <2>2. poc \notin X /\ X \cup {poc} = from..poc /\ next # poc
    OBVIOUS
  <2>. HIDE DEF X, next
  <2>3. Emits(key, d0, due0, acc, X, poc)
    BY Zenon DEF X
  <2>4. Grown(key, d0, due0, X, poc, poc, r, next)
    BY ONLY <2>1, <2>2, <2>3, EmitsJoin, Zenon
  <2>. QED
    BY <2>2, <2>4, Zenon DEF Grown, next
<1>5. \A i \in 1..Len(acc.emit) : acc.emit[i].poc # poc
  <2>1. X = {acc.emit[i].poc : i \in 1..Len(acc.emit)}
    BY Zenon DEF Emits, Lists
  <2>2. poc \notin X
    OBVIOUS
  <2>. HIDE DEF X
  <2>. QED
    BY <2>1, <2>2
<1>6. KeyOnly(poc, r)
  <2>1. CASE held
    <3>1. r.emit = acc.emit
      BY <2>1, Zenon
    <3>. QED
      BY <1>5, <3>1, Zenon DEF KeyOnly
  <2>2. CASE ~held
    <3>1. PICK p : r.emit = Append(acc.emit, p) /\ p.poc = poc /\ p.key
      BY <2>2, Zenon DEF KeyCoded
    <3>2. PICK S : acc.emit \in Seq(S)
      BY Zenon DEF Emits, Lists
    <3>. DEFINE e == acc.emit
    <3>3. e \in Seq(S \cup {p}) /\ p \in S \cup {p}
      BY <3>2
    <3>. HIDE DEF e
    <3>4. /\ Len(Append(e, p)) = Len(e) + 1 /\ Len(e) \in Nat /\ Append(e, p)[Len(e) + 1] = p
          /\ \A i \in 1..Len(e) : Append(e, p)[i] = e[i]
      BY ONLY <3>3
    <3>5. \A i \in 1..(Len(e) + 1) : i \in 1..Len(e) \/ i = Len(e) + 1
      BY ONLY <3>4
    <3>. QED
      BY <1>5, <3>1, <3>4, <3>5, Zenon DEF KeyOnly, e
  <2>. QED
    BY <2>1, <2>2
<1>. QED
  BY <1>2, <1>3, <1>4, <1>6, Zenon DEF Ended

-----------------------------------------------------------------------------

LEMMA LayerOfShort == Place(1, 1) = 1 /\ TemporalLayer(1, 1) = 1
BY DEF Place, Power, TemporalLayer, PRED_STRUCT_TEMPORAL_LAYER

\* The picture a mini-GOP of level 1 starts with, when it is cut short.
LEMMA ShortFields ==
  ASSUME NEW c, NEW mg, mg.hier = 1, mg.idr \/ mg.length = 1,
         NEW x, x.is_key = FALSE, NEW last, x.display_order = last + 1, NEW d,
         NEW pic, pic = CodedPic(c, mg, x, 1, d)
  PROVE  Short(pic, last)
<1>. DEFINE one == 1
            i == one - 1
<1>1. /\ pic.poc = x.display_order /\ pic.key = x.is_key
      /\ pic.hier = Level(c, mg, x)
      /\ pic.cut_short = CutShort(mg, x.is_key)
      /\ pic.layer = TemporalLayer(Level(c, mg, x), Position(mg, x, one))
      /\ pic.pic_idx = i
      /\ pic.held = (x.is_key /\ ~x.is_eos)
  <2>1. pic = CodedPic(c, mg, x, one, d)
    BY Zenon
  <2>. HIDE DEF one
  <2>. QED
    BY ONLY <2>1, CodedFields DEF i
<1>2. Level(c, mg, x) = 1
  BY Zenon DEF Level
<1>3. Position(mg, x, one) = Place(mg.hier, one)
  BY Zenon DEF Position
<1>4. Position(mg, x, one) = one /\ TemporalLayer(Level(c, mg, x), one) = one
  BY <1>2, <1>3, LayerOfShort, Zenon
<1>5. CutShort(mg, FALSE) = TRUE
  <2>. DEFINE z == 2 ^ mg.hier
  <2>1. z = 2
    <3>1. 2 ^ mg.hier = 2 ^ 1
      BY Zenon
    <3>. QED
      BY <3>1, Powers, Zenon
  <2>. HIDE DEF z
  <2>2. CutShort(mg, FALSE) = (~FALSE /\ (mg.idr \/ mg.length < z))
    BY Zenon DEF CutShort, z
  <2>3. mg.length = 1 => mg.length < z
    BY ONLY <2>1
  <2>. QED
    BY <2>2, <2>3, Zenon
<1>6. i = 0
  OBVIOUS
<1>7. pic.held = FALSE
  BY ONLY <1>1, x.is_key = FALSE
<1>8. pic.cut_short = TRUE /\ pic.key = FALSE /\ pic.poc = last + 1
  BY <1>1, <1>5, Zenon
<1>9. pic.hier = 1 /\ pic.layer = 1 /\ pic.pic_idx = 0
  BY <1>1, <1>2, <1>4, <1>6, Zenon
<1>10. DOMAIN pic = PicFields
  BY CodedDomain, Zenon
<1>. QED
  BY <1>7, <1>8, <1>9, <1>10, Zenon DEF Short

\* Such a mini-GOP starts with that picture.
ShortCoded(c, key, d0, due0, from, last, start, q) ==
  /\ Emits(key, d0, due0, q, from..(last + 1), last + 2) /\ EndsShown(q.emit)
  /\ q.pd \in Decision /\ q.pd.ok
  /\ q.pd.position = start.pd.position /\ q.pd.base = start.pd.base /\ q.pd.alt = start.pd.alt

LEMMA ShortStep ==
  ASSUME NEW c, Config(c), c.hierarchical_levels > 0, NEW key \in Nat, NEW last \in Nat,
         key <= last, NEW start, start.pd \in Decision, start.pd.ok, AtRest(start.pd, key, last),
         NEW from \in Nat, from <= last + 1, NEW d0, NEW due0,
         Emits(key, d0, due0, start, from..last, last + 1),
         NEW pic, Short(pic, last)
  PROVE  ShortCoded(c, key, d0, due0, from, last, start, PassThree(c, start, pic))
<1>. DEFINE q == PassThree(c, start, pic)
            X == from..last
            poc == last + 1
            next == last + 2
<1>1. Codes(key, start, poc, poc, q, next)
  BY ShortCodes, Zenon
<1>2. poc \notin X /\ X \cup {poc} = from..poc /\ next # poc
  OBVIOUS
<1>. HIDE DEF q, X, poc, next
<1>3. Emits(key, d0, due0, start, X, poc)
  BY Zenon DEF X, poc
<1>4. Grown(key, d0, due0, X, poc, poc, q, next)
  BY ONLY <1>1, <1>2, <1>3, EmitsMore, Zenon
<1>5. Emits(key, d0, due0, q, from..poc, next) /\ EndsShown(q.emit)
  BY <1>2, <1>4, Zenon DEF Grown
<1>. QED
  BY <1>1, <1>5, Zenon DEF Codes, ShortCoded, q, poc, next

-----------------------------------------------------------------------------

\* What pass 3 starts from, for a mini-GOP of level 1 behind picture last.
ShortStart(c, inputs, key, d0, due0, from, last, acc, mg, members) ==
  LET start == StartOf(acc, mg, members)
      pics  == InOrder(c, mg, acc.pd, members)
  IN  /\ DecideMiniGop(c, inputs, acc, mg) = ThirdPass(c, start, pics)[Len(pics)]
      /\ Len(pics) = Len(members)
      /\ ShortCoded(c, key, d0, due0, from, last, start, PassThree(c, start, pics[1]))
      /\ start.pd.position = Position(mg, members[Len(members)], Len(members))
      /\ start.pd.base = last + mg.length + 1 /\ start.pd.alt = last + mg.length + 1

LEMMA ShortStarts ==
  ASSUME NEW c, Config(c), c.hierarchical_levels > 0, NEW inputs, NEW mg, mg.hier = 1,
         mg.length \in Nat, mg.idr \/ mg.length = 1,
         NEW key, NEW d0, NEW due0, NEW acc, NEW from \in Nat, NEW last, from <= last + 1,
         Reached(c, key, d0, due0, acc, from..last, last),
         NEW members, Own(inputs, mg, members), Members(mg, members), Len(members) >= 1,
         members[1].is_key = FALSE, members[1].display_order = last + 1,
         mg.idr \/ \A j \in 1..Len(members) : mg.length # 2 ^ Level(c, mg, members[j])
  PROVE  ShortStart(c, inputs, key, d0, due0, from, last, acc, mg, members)
<1>. DEFINE start == StartOf(acc, mg, members)
            pics == InOrder(c, mg, acc.pd, members)
            X == from..last
            pic == pics[1]
            q == PassThree(c, start, pic)
            n == Len(members)
            one == 1
            d == AfterFirst(acc.pd, mg, members, n).alt + one - 1
<1>1. mg.hier \in 0..5 /\ n \in Nat /\ one \in 1..n
  BY DEF Members
<1>2. Begun(c, inputs, key, d0, due0, acc, X, last, mg, members)
  <2>1. mg.hier \in 0..5 /\ Reached(c, key, d0, due0, acc, X, last)
    BY <1>1, Zenon
  <2>. HIDE DEF X
  <2>. QED
    BY ONLY <2>1, Config(c), mg.length \in Nat, Own(inputs, mg, members), Members(mg, members),
            Len(members) >= 1, GopStarts, Zenon
<1>3. /\ DecideMiniGop(c, inputs, acc, mg) = ThirdPass(c, start, pics)[Len(pics)]
      /\ Starts(c, key, start, last, mg, members)
      /\ Emits(key, d0, due0, start, X, last + 1)
  BY <1>2, Zenon DEF Begun
<1>4. acc.pd \in Decision /\ key \in Nat /\ last \in Nat /\ key <= last
  BY Zenon DEF Reached, Rest
<1>5. /\ start.pd \in Decision /\ start.pd.ok
      /\ start.pd.position = Position(mg, members[n], n)
      /\ start.pd.base = last + mg.length + 1 /\ start.pd.alt = last + mg.length + 1
      /\ AtRest(start.pd, key, last)
  BY <1>3, Zenon DEF Starts
<1>. HIDE DEF start, pics, one, n, d
<1>6. Len(pics) = n /\ pics[one] = CodedPic(c, mg, members[one], one, d)
  <2>0. mg.idr \/ \A j \in 1..n : mg.length # 2 ^ Level(c, mg, members[j])
    BY Zenon DEF n
  <2>1. KeepsTurn(c, mg, acc.pd, members, one)
    BY ONLY <1>1, <1>4, <2>0, CodedInOrder, Zenon DEF n
  <2>. QED
    BY <2>1, Zenon DEF KeepsTurn, pics, n, d
<1>7. Short(pic, last)
  <2>0. pic = CodedPic(c, mg, members[1], 1, d)
    BY <1>6, Zenon DEF one
  <2>. DEFINE x == members[1]
  <2>1. x.is_key = FALSE /\ x.display_order = last + 1 /\ pic = CodedPic(c, mg, x, 1, d)
    BY <2>0, Zenon
  <2>. HIDE DEF x, pic
  <2>. QED
    BY ONLY <2>1, mg.hier = 1, mg.idr \/ mg.length = 1, ShortFields, Zenon
<1>. HIDE DEF pic, q
<1>8. ShortCoded(c, key, d0, due0, from, last, start, q)
  <2>1. Emits(key, d0, due0, start, from..last, last + 1)
    BY <1>3, Zenon
  <2>. QED
    BY ONLY <1>4, <1>5, <1>7, <2>1, Config(c), c.hierarchical_levels > 0, from \in Nat,
            from <= last + 1, ShortStep, Zenon DEF q
<1>. QED
  BY <1>3, <1>5, <1>6, <1>8, Zenon DEF ShortStart, start, pics, n, q, pic

\* The lone picture a flush leaves over.
LEMMA ShortGop ==
  ASSUME NEW c, Config(c), c.hierarchical_levels > 0, NEW inputs, NEW mg, mg.hier = 1,
         mg.length = 1,
         NEW key, NEW d0, NEW due0, NEW acc, NEW from \in Nat, NEW last, from <= last + 1,
         Reached(c, key, d0, due0, acc, from..last, last),
         NEW members, Own(inputs, mg, members), Members(mg, members), Len(members) = 1,
         members[1].is_key = FALSE, members[1].display_order = last + 1
  PROVE  Ended(c, key, d0, due0, from, last + 1, FALSE, FALSE, DecideMiniGop(c, inputs, acc, mg))
<1>. DEFINE start == StartOf(acc, mg, members)
            pics == InOrder(c, mg, acc.pd, members)
            q == PassThree(c, start, pics[1])
            r == DecideMiniGop(c, inputs, acc, mg)
            end == last + 1
<1>1. mg.length \in Nat /\ (mg.idr \/ mg.length = 1) /\ Len(members) >= 1
  <2>1. mg.length \in Nat
    BY ONLY mg.length = 1
  <2>. QED
    BY <2>1
<1>2. \A j \in 1..Len(members) : mg.length # 2 ^ Level(c, mg, members[j])
  <2>. SUFFICES ASSUME NEW j \in 1..Len(members)
                PROVE  mg.length # 2 ^ Level(c, mg, members[j])
    OBVIOUS
  <2>1. members[j] = members[1]
    <3>1. j = 1
      BY ONLY j \in 1..Len(members), Len(members) = 1
    <3>. QED
      BY <3>1, Zenon
  <2>2. Level(c, mg, members[j]) = 1
    BY <2>1, Zenon DEF Level
  <2>3. 2 ^ Level(c, mg, members[j]) = 2 ^ 1
    BY <2>2, Zenon
  <2>4. 2 ^ Level(c, mg, members[j]) = 2
    BY <2>3, Powers, Zenon
  <2>. DEFINE v == 2 ^ Level(c, mg, members[j])
  <2>5. v = 2
    BY <2>4
  <2>. HIDE DEF v
  <2>6. mg.length # v
    BY ONLY <2>5, mg.length = 1
  <2>. QED
    BY <2>6, Zenon DEF v
<1>3. ShortStart(c, inputs, key, d0, due0, from, last, acc, mg, members)
  BY ONLY <1>1, <1>2, Config(c), c.hierarchical_levels > 0, mg.hier = 1, from \in Nat,
          from <= last + 1, Reached(c, key, d0, due0, acc, from..last, last),
          Own(inputs, mg, members), Members(mg, members), members[1].is_key = FALSE,
          members[1].display_order = last + 1, ShortStarts, Zenon
<1>4. /\ r = ThirdPass(c, start, pics)[Len(pics)]
      /\ Len(pics) = Len(members)
      /\ ShortCoded(c, key, d0, due0, from, last, start, q)
      /\ start.pd.base = last + mg.length + 1 /\ start.pd.alt = last + mg.length + 1
  BY <1>3, Zenon DEF ShortStart
<1>. HIDE DEF r, q, start, pics
<1>5. r = q
  BY <1>4, ThirdOfOne, Zenon DEF q
<1>6. last \in Nat
  BY Zenon DEF Reached, Rest
<1>7. last + 2 = end + 1 /\ last + mg.length + 1 = end + 1
  BY <1>6
<1>8. /\ Emits(key, d0, due0, r, from..end, end + 1) /\ EndsShown(r.emit)
      /\ r.pd \in Decision /\ r.pd.ok
      /\ r.pd.base = end + 1 /\ r.pd.alt = end + 1
  BY <1>4, <1>5, <1>7, Zenon DEF ShortCoded
<1>. HIDE DEF end
<1>9. Ended(c, key, d0, due0, from, end, FALSE, FALSE, r)
  BY <1>8, Zenon DEF Ended
<1>. QED
  BY <1>9, Zenon DEF end, r

-----------------------------------------------------------------------------

\* A key frame alone in the last mini-GOP.
LEMMA KeyAloneEnds ==
  ASSUME NEW c, Config(c), NEW inputs, NEW mg, mg.hier \in 0..5, mg.length = 1, mg.idr,
         NEW key, NEW d0, NEW due0, NEW acc, NEW from \in Nat, NEW last, from <= last + 1,
         Reached(c, key, d0, due0, acc, from..last, last),
         NEW members, Own(inputs, mg, members), Members(mg, members), Len(members) = 1,
         members[1].is_key = TRUE, members[1].display_order = last + 1
  PROVE  Ended(c, key, d0, due0, from, last + 1, TRUE, ~members[1].is_eos,
               DecideMiniGop(c, inputs, acc, mg))
<1>. DEFINE r == DecideMiniGop(c, inputs, acc, mg)
            poc == last + 1
            held == ~members[1].is_eos
<1>1. c.hierarchical_levels \in 0..5
  BY Zenon DEF Config
<1>2. /\ acc.pd \in Decision /\ acc.pd.ok /\ acc.pd.position = 0
      /\ acc.pd.base = last + 1 /\ acc.pd.alt = last + 1 /\ last \in Nat
      /\ Emits(key, d0, due0, acc, from..last, last + 1) /\ EndsShown(acc.emit)
  BY Zenon DEF Reached, Rest
<1>3. KeyGop(acc, 1, members[1].display_order, ~members[1].is_eos,
             DecideMiniGop(c, inputs, acc, mg))
  <2>1. acc.pd \in Decision /\ acc.pd.ok /\ acc.pd.position = 0
    BY <1>2, Zenon
  <2>. QED
    BY ONLY <1>1, <2>1, mg.hier \in 0..5, mg.length = 1, mg.idr, Own(inputs, mg, members),
            Members(mg, members), Len(members) = 1, members[1].is_key = TRUE, LoneKeyGop, Zenon
<1>4. KeyGop(acc, 1, poc, held, r)
  BY <1>3, Zenon
<1>5. poc \in Nat /\ from <= poc /\ poc - 1 = last
  BY <1>2
<1>6. acc.pd.base + 1 = poc + 1 /\ acc.pd.alt + 1 = poc + 1
  BY <1>2, Zenon
<1>. HIDE DEF r, held
<1>7. AtKey(poc, r) /\ IF held THEN r.emit = acc.emit ELSE KeyCoded(acc, poc, r)
  BY <1>4, <1>6, Zenon DEF KeyGop, AtKey
<1>8. Emits(key, d0, due0, acc, from..(poc - 1), poc)
  BY <1>2, <1>5, Zenon
<1>. HIDE DEF poc
<1>9. Ended(c, key, d0, due0, from, poc, TRUE, held, r)
  BY ONLY <1>2, <1>5, <1>7, <1>8, from \in Nat, KeyEnds, Zenon
<1>. QED
  BY <1>9, Zenon DEF poc, held, r

\* A key frame behind the picture in front of it.
LEMMA KeyBehindEnds ==
  ASSUME NEW c, Config(c), c.hierarchical_levels > 0, NEW inputs, NEW mg, mg.hier = 1,
         mg.length = 2, mg.idr,
         NEW key, NEW d0, NEW due0, NEW acc, NEW from \in Nat, NEW last, from <= last + 1,
         Reached(c, key, d0, due0, acc, from..last, last),
         NEW members, Own(inputs, mg, members), Members(mg, members), Len(members) = 2,
         members[1].is_key = FALSE, members[1].display_order = last + 1,
         members[2].is_key = TRUE, members[2].display_order = last + 2
  PROVE  Ended(c, key, d0, due0, from, last + 2, TRUE, ~members[2].is_eos,
               DecideMiniGop(c, inputs, acc, mg))
<1>. DEFINE start == StartOf(acc, mg, members)
            pics == InOrder(c, mg, acc.pd, members)
            q == PassThree(c, start, pics[1])
            r == DecideMiniGop(c, inputs, acc, mg)
            poc == last + 2
            x == members[2]
            held == ~x.is_eos
            pic == pics[2]
            two == 2
            d == AfterFirst(acc.pd, mg, members, Len(members)).alt + two - 1
<1>1. mg.length \in Nat /\ Len(members) >= 1
  <2>1. mg.length \in Nat
    BY ONLY mg.length = 2
  <2>. QED
    BY <2>1
<1>2. ShortStart(c, inputs, key, d0, due0, from, last, acc, mg, members)
  BY ONLY <1>1, Config(c), c.hierarchical_levels > 0, mg.hier = 1, mg.idr, from \in Nat,
          from <= last + 1, Reached(c, key, d0, due0, acc, from..last, last),
          Own(inputs, mg, members), Members(mg, members), members[1].is_key = FALSE,
          members[1].display_order = last + 1, ShortStarts, Zenon
<1>3. /\ r = ThirdPass(c, start, pics)[Len(pics)]
      /\ Len(pics) = Len(members)
      /\ ShortCoded(c, key, d0, due0, from, last, start, q)
      /\ start.pd.position = Position(mg, members[Len(members)], Len(members))
      /\ start.pd.base = last + mg.length + 1 /\ start.pd.alt = last + mg.length + 1
  BY <1>2, Zenon DEF ShortStart
<1>4. x \in Input /\ two \in 1..Len(members) /\ Len(members) \in Nat
  <2>1. members \in Seq(Input)
    BY Zenon DEF Members
  <2>. QED
    BY ONLY <2>1, Len(members) = 2
<1>5. last \in Nat /\ acc.pd \in Decision
  BY Zenon DEF Reached, Rest
<1>6. Position(mg, members[Len(members)], Len(members)) = 0
  BY Zenon DEF Position
<1>. HIDE DEF r, q, start, pics, d, two
<1>7. r = PassThree(c, q, pic)
  BY <1>3, ThirdOfTwo, Zenon DEF q
<1>8. /\ Emits(key, d0, due0, q, from..(last + 1), last + 2) /\ EndsShown(q.emit)
      /\ q.pd \in Decision /\ q.pd.ok
      /\ q.pd.position = start.pd.position /\ q.pd.base = start.pd.base /\ q.pd.alt = start.pd.alt
  BY <1>3, Zenon DEF ShortCoded
<1>9. pics[two] = CodedPic(c, mg, members[two], two, d)
  <2>1. KeepsTurn(c, mg, acc.pd, members, two)
    BY ONLY <1>4, <1>5, mg.idr, CodedInOrder, Zenon
  <2>. QED
    BY <2>1, Zenon DEF KeepsTurn, pics, d
<1>10. /\ DOMAIN pic = PicFields /\ pic.key = TRUE /\ pic.poc = x.display_order
       /\ pic.poc \in Nat /\ pic.held = held
  <2>1. pic = CodedPic(c, mg, x, two, d) /\ x.is_key = TRUE /\ x \in Input
    BY <1>4, <1>9, Zenon DEF two
  <2>. HIDE DEF pic, x
  <2>. QED
    BY ONLY <2>1, KeyFields, Zenon
<1>11. KeyDecided(q, poc, held, r)
  <2>1. q.pd \in Decision /\ q.pd.ok /\ x.display_order = poc
    BY <1>8, Zenon
  <2>. HIDE DEF pic, x, held, poc
  <2>2. KeyDecided(q, pic.poc, pic.held, PassThree(c, q, pic))
    BY ONLY <1>10, <2>1, KeyCodes, Zenon
  <2>. QED
    BY <1>7, <1>10, <2>1, <2>2, Zenon
<1>12. poc \in Nat /\ from <= poc /\ poc - 1 = last + 1 /\ last + mg.length + 1 = poc + 1
  BY <1>5
<1>13. KeyLeft(q, poc, r) /\ IF held THEN r.emit = q.emit ELSE KeyCoded(q, poc, r)
  <2>. HIDE DEF held, poc
  <2>. QED
    BY <1>11, Zenon DEF KeyDecided
<1>14. Emits(key, d0, due0, q, from..(poc - 1), poc)
  BY <1>8, <1>12, Zenon
<1>. HIDE DEF poc, held
<1>15. AtKey(poc, r)
  BY <1>3, <1>6, <1>8, <1>12, <1>13, Zenon DEF KeyLeft, AtKey
<1>16. Ended(c, key, d0, due0, from, poc, TRUE, held, r)
  BY ONLY <1>8, <1>12, <1>13, <1>14, <1>15, from \in Nat, KeyEnds, Zenon
<1>. QED
  BY <1>16, Zenon DEF poc, held, r, x

-----------------------------------------------------------------------------
(* The members of a mini-GOP within its release.                           *)

LEMMA MiniGopFields ==
  \A mg \in MiniGop : /\ mg.start \in Nat /\ mg.end \in Nat /\ mg.length \in Nat
                      /\ mg.hier \in 0..5 /\ mg.idr \in BOOLEAN
<1>. TAKE mg \in MiniGop
<1>1. mg.start \in 0..31 /\ mg.end \in 0..31 /\ mg.length \in 1..32
  BY DEF MiniGop
<1>2. mg.hier \in 0..5 /\ mg.idr \in BOOLEAN
  BY DEF MiniGop
<1>3. mg.start \in Nat /\ mg.end \in Nat /\ mg.length \in Nat
  BY ONLY <1>1
<1>. QED
  BY <1>2, <1>3

LEMMA CutWithin ==
  ASSUME NEW n \in 1..32, NEW idr \in BOOLEAN, NEW mgs, IsCut(n, idr, mgs)
  PROVE  \A i \in 1..Len(mgs) : mgs[i].end <= n - 1
<1>. DEFINE m == Len(mgs)
            T == {k \in Nat : \A i \in 1..m : i + k >= m => mgs[i].end <= n - 1}
<1>1. /\ m \in Nat \ {0} /\ mgs[m].end = n - 1
      /\ \A i \in 1..m : mgs[i] \in MiniGop /\ mgs[i].start <= mgs[i].end
      /\ \A i \in 1..(m - 1) : mgs[i + 1].start = mgs[i].end + 1
  <2>1. mgs \in Seq(MiniGop) /\ mgs # <<>>
    BY Zenon DEF IsCut
  <2>2. m \in Nat \ {0} /\ \A i \in 1..m : mgs[i] \in MiniGop
    BY ONLY <2>1, EmptySeq
  <2>. QED
    BY <2>2, Zenon DEF IsCut
<1>2. \A i \in 1..m : mgs[i].start \in Nat /\ mgs[i].end \in Nat
  BY <1>1, MiniGopFields, Zenon
<1>. HIDE DEF m
<1>3. 0 \in T
  <2>1. \A i \in 1..m : i + 0 >= m => i = m
    BY ONLY <1>1
  <2>2. n - 1 <= n - 1
    BY ONLY n \in 1..32
  <2>. QED
    BY <1>1, <2>1, <2>2
<1>4. ASSUME NEW k \in Nat, k \in T
      PROVE  k + 1 \in T
  <2>. SUFFICES ASSUME NEW i \in 1..m, i + (k + 1) >= m
                PROVE  mgs[i].end <= n - 1
    OBVIOUS
  <2>1. CASE i = m
    BY ONLY <1>1, <2>1, n \in 1..32
  <2>2. CASE i # m
    <3>1. i \in 1..(m - 1) /\ i + 1 \in 1..m /\ (i + 1) + k >= m
      BY ONLY <1>1, <2>2, i \in 1..m, k \in Nat, i + (k + 1) >= m
    <3>2. mgs[i + 1].end <= n - 1
      BY <1>4, <3>1
    <3>. DEFINE a == mgs[i].end
                b == mgs[i + 1].end
    <3>3. a \in Nat /\ b \in Nat /\ a + 1 <= b /\ b <= n - 1
      BY <1>1, <1>2, <3>1, <3>2
    <3>. HIDE DEF a, b
    <3>4. a <= n - 1
      BY ONLY <3>3, n \in 1..32
    <3>. QED
      BY <3>4 DEF a
  <2>. QED
    BY <2>1, <2>2
<1>. HIDE DEF T
<1>5. m \in T
  BY <1>1, <1>3, <1>4, Induction
<1>. QED
  BY ONLY <1>1, <1>5 DEF T, m

\* A release of the pictures behind from - 1, of which only the last may be a key frame.
Released(inputs, from, key_member) ==
  /\ inputs \in Seq(Input) /\ Len(inputs) \in 1..32
  /\ \A j \in 1..Len(inputs) : inputs[j].display_order = from + j - 1
  /\ \A j \in 1..(Len(inputs) - 1) : inputs[j].is_key = FALSE
  /\ inputs[Len(inputs)].is_key = key_member

\* The members of its i-th mini-GOP.
Membership(inputs, from, mgs, i, members) ==
  /\ Own(inputs, mgs[i], members)
  /\ members \in Seq(Input) /\ Len(members) = mgs[i].length
  /\ Follow(members, from + mgs[i].start - 1)
  /\ \A j \in 1..(Len(members) - 1) : members[j].is_key = FALSE
  /\ members[Len(members)].is_key = mgs[i].idr
  /\ i = Len(mgs) => members[Len(members)].is_eos = inputs[Len(inputs)].is_eos

LEMMA GopMembers ==
  ASSUME NEW from \in Nat, NEW key_member \in BOOLEAN, NEW inputs,
         Released(inputs, from, key_member),
         NEW mgs, IsCut(Len(inputs), key_member, mgs), NEW i \in 1..Len(mgs)
  PROVE  Membership(inputs, from, mgs, i, SubSeq(inputs, mgs[i].start + 1, mgs[i].end + 1))
<1>. DEFINE n == Len(inputs)
            a == mgs[i].start
            b == mgs[i].end
            members == SubSeq(inputs, a + 1, b + 1)
            len == mgs[i].length
            m == Len(mgs)
<1>1. /\ inputs \in Seq(Input) /\ n \in 1..32
      /\ \A j \in 1..n : inputs[j].display_order = from + j - 1
      /\ \A j \in 1..(n - 1) : inputs[j].is_key = FALSE
      /\ inputs[n].is_key = key_member
  BY Zenon DEF Released
<1>2. /\ a <= b /\ len = b - a + 1 /\ mgs[m].end = n - 1
      /\ mgs[i].idr <=> (key_member /\ i = m)
  BY Zenon DEF IsCut
<1>3. a \in Nat /\ b \in Nat /\ mgs[i].idr \in BOOLEAN
  <2>1. mgs \in Seq(MiniGop)
    BY Zenon DEF IsCut
  <2>2. mgs[i] \in MiniGop
    BY ONLY <2>1, i \in 1..Len(mgs)
  <2>. QED
    BY <2>2, MiniGopFields, Zenon
<1>4. b <= n - 1
  BY <1>1, CutWithin, Zenon
<1>4a. m \in Nat /\ i \in 1..m
  <2>1. mgs \in Seq(MiniGop)
    BY Zenon DEF IsCut
  <2>. QED
    BY ONLY <2>1, i \in 1..Len(mgs)
<1>4b. i # m => b < n - 1
  <2>1. ASSUME i # m
        PROVE  b < n - 1
    <3>1. i \in 1..(m - 1) /\ i + 1 \in 1..m
      BY ONLY <1>4a, <2>1
    <3>2. mgs[i + 1].start = b + 1 /\ mgs[i + 1].start <= mgs[i + 1].end
      BY <3>1, Zenon DEF IsCut
    <3>3. mgs[i + 1].end <= n - 1
      BY <1>1, <3>1, CutWithin, Zenon
    <3>. DEFINE e == mgs[i + 1].end
    <3>4. e \in Nat
      <4>1. mgs \in Seq(MiniGop)
        BY Zenon DEF IsCut
      <4>2. mgs[i + 1] \in MiniGop
        BY ONLY <3>1, <4>1
      <4>. QED
        BY <4>2, MiniGopFields, Zenon
    <3>5. b + 1 <= e /\ e <= n - 1
      BY <3>2, <3>3
    <3>. HIDE DEF e, b, n
    <3>. QED
      BY ONLY <1>1, <1>3, <3>4, <3>5
  <2>. QED
    BY <2>1
<1>. HIDE DEF n, a, b, len, m
<1>5. /\ members \in Seq(Input) /\ Len(members) = b - a + 1
      /\ \A j \in 1..(b - a + 1) : members[j] = inputs[a + j]
  BY ONLY <1>1, <1>2, <1>3, <1>4 DEF n
<1>. HIDE DEF members
<1>6. Len(members) = len /\ len \in 1..32
  <2>1. len \in 1..32
    <3>1. a <= b /\ len = b - a + 1 /\ n \in 1..32
      BY <1>1, <1>2, Zenon
    <3>. QED
      <4>1. a \in Nat /\ b \in Nat
        BY <1>3, Zenon
      <4>. QED
        BY ONLY <1>4, <3>1, <4>1
  <2>. QED
    BY <1>2, <1>5, <2>1, Zenon
<1>7. \A j \in 1..len : a + j \in 1..n /\ members[j] = inputs[a + j]
  BY ONLY <1>1, <1>2, <1>3, <1>4, <1>5
<1>8. Follow(members, from + a - 1)
  <2>1. \A j \in 1..len : members[j].display_order = from + (a + j) - 1
    BY <1>1, <1>7
  <2>2. \A j \in 1..len : from + (a + j) - 1 = from + a - 1 + j
    BY ONLY <1>3, <1>6, from \in Nat
  <2>. QED
    BY <1>6, <2>1, <2>2, Zenon DEF Follow
<1>9. \A j \in 1..(Len(members) - 1) : members[j].is_key = FALSE
  <2>1. \A j \in 1..(len - 1) : j \in 1..len /\ a + j \in 1..(n - 1)
    BY ONLY <1>1, <1>2, <1>3, <1>4, <1>6
  <2>. QED
    BY <1>1, <1>6, <1>7, <2>1, Zenon
<1>10. a + len = b + 1 /\ len \in 1..len
  BY ONLY <1>2, <1>3, <1>6
<1>11. members[len] = inputs[b + 1]
  BY <1>7, <1>10, Zenon
<1>12. CASE i = m
  <2>1. b + 1 = n
    BY ONLY <1>1, <1>2, <1>12 DEF b
  <2>2. mgs[i].idr = key_member
    BY ONLY <1>2, <1>3, <1>12, key_member \in BOOLEAN
  <2>. QED
    BY <1>1, <1>5, <1>6, <1>8, <1>9, <1>11, <2>1, <2>2, Zenon
       DEF Membership, Own, a, b, len, m, n, members
<1>13. CASE i # m
  <2>1. b + 1 \in 1..(n - 1)
    BY ONLY <1>1, <1>3, <1>4b, <1>13
  <2>2. mgs[i].idr = FALSE
    BY ONLY <1>2, <1>3, <1>13
  <2>3. members[len].is_key = mgs[i].idr
    BY <1>1, <1>11, <2>1, <2>2, Zenon
  <2>. QED
    BY <1>5, <1>6, <1>8, <1>9, <1>13, <2>3, Zenon
       DEF Membership, Own, a, b, len, m, n, members
<1>. QED
  BY <1>12, <1>13

-----------------------------------------------------------------------------

\* A mini-GOP of at most two pictures, or a complete one, has a position for each.
LEMMA MembersPlaced ==
  ASSUME NEW mg \in MiniGop, NEW members \in Seq(Input), Len(members) = mg.length,
         mg.length >= 1,
         Complete(mg) \/ mg.length = 1 \/ (mg.length = 2 /\ mg.hier = 1),
         \A j \in 1..(Len(members) - 1) : members[j].is_key = FALSE
  PROVE  Members(mg, members)
<1>. DEFINE n == Len(members)
            h == mg.hier
            top == Power[h + 1]
<1>1. n \in Nat /\ n >= 1 /\ h \in 0..5
  BY MiniGopFields
<1>2. top = 2 ^ h /\ top \in 1..32
  BY ONLY <1>1, PowerIs, Zenon
<1>3. n <= top
  <2>1. CASE Complete(mg)
    <3>1. n = top
      BY ONLY <1>2, <2>1, Len(members) = mg.length, Zenon DEF Complete
    <3>. HIDE DEF top
    <3>. QED
      BY ONLY <1>2, <3>1
  <2>2. CASE mg.length = 1
    <3>1. n = 1 /\ top \in 1..32
      BY <1>2, <2>2, Zenon
    <3>. HIDE DEF top, n
    <3>. QED
      BY ONLY <3>1
  <2>3. CASE mg.length = 2 /\ mg.hier = 1
    <3>1. top = 2 ^ 1
      BY <1>2, <2>3, Zenon
    <3>2. top = 2 /\ n = 2
      BY <2>3, <3>1, Powers, Zenon
    <3>. HIDE DEF top
    <3>. QED
      BY ONLY <3>2
  <2>. QED
    BY <2>1, <2>2, <2>3
<1>. HIDE DEF top, h, n
<1>4. \A j \in 1..n : j <= top
  BY ONLY <1>1, <1>2, <1>3
<1>5. \A j \in 1..n : j = n \/ j \in 1..(n - 1)
  BY ONLY <1>1
<1>. QED
  BY <1>4, <1>5, Zenon DEF Members, n, top, h

\* A walk over the mini-GOPs of a release has come to the i-th.
At(c, key, d0, due0, from, mgs, i, acc) ==
  Reached(c, key, d0, due0, acc, from..(from + mgs[i].start - 1), from + mgs[i].start - 1)

\* ... and has gone over it.
Past(c, key, d0, due0, from, mgs, i, r) ==
  Reached(c, key, d0, due0, r, from..(from + mgs[i].end), from + mgs[i].end)

LEMMA CompleteStep ==
  ASSUME NEW c, Config(c), NEW from \in Nat, NEW key_member \in BOOLEAN, NEW inputs,
         Released(inputs, from, key_member),
         NEW mgs, IsCut(Len(inputs), key_member, mgs), NEW i \in 1..Len(mgs),
         Complete(mgs[i]), mgs[i].hier = 0 <=> c.hierarchical_levels = 0,
         NEW key, NEW d0, NEW due0, NEW acc, At(c, key, d0, due0, from, mgs, i, acc)
  PROVE  Past(c, key, d0, due0, from, mgs, i, DecideMiniGop(c, inputs, acc, mgs[i]))
<1>. DEFINE mg == mgs[i]
            members == SubSeq(inputs, mg.start + 1, mg.end + 1)
            h == mg.hier
            last == from + mg.start - 1
            X == from..last
            n == Power[h + 1]
            r == DecideMiniGop(c, inputs, acc, mg)
<1>1. Membership(inputs, from, mgs, i, members)
  BY GopMembers, Zenon
<1>2. mg \in MiniGop
  <2>1. mgs \in Seq(MiniGop)
    BY Zenon DEF IsCut
  <2>. QED
    BY ONLY <2>1, i \in 1..Len(mgs)
<1>3. /\ mg.start \in Nat /\ mg.end \in Nat /\ mg.length \in Nat /\ h \in 0..5
      /\ mg.length = mg.end - mg.start + 1 /\ mg.start <= mg.end
  BY <1>2, MiniGopFields, Zenon DEF IsCut
<1>4. ~mg.idr /\ mg.length = 2 ^ h
  BY Zenon DEF Complete
<1>5. n = 2 ^ h
  BY ONLY <1>3, PowerIs, Zenon
<1>. HIDE DEF members
<1>6. /\ Own(inputs, mg, members) /\ members \in Seq(Input) /\ Len(members) = mg.length
      /\ Follow(members, last)
      /\ \A j \in 1..(Len(members) - 1) : members[j].is_key = FALSE
      /\ members[Len(members)].is_key = mg.idr
  BY <1>1, Zenon DEF Membership
<1>7. mg.length >= 1
  <2>. DEFINE a == mg.start
              b == mg.end
              len == mg.length
  <2>1. a \in Nat /\ b \in Nat /\ len = b - a + 1 /\ a <= b
    BY <1>3, Zenon
  <2>. HIDE DEF a, b, len
  <2>2. len >= 1
    BY ONLY <2>1
  <2>. QED
    BY <2>2 DEF len
<1>8. Members(mg, members)
  <2>1. Complete(mg)
    BY Zenon
  <2>. HIDE DEF mg
  <2>. QED
    BY ONLY <1>2, <1>6, <1>7, <2>1, MembersPlaced, Zenon
<1>9. NoKeys(members)
  <2>. DEFINE k == Len(members)
  <2>1. k \in Nat
    BY <1>6
  <2>2. \A j \in 1..k : j = k \/ j \in 1..(k - 1)
    BY ONLY <2>1
  <2>3. \A j \in 1..(k - 1) : members[j].is_key = FALSE
    BY <1>6, Zenon
  <2>4. members[k].is_key = FALSE
    <3>1. mg.idr = FALSE
      <4>1. mg.idr \in BOOLEAN
        BY <1>2, MiniGopFields, Zenon
      <4>. QED
        BY ONLY <1>4, <4>1, Zenon
    <3>. QED
      BY <1>6, <3>1, Zenon
  <2>. HIDE DEF k
  <2>5. \A j \in 1..k : members[j].is_key = FALSE
    BY ONLY <2>2, <2>3, <2>4, Zenon
  <2>. QED
    BY <2>5, Zenon DEF NoKeys, k
<1>10. Len(members) = n
  BY <1>4, <1>5, <1>6, Zenon
<1>11. Reached(c, key, d0, due0, acc, X, last)
  BY Zenon DEF At
<1>. HIDE DEF X, last, n, h, r
<1>12. Reached(c, key, d0, due0, r, X \cup ((last + 1)..(last + n)), last + n)
  <2>1. h = 0 <=> c.hierarchical_levels = 0
    BY Zenon DEF h
  <2>2. mg.hier = h /\ Complete(mg)
    BY Zenon DEF h
  <2>3. Len(members) = Power[h + 1]
    BY <1>10, Zenon DEF n
  <2>. HIDE DEF mg
  <2>4. Reached(c, key, d0, due0, DecideMiniGop(c, inputs, acc, mg),
                X \cup ((last + 1)..(last + Power[h + 1])), last + Power[h + 1])
    BY ONLY <1>3, <1>6, <1>8, <1>9, <1>11, <2>1, <2>2, <2>3, Config(c), CompleteGop, Zenon
  <2>. QED
    BY <2>4, Zenon DEF n, r
<1>13. n = mg.end - mg.start + 1
  BY <1>3, <1>6, <1>10, Zenon
<1>14. last + n = from + mg.end /\ X \cup ((last + 1)..(last + n)) = from..(from + mg.end)
  <2>. DEFINE a == mg.start
              b == mg.end
  <2>1. a \in Nat /\ b \in Nat /\ n = b - a + 1 /\ a <= b
    BY <1>3, <1>13, Zenon
  <2>2. last = from + a - 1 /\ X = from..last
    BY Zenon DEF last, X
  <2>. HIDE DEF a, b
  <2>3. last + n = from + b
    BY ONLY <2>1, <2>2, from \in Nat
  <2>4. X \cup ((last + 1)..(last + n)) = from..(from + b)
    BY ONLY <2>1, <2>2, from \in Nat
  <2>. QED
    BY <2>3, <2>4, Zenon DEF b
<1>. QED
  BY <1>12, <1>14, Zenon DEF Past, r, mg

-----------------------------------------------------------------------------

\* The last member is a key frame that is held for the next release.
KeyHeld(inputs) == inputs[Len(inputs)].is_key /\ ~inputs[Len(inputs)].is_eos

\* The last mini-GOP, when it is not complete.
LEMMA LastStep ==
  ASSUME NEW c, Config(c), NEW from \in Nat, NEW key_member \in BOOLEAN, NEW inputs,
         Released(inputs, from, key_member),
         NEW mgs, IsCut(Len(inputs), key_member, mgs), NEW i, i = Len(mgs),
         ~Complete(mgs[i]), mgs[i].hier = 0 <=> c.hierarchical_levels = 0,
         NEW key, NEW d0, NEW due0, NEW acc, At(c, key, d0, due0, from, mgs, i, acc)
  PROVE  Ended(c, key, d0, due0, from, from + Len(inputs) - 1, key_member, KeyHeld(inputs),
               DecideMiniGop(c, inputs, acc, mgs[i]))
<1>. DEFINE mg == mgs[i]
            members == SubSeq(inputs, mg.start + 1, mg.end + 1)
            last == from + mg.start - 1
            end == from + Len(inputs) - 1
            r == DecideMiniGop(c, inputs, acc, mg)
            len == mg.length
            eos == inputs[Len(inputs)].is_eos
            n == Len(inputs)
<1>0. mgs \in Seq(MiniGop) /\ mgs # <<>>
  BY Zenon DEF IsCut
<1>1. i \in 1..Len(mgs) /\ mg \in MiniGop
  BY ONLY <1>0, i = Len(mgs), EmptySeq
<1>2. Membership(inputs, from, mgs, i, members)
  BY <1>1, GopMembers, Zenon
<1>3. /\ mg.start \in Nat /\ mg.end \in Nat /\ len \in Nat /\ mg.hier \in 0..5 /\ mg.idr \in BOOLEAN
      /\ len = mg.end - mg.start + 1 /\ mg.start <= mg.end /\ mg.end = n - 1
  BY <1>1, MiniGopFields, Zenon DEF IsCut
<1>4. mg.idr <=> key_member
  <2>1. mg.idr <=> (key_member /\ i = Len(mgs))
    BY <1>1, Zenon DEF IsCut
  <2>. QED
    BY <2>1, Zenon
<1>. HIDE DEF members
<1>5. /\ Own(inputs, mg, members) /\ members \in Seq(Input) /\ Len(members) = len
      /\ Follow(members, last)
      /\ \A j \in 1..(Len(members) - 1) : members[j].is_key = FALSE
      /\ members[Len(members)].is_key = mg.idr
      /\ members[Len(members)].is_eos = eos
  BY <1>2, Zenon DEF Membership
<1>6. \/ mg.idr /\ len = 1
      \/ mg.idr /\ len = 2 /\ mg.hier = 1
      \/ ~mg.idr /\ len = 1 /\ mg.hier = 1
  BY <1>1, Zenon DEF IsCut
<1>7. n \in Nat /\ len >= 1 /\ last <= end /\ from <= last + 1 /\ end = last + len
  <2>. DEFINE a == mg.start
              b == mg.end
  <2>0. n \in 1..32
    BY Zenon DEF Released
  <2>1. a \in Nat /\ b \in Nat /\ len = b - a + 1 /\ a <= b /\ b = n - 1
        /\ last = from + a - 1 /\ end = from + n - 1
    BY <1>3, Zenon
  <2>. HIDE DEF a, b, last, end, n, len
  <2>. QED
    BY ONLY <2>0, <2>1, from \in Nat
<1>8. Members(mg, members)
  <2>1. Complete(mg) \/ mg.length = 1 \/ (mg.length = 2 /\ mg.hier = 1)
    BY <1>6, Zenon
  <2>2. mg \in MiniGop /\ mg.length >= 1 /\ Len(members) = mg.length /\ members \in Seq(Input)
    BY <1>1, <1>5, <1>7, Zenon
  <2>. HIDE DEF mg
  <2>. QED
    BY ONLY <1>5, <2>1, <2>2, MembersPlaced, Zenon
<1>9. Reached(c, key, d0, due0, acc, from..last, last)
  BY Zenon DEF At
<1>10. c.hierarchical_levels \in 0..5
  BY Zenon DEF Config
<1>11. mg.hier = 1 => c.hierarchical_levels > 0
  <2>. DEFINE h == mg.hier
              ch == c.hierarchical_levels
  <2>1. h = 0 <=> ch = 0
    BY Zenon
  <2>2. ch \in 0..5
    BY <1>10
  <2>. HIDE DEF h, ch
  <2>3. h = 1 => ch > 0
    BY ONLY <2>1, <2>2
  <2>. QED
    BY <2>3 DEF h, ch
<1>12. inputs[n].is_key = key_member
  BY Zenon DEF Released
<1>13. eos \in BOOLEAN
  <2>1. inputs \in Seq(Input) /\ n \in 1..32
    BY Zenon DEF Released
  <2>2. inputs[n] \in Input
    BY ONLY <2>1, ElementOfSeq DEF n
  <2>. QED
    BY ONLY <2>2 DEF Input, eos
<1>14. mg.idr => KeyHeld(inputs) = ~eos
  <2>1. KeyHeld(inputs) = (inputs[n].is_key /\ ~eos)
    BY Zenon DEF KeyHeld
  <2>. DEFINE k == inputs[n].is_key
              kh == KeyHeld(inputs)
  <2>2. kh = (k /\ ~eos) /\ k = key_member
    BY <1>12, <2>1, Zenon
  <2>. HIDE DEF k, kh, eos, n
  <2>3. mg.idr => kh = ~eos
    BY ONLY <1>4, <1>13, <2>2, key_member \in BOOLEAN
  <2>. QED
    BY <2>3 DEF kh
<1>15. ~mg.idr => KeyHeld(inputs) = FALSE
  <2>1. KeyHeld(inputs) = (inputs[n].is_key /\ ~eos)
    BY Zenon DEF KeyHeld
  <2>. DEFINE k == inputs[n].is_key
              kh == KeyHeld(inputs)
  <2>2. kh = (k /\ ~eos) /\ k = key_member
    BY <1>12, <2>1, Zenon
  <2>. HIDE DEF k, kh, eos, n
  <2>3. ~mg.idr => kh = FALSE
    BY ONLY <1>4, <1>13, <2>2, key_member \in BOOLEAN
  <2>. QED
    BY <2>3 DEF kh
<1>15a. (mg.idr => key_member = TRUE) /\ (~mg.idr => key_member = FALSE)
  BY ONLY <1>4, key_member \in BOOLEAN
<1>. HIDE DEF mg, last, end, eos, n, len
<1>16. mg.length = len
  BY Zenon DEF len
<1>17. Follow(members, last) /\ 1 \in 1..Len(members)
  BY <1>5, <1>7
<1>18. members[1].display_order = last + 1
  BY <1>17, Zenon DEF Follow
<1>19. CASE mg.idr /\ len = 1
  <2>1. Len(members) = 1 /\ mg.length = 1 /\ mg.idr
    BY <1>5, <1>16, <1>19, Zenon
  <2>2. members[1].is_key = TRUE /\ members[1].is_eos = eos
    BY <1>3, <1>5, <1>19, <2>1
  <2>3. Ended(c, key, d0, due0, from, last + 1, TRUE, ~members[1].is_eos,
              DecideMiniGop(c, inputs, acc, mg))
    BY ONLY <1>3, <1>5, <1>7, <1>8, <1>9, <1>18, <2>1, <2>2, Config(c), from \in Nat,
            KeyAloneEnds, Zenon
  <2>4. last + 1 = end
    BY <1>7, <1>19, Zenon
  <2>5. Ended(c, key, d0, due0, from, end, key_member, KeyHeld(inputs), r)
    BY <1>14, <1>15a, <1>19, <2>2, <2>3, <2>4, Zenon
  <2>. QED
    BY <2>5, Zenon DEF end, n, mg
<1>20. CASE mg.idr /\ len = 2 /\ mg.hier = 1
  <2>1. Len(members) = 2 /\ mg.length = 2 /\ mg.idr /\ mg.hier = 1 /\ c.hierarchical_levels > 0
    BY <1>5, <1>11, <1>16, <1>20, Zenon
  <2>2. members[2].is_key = TRUE /\ members[2].is_eos = eos
    BY <1>3, <1>5, <1>20, <2>1
  <2>2a. 1 \in 1..(Len(members) - 1) /\ 2 \in 1..Len(members)
    BY ONLY <2>1
  <2>2b. members[1].is_key = FALSE /\ members[2].display_order = last + 2
    BY <1>5, <2>2a, Zenon DEF Follow
  <2>3. Ended(c, key, d0, due0, from, last + 2, TRUE, ~members[2].is_eos,
              DecideMiniGop(c, inputs, acc, mg))
    BY ONLY <1>5, <1>7, <1>8, <1>9, <1>18, <2>1, <2>2, <2>2b, Config(c), from \in Nat,
            KeyBehindEnds, Zenon
  <2>4. last + 2 = end
    BY <1>7, <1>20, Zenon
  <2>5. Ended(c, key, d0, due0, from, end, key_member, KeyHeld(inputs), r)
    BY <1>14, <1>15a, <1>20, <2>2, <2>3, <2>4, Zenon
  <2>. QED
    BY <2>5, Zenon DEF end, n, mg
<1>21. CASE ~mg.idr /\ len = 1 /\ mg.hier = 1
  <2>1. Len(members) = 1 /\ mg.length = 1 /\ mg.hier = 1 /\ c.hierarchical_levels > 0
    BY <1>5, <1>11, <1>16, <1>21, Zenon
  <2>2. members[1].is_key = FALSE
    BY <1>3, <1>5, <1>21, <2>1
  <2>3. Ended(c, key, d0, due0, from, last + 1, FALSE, FALSE, DecideMiniGop(c, inputs, acc, mg))
    BY ONLY <1>5, <1>7, <1>8, <1>9, <1>18, <2>1, <2>2, Config(c), from \in Nat, ShortGop, Zenon
  <2>4. last + 1 = end
    BY <1>7, <1>21, Zenon
  <2>5. Ended(c, key, d0, due0, from, end, key_member, KeyHeld(inputs), r)
    BY <1>15, <1>15a, <1>21, <2>3, <2>4, Zenon
  <2>. QED
    BY <2>5, Zenon DEF end, n, mg
<1>. QED
  BY <1>6, <1>19, <1>20, <1>21, Zenon

-----------------------------------------------------------------------------
(* The release.                                                            *)

\* What a release of the pictures behind from - 1 leaves, from the decision state pd.
Outcome(c, key, pd, from, inputs, r) ==
  /\ Ended(c, key, pd.dpb, from, from, from + Len(inputs) - 1, inputs[Len(inputs)].is_key,
           KeyHeld(inputs), r)
  /\ inputs[Len(inputs)].is_key = FALSE /\ (Len(inputs) % 2 = 0 \/ c.hierarchical_levels = 0)
       => Rest(c, r.pd, key, from + Len(inputs) - 1)

LEMMA PastIsEnd ==
  ASSUME NEW c, NEW key, NEW d0, NEW due0, NEW from, NEW end, NEW r,
         Reached(c, key, d0, due0, r, from..end, end)
  PROVE  Ended(c, key, d0, due0, from, end, FALSE, FALSE, r) /\ Rest(c, r.pd, key, end)
BY Zenon DEF Reached, Rest, Ended

LEMMA ReleaseWalk ==
  ASSUME NEW c, Config(c), NEW from \in Nat, from >= 1, NEW key_member \in BOOLEAN, NEW inputs,
         Released(inputs, from, key_member), c.hierarchical_levels = 0 => Len(inputs) = 1,
         NEW mgs, mgs = MiniGops(Len(inputs), key_member, c.hierarchical_levels),
         NEW key, NEW pd, Rest(c, pd, key, from - 1)
  PROVE  Outcome(c, key, pd, from, inputs, MiniGopWalk(c, pd, inputs, mgs)[Len(mgs)])
<1>. DEFINE n == Len(inputs)
            m == Len(mgs)
            d0 == pd.dpb
            h == c.hierarchical_levels
            w == MiniGopWalk(c, pd, inputs, mgs)
            T == {k \in Nat : k < m => At(c, key, d0, from, from, mgs, k + 1, w[k])}
<1>1. n \in 1..32 /\ h \in 0..5 /\ inputs[n].is_key = key_member
  BY Zenon DEF Released, Config
<1>2. IsCut(n, key_member, mgs)
  BY <1>1, MiniGopsCut, Zenon
<1>3. /\ mgs # <<>> /\ mgs \in Seq(MiniGop) /\ mgs[1].start = 0 /\ mgs[m].end = n - 1
      /\ \A i \in 1..(m - 1) : mgs[i + 1].start = mgs[i].end + 1
      /\ \A i \in 1..m : mgs[i].idr <=> (key_member /\ i = m)
  BY <1>2, Zenon DEF IsCut
<1>4. m \in Nat \ {0} /\ m \in 1..m /\ 1 \in 1..m
  BY ONLY <1>3, EmptySeq
<1>5. \A i \in 1..m : mgs[i].hier = 0 <=> h = 0
  <2>1. \A i \in 1..Len(MiniGops(n, key_member, h)) :
          MiniGops(n, key_member, h)[i].hier = 0 <=> h = 0
    BY ONLY <1>1, key_member \in BOOLEAN, c.hierarchical_levels = 0 => Len(inputs) = 1,
            MiniGopLevels, Zenon
  <2>. QED
    BY <2>1, Zenon
<1>6. ~key_member /\ (n % 2 = 0 \/ h = 0) => \A i \in 1..m : Complete(mgs[i])
  <2>1. ~key_member /\ (n % 2 = 0 \/ h = 0) =>
          \A i \in 1..Len(MiniGops(n, key_member, h)) : Complete(MiniGops(n, key_member, h)[i])
    BY ONLY <1>1, key_member \in BOOLEAN, c.hierarchical_levels = 0 => Len(inputs) = 1,
            MiniGopLevels, Zenon
  <2>. QED
    BY <2>1, Zenon
<1>7. \A i \in 1..(m - 1) : Complete(mgs[i])
  BY <1>1, <1>2, CutTailIsShallow, Zenon DEF ShallowTail
<1>8. \A k \in 0..m : w[k] = MiniGopBody(w, k, c, pd, inputs, mgs)
  <2>1. Len(mgs) \in Nat
    BY <1>4
  <2>. QED
    BY ONLY <2>1, MiniGopWalkUnfolds, Zenon
<1>. HIDE DEF w, m, n, d0
<1>9. w[0] = [pd |-> pd, emit |-> <<>>]
  <2>1. w[0] = MiniGopBody(w, 0, c, pd, inputs, mgs)
    BY <1>4, <1>8
  <2>. QED
    BY <2>1, Zenon DEF MiniGopBody
<1>10. \A k \in 1..m : w[k] = DecideMiniGop(c, inputs, w[k - 1], mgs[k])
  <2>. SUFFICES ASSUME NEW k \in 1..m
                PROVE  w[k] = DecideMiniGop(c, inputs, w[k - 1], mgs[k])
    OBVIOUS
  <2>1. k \in 0..m /\ k # 0
    BY <1>4
  <2>2. w[k] = MiniGopBody(w, k, c, pd, inputs, mgs)
    BY <1>8, <2>1, Zenon
  <2>. QED
    BY <2>1, <2>2, Zenon DEF MiniGopBody
<1>11. 0 \in T
  <2>. DEFINE last == from - 1
              s == mgs[1].start
  <2>1. last \in Nat /\ last + 1 = from /\ from..last = {} /\ from + s - 1 = last
    BY <1>3
  <2>2. w[0].pd = pd /\ w[0].emit = <<>>
    BY <1>9
  <2>3. Emits(key, w[0].pd.dpb, from, w[0], {}, from) /\ EndsShown(w[0].emit)
    BY <2>2, NothingEmitted, Zenon
  <2>4. Behind({}, last)
    BY DEF Behind
  <2>5. Reached(c, key, d0, from, w[0], from..last, last)
    <3>1. Rest(c, w[0].pd, key, last) /\ Behind(from..last, last)
      BY <2>1, <2>2, <2>4, Zenon
    <3>2. Emits(key, d0, from, w[0], from..last, last + 1)
      BY <2>1, <2>2, <2>3, Zenon DEF d0
    <3>. HIDE DEF last
    <3>. QED
      BY <2>3, <3>1, <3>2, Zenon DEF Reached
  <2>6. At(c, key, d0, from, from, mgs, 0 + 1, w[0])
    <3>1. 0 + 1 = 1
      OBVIOUS
    <3>2. Reached(c, key, d0, from, w[0], from..(from + mgs[1].start - 1), from + mgs[1].start - 1)
      BY <2>1, <2>5, Zenon
    <3>. QED
      BY <3>1, <3>2, Zenon DEF At
  <2>. QED
    BY <2>6
<1>12. ASSUME NEW k \in Nat, k < m, k \in T, Complete(mgs[k + 1])
       PROVE  Past(c, key, d0, from, from, mgs, k + 1, w[k + 1])
  <2>1. k + 1 \in 1..m /\ (k + 1) - 1 = k
    BY <1>4, <1>12
  <2>2. At(c, key, d0, from, from, mgs, k + 1, w[k])
    BY <1>12
  <2>3. w[k + 1] = DecideMiniGop(c, inputs, w[k], mgs[k + 1])
    BY <1>10, <2>1, Zenon
  <2>. DEFINE i == k + 1
              acc == w[k]
  <2>4. /\ i \in 1..Len(mgs)
        /\ Complete(mgs[i])
        /\ (mgs[i].hier = 0 <=> c.hierarchical_levels = 0)
    BY <1>5, <1>12, <2>1, Zenon DEF m
  <2>5. At(c, key, d0, from, from, mgs, i, acc)
    BY <2>2
  <2>6. IsCut(Len(inputs), key_member, mgs)
    BY <1>2 DEF n
  <2>. HIDE DEF i, acc
  <2>7. Past(c, key, d0, from, from, mgs, i, DecideMiniGop(c, inputs, acc, mgs[i]))
    BY ONLY <2>4, <2>5, <2>6, Config(c), from \in Nat, key_member \in BOOLEAN,
            Released(inputs, from, key_member), CompleteStep, Zenon
  <2>. QED
    BY <2>3, <2>7, Zenon DEF i, acc
<1>13. ASSUME NEW k \in Nat, k \in T
       PROVE  k + 1 \in T
  <2>. SUFFICES ASSUME k + 1 < m
                PROVE  At(c, key, d0, from, from, mgs, k + 1 + 1, w[k + 1])
    OBVIOUS
  <2>1. k + 1 \in 1..(m - 1) /\ k < m
    BY <1>4
  <2>2. Past(c, key, d0, from, from, mgs, k + 1, w[k + 1])
    BY <1>7, <1>12, <1>13, <2>1, Zenon
  <2>3. mgs[k + 1 + 1].start = mgs[k + 1].end + 1
    BY <1>3, <2>1, Zenon
  <2>. DEFINE e == mgs[k + 1].end
  <2>4. e \in Nat
    <3>1. k + 1 \in 1..Len(mgs)
      BY <1>4, <2>1 DEF m
    <3>. QED
      BY ONLY <1>3, <3>1, ElementOfSeq, MiniGopFields
  <2>5. from + (e + 1) - 1 = from + e
    <3>. HIDE DEF e
    <3>. QED
      BY <2>4
  <2>. QED
    BY <2>2, <2>3, <2>5, Zenon DEF Past, At
<1>14. m - 1 \in T
  <2>1. m - 1 \in Nat
    BY <1>4
  <2>. HIDE DEF T
  <2>. QED
    BY ONLY <1>11, <1>13, <2>1, Induction
<1>15. m - 1 \in Nat /\ m - 1 < m /\ m - 1 + 1 = m
  BY <1>4
<1>16. from + (n - 1) = from + n - 1
  BY <1>1
<1>17. CASE Complete(mgs[m])
  <2>1. Past(c, key, d0, from, from, mgs, m, w[m])
    BY <1>12, <1>14, <1>15, <1>17, Zenon
  <2>2. Reached(c, key, d0, from, w[m], from..(from + n - 1), from + n - 1)
    BY <1>3, <1>16, <2>1, Zenon DEF Past
  <2>3. Ended(c, key, d0, from, from, from + n - 1, FALSE, FALSE, w[m])
        /\ Rest(c, w[m].pd, key, from + n - 1)
    BY <2>2, PastIsEnd, Zenon
  <2>4. ~key_member
    BY <1>3, <1>4, <1>17, Zenon DEF Complete
  <2>4a. inputs[n].is_key = FALSE
    BY <1>1, <2>4
  <2>5. KeyHeld(inputs) = FALSE
    <3>. DEFINE k == inputs[n].is_key
                e == inputs[n].is_eos
                kh == KeyHeld(inputs)
    <3>1. kh = (k /\ ~e) /\ ~k
      BY <1>1, <2>4, Zenon DEF KeyHeld, n
    <3>. HIDE DEF k, e, kh
    <3>2. kh = FALSE
      BY ONLY <3>1
    <3>. QED
      BY <3>2 DEF kh
  <2>6. Ended(c, key, d0, from, from, from + n - 1, inputs[n].is_key, KeyHeld(inputs), w[m])
    BY <2>3, <2>4a, <2>5, Zenon
  <2>. QED
    BY <2>3, <2>6, Zenon DEF Outcome, n, m, w, d0
<1>18. CASE ~Complete(mgs[m])
  <2>1. At(c, key, d0, from, from, mgs, m, w[m - 1])
    BY <1>14, <1>15, Zenon
  <2>2. w[m] = DecideMiniGop(c, inputs, w[m - 1], mgs[m])
    BY <1>4, <1>10, Zenon
  <2>. DEFINE acc == w[m - 1]
  <2>3. /\ IsCut(Len(inputs), key_member, mgs) /\ m = Len(mgs)
        /\ (mgs[m].hier = 0 <=> c.hierarchical_levels = 0)
        /\ At(c, key, d0, from, from, mgs, m, acc)
    BY <1>2, <1>4, <1>5, <2>1, Zenon DEF n, m
  <2>. HIDE DEF acc
  <2>4. Ended(c, key, d0, from, from, from + Len(inputs) - 1, key_member, KeyHeld(inputs),
              DecideMiniGop(c, inputs, acc, mgs[m]))
    BY ONLY <1>18, <2>3, Config(c), from \in Nat, key_member \in BOOLEAN,
            Released(inputs, from, key_member), LastStep, Zenon
  <2>5. Ended(c, key, d0, from, from, from + n - 1, inputs[n].is_key, KeyHeld(inputs), w[m])
    BY <1>1, <2>2, <2>4, Zenon DEF acc, n
  <2>6. ~(inputs[n].is_key = FALSE /\ (n % 2 = 0 \/ h = 0))
    <3>1. inputs[n].is_key = FALSE => ~key_member
      BY <1>1, Zenon
    <3>. QED
      BY <1>4, <1>6, <1>18, <3>1, Zenon
  <2>. QED
    BY <2>5, <2>6, Zenon DEF Outcome, n, m, w, d0
<1>. QED
  BY <1>17, <1>18, Zenon

-----------------------------------------------------------------------------

\* A release that is not the first.
LEMMA LaterRelease ==
  ASSUME NEW c, Config(c), NEW from \in Nat, from >= 1, NEW key_member \in BOOLEAN, NEW inputs,
         Released(inputs, from, key_member), c.hierarchical_levels = 0 => Len(inputs) = 1,
         NEW key, NEW pd, Rest(c, pd, key, from - 1)
  PROVE  Outcome(c, key, pd, from, inputs, DecideRelease(c, pd, inputs, key_member))
<1>. DEFINE n == Len(inputs)
            mgs == MiniGops(n, key_member, c.hierarchical_levels)
            order == inputs[n].display_order
<1>1. order # 0
  <2>1. n \in 1..32 /\ \A j \in 1..n : inputs[j].display_order = from + j - 1
    BY Zenon DEF Released
  <2>. HIDE DEF n
  <2>2. n \in 1..n
    BY ONLY <2>1
  <2>3. order = from + n - 1
    BY <2>1, <2>2, Zenon
  <2>. HIDE DEF order
  <2>. QED
    BY ONLY <2>1, <2>3, from \in Nat, from >= 1
<1>2. DecideRelease(c, pd, inputs, key_member) = MiniGopWalk(c, pd, inputs, mgs)[Len(mgs)]
  BY <1>1, Zenon DEF DecideRelease
<1>. HIDE DEF mgs
<1>3. Outcome(c, key, pd, from, inputs, MiniGopWalk(c, pd, inputs, mgs)[Len(mgs)])
  <2>1. mgs = MiniGops(Len(inputs), key_member, c.hierarchical_levels)
    BY DEF mgs
  <2>. QED
    BY <2>1, ReleaseWalk, Zenon
<1>. QED
  BY <1>2, <1>3, Zenon

\* The cut of a lone picture.
LEMMA LoneCut ==
  ASSUME NEW idr \in BOOLEAN, NEW mgs, IsCut(1, idr, mgs)
  PROVE  /\ Len(mgs) = 1 /\ mgs[1] \in MiniGop /\ mgs[1].start = 0 /\ mgs[1].end = 0
         /\ mgs[1].length = 1 /\ (mgs[1].idr <=> idr)
<1>. DEFINE m == Len(mgs)
            one == 1
<1>1. /\ mgs \in Seq(MiniGop) /\ mgs # <<>>
      /\ mgs[1].start = 0 /\ mgs[m].end = one - 1
      /\ \A i \in 1..m : mgs[i].length = mgs[i].end - mgs[i].start + 1
      /\ \A i \in 1..m : mgs[i].idr <=> (idr /\ i = m)
      /\ \A i \in 1..(m - 1) : mgs[i + 1].start = mgs[i].end + 1
      /\ \A i \in 1..m : mgs[i].start <= mgs[i].end
  BY Zenon DEF IsCut
<1>2. m \in Nat \ {0} /\ \A i \in 1..m : mgs[i] \in MiniGop
  BY ONLY <1>1, EmptySeq
<1>3. \A i \in 1..m : mgs[i].start \in Nat /\ mgs[i].end \in Nat
  BY <1>2, MiniGopFields, Zenon
<1>4. \A i \in 1..m : mgs[i].end <= one - 1
  <2>1. one \in 1..32 /\ IsCut(one, idr, mgs)
    OBVIOUS
  <2>. HIDE DEF one
  <2>. QED
    BY <2>1, CutWithin, Zenon
<1>5. m = 1
  <2>. SUFFICES ASSUME m # 1 PROVE FALSE
    OBVIOUS
  <2>1. 1 \in 1..(m - 1) /\ 1 \in 1..m /\ 1 + 1 \in 1..m
    <3>1. m \in Nat \ {0}
      BY <1>2
    <3>. HIDE DEF m
    <3>. QED
      BY ONLY <3>1, m # 1
  <2>. DEFINE a == mgs[1].end
              b == mgs[1 + 1].start
              e == mgs[1 + 1].end
  <2>2. a \in Nat /\ b = a + 1 /\ b <= e /\ e \in Nat /\ e <= one - 1
    BY <1>1, <1>3, <1>4, <2>1, Zenon
  <2>. HIDE DEF a, b, e
  <2>. QED
    BY <2>2
<1>6. 1 \in 1..m /\ mgs[1].end = 0
  BY <1>1, <1>5
<1>7. mgs[1].length = 1
  <2>1. mgs[1].length = mgs[1].end - mgs[1].start + 1
    BY <1>1, <1>6, Zenon
  <2>. QED
    BY <1>1, <1>6, <2>1
<1>. QED
  BY <1>1, <1>2, <1>5, <1>6, <1>7, Zenon

\* Whatever the buffer holds, the first key frame replaces it.
Opens(c, inputs, r) == \A x : Ended(c, 0, x, 0, 0, 0, TRUE, KeyHeld(inputs), r)

\* The first release, which is the first key frame alone.
LEMMA FirstRelease ==
  ASSUME NEW c, Config(c), NEW inputs, Released(inputs, 0, TRUE), Len(inputs) = 1
  PROVE  Opens(c, inputs, DecideRelease(c, InitDecision, inputs, TRUE))
<1>. DEFINE h == c.hierarchical_levels
            start == [InitDecision EXCEPT !.prev_hier = h]
            mgs == MiniGops(Len(inputs), TRUE, h)
            w == MiniGopWalk(c, start, inputs, mgs)
            acc == [pd |-> start, emit |-> <<>>]
            mg == mgs[1]
            members == SubSeq(inputs, mg.start + 1, mg.end + 1)
            x == inputs[1]
            eos == x.is_eos
            r == DecideMiniGop(c, inputs, acc, mg)
            held == KeyHeld(inputs)
            zero == 0
            yes == TRUE
<1>1. h \in 0..5
  BY Zenon DEF Config
<1>2. inputs \in Seq(Input) /\ x \in Input /\ x.is_key = TRUE /\ x.display_order = 0
  <2>1. inputs \in Seq(Input) /\ inputs[Len(inputs)].is_key = TRUE
        /\ \A j \in 1..Len(inputs) : inputs[j].display_order = 0 + j - 1
    BY Zenon DEF Released
  <2>. QED
    BY ONLY <2>1, Len(inputs) = 1
<1>3. DecideRelease(c, InitDecision, inputs, TRUE) = w[Len(mgs)]
  <2>1. inputs[Len(inputs)].display_order = 0
    BY <1>2
  <2>. QED
    BY <2>1, Zenon DEF DecideRelease
<1>4. /\ Len(mgs) = 1 /\ mg \in MiniGop /\ mg.start = 0 /\ mg.end = 0
      /\ mg.length = 1 /\ mg.idr
  <2>1. Len(inputs) \in 1..32 /\ yes \in BOOLEAN
    OBVIOUS
  <2>2. IsCut(Len(inputs), yes, mgs)
    BY <1>1, <2>1, MiniGopsCut, Zenon
  <2>3. IsCut(1, yes, mgs)
    BY <2>2, Zenon
  <2>. HIDE DEF mgs, yes
  <2>4. /\ Len(mgs) = 1 /\ mgs[1] \in MiniGop /\ mgs[1].start = 0 /\ mgs[1].end = 0
        /\ mgs[1].length = 1 /\ (mgs[1].idr <=> yes)
    BY ONLY <2>1, <2>3, LoneCut, Zenon
  <2>. QED
    BY <2>4, Zenon DEF yes
<1>5. w[Len(mgs)] = r
  <2>1. Len(mgs) \in Nat
    <3>1. Len(mgs) = 1
      BY <1>4, Zenon
    <3>. HIDE DEF mgs
    <3>. QED
      BY ONLY <3>1
  <2>2. \A k \in 0..Len(mgs) : w[k] = MiniGopBody(w, k, c, start, inputs, mgs)
    BY <2>1, MiniGopWalkUnfolds, Zenon
  <2>. HIDE DEF w, start, mgs
  <2>3. w[0] = MiniGopBody(w, 0, c, start, inputs, mgs)
        /\ w[1] = MiniGopBody(w, 1, c, start, inputs, mgs)
    BY <1>4, <2>2
  <2>4. w[0] = acc
    BY <2>3, Zenon DEF MiniGopBody
  <2>5. w[1] = DecideMiniGop(c, inputs, w[1 - 1], mgs[1])
    BY <2>3 DEF MiniGopBody
  <2>6. w[1 - 1] = w[0]
    OBVIOUS
  <2>. QED
    BY <1>4, <2>4, <2>5, <2>6, Zenon
<1>6. start \in Decision /\ start.ok /\ start.position = 0 /\ start.base = 0 /\ start.alt = 0
  <2>1. InitDecision \in Decision /\ InitDecision.ok /\ InitDecision.position = 0
        /\ InitDecision.base = 0 /\ InitDecision.alt = 0
    BY ONLY TRUE DEF InitDecision, Decision
  <2>. DEFINE pd == InitDecision
  <2>. HIDE DEF pd, h
  <2>2. [pd EXCEPT !.prev_hier = h] \in Decision
    BY ONLY <1>1, <2>1 DEF pd, Decision
  <2>3. start = [pd EXCEPT !.prev_hier = h]
    BY DEF pd
  <2>. HIDE DEF start
  <2>4. start.ok = pd.ok /\ start.position = pd.position /\ start.base = pd.base
        /\ start.alt = pd.alt
    BY ONLY <2>1, <2>3 DEF pd, Decision
  <2>. QED
    BY <2>1, <2>2, <2>3, <2>4, Zenon DEF pd
<1>7. Own(inputs, mg, members)
  BY DEF Own
<1>9. members \in Seq(Input) /\ Len(members) = 1 /\ members[1] = x
  <2>1. mg.start = 0 /\ mg.end = 0
    BY <1>4, Zenon
  <2>2. mg.start + 1 = 1 /\ mg.end + 1 = 1
    <3>. HIDE DEF mg
    <3>. QED
      BY ONLY <2>1
  <2>3. members = SubSeq(inputs, 1, 1)
    BY ONLY <2>2, Zenon DEF members
  <2>. HIDE DEF members
  <2>. QED
    BY ONLY <1>2, <2>3, Len(inputs) = 1 DEF x
<1>. HIDE DEF members
<1>10. Members(mg, members)
  <2>1. \A j \in 1..Len(members) : j = Len(members) /\ members[j].is_key
    BY <1>2, <1>9
  <2>. QED
    BY <1>9, <2>1, Zenon DEF Members
<1>11. KeyGop(acc, 1, members[1].display_order, ~members[1].is_eos, r)
  <2>1. acc.pd \in Decision /\ acc.pd.ok /\ acc.pd.position = 0
    BY <1>6
  <2>2. mg.hier \in 0..5
    BY <1>4, MiniGopFields, Zenon
  <2>. HIDE DEF acc
  <2>. QED
    BY <1>1, <1>2, <1>4, <1>7, <1>9, <1>10, <2>1, <2>2, LoneKeyGop, Zenon
<1>12. acc.emit = <<>> /\ acc.pd = start
  OBVIOUS
<1>. HIDE DEF acc, r, start, w, mgs
<1>13. KeyGop(acc, 1, zero, ~eos, r)
  BY <1>2, <1>9, <1>11, Zenon
<1>14. /\ r.pd \in Decision /\ r.pd.ok /\ r.pd.position = 0
       /\ r.pd.base = acc.pd.base + 1 /\ r.pd.alt = acc.pd.alt + 1
       /\ r.pd.lay0 = 0 /\ r.pd.dpb = [s \in Slots |-> zero]
       /\ IF ~eos THEN r.emit = acc.emit ELSE KeyCoded(acc, zero, r)
  BY <1>13, Zenon DEF KeyGop
<1>15. AtKey(zero, r)
  <2>1. acc.pd.base = 0 /\ acc.pd.alt = 0
    BY <1>6, <1>12, Zenon
  <2>2. acc.pd.base + 1 = zero + 1 /\ acc.pd.alt + 1 = zero + 1
    BY <2>1
  <2>. QED
    BY <1>14, <2>2, Zenon DEF AtKey
<1>16. held = (TRUE /\ ~eos)
  BY <1>2, Zenon DEF KeyHeld
<1>17. held <=> ~eos
  BY <1>16
<1>. SUFFICES ASSUME NEW y PROVE Ended(c, 0, y, 0, 0, 0, TRUE, held, r)
  BY <1>3, <1>5, Zenon DEF Opens
<1>. DEFINE before == [pd |-> [dpb |-> y], emit |-> <<>>]
<1>18. before.emit = <<>> /\ before.pd.dpb = y
  OBVIOUS
<1>. HIDE DEF before, held, eos, x
<1>19. Emits(zero, before.pd.dpb, zero, before, {}, zero) /\ EndsShown(before.emit)
  BY <1>18, NothingEmitted, Zenon
<1>20. {} = zero..(zero - 1) /\ zero <= zero /\ zero \in Nat
  OBVIOUS
<1>21. Emits(zero, y, zero, before, zero..(zero - 1), zero)
  BY <1>18, <1>19, <1>20, Zenon
<1>22. IF held THEN r.emit = before.emit ELSE KeyCoded(before, zero, r)
  BY <1>12, <1>14, <1>17, <1>18, Zenon DEF KeyCoded
<1>23. Ended(c, zero, y, zero, zero, zero, TRUE, held, r)
  <2>. HIDE DEF zero
  <2>. QED
    BY ONLY <1>15, <1>19, <1>20, <1>21, <1>22, KeyEnds, Zenon
<1>. QED
  BY <1>23, Zenon
=============================================================================
