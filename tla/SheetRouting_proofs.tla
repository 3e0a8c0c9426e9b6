------------------------- MODULE SheetRouting_proofs -------------------------
(***************************************************************************)
(* Proofs about SheetRouting, for any placed page, any nets in any order   *)
(* and any jogs and detours.  What is drawn is kept apart by the guard: it *)
(* refuses a wire that meets another net's wire at an end, and one that    *)
(* covers another net's pin, so the dots, which only pins get, are safe    *)
(* from wires that come later and safe to set on wires that came before.   *)
(* And every net stays whole: its pins hang together by wire, or each part *)
(* is named, counting what wires reach over any number of them, unless a   *)
(* label was pushed off its pin.                                           *)
(***************************************************************************)
EXTENDS SheetRouting, FiniteSetTheorems, WellFoundedInduction, TLAPS

----------------------------------------------------------------------------
(* Polylines *)

Point == Int \X Int
Wire == Point \X Point
Aligned(p, q) == p[1] = q[1] \/ p[2] = q[2]

Polyline(w) == w \in Seq(Point) /\ Len(w) >= 1 /\ \A i \in 1 .. Len(w) - 1 : Aligned(w[i], w[i + 1])

LEMMA Starting == ASSUME NEW p \in Point PROVE Polyline(<<p>>) /\ Len(<<p>>) = 1 /\ <<p>>[1] = p
BY DEF Polyline

LEMMA Going ==
    ASSUME NEW w, Polyline(w), NEW p \in Point, Aligned(w[Len(w)], p)
    PROVE  /\ Polyline(To(w, p))
           /\ To(w, p)[1] = w[1] /\ To(w, p)[Len(To(w, p))] = p
<1>1. CASE w[Len(w)] = p
  BY <1>1 DEF To
<1>2. CASE w[Len(w)] # p
  <2>1. To(w, p) = Append(w, p) /\ w \in Seq(Point) /\ Len(w) \in Nat /\ Len(w) >= 1
    BY <1>2 DEF To, Polyline
  <2>2. Append(w, p) \in Seq(Point) /\ Len(Append(w, p)) = Len(w) + 1
        /\ Append(w, p)[Len(w) + 1] = p /\ \A i \in 1 .. Len(w) : Append(w, p)[i] = w[i]
    BY <2>1
  <2>3. ASSUME NEW i \in 1 .. Len(w) PROVE Aligned(Append(w, p)[i], Append(w, p)[i + 1])
    <3>1. CASE i = Len(w)
      BY <2>2, <3>1, <2>1
    <3>2. CASE i # Len(w)
      BY <2>1, <2>2, <3>2 DEF Polyline
    <3>. QED BY <3>1, <3>2
  <2>. QED BY <2>1, <2>2, <2>3 DEF Polyline
<1>. QED BY <1>1, <1>2

(* Five and six points, each in line with the next.                        *)
LEMMA GoingOn ==
    ASSUME NEW a \in Point, NEW b \in Point, NEW c \in Point, NEW d \in Point, NEW e \in Point,
           Aligned(a, b), Aligned(b, c), Aligned(c, d), Aligned(d, e)
    PROVE  LET w == To(To(To(To(<<a>>, b), c), d), e)
           IN  Polyline(w) /\ w[1] = a /\ w[Len(w)] = e
<1>. DEFINE w1 == To(<<a>>, b)
            w2 == To(w1, c)
            w3 == To(w2, d)
            w4 == To(w3, e)
<1>1. Polyline(w1) /\ w1[1] = a /\ w1[Len(w1)] = b
  BY Starting, Going
<1>. HIDE DEF w1
<1>2. Polyline(w2) /\ w2[1] = a /\ w2[Len(w2)] = c
  BY <1>1, Going
<1>. HIDE DEF w2
<1>3. Polyline(w3) /\ w3[1] = a /\ w3[Len(w3)] = d
  BY <1>2, Going
<1>. HIDE DEF w3
<1>4. Polyline(w4) /\ w4[1] = a /\ w4[Len(w4)] = e
  BY <1>3, Going
<1>. QED BY <1>4 DEF w1, w2, w3

(* A route that holds its end legs.                                        *)
LEMMA Turning ==
    ASSUME NEW w, Polyline(w), Len(w) >= 2, NEW c \in Point, NEW d \in Point,
           Aligned(HeldFrom(w), c), Aligned(c, d), Aligned(d, HeldTo(w))
    PROVE  Polyline(Via(w, c, d)) /\ Via(w, c, d)[1] = w[1] /\ Via(w, c, d)[Len(Via(w, c, d))] = w[Len(w)]
<1>1. w \in Seq(Point) /\ Len(w) \in Nat /\ \A i \in 1 .. Len(w) : w[i] \in Point
  BY DEF Polyline
<1>2. HeldFrom(w) \in Point /\ HeldTo(w) \in Point /\ w[1] \in Point /\ w[Len(w)] \in Point
  BY <1>1 DEF HeldFrom, HeldTo
<1>3. Aligned(w[1], HeldFrom(w)) /\ Aligned(HeldTo(w), w[Len(w)])
  BY <1>1 DEF HeldFrom, HeldTo, Polyline, Aligned
<1>. DEFINE v == To(To(To(To(<<w[1]>>, HeldFrom(w)), c), d), HeldTo(w))
<1>4. Polyline(v) /\ v[1] = w[1] /\ v[Len(v)] = HeldTo(w)
  BY <1>2, <1>3, GoingOn
<1>5. Via(w, c, d) = To(v, w[Len(w)])
  BY DEF Via
<1>. HIDE DEF v
<1>. QED BY <1>2, <1>3, <1>4, <1>5, Going

----------------------------------------------------------------------------
(* The routes that are tried *)

Placed == board \in Boards /\ mirror \subseteq board.body /\ texts \subseteq Box

Runs(w, p, q) == Polyline(w) /\ w[1] = p /\ w[Len(w)] = q

LEMMA Lengths ==
    /\ GRID \in Int /\ GRID > 0 /\ HAIR \in Int /\ KEEP \in Int /\ LabelW \in Int /\ LabelH \in Int
    /\ Jogs \subseteq Int
BY SheetAssumption, LedgerScale

LEMMA Pins ==
    ASSUME Placed, NEW n \in Net
    PROVE  /\ IsFiniteSet(PinsOf(n)) /\ PinsOf(n) \subseteq Point
           /\ PinsOf(n) \subseteq AllPins /\ \A p \in PinsOf(n) : board.at[p].edge \in Edge
BY SheetAssumption DEF Placed, Net, PinsOf, Point, AllPins

LEMMA AllPinsLie ==
    ASSUME Placed, NEW p \in AllPins PROVE p \in Point /\ board.at[p].edge \in Edge
<1>1. PICK n \in Net : p \in PinsOf(n)
  BY DEF AllPins
<1>. QED BY <1>1, Pins

LEMMA PinsDiffer ==
    ASSUME Placed, NEW n \in Net, NEW m \in Net, m # n, NEW p \in PinsOf(n)
    PROVE  p \in ForeignPins(m)
BY Pins, SheetAssumption DEF Placed, Net, PinsOf, ForeignPins

LEMMA Escapes ==
    ASSUME Placed, NEW p \in AllPins, NEW q \in Point
    PROVE  Escaped(p, q) \in Point /\ Aligned(p, Escaped(p, q))
<1>. DEFINE e == board.at[p].edge
            out == <<p[1] + e[1] * GRID, p[2] + e[2] * GRID>>
<1>1. p \in Int \X Int /\ e \in Edge
  BY AllPinsLie DEF Point
<1>2. e[1] \in Int /\ e[2] \in Int /\ (e[1] = 0 \/ e[2] = 0)
  BY <1>1 DEF Edge
<1>3. e[1] * GRID \in Int /\ e[2] * GRID \in Int /\ (e[1] * GRID = 0 \/ e[2] * GRID = 0)
  BY <1>2, Lengths
<1>4. out \in Point /\ Aligned(p, out)
  BY <1>1, <1>3 DEF Point, Aligned
<1>5. Escaped(p, q) \in {p, out}
  BY DEF Escaped
<1>. QED BY <1>1, <1>4, <1>5 DEF Point, Aligned

LEMMA BaseRuns ==
    ASSUME Placed, NEW p \in AllPins, NEW q \in AllPins, NEW w \in OrthogonalRoutes(p, q)
    PROVE  Runs(w, p, q)
<1>. DEFINE p2 == Escaped(p, q)
            q2 == Escaped(q, p)
<1>1. p \in Point /\ q \in Point
  BY AllPinsLie
<1>2. p2 \in Point /\ Aligned(p, p2) /\ q2 \in Point /\ Aligned(q2, q)
  BY <1>1, Escapes DEF Aligned
<1>3. PICK c \in Elbows(p2, q2) : w = To(To(To(To(<<p>>, p2), c), q2), q)
  BY DEF OrthogonalRoutes
<1>. HIDE DEF p2, q2
<1>4. c \in Point /\ Aligned(p2, c) /\ Aligned(c, q2)
  BY <1>2, <1>3 DEF Elbows, Point, Aligned
<1>. QED BY <1>1, <1>2, <1>3, <1>4, GoingOn DEF Runs

LEMMA Held ==
    ASSUME NEW w, Polyline(w), Len(w) >= 2
    PROVE  /\ HeldFrom(w) \in Int \X Int /\ HeldTo(w) \in Int \X Int
           /\ (IF Len(w) >= 4 THEN w[3] ELSE w[2]) \in Int \X Int
<1>1. Len(w) \in Nat /\ \A i \in 1 .. Len(w) : w[i] \in Int \X Int
  BY DEF Polyline, Point
<1>. QED BY <1>1 DEF HeldFrom, HeldTo

LEMMA Columns ==
    ASSUME NEW w, NEW p, NEW q, Runs(w, p, q), Len(w) >= 2, NEW c \in Int
    PROVE  Runs(Via(w, <<c, HeldFrom(w)[2]>>, <<c, HeldTo(w)[2]>>), p, q)
<1>. DEFINE a == HeldFrom(w)
            b == HeldTo(w)
<1>1. a \in Int \X Int /\ b \in Int \X Int
  BY Held DEF Runs
<1>. HIDE DEF a, b
<1>2. /\ <<c, a[2]>> \in Point /\ <<c, b[2]>> \in Point
      /\ Aligned(a, <<c, a[2]>>) /\ Aligned(<<c, a[2]>>, <<c, b[2]>>) /\ Aligned(<<c, b[2]>>, b)
  BY <1>1 DEF Point, Aligned
<1>. QED BY <1>2, Turning DEF Runs, a, b

LEMMA Rows ==
    ASSUME NEW w, NEW p, NEW q, Runs(w, p, q), Len(w) >= 2, NEW r \in Int
    PROVE  Runs(Via(w, <<HeldFrom(w)[1], r>>, <<HeldTo(w)[1], r>>), p, q)
<1>. DEFINE a == HeldFrom(w)
            b == HeldTo(w)
<1>1. a \in Int \X Int /\ b \in Int \X Int
  BY Held DEF Runs
<1>. HIDE DEF a, b
<1>2. /\ <<a[1], r>> \in Point /\ <<b[1], r>> \in Point
      /\ Aligned(a, <<a[1], r>>) /\ Aligned(<<a[1], r>>, <<b[1], r>>) /\ Aligned(<<b[1], r>>, b)
  BY <1>1 DEF Point, Aligned
<1>. QED BY <1>2, Turning DEF Runs, a, b

LEMMA JogRuns ==
    ASSUME NEW w, NEW p, NEW q, Runs(w, p, q), Len(w) >= 2, NEW off \in Int
    PROVE  Runs(JogFreeAxis(w, off), p, q)
<1>. DEFINE a == HeldFrom(w)
            b == HeldTo(w)
            turn == IF Len(w) >= 4 THEN w[3] ELSE w[2]
<1>1. a \in Int \X Int /\ b \in Int \X Int /\ turn \in Int \X Int
  BY Held DEF Runs
<1>2. a[2] + off \in Int /\ turn[1] + off \in Int
  BY <1>1
<1>3. \/ JogFreeAxis(w, off) = Via(w, <<a[1], a[2] + off>>, <<b[1], a[2] + off>>)
      \/ JogFreeAxis(w, off) = Via(w, <<turn[1] + off, a[2]>>, <<turn[1] + off, b[2]>>)
  BY DEF JogFreeAxis
<1>. QED BY <1>2, <1>3, Columns, Rows

LEMMA Bodies == ASSUME NEW b \in Boards, NEW r \in b.body PROVE r \in LedgerRect
BY SheetAssumption

LEMMA ObstaclesAreBoxes == ASSUME Placed, NEW n \in Net PROVE Obstacles(n) \subseteq Box
<1>1. ASSUME NEW b \in Box, NEW m \in Int PROVE Grown(b, m) \in Box
  BY DEF Grown, Box
<1>2. ASSUME NEW p \in Point, NEW m \in Int PROVE Around(p, m) \in Box
  BY DEF Around, Box, Point
<1>3. \A r \in board.body : r.box \in Box
  BY Bodies DEF Placed, LedgerRect
<1>4. -HAIR \in Int /\ GRID \in Int /\ KEEP \in Int
  BY Lengths
<1>5. \A p \in ForeignPins(n) : p \in Point
  BY AllPinsLie DEF ForeignPins
<1>. QED BY <1>1, <1>2, <1>3, <1>4, <1>5 DEF Obstacles, Placed

LEMMA DetourRuns ==
    ASSUME Placed, NEW n \in Net, NEW w, NEW p, NEW q, Runs(w, p, q), Len(w) >= 2,
           NEW d \in Detours(n, w)
    PROVE  Runs(d, p, q)
<1>. DEFINE cols == UNION {{o.x0 - GRID, o.x1 + GRID} : o \in Obstacles(n)}
            rows == UNION {{o.y0 - GRID, o.y1 + GRID} : o \in Obstacles(n)}
<1>1. \A o \in Obstacles(n) : o.x0 \in Int /\ o.x1 \in Int /\ o.y0 \in Int /\ o.y1 \in Int
  BY ObstaclesAreBoxes DEF Box
<1>2. cols \subseteq Int /\ rows \subseteq Int
  BY <1>1, Lengths
<1>3. \/ \E c \in cols : d = Via(w, <<c, HeldFrom(w)[2]>>, <<c, HeldTo(w)[2]>>)
      \/ \E r \in rows : d = Via(w, <<HeldFrom(w)[1], r>>, <<HeldTo(w)[1], r>>)
  BY DEF Detours
<1>. HIDE DEF cols, rows
<1>. QED BY <1>2, <1>3, Columns, Rows

----------------------------------------------------------------------------
(* The least of some numbers, the first and the last of some pins *)

LEMMA LeastNumber ==
    ASSUME NEW S \in SUBSET Nat, S # {}
    PROVE  \E k \in S : \A j \in S : k <= j
<1>1. PICK k \in S : \A j \in S : ~ (<<j, k>> \in OpToRel(<, Nat))
  BY NatLessThanWellFounded, WFMin
<1>2. \A j \in S : ~ (j < k)
  BY <1>1 DEF OpToRel
<1>. QED BY <1>2

(* A finite set that R orders has a first element: a smallest subset       *)
(* without one would have one as soon as it loses an element.              *)
LEMMA FirstIsThere ==
    ASSUME NEW T, IsFiniteSet(T), T # {}, NEW R,
           \A p, q \in T : p = q \/ <<p, q>> \in R \/ <<q, p>> \in R,
           \A p, q, r \in T : <<p, q>> \in R /\ <<q, r>> \in R => <<p, r>> \in R
    PROVE  \E p \in T : \A q \in T : p = q \/ <<p, q>> \in R
<1>. DEFINE HasFirst(S) == \E p \in S : \A q \in S : p = q \/ <<p, q>> \in R
            Lacks(S, k) == IsFiniteSet(S) /\ S # {} /\ Cardinality(S) = k /\ ~ HasFirst(S)
            Sizes == {k \in Nat : \E S \in SUBSET T : Lacks(S, k)}
<1>1. SUFFICES ASSUME Sizes # {} PROVE FALSE
  BY FS_CardinalityType
<1>2. PICK k \in Sizes : \A j \in Sizes : k <= j
  BY <1>1, LeastNumber
<1>3. PICK S \in SUBSET T : Lacks(S, k)
  BY <1>2
<1>4. PICK x \in S : TRUE
  BY <1>3
<1>5. IsFiniteSet(S \ {x}) /\ Cardinality(S \ {x}) = k - 1 /\ Cardinality(S \ {x}) \in Nat
  BY <1>3, <1>4, FS_RemoveElement, FS_CardinalityType
<1>6. S \ {x} # {}
  BY <1>3, <1>4
<1>7. HasFirst(S \ {x})
  <2>1. SUFFICES ASSUME ~ HasFirst(S \ {x}) PROVE FALSE
    OBVIOUS
  <2>2. Lacks(S \ {x}, k - 1)
    BY <1>5, <1>6, <2>1
  <2>. HIDE DEF Lacks
  <2>3. k - 1 \in Sizes
    BY <1>5, <2>2
  <2>4. k <= k - 1 /\ k \in Nat
    BY <1>2, <2>3
  <2>. QED BY <2>4
<1>8. PICK p \in S \ {x} : \A q \in S \ {x} : p = q \/ <<p, q>> \in R
  BY <1>7
<1>9. CASE <<p, x>> \in R
  BY <1>3, <1>8, <1>9
<1>10. CASE <<x, p>> \in R
  BY <1>3, <1>4, <1>8, <1>10
<1>. QED BY <1>4, <1>8, <1>9, <1>10

(* Pins lie in reading order.                                              *)
LEMMA Firsts ==
    ASSUME NEW T \in SUBSET Point, IsFiniteSet(T), T # {}
    PROVE  /\ First(T) \in T /\ Last(T) \in T
           /\ First(T) = Last(T) => T = {First(T)}
<1>. DEFINE R == {e \in T \X T : Before(e[1], e[2])}
            Q == {e \in T \X T : Before(e[2], e[1])}
<1>1. /\ \A p, q \in T : (<<p, q>> \in R <=> Before(p, q)) /\ (<<p, q>> \in Q <=> Before(q, p))
      /\ \A p \in T : p[1] \in Int /\ p[2] \in Int /\ p = <<p[1], p[2]>>
  BY DEF Point
<1>. HIDE DEF R, Q
<1>2. /\ \A p, q \in T : p = q \/ Before(p, q) \/ Before(q, p)
      /\ \A p, q, r \in T : Before(p, q) /\ Before(q, r) => Before(p, r)
      /\ \A p, q \in T : ~ (Before(p, q) /\ Before(q, p))
  BY <1>1 DEF Before
<1>3. \E p \in T : \A q \in T : p = q \/ Before(p, q)
  <2>1. \E p \in T : \A q \in T : p = q \/ <<p, q>> \in R
    BY <1>1, <1>2, FirstIsThere
  <2>. QED BY <1>1, <2>1
<1>4. \E p \in T : \A q \in T : p = q \/ Before(q, p)
  <2>1. \E p \in T : \A q \in T : p = q \/ <<p, q>> \in Q
    BY <1>1, <1>2, FirstIsThere
  <2>. QED BY <1>1, <2>1
<1>5. First(T) \in T /\ \A q \in T : First(T) = q \/ Before(First(T), q)
  BY <1>3 DEF First
<1>6. Last(T) \in T /\ \A q \in T : Last(T) = q \/ Before(q, Last(T))
  BY <1>4 DEF Last
<1>. QED BY <1>2, <1>5, <1>6

----------------------------------------------------------------------------
(* What the guard lets through *)

LEMMA FirstIsAccepted ==
    ASSUME NEW n, NEW a, NEW b, NEW c, NEW exempt, FirstAccepted(n, <<a, b, c>>, exempt) # <<>>
    PROVE  /\ FirstAccepted(n, <<a, b, c>>, exempt) \in {a, b, c}
           /\ Accepts(n, FirstAccepted(n, <<a, b, c>>, exempt), exempt)
<1>. DEFINE tries == <<a, b, c>>
            ok == {i \in DOMAIN tries : Accepts(n, tries[i], exempt)}
            i == CHOOSE i \in ok : \A j \in ok : i <= j
<1>1. DOMAIN tries = {1, 2, 3} /\ tries[1] = a /\ tries[2] = b /\ tries[3] = c
  OBVIOUS
<1>2. FirstAccepted(n, tries, exempt) = IF ok = {} THEN <<>> ELSE tries[i]
  BY DEF FirstAccepted
<1>3. ok # {} /\ FirstAccepted(n, tries, exempt) = tries[i]
  BY <1>2
<1>4. ok \in SUBSET Nat
  BY <1>1
<1>5. i \in ok
  BY <1>3, <1>4, LeastNumber
<1>6. i \in {1, 2, 3} /\ Accepts(n, tries[i], exempt)
  BY <1>1, <1>5
<1>. HIDE DEF i, ok
<1>. QED BY <1>1, <1>3, <1>6

LEMMA FoundRuns ==
    ASSUME Placed, NEW n \in Net, NEW p \in AllPins, NEW q \in AllPins, p # q,
           NEW retry, NEW r \in Found(n, p, q, retry), r # <<>>
    PROVE  Runs(r, p, q) /\ Len(r) >= 2 /\ \E exempt \in BOOLEAN : Accepts(n, r, exempt)
<1>1. ASSUME NEW w, Runs(w, p, q) PROVE Len(w) >= 2
  BY <1>1 DEF Runs, Polyline
<1>2. PICK t \in Searches(n, p, q) : r = GuardRoute(n, t, retry)
  BY DEF Found
<1>3. PICK w \in OrthogonalRoutes(p, q) :
        t \in {<<w, JogFreeAxis(w, off), d>> : off \in Jogs, d \in Detours(n, w)}
  BY <1>2 DEF Searches
<1>4. PICK off \in Jogs, d \in Detours(n, w) : t = <<w, JogFreeAxis(w, off), d>>
  BY <1>3
<1>5. Runs(w, p, q) /\ Runs(d, p, q) /\ Runs(JogFreeAxis(w, off), p, q)
  <2>1. Runs(w, p, q) /\ Len(w) >= 2
    BY <1>1, BaseRuns
  <2>. QED BY <2>1, DetourRuns, JogRuns, Lengths
<1>6. PICK exempt \in BOOLEAN : r = FirstAccepted(n, t, exempt)
  BY <1>2 DEF GuardRoute
<1>7. r \in {w, JogFreeAxis(w, off), d} /\ Accepts(n, r, exempt)
  BY <1>4, <1>6, FirstIsAccepted
<1>. QED BY <1>1, <1>5, <1>7

LEMMA SegmentsLie ==
    ASSUME NEW w, Polyline(w), NEW s \in Segs(w)
    PROVE  s \in Wire /\ Aligned(s[1], s[2]) /\ \E i \in DOMAIN w : s[1] = w[i]
<1>1. w \in Seq(Point) /\ Len(w) \in Nat /\ DOMAIN w = 1 .. Len(w) /\ \A i \in 1 .. Len(w) : w[i] \in Point
  BY DEF Polyline
<1>2. PICK i \in 1 .. Len(w) - 1 : s = <<w[i], w[i + 1]>>
  BY DEF Segs
<1>3. i \in 1 .. Len(w) /\ i + 1 \in 1 .. Len(w)
  BY <1>1
<1>. QED BY <1>1, <1>2, <1>3 DEF Wire, Polyline

(* A wire ends on itself, and never in its own inside.                     *)
LEMMA EndsLie ==
    ASSUME NEW s \in Wire, NEW i \in 1 .. 2
    PROVE  PointOnSegment(s[i], s) /\ ~ StrictlyInterior(s[i], s)
<1>1. s[1][1] \in Int /\ s[1][2] \in Int /\ s[2][1] \in Int /\ s[2][2] \in Int /\ (i = 1 \/ i = 2)
  BY DEF Wire, Point
<1>. QED BY <1>1 DEF PointOnSegment, StrictlyInterior, Span, Least, Greatest

LEMMA WeldsBothWays ==
    ASSUME NEW s \in Wire, NEW t \in Wire, Welded(s, t) PROVE Welded(t, s)
<1>1. /\ s[1][1] \in Int /\ s[1][2] \in Int /\ s[2][1] \in Int /\ s[2][2] \in Int
      /\ t[1][1] \in Int /\ t[1][2] \in Int /\ t[2][1] \in Int /\ t[2][2] \in Int
  BY DEF Wire, Point
<1>2. /\ Low(s) \in Int /\ High(s) \in Int /\ Low(t) \in Int /\ High(t) \in Int
  BY <1>1 DEF Low, High, Least, Greatest
<1>3. Shared(s, t) <=> Shared(t, s)
  BY <1>2 DEF Shared, Least, Greatest
<1>4. CollinearOverlap(s, t) <=> CollinearOverlap(t, s)
  BY <1>3 DEF CollinearOverlap, Parallel
<1>. QED BY <1>4 DEF Welded

(* The guard refuses what would weld, with the exemption or without: a     *)
(* shared end is on both wires and inside neither.                         *)
LEMMA GuardKeepsApart ==
    ASSUME NEW n, NEW w, NEW exempt, Accepts(n, w, exempt),
           NEW s \in Segs(w), NEW t \in OtherSegments(n), s \in Wire, t \in Wire
    PROVE  ~ Welded(s, t)
<1>1. ~ SegmentFuses(s, t, exempt)
  BY DEF Accepts
<1>2. ~ CollinearOverlap(s, t)
  BY <1>1 DEF SegmentFuses
<1>3. ASSUME NEW i \in 1 .. 2, NEW j \in 1 .. 2, s[i] = t[j] PROVE FALSE
  <2>1. PointOnSegment(s[i], t) /\ ~ StrictlyInterior(s[i], t)
    BY <1>3, EndsLie
  <2>. QED BY <1>1, <2>1 DEF SegmentFuses, Touches
<1>. QED BY <1>2, <1>3 DEF Welded

(* Nor does it let a wire cover another net's pin: the pin is kept clear   *)
(* by a grid, and a wire of no length is a corner that is not on a pin.    *)
LEMMA GuardClearsPins ==
    ASSUME Placed, NEW n \in Net, NEW w, NEW exempt, Polyline(w), Accepts(n, w, exempt),
           NEW s \in Segs(w), NEW p \in ForeignPins(n)
    PROVE  ~ PointOnSegment(p, s)
<1>1. /\ s[1][1] \in Int /\ s[1][2] \in Int /\ s[2][1] \in Int /\ s[2][2] \in Int
      /\ s[1] = <<s[1][1], s[1][2]>> /\ Aligned(s[1], s[2])
  BY SegmentsLie DEF Wire, Point
<1>2. p[1] \in Int /\ p[2] \in Int /\ p = <<p[1], p[2]>>
  BY AllPinsLie DEF ForeignPins, Point
<1>3. ~ SegHitsBox(s, Around(p, GRID))
  BY DEF Accepts, Obstacles
<1>4. s[1] # p
  BY SegmentsLie DEF Accepts
<1>5. SUFFICES ASSUME PointOnSegment(p, s) PROVE FALSE
  OBVIOUS
<1>. DEFINE b == Span(s)
<1>6. /\ b.x0 = Least(s[1][1], s[2][1]) /\ b.x1 = Greatest(s[1][1], s[2][1])
      /\ b.y0 = Least(s[1][2], s[2][2]) /\ b.y1 = Greatest(s[1][2], s[2][2])
  BY DEF Span
<1>7. b.x0 <= p[1] /\ p[1] <= b.x1 /\ b.y0 <= p[2] /\ p[2] <= b.y1
  BY <1>5 DEF PointOnSegment
<1>8. /\ ~ (b.y0 = b.y1 /\ p[2] - GRID < b.y0 /\ b.y0 < p[2] + GRID /\ b.x0 < p[1] + GRID
            /\ p[1] - GRID < b.x1 /\ b.x0 # b.x1)
      /\ ~ (b.x0 = b.x1 /\ p[1] - GRID < b.x0 /\ b.x0 < p[1] + GRID /\ b.y0 < p[2] + GRID
            /\ p[2] - GRID < b.y1 /\ b.y0 # b.y1)
  BY <1>3 DEF SegHitsBox, Around
<1>. HIDE DEF b
<1>9. b.x0 \in Int /\ b.x1 \in Int /\ b.y0 \in Int /\ b.y1 \in Int
  BY <1>1, <1>6 DEF Least, Greatest
<1>10. b.x0 = b.x1 \/ b.y0 = b.y1
  BY <1>1, <1>6 DEF Least, Greatest, Aligned
<1>11. b.x0 = b.x1 /\ b.y0 = b.y1
  BY <1>2, <1>7, <1>8, <1>9, <1>10, Lengths
<1>12. p[1] = s[1][1] /\ p[2] = s[1][2]
  BY <1>1, <1>2, <1>6, <1>7, <1>11 DEF Least, Greatest
<1>. QED BY <1>1, <1>2, <1>4, <1>12

----------------------------------------------------------------------------
(* While no port is drawn: what the sheet holds, and the chain in progress *)

Separate ==
    /\ drawn = registry /\ registry \in [Net -> SUBSET Wire]
    /\ \A n \in Net : \A m \in Net \ {n} : \A s \in drawn[n], t \in drawn[m] : ~ Welded(s, t)
    /\ \A n \in Net : \A p \in ForeignPins(n), s \in drawn[n] : ~ PointOnSegment(p, s)
    /\ \A j \in junctions : j[2] \in Net /\ j[1] \in PinsOf(j[2])

Fragment(n) == [pins : SUBSET PinsOf(n), trunk : Wire]
Piece(n) == [pins : SUBSET PinsOf(n), trunk : Wire \cup {<<>>}]
ChainOf(n) ==
    [net : {n}, at : PinsOf(n), left : SUBSET PinsOf(n), piece : Piece(n), pieces : Seq(Fragment(n))]

Chained ==
    chain # NoChain =>
        /\ chain.net \in Net /\ chain \in ChainOf(chain.net)
        /\ chain.at \notin chain.left
        /\ chain.piece.pins = {} => chain.left = {} /\ chain.pieces # <<>>

Drawing == flagged = {} => Placed /\ Separate /\ Chained

LEMMA DrawKeepsApart ==
    ASSUME Placed, Separate, NEW n \in Net, NEW w, NEW exempt, Polyline(w), Accepts(n, w, exempt),
           Draw(n, Segs(w)), UNCHANGED <<board, junctions>>
    PROVE  Separate'
<1>. DEFINE segs == Segs(w)
<1>1. /\ segs \subseteq Wire
      /\ \A s \in segs, p \in ForeignPins(n) : ~ PointOnSegment(p, s)
  BY SegmentsLie, GuardClearsPins
<1>2. /\ registry' = drawn' /\ drawn' = [drawn EXCEPT ![n] = drawn[n] \cup segs]
      /\ drawn \in [Net -> SUBSET Wire]
  BY DEF Draw, Separate
<1>3. drawn' \in [Net -> SUBSET Wire] /\ drawn'[n] = drawn[n] \cup segs
      /\ \A m \in Net \ {n} : drawn'[m] = drawn[m]
  BY <1>1, <1>2
<1>4. Net' = Net /\ \A m \in Net : PinsOf(m)' = PinsOf(m) /\ ForeignPins(m)' = ForeignPins(m)
  BY DEF Net, PinsOf, ForeignPins, AllPins
<1>5. ASSUME NEW m \in Net \ {n}, NEW s \in segs, NEW t \in drawn[m]
      PROVE  ~ Welded(s, t) /\ ~ Welded(t, s)
  <2>1. t \in OtherSegments(n) /\ t \in Wire /\ s \in Wire
    BY <1>1, <1>2 DEF OtherSegments, Separate
  <2>2. ~ Welded(s, t)
    BY <2>1, GuardKeepsApart
  <2>. QED BY <2>1, <2>2, WeldsBothWays
<1>6. ASSUME NEW m1 \in Net, NEW m2 \in Net \ {m1}, NEW s \in drawn'[m1], NEW t \in drawn'[m2]
      PROVE  ~ Welded(s, t)
  <2>1. CASE m1 = n /\ s \in segs
    BY <1>3, <1>5, <2>1
  <2>2. CASE m2 = n /\ t \in segs
    BY <1>3, <1>5, <2>2
  <2>3. CASE s \in drawn[m1] /\ t \in drawn[m2]
    BY <2>3 DEF Separate
  <2>. QED BY <1>3, <2>1, <2>2, <2>3
<1>7. ASSUME NEW m \in Net, NEW p \in ForeignPins(m), NEW s \in drawn'[m]
      PROVE  ~ PointOnSegment(p, s)
  BY <1>1, <1>3, <1>7 DEF Separate
<1>8. \A j \in junctions : j[2] \in Net /\ j[1] \in PinsOf(j[2])
  BY DEF Separate
<1>. HIDE DEF segs
<1>. QED BY <1>2, <1>3, <1>4, <1>6, <1>7, <1>8 DEF Separate

LEMMA SeatLies ==
    ASSUME NEW a \in Point, NEW b \in Point PROVE Seat(a, b) \in Point
<1>. DEFINE along == Greatest(a[1], b[1]) - Least(a[1], b[1]) + Greatest(a[2], b[2]) - Least(a[2], b[2])
            dir(i) == IF a[i] < b[i] THEN 1 ELSE IF b[i] < a[i] THEN -1 ELSE 0
            m == along \div GRID
            rest == [k \in 1 .. m |-> <<a[1] + dir(1) * k * GRID, a[2] + dir(2) * k * GRID>>]
            seats == <<a, b>> \o rest
            free == {k \in DOMAIN seats : FreeOfText(LabelBox(seats[k], <<1, 0>>))}
            k0 == CHOOSE k \in free : \A j \in free : k <= j
<1>1. a[1] \in Int /\ a[2] \in Int /\ b[1] \in Int /\ b[2] \in Int
  BY DEF Point
<1>2. along \in Nat
  BY <1>1 DEF Greatest, Least
<1>3. m \in Nat
  <2>. HIDE DEF along
  <2>. QED BY <1>2, Lengths
<1>4. dir(1) \in Int /\ dir(2) \in Int
  BY <1>1
<1>. HIDE DEF dir, m
<1>5. \A k \in 1 .. m : dir(1) * k * GRID \in Int /\ dir(2) * k * GRID \in Int
  <2>1. \A k \in 1 .. m : dir(1) * k \in Int /\ dir(2) * k \in Int
    BY <1>3, <1>4
  <2>. QED BY <2>1, Lengths
<1>6. \A k \in 1 .. m : <<a[1] + dir(1) * k * GRID, a[2] + dir(2) * k * GRID>> \in Point
  BY <1>1, <1>5 DEF Point
<1>7. rest \in Seq(Point)
  BY <1>3, <1>6
<1>8. Seats(a, b) = seats
  BY DEF Seats, dir, m
<1>. HIDE DEF rest
<1>9. seats \in Seq(Point)
  BY <1>7
<1>10. Seat(a, b) = IF free = {} THEN b ELSE seats[k0]
  BY <1>8 DEF Seat
<1>. HIDE DEF seats
<1>11. free \in SUBSET Nat
  BY <1>9
<1>12. free # {} => k0 \in DOMAIN seats
  BY <1>11, LeastNumber
<1>. HIDE DEF k0, free
<1>. QED BY <1>9, <1>10, <1>12

LEMMA LabelBoxes == ASSUME NEW p \in Point, NEW edge PROVE LabelBox(p, edge) \in Box
BY Lengths DEF LabelBox, Box, Point

LEMMA SameSheet == ASSUME Separate, UNCHANGED <<board, registry, drawn, junctions>> PROVE Separate'
BY DEF Separate, Net, PinsOf, ForeignPins, AllPins

LEMMA SamePage == ASSUME Placed, board' = board, mirror' \subseteq mirror, texts' \subseteq Box PROVE Placed'
BY DEF Placed

LEMMA SameChain == ASSUME Chained, UNCHANGED <<board, chain>> PROVE Chained'
BY DEF Chained, ChainOf, Piece, Fragment, PinsOf, Net

(* A chain that has moved on.                                              *)
LEMMA NewChain ==
    ASSUME NEW n \in Net, NEW c \in ChainOf(n), board' = board, chain' = c, c.at \notin c.left,
           c.piece.pins = {} => c.left = {} /\ c.pieces # <<>>
    PROVE  Chained'
<1>1. c.net = n
  BY DEF ChainOf
<1>2. Net' = Net /\ ChainOf(n)' = ChainOf(n)
  BY DEF Net, ChainOf, Piece, Fragment, PinsOf
<1>. QED BY <1>1, <1>2 DEF Chained

LEMMA ChainIs ==
    ASSUME Chained, chain # NoChain, NEW n, n = chain.net
    PROVE  /\ n \in Net /\ chain \in ChainOf(n)
           /\ chain.at \in PinsOf(n) /\ chain.left \subseteq PinsOf(n) /\ chain.at \notin chain.left
           /\ chain.piece.pins \subseteq PinsOf(n) /\ chain.piece.trunk \in Wire \cup {<<>>}
           /\ chain.piece = [pins |-> chain.piece.pins, trunk |-> chain.piece.trunk]
           /\ chain.pieces \in Seq(Fragment(n))
           /\ chain.piece.pins = {} => chain.left = {} /\ chain.pieces # <<>>
           /\ chain = [net |-> n, at |-> chain.at, left |-> chain.left,
                       piece |-> chain.piece, pieces |-> chain.pieces]
<1>1. n \in Net /\ chain \in ChainOf(n)
  BY DEF Chained
<1>2. chain.piece \in Piece(n)
  BY <1>1 DEF ChainOf
<1>. QED BY <1>1, <1>2 DEF Chained, ChainOf, Piece

LEMMA PiecesAre ==
    ASSUME Chained, chain # NoChain PROVE Pieces \in Seq(Fragment(chain.net))
<1>. DEFINE n == chain.net
<1>1. chain.pieces \in Seq(Fragment(n)) /\ chain.piece.trunk \in Wire \cup {<<>>}
      /\ chain.piece = [pins |-> chain.piece.pins, trunk |-> chain.piece.trunk]
      /\ chain.piece.pins \subseteq PinsOf(n)
  BY ChainIs
<1>2. CASE chain.piece.trunk = <<>>
  BY <1>1, <1>2 DEF Pieces
<1>3. CASE chain.piece.trunk # <<>>
  <2>1. chain.piece \in Fragment(n)
    BY <1>1, <1>3 DEF Fragment
  <2>. QED BY <1>1, <1>3, <2>1 DEF Pieces
<1>. QED BY <1>2, <1>3

----------------------------------------------------------------------------
(* Each step keeps the nets apart *)

LEMMA MirrorKeeps ==
    ASSUME Placed, Separate, Chained, mirror_rect PROVE Placed' /\ Separate' /\ Chained'
<1>1. PICK r \in mirror : mirror' = mirror \ {r} /\ (texts' = texts \/ texts' = texts \cup {r.box})
  BY DEF mirror_rect
<1>2. r.box \in Box
  BY Bodies DEF Placed, LedgerRect
<1>3. UNCHANGED <<board, registry, drawn, junctions, chain>>
  BY DEF mirror_rect
<1>4. texts' \subseteq Box
  BY <1>1, <1>2 DEF Placed
<1>. QED BY <1>1, <1>3, <1>4, SameSheet, SamePage, SameChain

LEMMA PairKeeps ==
    ASSUME Placed, Separate, Chained, NEW n \in Net, route_pair(n)
    PROVE  Placed' /\ Separate' /\ Chained'
<1>. DEFINE p == First(PinsOf(n))
            q == Last(PinsOf(n))
<1>1. UNCHANGED <<board, mirror, chain, junctions, texts>> /\ Cardinality(PinsOf(n)) = 2
  BY DEF route_pair
<1>2. Placed' /\ Chained'
  BY <1>1, SamePage, SameChain DEF Placed
<1>3. /\ PinsOf(n) \in SUBSET Point /\ IsFiniteSet(PinsOf(n)) /\ PinsOf(n) # {}
      /\ \A x : PinsOf(n) # {x}
  <2>1. IsFiniteSet(PinsOf(n)) /\ PinsOf(n) \in SUBSET Point
    BY Pins
  <2>. QED BY <1>1, <2>1, FS_EmptySet, FS_Singleton
<1>4. p \in AllPins /\ q \in AllPins /\ p # q
  BY <1>3, Firsts, Pins
<1>5. PICK w \in Found(n, p, q, TRUE) :
        IF w = <<>> THEN UNCHANGED <<registry, drawn, ledger>> ELSE Draw(n, Segs(w))
  BY DEF route_pair
<1>. HIDE DEF p, q
<1>6. CASE w = <<>>
  BY <1>1, <1>2, <1>5, <1>6, SameSheet
<1>7. CASE w # <<>>
  <2>1. Runs(w, p, q) /\ Len(w) >= 2 /\ \E exempt \in BOOLEAN : Accepts(n, w, exempt)
    BY <1>4, <1>7, FoundRuns
  <2>2. PICK exempt \in BOOLEAN : Accepts(n, w, exempt)
    BY <2>1
  <2>. QED BY <1>1, <1>2, <1>5, <1>7, <2>1, <2>2, DrawKeepsApart DEF Runs
<1>. QED BY <1>6, <1>7

LEMMA BeginKeeps ==
    ASSUME Placed, Separate, Chained, NEW n \in Net, begin_chain(n)
    PROVE  Placed' /\ Separate' /\ Chained'
<1>. DEFINE p == First(PinsOf(n))
            c == [net |-> n, at |-> p, left |-> PinsOf(n) \ {p}, piece |-> Alone(p), pieces |-> <<>>]
<1>1. UNCHANGED <<board, mirror, registry, drawn, junctions, texts>> /\ chain' = c
      /\ Cardinality(PinsOf(n)) > 2
  BY DEF begin_chain
<1>2. PinsOf(n) \in SUBSET Point /\ IsFiniteSet(PinsOf(n)) /\ PinsOf(n) # {}
  BY <1>1, Pins, FS_EmptySet
<1>3. p \in PinsOf(n)
  BY <1>2, Firsts
<1>. HIDE DEF p
<1>4. c \in ChainOf(n) /\ c.at \notin c.left /\ c.piece.pins # {}
  BY <1>3 DEF ChainOf, Piece, Alone
<1>. HIDE DEF c
<1>5. Chained'
  BY <1>1, <1>4, NewChain
<1>. QED BY <1>1, <1>5, SameSheet, SamePage DEF Placed

LEMMA HopKeeps ==
    ASSUME Placed, Separate, Chained, hop PROVE Placed' /\ Separate' /\ Chained'
<1>. DEFINE n == chain.net
            p == chain.at
            q == First(chain.left)
            left == chain.left \ {q}
            trunk == chain.piece.trunk
<1>1. chain # NoChain /\ chain.left # {} /\ UNCHANGED <<board, mirror, junctions, texts>>
  BY DEF hop, Hopping
<1>2. /\ n \in Net /\ p \in PinsOf(n) /\ chain.left \subseteq PinsOf(n) /\ p \notin chain.left
      /\ chain.piece.pins \subseteq PinsOf(n) /\ chain.piece.trunk \in Wire \cup {<<>>}
      /\ chain.piece = [pins |-> chain.piece.pins, trunk |-> chain.piece.trunk]
      /\ chain.pieces \in Seq(Fragment(n))
      /\ chain = [net |-> n, at |-> p, left |-> chain.left, piece |-> chain.piece, pieces |-> chain.pieces]
  BY <1>1, ChainIs
<1>3. IsFiniteSet(chain.left) /\ chain.left \in SUBSET Point
  BY <1>2, Pins, FS_Subset
<1>4. q \in chain.left /\ q # p /\ q \in PinsOf(n) /\ q \in AllPins /\ p \in AllPins
  BY <1>1, <1>2, <1>3, Firsts, Pins
<1>5. Placed'
  BY <1>1, SamePage DEF Placed
<1>6. PICK w \in Found(n, p, q, FALSE) :
        IF w = <<>>
        THEN /\ chain' = [[chain EXCEPT !.at = q, !.left = @ \ {q}] EXCEPT !.piece = Alone(q), !.pieces = Pieces]
             /\ UNCHANGED <<registry, drawn, ledger>>
        ELSE /\ chain' = [[chain EXCEPT !.at = q, !.left = @ \ {q}]
                            EXCEPT !.piece.pins = @ \cup {q},
                                   !.piece.trunk = IF @ = <<>> THEN <<w[1], w[2]>> ELSE @]
             /\ Draw(n, Segs(w))
  BY DEF hop
<1>. HIDE DEF p, q
<1>7. CASE w = <<>>
  <2>. DEFINE c == [net |-> n, at |-> q, left |-> left, piece |-> Alone(q), pieces |-> Pieces]
  <2>1. chain' = c
    BY <1>2, <1>6, <1>7
  <2>2. Pieces \in Seq(Fragment(n))
    BY <1>1, PiecesAre
  <2>3. c \in ChainOf(n) /\ c.at \notin c.left /\ c.piece.pins # {}
    BY <1>2, <1>4, <2>2 DEF ChainOf, Piece, Alone
  <2>. HIDE DEF c
  <2>4. Chained'
    BY <1>1, <1>2, <2>1, <2>3, NewChain
  <2>. QED BY <1>1, <1>5, <1>6, <1>7, <2>4, SameSheet
<1>8. CASE w # <<>>
  <2>1. Runs(w, p, q) /\ Len(w) >= 2 /\ \E exempt \in BOOLEAN : Accepts(n, w, exempt)
    <3>. HIDE DEF n
    <3>1. n \in Net /\ p \in AllPins /\ q \in AllPins /\ p # q /\ w \in Found(n, p, q, FALSE)
      BY <1>2, <1>4, <1>6
    <3>. QED BY <1>8, <3>1, FoundRuns
  <2>. DEFINE t == IF trunk = <<>> THEN <<w[1], w[2]>> ELSE trunk
              f == [pins |-> chain.piece.pins \cup {q}, trunk |-> t]
              c == [net |-> n, at |-> q, left |-> left, piece |-> f, pieces |-> chain.pieces]
  <2>2. <<w[1], w[2]>> \in Wire
    BY <2>1 DEF Runs, Polyline, Wire
  <2>3. t \in Wire
    BY <1>2, <2>2
  <2>4. chain' = c
    BY <1>2, <1>6, <1>8
  <2>. HIDE DEF t
  <2>5. c \in ChainOf(n) /\ c.at \notin c.left /\ c.piece.pins # {}
    BY <1>2, <1>4, <2>3 DEF ChainOf, Piece
  <2>. HIDE DEF c
  <2>6. Chained'
    BY <1>1, <1>2, <2>4, <2>5, NewChain
  <2>7. Separate'
    BY <1>1, <1>2, <1>6, <1>8, <2>1, DrawKeepsApart DEF Runs
  <2>. QED BY <1>5, <2>6, <2>7
<1>. QED BY <1>7, <1>8

(* Dots are only set on pins, and no wire of another net is over a pin.    *)
LEMMA EndKeeps ==
    ASSUME Placed, Separate, Chained, end_chain PROVE Placed' /\ Separate' /\ Chained'
<1>. DEFINE n == chain.net
            dots == UNION {(f.pins \ {First(f.pins), Last(f.pins)}) \X {n} : f \in Range(Pieces)}
            f0 == [chain.piece EXCEPT !.pins = {}]
            c == [net |-> n, at |-> chain.at, left |-> chain.left, piece |-> f0, pieces |-> Pieces]
<1>1. /\ chain # NoChain /\ chain.left = {}
      /\ UNCHANGED <<board, mirror, registry, drawn, texts>>
      /\ junctions' = junctions \cup dots
      /\ chain' = IF Pieces = <<>> THEN NoChain ELSE [chain EXCEPT !.pieces = Pieces, !.piece = f0]
  BY DEF end_chain
<1>2. /\ n \in Net /\ chain.at \in PinsOf(n) /\ chain.left \subseteq PinsOf(n)
      /\ chain.at \notin chain.left /\ chain.piece.trunk \in Wire \cup {<<>>}
      /\ chain.piece = [pins |-> chain.piece.pins, trunk |-> chain.piece.trunk]
      /\ chain = [net |-> n, at |-> chain.at, left |-> chain.left,
                  piece |-> chain.piece, pieces |-> chain.pieces]
  BY <1>1, ChainIs
<1>3. Pieces \in Seq(Fragment(n))
  BY <1>1, PiecesAre
<1>4. ASSUME NEW f \in Range(Pieces) PROVE f.pins \subseteq PinsOf(n)
  <2>1. PICK i \in DOMAIN Pieces : f = Pieces[i]
    BY DEF Range
  <2>2. f \in Fragment(n)
    BY <1>3, <2>1
  <2>. QED BY <2>2 DEF Fragment
<1>5. ASSUME NEW j \in dots PROVE j[2] = n /\ j[1] \in PinsOf(n)
  <2>1. PICK f \in Range(Pieces) : j \in (f.pins \ {First(f.pins), Last(f.pins)}) \X {n}
    OBVIOUS
  <2>. QED BY <1>4, <2>1
<1>. HIDE DEF dots
<1>6. Separate'
  <2>1. Net' = Net /\ \A m \in Net : PinsOf(m)' = PinsOf(m) /\ ForeignPins(m)' = ForeignPins(m)
    BY <1>1 DEF Net, PinsOf, ForeignPins, AllPins
  <2>2. \A j \in junctions' : j[2] \in Net /\ j[1] \in PinsOf(j[2])
    BY <1>1, <1>2, <1>5 DEF Separate
  <2>. QED BY <1>1, <2>1, <2>2 DEF Separate
<1>7. Chained'
  <2>1. CASE Pieces = <<>>
    BY <1>1, <2>1 DEF Chained
  <2>2. CASE Pieces # <<>>
    <3>1. f0 = [pins |-> {}, trunk |-> chain.piece.trunk]
      <4>1. ASSUME NEW P, NEW T, NEW f, f = [pins |-> P, trunk |-> T]
            PROVE  [f EXCEPT !.pins = {}] = [pins |-> {}, trunk |-> f.trunk]
        BY <4>1
      <4>. QED BY <1>2, <4>1
    <3>2. chain' = c
      <4>1. chain' = [chain EXCEPT !.pieces = Pieces, !.piece = f0]
        BY <1>1, <2>2
      <4>. HIDE DEF f0
      <4>. QED BY <1>2, <4>1
    <3>. HIDE DEF f0
    <3>3. f0 \in Piece(n)
      BY <1>2, <3>1 DEF Piece
    <3>4. c \in ChainOf(n) /\ c.at \notin c.left /\ c.left = {} /\ c.pieces # <<>>
      BY <1>1, <1>2, <1>3, <2>2, <3>3 DEF ChainOf
    <3>. HIDE DEF c
    <3>. QED BY <1>1, <1>2, <3>2, <3>4, NewChain
  <2>. QED BY <2>1, <2>2
<1>. QED BY <1>1, <1>6, <1>7, SamePage DEF Placed

LEMMA LabelKeeps ==
    ASSUME Placed, Separate, Chained, label_piece PROVE Placed' /\ Separate' /\ Chained'
<1>. DEFINE n == chain.net
            f == Head(chain.pieces)
            box == LabelBox(Seat(f.trunk[1], f.trunk[2]), <<1, 0>>)
            rest == Tail(chain.pieces)
            c == [net |-> n, at |-> chain.at, left |-> chain.left, piece |-> chain.piece, pieces |-> rest]
<1>1. /\ chain # NoChain /\ chain.left = {} /\ chain.piece.pins = {}
      /\ UNCHANGED <<board, mirror, registry, drawn, junctions>>
      /\ texts' = texts \cup {box}
      /\ chain' = IF rest = <<>> THEN NoChain ELSE [chain EXCEPT !.pieces = rest]
  BY DEF label_piece
<1>2. /\ n \in Net /\ chain.at \in PinsOf(n) /\ chain.left \subseteq PinsOf(n) /\ chain.at \notin chain.left
      /\ chain \in ChainOf(n) /\ chain.pieces \in Seq(Fragment(n)) /\ chain.pieces # <<>>
      /\ chain = [net |-> n, at |-> chain.at, left |-> chain.left,
                  piece |-> chain.piece, pieces |-> chain.pieces]
  BY <1>1, ChainIs
<1>3. f \in Fragment(n) /\ rest \in Seq(Fragment(n))
  BY <1>2
<1>4. f.trunk[1] \in Point /\ f.trunk[2] \in Point
  BY <1>3 DEF Fragment, Wire
<1>. HIDE DEF f, rest
<1>5. box \in Box
  BY <1>4, SeatLies, LabelBoxes
<1>. HIDE DEF box
<1>6. Placed'
  BY <1>1, <1>5, SamePage DEF Placed
<1>7. Chained'
  <2>1. CASE rest = <<>>
    BY <1>1, <2>1 DEF Chained
  <2>2. CASE rest # <<>>
    <3>1. chain' = c
      BY <1>1, <1>2, <2>2
    <3>2. chain.piece \in Piece(n)
      BY <1>2 DEF ChainOf
    <3>3. c \in ChainOf(n) /\ c.at \notin c.left /\ c.left = {} /\ c.pieces # <<>>
      BY <1>1, <1>2, <1>3, <2>2, <3>2 DEF ChainOf
    <3>. HIDE DEF c
    <3>. QED BY <1>1, <1>2, <3>1, <3>3, NewChain
  <2>. QED BY <2>1, <2>2
<1>. QED BY <1>1, <1>6, <1>7, SameSheet

LEMMA DrawingAtFirst == Init => Drawing
<1>. SUFFICES ASSUME Init PROVE Placed /\ Separate /\ Chained
  BY DEF Drawing
<1>1. Placed /\ Chained
  BY DEF Init, Placed, Chained
<1>2. Separate
  BY DEF Init, Separate
<1>. QED BY <1>1, <1>2

(* Ports come after all routing, and the first of them ends it.            *)
LEMMA DrawingByNext == Drawing /\ [Next]_vars => Drawing'
<1>. SUFFICES ASSUME Drawing, [Next]_vars, flagged' = {} PROVE Placed' /\ Separate' /\ Chained'
  BY DEF Drawing
<1>1. ~ place_port
  BY DEF place_port
<1>2. flagged = {}
  BY <1>1 DEF Next, Route, mirror_rect, name_net, route_pair, begin_chain, hop, end_chain, label_piece,
              place_label, finish, vars
<1>3. Placed /\ Separate /\ Chained
  BY <1>2 DEF Drawing
<1>4. ASSUME UNCHANGED <<board, mirror, texts, registry, drawn, junctions, chain>>
      PROVE  Placed' /\ Separate' /\ Chained'
  BY <1>3, <1>4, SameSheet, SamePage, SameChain DEF Placed
<1>5. ASSUME NEW n \in Net, name_net(n) PROVE Placed' /\ Separate' /\ Chained'
  BY <1>4, <1>5 DEF name_net
<1>6. ASSUME NEW n \in Net, route_pair(n) \/ begin_chain(n) PROVE Placed' /\ Separate' /\ Chained'
  BY <1>3, <1>6, PairKeeps, BeginKeeps
<1>7. CASE mirror_rect \/ hop \/ end_chain \/ label_piece
  BY <1>3, <1>7, MirrorKeeps, HopKeeps, EndKeeps, LabelKeeps
<1>8. CASE place_label \/ finish \/ UNCHANGED vars
  BY <1>4, <1>8 DEF place_label, finish, vars
<1>. QED BY <1>1, <1>5, <1>6, <1>7, <1>8 DEF Next, Route

(* However many nets are routed, in whatever order and by whatever jog or  *)
(* detour, no two of them are joined on the sheet before ports are drawn.  *)
THEOREM RoutesStayApart == Spec => []RoutedApart
<1>1. Drawing => RoutedApart
  <2>. SUFFICES ASSUME Drawing, flagged = {} PROVE Apart(drawn)
    BY DEF RoutedApart
  <2>1. Placed /\ Separate
    BY DEF Drawing
  <2>2. ASSUME NEW n \in Net, NEW m \in Net \ {n}, NEW j \in junctions, j[2] = n, NEW t \in drawn[m]
        PROVE  ~ PointOnSegment(j[1], t)
    <3>1. j[1] \in ForeignPins(m)
      BY <2>1, <2>2, PinsDiffer DEF Separate
    <3>. QED BY <2>1, <3>1 DEF Separate
  <2>. QED BY <2>1, <2>2 DEF Apart, Separate
<1>. QED BY <1>1, DrawingAtFirst, DrawingByNext, PTL DEF Spec

----------------------------------------------------------------------------
(* What wires reach *)

LEMMA Counting ==
    ASSUME NEW S \in SUBSET Nat, 0 \in S, \A k \in S : k + 1 \in S
    PROVE  S = Nat
<1>1. SUFFICES ASSUME Nat \ S # {} PROVE FALSE
  OBVIOUS
<1>2. PICK k \in Nat \ S : \A j \in Nat \ S : k <= j
  BY <1>1, LeastNumber
<1>3. k - 1 \in Nat /\ ~ (k <= k - 1)
  BY <1>2
<1>. QED BY <1>2, <1>3

(* What is defined step by step is defined: its beginnings agree.          *)
LEMMA StepByStep ==
    ASSUME NEW X, NEW x \in X, NEW G \in [X -> X]
    PROVE  \E r \in [Nat -> X] : r[0] = x /\ \A k \in Nat : r[k + 1] = G[r[k]]
<1>. DEFINE Begins(f, m) == f \in [0 .. m -> X] /\ f[0] = x /\ \A i \in 0 .. m : i + 1 <= m => f[i + 1] = G[f[i]]
            Lengthy == {m \in Nat : \E f : Begins(f, m)}
<1>1. Lengthy = Nat
  <2>1. Begins([i \in 0 .. 0 |-> x], 0)
    OBVIOUS
  <2>2. ASSUME NEW m \in Lengthy PROVE m + 1 \in Lengthy
    <3>1. PICK f : Begins(f, m)
      OBVIOUS
    <3>. DEFINE g == [i \in 0 .. m + 1 |-> IF i = m + 1 THEN G[f[m]] ELSE f[i]]
    <3>2. m \in Nat /\ f[m] \in X
      BY <3>1
    <3>3. g \in [0 .. m + 1 -> X] /\ g[0] = x
      BY <3>1, <3>2
    <3>4. ASSUME NEW i \in 0 .. m + 1, i + 1 <= m + 1 PROVE g[i + 1] = G[g[i]]
      BY <3>1, <3>2, <3>4
    <3>. HIDE DEF g
    <3>5. Begins(g, m + 1) /\ m + 1 \in Nat
      BY <3>2, <3>3, <3>4
    <3>. HIDE DEF Begins
    <3>. QED BY <3>5
  <2>. HIDE DEF Begins
  <2>3. 0 \in Lengthy
    BY <2>1
  <2>. HIDE DEF Lengthy
  <2>4. Lengthy \in SUBSET Nat
    BY DEF Lengthy
  <2>. QED BY <2>2, <2>3, <2>4, Counting
<1>2. ASSUME NEW m \in Nat, NEW f, NEW g, Begins(f, m), Begins(g, m + 1) PROVE g[m] = f[m]
  <2>. DEFINE Same == {i \in Nat : i <= m => g[i] = f[i]}
  <2>1. 0 \in Same
    BY <1>2
  <2>2. ASSUME NEW i \in Same PROVE i + 1 \in Same
    BY <1>2
  <2>3. Same = Nat
    <3>. HIDE DEF Same, Begins
    <3>1. Same \in SUBSET Nat
      BY DEF Same
    <3>. QED BY <2>1, <2>2, <3>1, Counting
  <2>. QED BY <2>3
<1>. DEFINE F(m) == CHOOSE f : Begins(f, m)
            r == [k \in Nat |-> F(k)[k]]
<1>3. \A m \in Nat : Begins(F(m), m)
  <2>. HIDE DEF Begins
  <2>. QED BY <1>1
<1>. HIDE DEF F
<1>4. r \in [Nat -> X] /\ r[0] = x
  BY <1>3
<1>5. ASSUME NEW k \in Nat PROVE r[k + 1] = G[r[k]]
  <2>1. Begins(F(k), k) /\ Begins(F(k + 1), k + 1)
    BY <1>3
  <2>2. F(k + 1)[k + 1] = G[F(k + 1)[k]]
    BY <2>1
  <2>3. F(k + 1)[k] = F(k)[k]
    <3>. HIDE DEF Begins
    <3>. QED BY <1>2, <2>1
  <2>. QED BY <2>2, <2>3
<1>. HIDE DEF r
<1>. QED BY <1>4, <1>5

(* The pins a net's wires reach are a set that no wire of the net leaves:  *)
(* with every step there is one more wire inside, or nothing to add.       *)
Closed(D, S) == \A s \in D : s[1] \in S <=> s[2] \in S

LEMMA ReachedIsClosed ==
    ASSUME NEW n, NEW p, IsFiniteSet(drawn[n])
    PROVE  p \in Reached(n, p) /\ Closed(drawn[n], Reached(n, p))
<1>. DEFINE D == drawn[n]
            Grow(ps) == ps \cup UNION {{s[1], s[2]} : s \in {t \in D : t[1] \in ps \/ t[2] \in ps}}
            Ends == {p} \cup UNION {{s[1], s[2]} : s \in D}
            G == [ps \in SUBSET Ends |-> Grow(ps)]
            r == CHOOSE r : r = [k \in Nat |-> IF k = 0 THEN {p} ELSE Grow(r[k - 1])]
<1>1. Reached(n, p) = r[Cardinality(D)]
  BY Zenon DEF Reached
<1>2. r[0] = {p} /\ \A k \in Nat : r[k + 1] = Grow(r[k])
  <2>1. {p} \in SUBSET Ends
    OBVIOUS
  <2>2. ASSUME NEW ps \in SUBSET Ends PROVE Grow(ps) \in SUBSET Ends
    OBVIOUS
  <2>3. G \in [SUBSET Ends -> SUBSET Ends] /\ \A ps \in SUBSET Ends : G[ps] = Grow(ps)
    <3>. HIDE DEF Grow, Ends
    <3>. QED BY <2>2
  <2>. DEFINE X == SUBSET Ends
              x == {p}
  <2>. HIDE DEF Ends, Grow, G
  <2>4. PICK f \in [Nat -> X] : f[0] = x /\ \A k \in Nat : f[k + 1] = G[f[k]]
    <3>1. x \in X /\ G \in [X -> X]
      BY <2>1, <2>3
    <3>. HIDE DEF X, x
    <3>. QED BY <3>1, StepByStep
  <2>5. ASSUME NEW k \in Nat PROVE f[k] = IF k = 0 THEN {p} ELSE Grow(f[k - 1])
    <3>1. CASE k = 0
      BY <2>4, <3>1
    <3>2. CASE k # 0
      <4>1. k - 1 \in Nat /\ k = (k - 1) + 1
        BY <3>2
      <4>2. f[k] = G[f[k - 1]] /\ f[k - 1] \in SUBSET Ends
        BY <2>4, <4>1
      <4>. QED BY <2>3, <3>2, <4>2
    <3>. QED BY <3>1, <3>2
  <2>6. f = [k \in Nat |-> IF k = 0 THEN {p} ELSE Grow(f[k - 1])]
    BY <2>4, <2>5
  <2>7. r = [k \in Nat |-> IF k = 0 THEN {p} ELSE Grow(r[k - 1])]
    BY <2>6
  <2>. HIDE DEF r
  <2>8. r[0] = {p}
    BY <2>7
  <2>9. ASSUME NEW k \in Nat PROVE r[k + 1] = Grow(r[k])
    <3>1. k + 1 \in Nat /\ k + 1 # 0 /\ (k + 1) - 1 = k
      OBVIOUS
    <3>2. r[k + 1] = IF k + 1 = 0 THEN {p} ELSE Grow(r[(k + 1) - 1])
      BY <2>7, <3>1
    <3>. QED BY <3>1, <3>2
  <2>. QED BY <2>8, <2>9
<1>. HIDE DEF r
<1>. DEFINE Inner(S) == {s \in D : s[1] \in S /\ s[2] \in S}
            Filled == {k \in Nat : p \in r[k] /\ (Closed(D, r[k]) \/ Cardinality(Inner(r[k])) >= k)}
<1>3. ASSUME NEW S PROVE IsFiniteSet(Inner(S)) /\ Cardinality(Inner(S)) \in Nat /\ Inner(S) \in SUBSET D
  BY FS_Subset, FS_CardinalityType
<1>4. 0 \in Filled
  <2>1. p \in r[0]
    BY <1>2
  <2>. HIDE DEF Inner
  <2>. QED BY <1>3, <2>1
<1>5. ASSUME NEW k \in Filled PROVE k + 1 \in Filled
  <2>. DEFINE S == r[k]
              T == r[k + 1]
  <2>1. k \in Nat /\ T = Grow(S) /\ p \in S
    BY <1>2
  <2>2. p \in T /\ S \subseteq T
    BY <2>1
  <2>3. CASE Closed(D, S)
    <3>1. T = S
      BY <2>1, <2>3 DEF Closed
    <3>. HIDE DEF S, T
    <3>2. p \in r[k + 1] /\ Closed(D, r[k + 1])
      BY <2>2, <2>3, <3>1 DEF S, T
    <3>. QED BY <2>1, <3>2
  <2>4. CASE ~ Closed(D, S)
    <3>1. PICK s \in D : ~ (s[1] \in S <=> s[2] \in S)
      BY <2>4 DEF Closed
    <3>2. s \in Inner(T) /\ s \notin Inner(S) /\ Inner(S) \subseteq Inner(T)
      BY <2>1, <2>2, <3>1
    <3>3. Cardinality(Inner(S)) >= k
      BY <2>4
    <3>. HIDE DEF Inner, S, T
    <3>4. /\ IsFiniteSet(Inner(S)) /\ IsFiniteSet(Inner(T)) /\ Inner(S) \cup {s} \in SUBSET Inner(T)
          /\ Cardinality(Inner(S)) \in Nat /\ Cardinality(Inner(T)) \in Nat
      BY <1>3, <3>2
    <3>5. Cardinality(Inner(S) \cup {s}) = Cardinality(Inner(S)) + 1
          /\ Cardinality(Inner(S) \cup {s}) <= Cardinality(Inner(T))
      BY <3>2, <3>4, FS_AddElement, FS_Subset
    <3>6. Cardinality(Inner(T)) >= k + 1
      BY <2>1, <3>3, <3>4, <3>5
    <3>7. p \in r[k + 1] /\ Cardinality(Inner(r[k + 1])) >= k + 1 /\ k + 1 \in Nat
      BY <2>1, <2>2, <3>6 DEF T
    <3>. QED BY <3>7
  <2>. QED BY <2>3, <2>4
<1>6. Filled = Nat
  <2>. HIDE DEF Filled
  <2>1. Filled \in SUBSET Nat
    BY DEF Filled
  <2>. QED BY <1>4, <1>5, <2>1, Counting
<1>7. Cardinality(D) \in Nat
  BY FS_CardinalityType
<1>. DEFINE R == r[Cardinality(D)]
<1>8. p \in R /\ (Closed(D, R) \/ Cardinality(Inner(R)) >= Cardinality(D))
  BY <1>6, <1>7
<1>. HIDE DEF R
<1>9. CASE Cardinality(Inner(R)) >= Cardinality(D)
  <2>1. Inner(R) = D
    <3>. HIDE DEF Inner
    <3>1. Cardinality(Inner(R)) <= Cardinality(D)
      BY <1>3, FS_Subset
    <3>. QED BY <1>3, <1>7, <1>9, <3>1, FS_Subset
  <2>. QED BY <1>1, <1>8, <2>1 DEF Closed, R
<1>. QED BY <1>1, <1>8, <1>9 DEF R

(* Two places hang together when whatever is closed has both or neither.   *)
Joined(D, p, q) == \A S : Closed(D, S) => (p \in S <=> q \in S)

LEMMA JoinedByMore ==
    ASSUME NEW D, NEW E, D \subseteq E, NEW p, NEW q, Joined(D, p, q)
    PROVE  Joined(E, p, q)
BY DEF Joined, Closed

LEMMA JoinedOn ==
    ASSUME NEW D, NEW p, NEW q, NEW r, Joined(D, p, q), Joined(D, q, r)
    PROVE  Joined(D, p, r) /\ Joined(D, q, p)
BY DEF Joined

LEMMA RouteJoins ==
    ASSUME NEW D, NEW w, Polyline(w), Segs(w) \subseteq D
    PROVE  Joined(D, w[1], w[Len(w)])
<1>1. Len(w) \in Nat /\ Len(w) >= 1
  BY DEF Polyline
<1>. SUFFICES ASSUME NEW S, Closed(D, S) PROVE w[1] \in S <=> w[Len(w)] \in S
  BY DEF Joined
<1>. DEFINE Along == {k \in Nat : k + 1 <= Len(w) => (w[1] \in S <=> w[k + 1] \in S)}
<1>2. 0 \in Along
  BY <1>1
<1>3. ASSUME NEW k \in Along PROVE k + 1 \in Along
  <2>1. SUFFICES ASSUME (k + 1) + 1 <= Len(w) PROVE w[1] \in S <=> w[(k + 1) + 1] \in S
    OBVIOUS
  <2>2. k + 1 \in 1 .. Len(w) - 1 /\ (w[1] \in S <=> w[k + 1] \in S)
    BY <1>1, <2>1
  <2>3. <<w[k + 1], w[(k + 1) + 1]>> \in D
    BY <2>2 DEF Segs
  <2>. QED BY <2>2, <2>3 DEF Closed
<1>4. Along = Nat
  <2>. HIDE DEF Along
  <2>1. Along \in SUBSET Nat
    BY DEF Along
  <2>. QED BY <1>2, <1>3, <2>1, Counting
<1>5. \A k \in Nat : k + 1 <= Len(w) => (w[1] \in S <=> w[k + 1] \in S)
  BY <1>4
<1>6. Len(w) - 1 \in Nat /\ (Len(w) - 1) + 1 = Len(w)
  BY <1>1
<1>. QED BY <1>1, <1>5, <1>6

LEMMA SegmentsAreFew ==
    ASSUME NEW w, Polyline(w) PROVE IsFiniteSet(Segs(w))
<1>. DEFINE I == 1 .. Len(w) - 1
            f == [i \in I |-> <<w[i], w[i + 1]>>]
<1>1. IsFiniteSet(I)
  BY FS_Interval DEF Polyline
<1>2. Segs(w) = {f[i] : i \in I}
  BY DEF Segs
<1>3. f \in Surjection(I, Segs(w))
  BY <1>2 DEF Surjection
<1>. QED BY <1>1, <1>3, FS_Surjection

(* A label's seat is a whole number of grids along its wire.               *)
LEMMA GridsFit ==
    ASSUME NEW m \in Nat, NEW k \in 1 .. m \div GRID
    PROVE  k * GRID \in Nat /\ k * GRID <= m
<1>1. GRID \in Nat /\ GRID > 0 /\ k \in Nat
  BY Lengths
<1>2. (m \div GRID) \in Nat /\ GRID * (m \div GRID) <= m
  BY <1>1
<1>3. \A x, y \in Nat : x <= y => x * GRID <= y * GRID
  BY <1>1
<1>. QED BY <1>1, <1>2, <1>3

LEMMA SeatOnWire ==
    ASSUME NEW a \in Point, NEW b \in Point, Aligned(a, b)
    PROVE  PointOnSegment(Seat(a, b), <<a, b>>)
<1>. DEFINE along == Greatest(a[1], b[1]) - Least(a[1], b[1]) + Greatest(a[2], b[2]) - Least(a[2], b[2])
            dir(i) == IF a[i] < b[i] THEN 1 ELSE IF b[i] < a[i] THEN -1 ELSE 0
            m == along \div GRID
            rest == [k \in 1 .. m |-> <<a[1] + dir(1) * k * GRID, a[2] + dir(2) * k * GRID>>]
            seats == <<a, b>> \o rest
            free == {k \in DOMAIN seats : FreeOfText(LabelBox(seats[k], <<1, 0>>))}
            k0 == CHOOSE k \in free : \A j \in free : k <= j
            On(p) == PointOnSegment(p, <<a, b>>)
<1>1. a[1] \in Int /\ a[2] \in Int /\ b[1] \in Int /\ b[2] \in Int /\ (a[1] = b[1] \/ a[2] = b[2])
  BY DEF Point, Aligned
<1>2. On(a) /\ On(b)
  BY <1>1 DEF PointOnSegment, Span, Least, Greatest
<1>3. along \in Nat
  BY <1>1 DEF Greatest, Least
<1>4. ASSUME NEW g \in Nat, g <= along
      PROVE  On(<<a[1] + dir(1) * g, a[2] + dir(2) * g>>)
  <2>1. CASE a[1] = b[1]
    BY <1>1, <1>4, <2>1 DEF PointOnSegment, Span, Least, Greatest
  <2>2. CASE a[2] = b[2]
    BY <1>1, <1>4, <2>2 DEF PointOnSegment, Span, Least, Greatest
  <2>. QED BY <1>1, <2>1, <2>2
<1>5. m \in Nat /\ \A k \in 1 .. m : k * GRID \in Nat /\ k * GRID <= along
  <2>. HIDE DEF along
  <2>. QED BY <1>3, GridsFit, Lengths
<1>6. dir(1) \in {-1, 0, 1} /\ dir(2) \in {-1, 0, 1}
  BY <1>1
<1>7. ASSUME NEW k \in 1 .. m PROVE On(rest[k])
  <2>. DEFINE g == k * GRID
  <2>1. dir(1) * k * GRID = dir(1) * g /\ dir(2) * k * GRID = dir(2) * g
    <3>1. k \in Int /\ GRID \in Int
      BY <1>5, Lengths
    <3>. HIDE DEF dir
    <3>. QED BY <1>6, <3>1
  <2>2. rest[k] = <<a[1] + dir(1) * g, a[2] + dir(2) * g>>
    BY <2>1
  <2>3. g \in Nat /\ g <= along
    BY <1>5
  <2>. HIDE DEF g, dir, On, along, rest
  <2>. QED BY <1>4, <2>2, <2>3
<1>8. Seats(a, b) = seats
  BY DEF Seats
<1>. HIDE DEF m, On
<1>9. rest = [k \in 1 .. m |-> rest[k]]
  OBVIOUS
<1>. HIDE DEF rest, along, dir
<1>10. /\ DOMAIN seats \in SUBSET Nat
       /\ \A k \in DOMAIN seats : seats[k] \in {a, b} \/ \E j \in 1 .. m : seats[k] = rest[j]
  <2>1. rest \in Seq({rest[k] : k \in 1 .. m}) /\ Len(rest) = m
    BY <1>5, <1>9
  <2>. QED BY <1>5, <2>1
<1>11. \A k \in DOMAIN seats : On(seats[k])
  BY <1>2, <1>7, <1>10
<1>12. Seat(a, b) = IF free = {} THEN b ELSE seats[k0]
  BY <1>8 DEF Seat
<1>. HIDE DEF seats
<1>13. free # {} => k0 \in DOMAIN seats
  <2>1. free \in SUBSET Nat
    BY <1>10
  <2>. QED BY <2>1, LeastNumber
<1>. HIDE DEF k0, free
<1>14. On(Seat(a, b))
  BY <1>2, <1>11, <1>12, <1>13
<1>. QED BY <1>14 DEF On

----------------------------------------------------------------------------
(* Every net stays whole.  A net that has been taken hangs together or     *)
(* each of its pins is marked: it waits for its label or port, it has it,  *)
(* or it hangs together with a wire that bears a label.  The pieces of the *)
(* chain under way hang together each, and its other pins are marked once  *)
(* the last hop is done.                                                   *)

Holds(D, f) ==
    /\ f.trunk \in D /\ Aligned(f.trunk[1], f.trunk[2])
    /\ \A p \in f.pins : Joined(D, p, f.trunk[1])

Marked(n, p) ==
    \/ <<p, n>> \in labelEnds \cup powerEnds
    \/ \E l \in labels : l.net = n /\ l.pin = p
    \/ n \in flagged /\ <<p, Out(p, 2)>> \in drawn[n]
    \/ \E l \in labels : \E s \in drawn[n] :
          l.net = n /\ Joined(drawn[n], p, s[1]) /\ PointOnSegment(l.at, s)

Whole(n) ==
    \/ \A p, q \in PinsOf(n) : Joined(drawn[n], p, q)
    \/ \A p \in PinsOf(n) : Marked(n, p)

Parts(D, c) ==
    /\ \A i \in DOMAIN c.pieces : Holds(D, c.pieces[i])
    /\ c.piece.pins # {} =>
          /\ c.at \in c.piece.pins
          /\ c.piece.trunk = <<>> => c.piece.pins = {c.at}
          /\ c.piece.trunk # <<>> => Holds(D, c.piece)
InPiece(c, p) == \E i \in DOMAIN c.pieces : p \in c.pieces[i].pins

ChainIsWhole ==
    chain # NoChain =>
        /\ Parts(drawn[chain.net], chain)
        /\ chain.piece.pins = {} => \A p \in PinsOf(chain.net) : Marked(chain.net, p) \/ InPiece(chain, p)
NetsAreWhole == \A n \in Net \ todo : chain = NoChain \/ chain.net # n => Whole(n)

EndsOf(S) == IsFiniteSet(S) /\ \A e \in S : e = <<e[1], e[2]>> /\ e[2] \in Net /\ e[1] \in PinsOf(e[2])
Wiring ==
    /\ drawn = [n \in Net |-> drawn[n]] /\ \A n \in Net : IsFiniteSet(drawn[n])
    /\ EndsOf(labelEnds) /\ EndsOf(powerEnds)
Settled ==
    /\ flagged # {} \/ phase # "drawing" => mirror = {} /\ todo = {} /\ chain = NoChain
    /\ phase # "drawing" => labelEnds = {} /\ powerEnds = {}

NetsHold == Wiring /\ ChainIsWhole /\ NetsAreWhole
SheetInv == Placed /\ Drawing /\ Settled /\ NetsHold

(* Nothing is erased, and an end is dropped only once it has its name.     *)
EndKept(e) ==
    \/ e \in (labelEnds \cup powerEnds)'
    \/ \E l \in labels' : l.net = e[2] /\ l.pin = e[1]
    \/ e[2] \in flagged' /\ <<e[1], Out(e[1], 2)>> \in drawn'[e[2]]
More ==
    /\ board' = board /\ labels \subseteq labels' /\ flagged \subseteq flagged'
    /\ \A n \in Net : drawn[n] \subseteq drawn'[n]
    /\ \A e \in labelEnds \cup powerEnds : EndKept(e)

LEMMA SamePins ==
    ASSUME board' = board
    PROVE  Net' = Net /\ (\A n : PinsOf(n)' = PinsOf(n)) /\ (\A p : Out(p, 2)' = Out(p, 2))
BY DEF Net, PinsOf, Out

LEMMA MarkedStays ==
    ASSUME More, NEW n \in Net, NEW p, Marked(n, p) PROVE Marked(n, p)'
<1>. DEFINE D == drawn[n]
            E == drawn'[n]
<1>1. D \subseteq E /\ \A x, y : Joined(D, x, y) => Joined(E, x, y)
  BY JoinedByMore DEF More
<1>2. CASE <<p, n>> \in labelEnds \cup powerEnds
  <2>1. EndKept(<<p, n>>)
    BY <1>2 DEF More
  <2>. QED BY <2>1, SamePins DEF EndKept, Marked, More
<1>3. CASE \E l \in labels : l.net = n /\ l.pin = p
  BY <1>3 DEF More, Marked
<1>4. CASE n \in flagged /\ <<p, Out(p, 2)>> \in D
  BY <1>1, <1>4, SamePins DEF More, Marked
<1>5. CASE \E l \in labels : \E s \in D : l.net = n /\ Joined(D, p, s[1]) /\ PointOnSegment(l.at, s)
  BY <1>1, <1>5 DEF More, Marked
<1>. QED BY <1>2, <1>3, <1>4, <1>5 DEF Marked

LEMMA WholeStays ==
    ASSUME More, NEW n \in Net, Whole(n) PROVE Whole(n)'
<1>1. PinsOf(n)' = PinsOf(n)
  BY SamePins DEF More
<1>2. \A p, q : Joined(drawn[n], p, q) => Joined(drawn'[n], p, q)
  BY JoinedByMore DEF More
<1>3. \A p : Marked(n, p) => Marked(n, p)'
  BY MarkedStays
<1>. QED BY <1>1, <1>2, <1>3 DEF Whole

LEMMA HoldsStays ==
    ASSUME NEW D, NEW E, D \subseteq E, NEW f, Holds(D, f) PROVE Holds(E, f)
BY JoinedByMore DEF Holds

LEMMA PartsStay ==
    ASSUME NEW D, NEW E, D \subseteq E, NEW c, Parts(D, c) PROVE Parts(E, c)
BY HoldsStays DEF Parts

LEMMA ChainStays ==
    ASSUME More, ChainIsWhole, Chained, chain' = chain PROVE ChainIsWhole'
<1>. SUFFICES ASSUME chain # NoChain
              PROVE  /\ Parts(drawn'[chain.net], chain)
                     /\ chain.piece.pins = {} =>
                           \A p \in PinsOf(chain.net)' : Marked(chain.net, p)' \/ InPiece(chain, p)
  BY DEF ChainIsWhole
<1>. DEFINE n == chain.net
<1>1. n \in Net /\ n' = n /\ PinsOf(n)' = PinsOf(n)
  BY SamePins DEF Chained, More
<1>2. Parts(drawn'[n], chain)
  BY <1>1, PartsStay DEF ChainIsWhole, More
<1>3. \A p : Marked(n, p) => Marked(n, p)'
  BY <1>1, MarkedStays
<1>. QED BY <1>1, <1>2, <1>3 DEF ChainIsWhole

(* Only the net that is being worked on has to be shown whole.             *)
LEMMA NetsStay ==
    ASSUME More, NetsAreWhole, NEW n \in Net, chain = NoChain \/ chain.net = n,
           todo \ {n} \subseteq todo', chain' = NoChain \/ chain'.net = n,
           chain' = NoChain => n \in todo' \/ Whole(n)'
    PROVE  NetsAreWhole'
<1>. SUFFICES ASSUME NEW m \in Net, m \notin todo', chain' = NoChain \/ chain'.net # m
              PROVE  Whole(m)'
  BY SamePins DEF NetsAreWhole, More
<1>1. CASE m = n
  BY <1>1
<1>2. CASE m # n
  <2>1. m \notin todo /\ (chain = NoChain \/ chain.net # m)
    BY <1>2
  <2>. QED BY <2>1, WholeStays DEF NetsAreWhole
<1>. QED BY <1>1, <1>2

LEMMA NothingNew ==
    ASSUME NetsHold, Chained, UNCHANGED <<board, todo, chain, drawn, labels, labelEnds, powerEnds, flagged>>
    PROVE  NetsHold'
<1>1. More
  BY DEF More, EndKept
<1>2. Wiring'
  BY SamePins DEF NetsHold, Wiring, EndsOf
<1>3. ChainIsWhole'
  BY <1>1, ChainStays DEF NetsHold
<1>4. NetsAreWhole'
  <2>. SUFFICES ASSUME NEW m \in Net, m \notin todo, chain = NoChain \/ chain.net # m PROVE Whole(m)'
    BY SamePins DEF NetsAreWhole
  <2>. QED BY <1>1, WholeStays DEF NetsAreWhole, NetsHold
<1>. QED BY <1>2, <1>3, <1>4 DEF NetsHold

LEMMA NamingEnds ==
    ASSUME Placed, EndsOf(labelEnds), EndsOf(powerEnds), board' = board,
           NEW n \in Net, NEW ps \in SUBSET PinsOf(n), NameEnds(n, ps)
    PROVE  /\ EndsOf(labelEnds)' /\ EndsOf(powerEnds)'
           /\ labelEnds \cup powerEnds \subseteq (labelEnds \cup powerEnds)'
           /\ \A p \in ps : <<p, n>> \in (labelEnds \cup powerEnds)'
<1>. DEFINE new == ps \X {n}
<1>1. IsFiniteSet(new)
  <2>1. IsFiniteSet(ps) /\ IsFiniteSet({n})
    BY Pins, FS_Subset, FS_Singleton
  <2>. QED BY <2>1, FS_Product
<1>2. /\ \A e \in new : e = <<e[1], e[2]>> /\ e[2] \in Net /\ e[1] \in PinsOf(e[2])
      /\ \A p \in ps : <<p, n>> \in new
  OBVIOUS
<1>. HIDE DEF new
<1>3. /\ labelEnds' = labelEnds \/ labelEnds' = labelEnds \cup new
      /\ powerEnds' = powerEnds \/ powerEnds' = powerEnds \cup new
      /\ labelEnds' = labelEnds \cup new \/ powerEnds' = powerEnds \cup new
  BY DEF NameEnds, new
<1>4. IsFiniteSet(labelEnds') /\ IsFiniteSet(powerEnds')
  <2>1. IsFiniteSet(labelEnds \cup new) /\ IsFiniteSet(powerEnds \cup new)
    BY <1>1, FS_Union DEF EndsOf
  <2>. QED BY <1>3, <2>1 DEF EndsOf
<1>5. \A e \in labelEnds' \cup powerEnds' : e = <<e[1], e[2]>> /\ e[2] \in Net /\ e[1] \in PinsOf(e[2])
  BY <1>2, <1>3 DEF EndsOf
<1>. QED BY <1>2, <1>3, <1>4, <1>5, SamePins DEF EndsOf

LEMMA NamedIsWhole ==
    ASSUME NEW n, board' = board, \A p \in PinsOf(n) : <<p, n>> \in (labelEnds \cup powerEnds)'
    PROVE  Whole(n)'
BY SamePins DEF Whole, Marked

LEMMA DrawingMore ==
    ASSUME Wiring, board' = board, NEW n \in Net, NEW w, Polyline(w), Draw(n, Segs(w))
    PROVE  /\ drawn'[n] = drawn[n] \cup Segs(w) /\ \A m \in Net \ {n} : drawn'[m] = drawn[m]
           /\ drawn' = [m \in Net' |-> drawn'[m]] /\ \A m \in Net' : IsFiniteSet(drawn'[m])
<1>. DEFINE D == drawn[n] \cup Segs(w)
<1>1. drawn' = [drawn EXCEPT ![n] = D]
  BY DEF Draw
<1>2. IsFiniteSet(D)
  BY SegmentsAreFew, FS_Union DEF Wiring
<1>. HIDE DEF D
<1>3. drawn' = [m \in Net |-> IF m = n THEN D ELSE drawn[m]]
  BY <1>1 DEF Wiring
<1>. QED BY <1>2, <1>3, SamePins DEF Wiring, D

LEMMA TwoPins ==
    ASSUME NEW T \in SUBSET Point, IsFiniteSet(T), Cardinality(T) = 2
    PROVE  T = {First(T), Last(T)} /\ First(T) # Last(T)
<1>1. T # {} /\ \A x : T # {x}
  BY FS_EmptySet, FS_Singleton
<1>2. First(T) \in T /\ Last(T) \in T /\ First(T) # Last(T)
  BY <1>1, Firsts
<1>3. IsFiniteSet(T \ {First(T)}) /\ Cardinality(T \ {First(T)}) = 1
  BY <1>2, FS_RemoveElement
<1>4. PICK x : T \ {First(T)} = {x}
  BY <1>3, FS_Singleton
<1>. QED BY <1>2, <1>4

LEMMA NameWhole ==
    ASSUME Placed, NetsHold, NEW n \in Net, name_net(n) PROVE NetsHold'
<1>1. /\ UNCHANGED <<board, chain, drawn, labels, flagged>> /\ chain = NoChain
      /\ todo' = todo \ {n} /\ NameEnds(n, PinsOf(n))
  BY DEF name_net, Next_net
<1>2. /\ EndsOf(labelEnds)' /\ EndsOf(powerEnds)'
      /\ labelEnds \cup powerEnds \subseteq (labelEnds \cup powerEnds)'
      /\ \A p \in PinsOf(n) : <<p, n>> \in (labelEnds \cup powerEnds)'
  BY <1>1, NamingEnds DEF NetsHold, Wiring
<1>3. More
  BY <1>1, <1>2 DEF More, EndKept
<1>4. Wiring'
  BY <1>1, <1>2, SamePins DEF NetsHold, Wiring
<1>5. NetsAreWhole'
  BY <1>1, <1>2, <1>3, NamedIsWhole, NetsStay DEF NetsHold
<1>6. ChainIsWhole'
  BY <1>1 DEF ChainIsWhole
<1>. QED BY <1>4, <1>5, <1>6 DEF NetsHold

LEMMA PairWhole ==
    ASSUME Placed, NetsHold, NEW n \in Net, route_pair(n) PROVE NetsHold'
<1>. DEFINE p == First(PinsOf(n))
            q == Last(PinsOf(n))
<1>1. /\ UNCHANGED <<board, chain, labels, flagged>> /\ chain = NoChain
      /\ todo' = todo \ {n} /\ Cardinality(PinsOf(n)) = 2
  BY DEF route_pair, Next_net
<1>2. PinsOf(n) = {p, q} /\ p # q
  BY <1>1, Pins, TwoPins
<1>3. PICK w \in Found(n, p, q, TRUE) :
        IF w = <<>> THEN NameEnds(n, PinsOf(n)) /\ UNCHANGED <<registry, drawn, ledger>>
        ELSE Draw(n, Segs(w)) /\ UNCHANGED <<labelEnds, powerEnds>>
  BY DEF route_pair
<1>. HIDE DEF p, q
<1>4. ChainIsWhole'
  BY <1>1 DEF ChainIsWhole
<1>5. CASE w = <<>>
  <2>1. /\ EndsOf(labelEnds)' /\ EndsOf(powerEnds)'
        /\ labelEnds \cup powerEnds \subseteq (labelEnds \cup powerEnds)'
        /\ \A x \in PinsOf(n) : <<x, n>> \in (labelEnds \cup powerEnds)'
    BY <1>1, <1>3, <1>5, NamingEnds DEF NetsHold, Wiring
  <2>2. More
    BY <1>1, <1>3, <1>5, <2>1 DEF More, EndKept
  <2>3. Wiring'
    BY <1>1, <1>3, <1>5, <2>1, SamePins DEF NetsHold, Wiring
  <2>4. NetsAreWhole'
    BY <1>1, <2>1, <2>2, NamedIsWhole, NetsStay DEF NetsHold
  <2>. QED BY <1>4, <2>3, <2>4 DEF NetsHold
<1>6. CASE w # <<>>
  <2>1. Draw(n, Segs(w)) /\ UNCHANGED <<labelEnds, powerEnds>>
    BY <1>3, <1>6
  <2>2. p \in AllPins /\ q \in AllPins
    BY <1>2 DEF AllPins
  <2>3. Polyline(w) /\ w[1] = p /\ w[Len(w)] = q
    <3>1. Runs(w, p, q) /\ Len(w) >= 2 /\ \E exempt \in BOOLEAN : Accepts(n, w, exempt)
      BY <1>2, <1>6, <2>2, FoundRuns
    <3>. QED BY <3>1 DEF Runs
  <2>4. /\ drawn'[n] = drawn[n] \cup Segs(w) /\ \A m \in Net \ {n} : drawn'[m] = drawn[m]
        /\ drawn' = [m \in Net' |-> drawn'[m]] /\ \A m \in Net' : IsFiniteSet(drawn'[m])
    BY <1>1, <2>1, <2>3, DrawingMore DEF NetsHold
  <2>5. More
    BY <1>1, <2>1, <2>4 DEF More, EndKept
  <2>6. Wiring'
    BY <1>1, <2>1, <2>4, SamePins DEF NetsHold, Wiring, EndsOf
  <2>7. Joined(drawn'[n], p, q)
    BY <2>3, <2>4, RouteJoins
  <2>8. Whole(n)'
    BY <1>1, <1>2, <2>7, SamePins DEF Whole, Joined
  <2>9. NetsAreWhole'
    BY <1>1, <2>5, <2>8, NetsStay DEF NetsHold
  <2>. QED BY <1>4, <2>6, <2>9 DEF NetsHold
<1>. QED BY <1>5, <1>6

LEMMA BeginWhole ==
    ASSUME NetsHold, NEW n \in Net, begin_chain(n) PROVE NetsHold'
<1>. DEFINE p == First(PinsOf(n))
            c == [net |-> n, at |-> p, left |-> PinsOf(n) \ {p}, piece |-> Alone(p), pieces |-> <<>>]
<1>1. /\ UNCHANGED <<board, drawn, labels, labelEnds, powerEnds, flagged>> /\ chain = NoChain
      /\ todo' = todo \ {n} /\ chain' = c
  BY DEF begin_chain, Next_net
<1>2. More
  BY <1>1 DEF More, EndKept
<1>3. Wiring'
  BY <1>1, SamePins DEF NetsHold, Wiring, EndsOf
<1>4. c.net = n /\ c.piece.pins = {p} /\ \A D : Parts(D, c)
  BY DEF Parts, Alone
<1>. HIDE DEF c
<1>5. c # NoChain
  <2>1. "at" \in DOMAIN c /\ "at" \notin DOMAIN NoChain
    BY DEF c, NoChain
  <2>. QED BY <2>1
<1>6. ChainIsWhole'
  BY <1>1, <1>4 DEF ChainIsWhole
<1>7. NetsAreWhole'
  BY <1>1, <1>2, <1>4, <1>5, NetsStay DEF NetsHold
<1>. QED BY <1>3, <1>6, <1>7 DEF NetsHold

LEMMA PiecesHold ==
    ASSUME Chained, chain # NoChain, chain.piece.pins # {}, NEW D, Parts(D, chain)
    PROVE  \A i \in DOMAIN Pieces : Holds(D, Pieces[i])
<1>1. chain.pieces \in Seq(Fragment(chain.net))
  BY ChainIs
<1>2. CASE chain.piece.trunk = <<>>
  BY <1>2 DEF Pieces, Parts
<1>3. CASE chain.piece.trunk # <<>>
  <2>1. Pieces = Append(chain.pieces, chain.piece) /\ Holds(D, chain.piece)
    BY <1>3 DEF Pieces, Parts
  <2>2. \A i \in DOMAIN Pieces : Pieces[i] = chain.piece \/ (i \in DOMAIN chain.pieces /\ Pieces[i] = chain.pieces[i])
    BY <1>1, <2>1
  <2>. QED BY <2>1, <2>2 DEF Parts
<1>. QED BY <1>2, <1>3

(* The chain after a hop to q that could not be drawn, or was drawn.       *)
LEMMA ChainMoves ==
    ASSUME Chained, chain # NoChain, NEW q
    PROVE  /\ chain' = [[chain EXCEPT !.at = q, !.left = @ \ {q}] EXCEPT !.piece = Alone(q), !.pieces = Pieces]
              => chain' = [net |-> chain.net, at |-> q, left |-> chain.left \ {q},
                           piece |-> Alone(q), pieces |-> Pieces]
           /\ \A w : chain' = [[chain EXCEPT !.at = q, !.left = @ \ {q}]
                                 EXCEPT !.piece.pins = @ \cup {q},
                                        !.piece.trunk = IF @ = <<>> THEN <<w[1], w[2]>> ELSE @]
              => chain' = [net |-> chain.net, at |-> q, left |-> chain.left \ {q},
                           piece |-> [pins |-> chain.piece.pins \cup {q},
                                      trunk |-> IF chain.piece.trunk = <<>> THEN <<w[1], w[2]>> ELSE chain.piece.trunk],
                           pieces |-> chain.pieces]
<1>. DEFINE n == chain.net
            p == chain.at
            left == chain.left \ {q}
            trunk == chain.piece.trunk
<1>1. /\ chain.piece = [pins |-> chain.piece.pins, trunk |-> chain.piece.trunk]
      /\ chain = [net |-> n, at |-> p, left |-> chain.left, piece |-> chain.piece, pieces |-> chain.pieces]
  BY ChainIs
<1>. HIDE DEF p
<1>2. ASSUME chain' = [[chain EXCEPT !.at = q, !.left = @ \ {q}] EXCEPT !.piece = Alone(q), !.pieces = Pieces]
      PROVE  chain' = [net |-> n, at |-> q, left |-> left, piece |-> Alone(q), pieces |-> Pieces]
  BY <1>1, <1>2
<1>3. ASSUME NEW w,
             chain' = [[chain EXCEPT !.at = q, !.left = @ \ {q}]
                          EXCEPT !.piece.pins = @ \cup {q},
                                 !.piece.trunk = IF @ = <<>> THEN <<w[1], w[2]>> ELSE @]
      PROVE  chain' = [net |-> n, at |-> q, left |-> left,
                       piece |-> [pins |-> chain.piece.pins \cup {q},
                                  trunk |-> IF trunk = <<>> THEN <<w[1], w[2]>> ELSE trunk],
                       pieces |-> chain.pieces]
  BY <1>1, <1>3
<1>. QED BY <1>2, <1>3

LEMMA HopWhole ==
    ASSUME Placed, Chained, NetsHold, hop PROVE NetsHold'
<1>1. chain # NoChain /\ chain.left # {} /\ UNCHANGED <<board, todo, labels, labelEnds, powerEnds, flagged>>
  BY DEF hop, Hopping
<1>2. PICK n \in Net : n = chain.net
  BY <1>1, ChainIs
<1>. DEFINE p == chain.at
            q == First(chain.left)
            left == chain.left \ {q}
            pins == chain.piece.pins
            trunk == chain.piece.trunk
<1>3. /\ p \in PinsOf(n) /\ chain.left \subseteq PinsOf(n) /\ p \notin chain.left
      /\ chain.piece = [pins |-> pins, trunk |-> trunk] /\ pins # {}
      /\ chain = [net |-> n, at |-> p, left |-> chain.left, piece |-> chain.piece, pieces |-> chain.pieces]
  BY <1>1, <1>2, ChainIs
<1>4. IsFiniteSet(chain.left) /\ chain.left \in SUBSET Point
  BY <1>3, Pins, FS_Subset
<1>5. q # p /\ q \in AllPins /\ p \in AllPins
  BY <1>1, <1>3, <1>4, Firsts, Pins
<1>6. PICK w \in Found(n, p, q, FALSE) :
        IF w = <<>>
        THEN /\ chain' = [[chain EXCEPT !.at = q, !.left = @ \ {q}] EXCEPT !.piece = Alone(q), !.pieces = Pieces]
             /\ UNCHANGED <<registry, drawn, ledger>>
        ELSE /\ chain' = [[chain EXCEPT !.at = q, !.left = @ \ {q}]
                            EXCEPT !.piece.pins = @ \cup {q},
                                   !.piece.trunk = IF @ = <<>> THEN <<w[1], w[2]>> ELSE @]
             /\ Draw(n, Segs(w))
  BY <1>2 DEF hop
<1>7. Parts(drawn[n], chain)
  BY <1>1, <1>2 DEF NetsHold, ChainIsWhole
<1>. HIDE DEF p, q
<1>8. CASE w = <<>>
  <2>. DEFINE c == [net |-> n, at |-> q, left |-> left, piece |-> Alone(q), pieces |-> Pieces]
  <2>1. chain' = c /\ drawn' = drawn
    BY <1>1, <1>2, <1>6, <1>8, ChainMoves
  <2>2. \A i \in DOMAIN Pieces : Holds(drawn[n], Pieces[i])
    BY <1>1, <1>3, <1>7, PiecesHold
  <2>3. c.net = n /\ c.piece.pins # {} /\ Parts(drawn[n], c)
    BY <2>2 DEF Parts, Alone
  <2>4. c # NoChain
    <3>1. "at" \in DOMAIN c /\ "at" \notin DOMAIN NoChain
      BY DEF NoChain
    <3>. QED BY <3>1
  <2>. HIDE DEF c
  <2>5. More
    BY <1>1, <2>1 DEF More, EndKept
  <2>6. Wiring'
    BY <1>1, <2>1, SamePins DEF NetsHold, Wiring, EndsOf
  <2>7. ChainIsWhole'
    BY <2>1, <2>3 DEF ChainIsWhole
  <2>8. NetsAreWhole'
    BY <1>1, <1>2, <2>1, <2>3, <2>4, <2>5, NetsStay DEF NetsHold
  <2>. QED BY <2>6, <2>7, <2>8 DEF NetsHold
<1>9. CASE w # <<>>
  <2>1. Runs(w, p, q) /\ Len(w) >= 2 /\ \E exempt \in BOOLEAN : Accepts(n, w, exempt)
    <3>1. p \in AllPins /\ q \in AllPins /\ p # q /\ w \in Found(n, p, q, FALSE)
      BY <1>5
    <3>. QED BY <1>9, <3>1, FoundRuns
  <2>2. Polyline(w) /\ w[1] = p /\ w[Len(w)] = q /\ Len(w) >= 2 /\ Draw(n, Segs(w))
    BY <1>6, <1>9, <2>1 DEF Runs
  <2>3. /\ drawn'[n] = drawn[n] \cup Segs(w) /\ \A m \in Net \ {n} : drawn'[m] = drawn[m]
        /\ drawn' = [m \in Net' |-> drawn'[m]] /\ \A m \in Net' : IsFiniteSet(drawn'[m])
    BY <1>1, <2>2, DrawingMore DEF NetsHold
  <2>4. More
    BY <1>1, <2>3 DEF More, EndKept
  <2>5. Wiring'
    BY <1>1, <2>3, SamePins DEF NetsHold, Wiring, EndsOf
  <2>. DEFINE first == <<w[1], w[2]>>
              t == IF trunk = <<>> THEN first ELSE trunk
              f == [pins |-> pins \cup {q}, trunk |-> t]
              c == [net |-> n, at |-> q, left |-> left, piece |-> f, pieces |-> chain.pieces]
              E == drawn'[n]
  <2>6. chain' = c
    <3>1. chain' = [[chain EXCEPT !.at = q, !.left = @ \ {q}]
                       EXCEPT !.piece.pins = @ \cup {q},
                              !.piece.trunk = IF @ = <<>> THEN <<w[1], w[2]>> ELSE @]
      BY <1>6, <1>9
    <3>2. chain' = [net |-> chain.net, at |-> q, left |-> chain.left \ {q},
                    piece |-> [pins |-> chain.piece.pins \cup {q},
                               trunk |-> IF chain.piece.trunk = <<>> THEN <<w[1], w[2]>> ELSE chain.piece.trunk],
                    pieces |-> chain.pieces]
      BY <1>1, <3>1, ChainMoves
    <3>. QED BY <1>2, <3>2
  <2>7. first \in E /\ Aligned(w[1], w[2])
    <3>1. Len(w) \in Nat /\ 1 \in 1 .. Len(w) - 1 /\ 1 + 1 = 2
      BY <2>2 DEF Polyline
    <3>2. <<w[1], w[1 + 1]>> \in Segs(w)
      BY <3>1 DEF Segs
    <3>3. Aligned(w[1], w[1 + 1])
      BY <2>2, <3>1 DEF Polyline
    <3>. QED BY <2>3, <3>1, <3>2, <3>3
  <2>8. Joined(E, p, q) /\ Joined(E, q, p)
    <3>1. Segs(w) \subseteq E
      BY <2>3
    <3>2. Joined(E, w[1], w[Len(w)])
      BY <2>2, <3>1, RouteJoins
    <3>. QED BY <2>2, <3>2 DEF Joined
  <2>9. Parts(E, chain)
    BY <1>7, <2>3, PartsStay
  <2>. HIDE DEF E
  <2>10. Holds(E, f) /\ t # <<>>
    <3>1. CASE trunk = <<>>
      <4>1. pins = {p} /\ t = first
        BY <1>3, <2>9, <3>1 DEF Parts, p
      <4>2. Joined(E, p, w[1]) /\ Joined(E, q, w[1])
        BY <2>2, <2>8 DEF Joined
      <4>. QED BY <2>7, <4>1, <4>2 DEF Holds
    <3>2. CASE trunk # <<>>
      <4>1. Holds(E, chain.piece) /\ p \in pins /\ t = trunk
        BY <1>3, <2>9, <3>2 DEF Parts, p
      <4>2. Joined(E, q, trunk[1])
        BY <2>8, <4>1, JoinedOn DEF Holds
      <4>. QED BY <3>2, <4>1, <4>2 DEF Holds
    <3>. QED BY <3>1, <3>2
  <2>11. c.net = n /\ c.piece.pins # {} /\ Parts(E, c)
    BY <2>9, <2>10 DEF Parts
  <2>12. c # NoChain
    <3>1. "at" \in DOMAIN c /\ "at" \notin DOMAIN NoChain
      BY DEF NoChain
    <3>. QED BY <3>1
  <2>. HIDE DEF c
  <2>13. ChainIsWhole'
    BY <2>6, <2>11 DEF ChainIsWhole, E
  <2>14. NetsAreWhole'
    BY <1>1, <1>2, <2>4, <2>6, <2>11, <2>12, NetsStay DEF NetsHold
  <2>. QED BY <2>5, <2>13, <2>14 DEF NetsHold
<1>. QED BY <1>8, <1>9

LEMMA EndWhole ==
    ASSUME Placed, Chained, NetsHold, end_chain PROVE NetsHold'
<1>1. /\ chain # NoChain /\ chain.left = {} /\ chain.piece.pins # {}
      /\ UNCHANGED <<board, todo, drawn, labels, flagged>>
  BY DEF end_chain
<1>2. PICK n \in Net : n = chain.net
  BY <1>1, ChainIs
<1>. DEFINE pieces == Pieces
            rest == PinsOf(n) \ UNION {f.pins : f \in Range(pieces)}
            f0 == [chain.piece EXCEPT !.pins = {}]
            c == [net |-> n, at |-> chain.at, left |-> chain.left, piece |-> f0, pieces |-> pieces]
<1>3. /\ chain.piece = [pins |-> chain.piece.pins, trunk |-> chain.piece.trunk]
      /\ chain = [net |-> n, at |-> chain.at, left |-> chain.left,
                  piece |-> chain.piece, pieces |-> chain.pieces]
  BY <1>1, <1>2, ChainIs
<1>4. NameEnds(n, rest) /\ chain' = IF pieces = <<>> THEN NoChain ELSE [chain EXCEPT !.pieces = pieces, !.piece = f0]
  BY <1>2 DEF end_chain
<1>5. \A i \in DOMAIN pieces : Holds(drawn[n], pieces[i])
  <2>1. Parts(drawn[n], chain)
    BY <1>1, <1>2 DEF NetsHold, ChainIsWhole
  <2>. QED BY <1>1, <2>1, PiecesHold
<1>. HIDE DEF pieces
<1>6. \A x \in PinsOf(n) : x \in rest \/ \E i \in DOMAIN pieces : x \in pieces[i].pins
  BY DEF Range
<1>7. rest \in SUBSET PinsOf(n)
  OBVIOUS
<1>. HIDE DEF rest
<1>8. /\ EndsOf(labelEnds)' /\ EndsOf(powerEnds)'
      /\ labelEnds \cup powerEnds \subseteq (labelEnds \cup powerEnds)'
      /\ \A x \in rest : <<x, n>> \in (labelEnds \cup powerEnds)'
  BY <1>1, <1>4, <1>7, NamingEnds DEF NetsHold, Wiring
<1>9. More
  BY <1>1, <1>8 DEF More, EndKept
<1>10. Wiring'
  BY <1>1, <1>8, SamePins DEF NetsHold, Wiring
<1>11. CASE pieces = <<>>
  <2>1. chain' = NoChain
    BY <1>4, <1>11
  <2>2. Whole(n)'
    <3>1. \A x \in PinsOf(n) : x \in rest
      BY <1>6, <1>11
    <3>. QED BY <1>1, <1>8, <3>1, NamedIsWhole
  <2>3. ChainIsWhole'
    BY <2>1 DEF ChainIsWhole
  <2>4. NetsAreWhole'
    BY <1>1, <1>2, <1>9, <2>1, <2>2, NetsStay DEF NetsHold
  <2>. QED BY <1>10, <2>3, <2>4 DEF NetsHold
<1>12. CASE pieces # <<>>
  <2>1. f0 = [pins |-> {}, trunk |-> chain.piece.trunk]
    <3>1. ASSUME NEW P, NEW T, NEW f, f = [pins |-> P, trunk |-> T]
          PROVE  [f EXCEPT !.pins = {}] = [pins |-> {}, trunk |-> f.trunk]
      BY <3>1
    <3>. QED BY <1>3, <3>1
  <2>2. f0.pins = {}
    BY <2>1
  <2>3. chain' = c
    <3>1. chain' = [chain EXCEPT !.pieces = pieces, !.piece = f0]
      BY <1>4, <1>12
    <3>2. chain = [net |-> chain.net, at |-> chain.at, left |-> chain.left,
                   piece |-> chain.piece, pieces |-> chain.pieces]
      BY <1>1, ChainIs
    <3>. HIDE DEF f0
    <3>3. chain' = [net |-> chain.net, at |-> chain.at, left |-> chain.left, piece |-> f0, pieces |-> pieces]
      BY <3>1, <3>2
    <3>. QED BY <1>2, <3>3
  <2>. HIDE DEF f0
  <2>4. c.net = n /\ c.pieces = pieces /\ Parts(drawn[n], c)
    BY <1>5, <2>2 DEF Parts
  <2>5. c # NoChain
    <3>1. "at" \in DOMAIN c /\ "at" \notin DOMAIN NoChain
      BY DEF NoChain
    <3>. QED BY <3>1
  <2>. HIDE DEF c
  <2>6. ASSUME NEW x \in PinsOf(n) PROVE Marked(n, x)' \/ InPiece(c, x)
    <3>1. CASE x \in rest
      <4>1. <<x, n>> \in (labelEnds \cup powerEnds)'
        BY <1>8, <3>1
      <4>. QED BY <4>1 DEF Marked
    <3>2. CASE x \notin rest
      BY <1>6, <2>4, <3>2 DEF InPiece
    <3>. QED BY <3>1, <3>2
  <2>7. ChainIsWhole'
    BY <1>1, <2>3, <2>4, <2>6, SamePins DEF ChainIsWhole
  <2>8. NetsAreWhole'
    BY <1>1, <1>2, <1>9, <2>3, <2>4, <2>5, NetsStay DEF NetsHold
  <2>. QED BY <1>10, <2>7, <2>8 DEF NetsHold
<1>. QED BY <1>11, <1>12

(* The label of a piece lies on its first wire, which every pin of it hangs on. *)
LEMMA LabelWhole ==
    ASSUME Placed, Chained, NetsHold, label_piece PROVE NetsHold'
<1>. DEFINE f == Head(chain.pieces)
            a == f.trunk[1]
            b == f.trunk[2]
            at == Seat(a, b)
            box == LabelBox(at, <<1, 0>>)
            rest == Tail(chain.pieces)
<1>1. /\ chain # NoChain /\ chain.left = {} /\ chain.piece.pins = {}
      /\ UNCHANGED <<board, todo, drawn, labelEnds, powerEnds, flagged>>
  BY DEF label_piece
<1>2. PICK n \in Net : n = chain.net
  BY <1>1, ChainIs
<1>. DEFINE c == [net |-> n, at |-> chain.at, left |-> chain.left, piece |-> chain.piece, pieces |-> rest]
            D == drawn[n]
            l == [net |-> n, pin |-> NoPin, at |-> at, box |-> box]
<1>3. chain' = (IF rest = <<>> THEN NoChain ELSE [chain EXCEPT !.pieces = rest]) /\ labels' = labels \cup {l}
  BY <1>2 DEF label_piece, PutLabel
<1>4. chain.pieces \in Seq(Fragment(n)) /\ chain.pieces # <<>>
  BY <1>1, <1>2, ChainIs
<1>5. /\ f \in Fragment(n) /\ rest \in Seq(Fragment(n)) /\ 1 \in DOMAIN chain.pieces /\ f = chain.pieces[1]
      /\ \A i \in DOMAIN chain.pieces : i = 1 \/ (i - 1 \in DOMAIN rest /\ rest[i - 1] = chain.pieces[i])
      /\ \A i \in DOMAIN rest : i + 1 \in DOMAIN chain.pieces /\ rest[i] = chain.pieces[i + 1]
  BY <1>4
<1>6. Parts(D, chain) /\ \A x \in PinsOf(n) : Marked(n, x) \/ InPiece(chain, x)
  BY <1>1, <1>2 DEF NetsHold, ChainIsWhole
<1>7. Holds(D, f)
  BY <1>5, <1>6 DEF Parts
<1>. HIDE DEF f, rest
<1>8. a \in Point /\ b \in Point /\ f.trunk = <<a, b>>
  BY <1>5 DEF Fragment, Wire
<1>9. <<a, b>> \in D /\ PointOnSegment(at, <<a, b>>) /\ \A x \in f.pins : Joined(D, x, a)
  <2>1. Aligned(a, b)
    BY <1>7 DEF Holds
  <2>. QED BY <1>7, <1>8, <2>1, SeatOnWire DEF Holds
<1>10. l.net = n /\ l.at = at /\ l \in labels'
  BY <1>3
<1>11. More
  BY <1>1, <1>3 DEF More, EndKept
<1>12. Wiring'
  BY <1>1, SamePins DEF NetsHold, Wiring, EndsOf
<1>. HIDE DEF a, b, at, l
<1>13. ASSUME NEW x \in f.pins PROVE Marked(n, x)'
  <2>1. drawn'[n] = D
    BY <1>1
  <2>2. <<a, b>> \in drawn'[n] /\ l.net = n /\ Joined(drawn'[n], x, <<a, b>>[1]) /\ PointOnSegment(l.at, <<a, b>>)
    BY <1>9, <1>10, <1>13, <2>1
  <2>. QED BY <1>10, <2>2 DEF Marked
<1>14. ASSUME NEW x \in PinsOf(n) PROVE Marked(n, x)' \/ \E i \in DOMAIN rest : x \in rest[i].pins
  <2>1. CASE Marked(n, x)
    BY <1>11, <2>1, MarkedStays
  <2>2. CASE InPiece(chain, x)
    BY <1>5, <1>13, <2>2 DEF InPiece
  <2>. QED BY <1>6, <2>1, <2>2
<1>15. CASE rest = <<>>
  <2>1. chain' = NoChain
    BY <1>3, <1>15
  <2>2. Whole(n)'
    BY <1>1, <1>14, <1>15, SamePins DEF Whole
  <2>3. ChainIsWhole'
    BY <2>1 DEF ChainIsWhole
  <2>4. NetsAreWhole'
    BY <1>1, <1>2, <1>11, <2>1, <2>2, NetsStay DEF NetsHold
  <2>. QED BY <1>12, <2>3, <2>4 DEF NetsHold
<1>16. CASE rest # <<>>
  <2>1. chain' = c
    <3>1. chain = [net |-> chain.net, at |-> chain.at, left |-> chain.left,
                   piece |-> chain.piece, pieces |-> chain.pieces]
      BY <1>1, ChainIs
    <3>2. chain' = [chain EXCEPT !.pieces = rest]
      BY <1>3, <1>16
    <3>3. chain' = [net |-> chain.net, at |-> chain.at, left |-> chain.left, piece |-> chain.piece, pieces |-> rest]
      BY <3>1, <3>2
    <3>. QED BY <1>2, <3>3
  <2>2. c.net = n /\ c.pieces = rest /\ c.piece.pins = {} /\ Parts(D, c)
    <3>1. \A i \in DOMAIN rest : Holds(D, rest[i])
      BY <1>5, <1>6 DEF Parts
    <3>. QED BY <1>1, <3>1 DEF Parts
  <2>3. c # NoChain
    <3>1. "at" \in DOMAIN c /\ "at" \notin DOMAIN NoChain
      BY DEF NoChain
    <3>. QED BY <3>1
  <2>. HIDE DEF c
  <2>4. \A x \in PinsOf(n) : Marked(n, x)' \/ InPiece(c, x)
    BY <1>14, <2>2 DEF InPiece
  <2>5. ChainIsWhole'
    BY <1>1, <2>1, <2>2, <2>4, SamePins DEF ChainIsWhole
  <2>6. NetsAreWhole'
    BY <1>1, <1>2, <1>11, <2>1, <2>2, <2>3, NetsStay DEF NetsHold
  <2>. QED BY <1>12, <2>5, <2>6 DEF NetsHold
<1>. QED BY <1>15, <1>16

(* No two nets have a pin in one place, so the ends have a first among them. *)
LEMMA FirstEndIs ==
    ASSUME Placed, NEW S, EndsOf(S), S # {} PROVE FirstEnd(S) \in S
<1>. DEFINE R == {d \in S \X S : Before(d[1][1], d[2][1])}
<1>1. \A e \in S : /\ e[1] \in AllPins /\ e[1][1] \in Int /\ e[1][2] \in Int
                   /\ e[1] = <<e[1][1], e[1][2]>>
  <2>. SUFFICES ASSUME NEW e \in S
                PROVE  e[1] \in AllPins /\ e[1][1] \in Int /\ e[1][2] \in Int /\ e[1] = <<e[1][1], e[1][2]>>
    OBVIOUS
  <2>1. e[1] \in AllPins
    BY Pins DEF EndsOf
  <2>. QED BY <2>1, AllPinsLie DEF Point
<1>2. ASSUME NEW e \in S, NEW d \in S, e[1] = d[1] PROVE e = d
  <2>1. /\ e = <<e[1], e[2]>> /\ d = <<d[1], d[2]>> /\ e[2] \in Net /\ d[2] \in Net
        /\ e[1] \in PinsOf(e[2]) /\ d[1] \in PinsOf(d[2])
    BY DEF EndsOf
  <2>2. e[2] = d[2]
    BY <1>2, <2>1, PinsDiffer DEF ForeignPins
  <2>. QED BY <1>2, <2>1, <2>2
<1>3. \A e, d \in S : <<e, d>> \in R <=> Before(e[1], d[1])
  OBVIOUS
<1>. HIDE DEF R
<1>4. \A e, d \in S : e = d \/ <<e, d>> \in R \/ <<d, e>> \in R
  <2>. SUFFICES ASSUME NEW e \in S, NEW d \in S PROVE e[1] = d[1] \/ Before(e[1], d[1]) \/ Before(d[1], e[1])
    BY <1>2, <1>3
  <2>. QED BY <1>1 DEF Before
<1>5. \A e, d, g \in S : <<e, d>> \in R /\ <<d, g>> \in R => <<e, g>> \in R
  <2>. SUFFICES ASSUME NEW e \in S, NEW d \in S, NEW g \in S, Before(e[1], d[1]), Before(d[1], g[1])
                PROVE  Before(e[1], g[1])
    BY <1>3
  <2>. QED BY <1>1 DEF Before
<1>6. \E e \in S : \A d \in S : e = d \/ <<e, d>> \in R
  <2>1. IsFiniteSet(S)
    BY DEF EndsOf
  <2>. QED BY <1>4, <1>5, <2>1, FirstIsThere
<1>. QED BY <1>3, <1>6 DEF FirstEnd

LEMMA RoutedWhole ==
    ASSUME NetsHold, More, todo = {}, chain = NoChain, UNCHANGED <<todo, chain>>, Wiring'
    PROVE  NetsHold'
<1>1. NetsAreWhole'
  BY WholeStays, SamePins DEF NetsHold, NetsAreWhole, More
<1>2. ChainIsWhole'
  BY DEF ChainIsWhole
<1>. QED BY <1>1, <1>2 DEF NetsHold

LEMMA PlaceLabelWhole ==
    ASSUME Placed, NetsHold, place_label PROVE NetsHold'
<1>. DEFINE e == FirstEnd(labelEnds)
            at == Outward(e[1], Avoidance(e[1]) + Separation(e[1]))
            l == [net |-> e[2], pin |-> e[1], at |-> at, box |-> LabelBox(at, board.at[e[1]].edge)]
<1>1. /\ UNCHANGED <<board, todo, chain, drawn, powerEnds, flagged>> /\ todo = {} /\ chain = NoChain
      /\ labels' = labels \cup {l} /\ labelEnds' = labelEnds \ {e} /\ labelEnds # {}
  BY DEF place_label, Routed, PutLabel
<1>2. l.net = e[2] /\ l.pin = e[1]
  OBVIOUS
<1>. HIDE DEF l, e
<1>3. More
  <2>1. ASSUME NEW d \in labelEnds \cup powerEnds PROVE EndKept(d)
    BY <1>1, <1>2 DEF EndKept
  <2>. QED BY <1>1, <2>1 DEF More
<1>4. Wiring'
  <2>1. IsFiniteSet(labelEnds')
    BY <1>1, FS_Subset DEF NetsHold, Wiring, EndsOf
  <2>. QED BY <1>1, <2>1, SamePins DEF NetsHold, Wiring, EndsOf
<1>. QED BY <1>1, <1>3, <1>4, RoutedWhole

LEMMA PlacePortWhole ==
    ASSUME Placed, NetsHold, place_port PROVE NetsHold'
<1>. DEFINE e == FirstEnd(powerEnds)
            n == e[2]
            stub == <<e[1], Out(e[1], 2)>>
            flag == IF n \in flagged THEN {} ELSE {<<Out(e[1], 2), Out(e[1], 4)>>}
            D == drawn[n] \cup {stub} \cup flag
<1>1. /\ UNCHANGED <<board, todo, chain, labels, labelEnds>> /\ todo = {} /\ chain = NoChain
      /\ powerEnds' = powerEnds \ {e} /\ powerEnds # {}
      /\ drawn' = [drawn EXCEPT ![n] = D] /\ flagged' = flagged \cup {n}
  BY DEF place_port, Routed
<1>2. e \in powerEnds /\ e = <<e[1], n>> /\ n \in Net
  <2>1. EndsOf(powerEnds)
    BY DEF NetsHold, Wiring
  <2>. QED BY <1>1, <2>1, FirstEndIs DEF EndsOf
<1>3. IsFiniteSet(D) /\ stub \in D /\ drawn[n] \subseteq D
  <2>1. IsFiniteSet(flag) /\ IsFiniteSet({stub})
    BY FS_EmptySet, FS_Singleton
  <2>2. IsFiniteSet(drawn[n])
    BY <1>2 DEF NetsHold, Wiring
  <2>. HIDE DEF flag, stub
  <2>3. IsFiniteSet(drawn[n] \cup {stub})
    BY <2>1, <2>2, FS_Union
  <2>4. IsFiniteSet((drawn[n] \cup {stub}) \cup flag)
    BY <2>1, <2>3, FS_Union
  <2>. QED BY <2>4
<1>. HIDE DEF D, n, e
<1>4. drawn' = [m \in Net |-> IF m = n THEN D ELSE drawn[m]]
  BY <1>1 DEF NetsHold, Wiring
<1>5. More
  <2>1. ASSUME NEW d \in labelEnds \cup powerEnds PROVE EndKept(d)
    <3>1. CASE d = e
      <4>1. n \in flagged' /\ stub \in drawn'[n] /\ d[2] = n
        BY <1>1, <1>2, <1>3, <1>4, <3>1
      <4>. QED BY <3>1, <4>1 DEF EndKept
    <3>2. CASE d # e
      BY <1>1, <3>2 DEF EndKept
    <3>. QED BY <3>1, <3>2
  <2>. QED BY <1>1, <1>3, <1>4, <2>1 DEF More
<1>6. Wiring'
  <2>1. IsFiniteSet(powerEnds')
    BY <1>1, FS_Subset DEF NetsHold, Wiring, EndsOf
  <2>2. drawn' = [m \in Net' |-> drawn'[m]] /\ \A m \in Net' : IsFiniteSet(drawn'[m])
    BY <1>1, <1>3, <1>4, SamePins DEF NetsHold, Wiring
  <2>. QED BY <1>1, <2>1, <2>2, SamePins DEF NetsHold, Wiring, EndsOf
<1>. QED BY <1>1, <1>5, <1>6, RoutedWhole

LEMMA SheetInvAtFirst == Init => SheetInv
<1>. SUFFICES ASSUME Init PROVE SheetInv
  OBVIOUS
<1>1. Placed
  BY DEF Init, Placed
<1>2. Settled /\ ChainIsWhole /\ NetsAreWhole
  BY DEF Init, Settled, ChainIsWhole, NetsAreWhole
<1>3. Wiring
  <2>1. drawn = [n \in Net |-> {}] /\ labelEnds = {} /\ powerEnds = {}
    BY DEF Init
  <2>. QED BY <2>1, FS_EmptySet DEF Wiring, EndsOf
<1>. QED BY <1>1, <1>2, <1>3, DrawingAtFirst DEF SheetInv, NetsHold

LEMMA SettledByNext == Settled /\ [Next]_vars => Settled'
<1>. SUFFICES ASSUME Settled, [Next]_vars PROVE Settled'
  OBVIOUS
<1>1. CASE mirror_rect
  BY <1>1 DEF mirror_rect, Settled
<1>2. ASSUME NEW n \in Net, Route(n) PROVE Settled'
  BY <1>2 DEF Route, name_net, route_pair, begin_chain, Next_net, Settled
<1>3. CASE hop \/ end_chain \/ label_piece
  BY <1>3 DEF hop, Hopping, end_chain, label_piece, Settled
<1>4. CASE place_label \/ place_port \/ finish
  BY <1>4 DEF place_label, place_port, finish, Routed, Settled
<1>5. CASE UNCHANGED vars
  BY <1>5 DEF vars, Settled
<1>. QED BY <1>1, <1>2, <1>3, <1>4, <1>5 DEF Next

(* Until ports are drawn the page is as it was placed and routed, and then *)
(* no chain is left.                                                       *)
LEMMA SheetInvByNext == SheetInv /\ [Next]_vars => SheetInv'
<1>. SUFFICES ASSUME SheetInv, [Next]_vars PROVE SheetInv'
  OBVIOUS
<1>1. Placed /\ Drawing /\ Settled /\ NetsHold
  BY DEF SheetInv
<1>2. Chained
  BY <1>1 DEF Drawing, Settled, Chained
<1>3. Drawing' /\ Settled'
  BY <1>1, DrawingByNext, SettledByNext
<1>4. ASSUME UNCHANGED <<board, mirror, texts>> PROVE Placed'
  BY <1>1, <1>4, SamePage DEF Placed
<1>5. Placed'
  <2>1. CASE flagged' = {}
    BY <1>3, <2>1 DEF Drawing
  <2>2. CASE flagged' # {}
    <3>1. CASE place_port \/ UNCHANGED vars
      BY <1>4, <3>1 DEF place_port, vars
    <3>2. CASE ~ (place_port \/ UNCHANGED vars)
      <4>1. flagged # {}
        BY <2>2, <3>2 DEF Next, Route, mirror_rect, name_net, route_pair, begin_chain, hop, end_chain,
                          label_piece, place_label, finish
      <4>2. mirror = {} /\ todo = {} /\ chain = NoChain
        BY <1>1, <4>1 DEF Settled
      <4>3. place_label \/ finish
        BY <3>2, <4>2 DEF Next, Route, mirror_rect, name_net, route_pair, begin_chain, Next_net, hop,
                          Hopping, end_chain, label_piece
      <4>. QED BY <1>4, <4>3 DEF place_label, finish
    <3>. QED BY <3>1, <3>2
  <2>. QED BY <2>1, <2>2
<1>6. NetsHold'
  <2>1. CASE mirror_rect \/ finish \/ UNCHANGED vars
    <3>1. UNCHANGED <<board, todo, chain, drawn, labels, labelEnds, powerEnds, flagged>>
      BY <2>1 DEF mirror_rect, finish, vars
    <3>. QED BY <1>1, <1>2, <3>1, NothingNew
  <2>2. ASSUME NEW n \in Net, Route(n) PROVE NetsHold'
    BY <1>1, <2>2, NameWhole, PairWhole, BeginWhole DEF Route
  <2>3. CASE hop \/ end_chain \/ label_piece
    BY <1>1, <1>2, <2>3, HopWhole, EndWhole, LabelWhole
  <2>4. CASE place_label \/ place_port
    BY <1>1, <2>4, PlaceLabelWhole, PlacePortWhole
  <2>. QED BY <2>1, <2>2, <2>3, <2>4 DEF Next
<1>. QED BY <1>3, <1>5, <1>6 DEF SheetInv

(* Every net of an emitted sheet hangs together by wire, over however many *)
(* wires and however its chain was split, or each part that does not reach *)
(* the others carries the net's name or has a label that was pushed away.  *)
THEOREM OnlyStraysCutOff == Spec => []WholeButForStrays
<1>1. SheetInv => WholeButForStrays
  <2>. SUFFICES ASSUME SheetInv, phase = "emitted", NEW n \in Net, NEW p \in PinsOf(n)
                PROVE  PinsOf(n) \subseteq Reached(n, p) \/ Named(n, Reached(n, p)) \/ Strayed(n, Reached(n, p))
    BY DEF WholeButForStrays
  <2>. DEFINE D == drawn[n]
              R == Reached(n, p)
  <2>1. todo = {} /\ chain = NoChain /\ labelEnds = {} /\ powerEnds = {} /\ IsFiniteSet(D)
    BY DEF SheetInv, Settled, NetsHold, Wiring
  <2>2. Whole(n)
    BY <2>1 DEF SheetInv, NetsHold, NetsAreWhole
  <2>3. p \in R /\ Closed(D, R)
    BY <2>1, ReachedIsClosed
  <2>. HIDE DEF R
  <2>4. \A q : Joined(D, p, q) => q \in R
    BY <2>3 DEF Joined
  <2>5. CASE \A x, q \in PinsOf(n) : Joined(D, x, q)
    BY <2>4, <2>5 DEF R
  <2>6. CASE \A x \in PinsOf(n) : Marked(n, x)
    <3>1. Named(n, R) \/ Strayed(n, R)
      <4>1. \/ \E l \in labels : l.net = n /\ l.pin = p
            \/ n \in flagged /\ <<p, Out(p, 2)>> \in D
            \/ \E l \in labels : \E s \in D : l.net = n /\ Joined(D, p, s[1]) /\ PointOnSegment(l.at, s)
        BY <2>1, <2>6 DEF Marked
      <4>. QED BY <2>3, <2>4, <4>1 DEF Named, Strayed
    <3>. QED BY <3>1 DEF R
  <2>. QED BY <2>2, <2>5, <2>6 DEF Whole
<1>. QED BY <1>1, SheetInvAtFirst, SheetInvByNext, PTL DEF Spec

=============================================================================
