---------------------------- MODULE SheetRouting ----------------------------
(***************************************************************************)
(* emit_kicad_schematic in its drawn-wire mode: one page, its components   *)
(* placed, its nets taken one after the other.  A net of two pins becomes  *)
(* one guarded route, a net of more a daisy chain of guarded hops which    *)
(* splits where a hop cannot be drawn; what is not drawn is named by       *)
(* labels or, for a supply, by power ports.  Every net sees only what was  *)
(* drawn before it.                                                        *)
(*                                                                         *)
(* GRID is one schematic grid (1.27 mm).  A search tries its base route,   *)
(* one jog and one detour; the code tries eight jogs, every channel and    *)
(* corridors around two sides, all behind the same guard.  The page is at  *)
(* scale 1, and every name is LabelW long.                                 *)
(***************************************************************************)
EXTENDS Occupancy, FiniteSets, FiniteSetsExt, Functions

CONSTANTS GRID,
          Boards,     \* [pins : net -> points, at : point -> [ref, edge], body : SUBSET LedgerRect,
                      \*  gnd, supply, forced : sets of nets, l6_avoidance : BOOLEAN]
          Jogs,       \* offsets a jog may take
          LabelW, LabelH,
          L6Steps     \* _L6_AVOID_MAX_STEPS

Edge == {<<1, 0>>, <<-1, 0>>, <<0, 1>>, <<0, -1>>}

\* A pin lies on one side of its symbol, and no two nets have a pin in one place.
ASSUME SheetAssumption ==
  /\ GRID \in Nat \ {0} /\ Jogs \subseteq Int /\ LabelW \in Nat /\ LabelH \in Nat /\ L6Steps \in Nat
  /\ \A b \in Boards :
       /\ b.body \subseteq LedgerRect
       /\ \A n \in DOMAIN b.pins :
            /\ IsFiniteSet(b.pins[n]) /\ b.pins[n] \subseteq Int \X Int
            /\ \A p \in b.pins[n] : b.at[p].edge \in Edge
            /\ \A m \in DOMAIN b.pins \ {n} : b.pins[n] \cap b.pins[m] = {}

VARIABLES board,      \* the placed components and the net list
          mirror,     \* rectangles the placer has not put into the ledger yet
          todo,       \* nets not yet routed
          chain,      \* the chain being routed, or NoChain
          registry,   \* fusion_registry: net -> segments
          drawn,      \* wires on the sheet: net -> segments
          junctions,  \* dots on the sheet: <<point, net>>
          ledger,
          texts,      \* _local_label_boxes: boxes of text no wire may run through
          labels,     \* labels on the sheet: [net, pin, at, box]
          labelEnds, powerEnds,   \* pins still to be named: <<point, net>>
          flagged,    \* supplies that have their PWR_FLAG
          phase

vars == <<board, mirror, todo, chain, registry, drawn, junctions, ledger, texts, labels,
          labelEnds, powerEnds, flagged, phase>>

NoChain == [net |-> "none"]

Net == DOMAIN board.pins
PinsOf(n) == board.pins[n]
AllPins == UNION {PinsOf(n) : n \in Net}
Hosts(n) == {board.at[p].ref : p \in PinsOf(n)}
ForeignPins(n) == AllPins \ PinsOf(n)

Around(p, m) == [x0 |-> p[1] - m, x1 |-> p[1] + m, y0 |-> p[2] - m, y1 |-> p[2] + m]

\* Bodies are kept at a grid's distance by strangers, and not entered by their own wires.
Obstacles(n) ==
  {IF r.owner \in Hosts(n) THEN Grown(r.box, -HAIR) ELSE Grown(r.box, GRID) :
     r \in {b \in board.body : b.kind = "body"}}
  \cup {Grown(b, KEEP) : b \in texts}
  \cup {Around(p, GRID) : p \in ForeignPins(n)}

------------------------------------------------------------------------------
\* When two segments of different nets must not both be drawn.

Line(s) == IF SegAxis(s) = "h" THEN s[1][2] ELSE s[1][1]
Low(s)  == IF SegAxis(s) = "h" THEN Least(s[1][1], s[2][1]) ELSE Least(s[1][2], s[2][2])
High(s) == IF SegAxis(s) = "h" THEN Greatest(s[1][1], s[2][1]) ELSE Greatest(s[1][2], s[2][2])

Parallel(s, t) == SegAxis(s) = SegAxis(t) /\ SegAxis(s) # "none"
Shared(s, t) == Least(High(s), High(t)) > Greatest(Low(s), Low(t))

CollinearOverlap(s, t) == Parallel(s, t) /\ Line(s) = Line(t) /\ Shared(s, t)

CorridorClash(s, t) ==
  /\ Parallel(s, t)
  /\ \/ Line(s) = Line(t)
     \/ Shared(s, t) /\ Line(s) - Line(t) \in (-(2 * GRID) + 1) .. (2 * GRID - 1)

PointOnSegment(p, s) ==
  LET b == Span(s)
  IN  b.x0 <= p[1] /\ p[1] <= b.x1 /\ b.y0 <= p[2] /\ p[2] <= b.y1

StrictlyInterior(p, s) == PointOnSegment(p, s) /\ p # s[1] /\ p # s[2]

Touches(p, s, exempt) == PointOnSegment(p, s) /\ ~(exempt /\ StrictlyInterior(p, s))

SegmentFuses(s, t, exempt) ==
  \/ CollinearOverlap(s, t)
  \/ CorridorClash(s, t)
  \/ \E i \in 1 .. 2 : Touches(s[i], t, exempt) \/ Touches(t[i], s, exempt)

OtherSegments(n) == UNION {registry[m] : m \in Net \ {n}}

------------------------------------------------------------------------------
\* Polylines.

Segs(w) == {<<w[i], w[i + 1]>> : i \in 1 .. Len(w) - 1}

\* The polyline goes on to p; a point it has just reached is not repeated.
To(w, p) == IF w[Len(w)] = p THEN w ELSE Append(w, p)

\* One grid straight out of the pin, unless the other end is that near.
Escaped(p, q) ==
  LET e == board.at[p].edge
      toward == e[1] * (q[1] - p[1]) + e[2] * (q[2] - p[2])
  IN  IF toward > 0 /\ toward < 2 * GRID THEN p ELSE <<p[1] + e[1] * GRID, p[2] + e[2] * GRID>>

\* On a straight run they are its ends.
Elbows(p, q) == {<<q[1], p[2]>>, <<p[1], q[2]>>}

OrthogonalRoutes(p, q) ==
  LET p2 == Escaped(p, q)
      q2 == Escaped(q, p)
  IN  {To(To(To(To(<<p>>, p2), c), q2), q) : c \in Elbows(p2, q2)}

\* The end legs of a longer route are held, what lies between them is moved.
HeldFrom(w) == IF Len(w) >= 4 THEN w[2] ELSE w[1]
HeldTo(w)   == IF Len(w) >= 4 THEN w[Len(w) - 1] ELSE w[Len(w)]
Via(w, c, d) == To(To(To(To(To(<<w[1]>>, HeldFrom(w)), c), d), HeldTo(w)), w[Len(w)])

JogFreeAxis(w, off) ==
  LET p == HeldFrom(w)
      q == HeldTo(w)
      turn == IF Len(w) >= 4 THEN w[3] ELSE w[2]
  IN  IF Len(w) \in {2, 4} /\ p[1] # q[1]
      THEN Via(w, <<p[1], p[2] + off>>, <<q[1], p[2] + off>>)
      ELSE Via(w, <<turn[1] + off, p[2]>>, <<turn[1] + off, q[2]>>)

\* Around the channels beside the obstacles.
Detours(n, w) ==
  LET p == HeldFrom(w)
      q == HeldTo(w)
      cols == UNION {{o.x0 - GRID, o.x1 + GRID} : o \in Obstacles(n)}
      rows == UNION {{o.y0 - GRID, o.y1 + GRID} : o \in Obstacles(n)}
  IN  {Via(w, <<c, p[2]>>, <<c, q[2]>>) : c \in cols} \cup {Via(w, <<p[1], r>>, <<q[1], r>>) : r \in rows}

------------------------------------------------------------------------------
\* The guard every drawn wire passes.

RouteGuardKinds == {"label", "wire", "text_keepout"}

RouteClearsLedger(n, w) ==
  PathClear(ledger, Segs(w), Hosts(n) \cup {n}, RouteGuardKinds, {"wire"})

Accepts(n, w, exempt) ==
  /\ \A s \in Segs(w), t \in OtherSegments(n) : ~SegmentFuses(s, t, exempt)
  /\ \A s \in Segs(w), b \in Obstacles(n) : ~SegHitsBox(s, b)
  /\ RouteClearsLedger(n, w)
  /\ \A i \in DOMAIN w : w[i] \notin ForeignPins(n)

FirstAccepted(n, tries, exempt) ==
  LET ok == {i \in DOMAIN tries : Accepts(n, tries[i], exempt)}
  IN  IF ok = {} THEN <<>> ELSE tries[CHOOSE i \in ok : \A j \in ok : i <= j]

\* The strict search first; only a route without junctions may then end on a foreign mid-span.
GuardRoute(n, tries, interiorRetry) ==
  LET strict == FirstAccepted(n, tries, FALSE)
  IN  IF strict # <<>> \/ ~interiorRetry THEN strict ELSE FirstAccepted(n, tries, TRUE)

Searches(n, p, q) ==
  UNION {{<<w, JogFreeAxis(w, off), d>> : off \in Jogs, d \in Detours(n, w)} : w \in OrthogonalRoutes(p, q)}

Found(n, p, q, interiorRetry) == {GuardRoute(n, t, interiorRetry) : t \in Searches(n, p, q)}

------------------------------------------------------------------------------
\* Booking.

Thin(s) ==
  LET b == Span(s)
  IN  [x0 |-> IF b.x0 = b.x1 THEN b.x0 - HAIR ELSE b.x0, x1 |-> IF b.x0 = b.x1 THEN b.x1 + HAIR ELSE b.x1,
       y0 |-> IF b.y0 = b.y1 THEN b.y0 - HAIR ELSE b.y0, y1 |-> IF b.y0 = b.y1 THEN b.y1 + HAIR ELSE b.y1]

\* _reserve_wire: a wire that crosses a booked wire is drawn but not booked.
ReserveWires(n, segs) ==
  ledger \cup {r \in {[box |-> Thin(s), owner |-> n, kind |-> "wire"] : s \in segs} :
                 Query(ledger, r, Hosts(n), RouteGuardKinds) = {}}

MutantDraw(n, segs) ==
  /\ registry' = [registry EXCEPT ![n] = IF @ = {} THEN segs ELSE @]
  /\ drawn' = [drawn EXCEPT ![n] = @ \cup segs]
  /\ ledger' = ReserveWires(n, segs)

Draw(n, segs) ==
  /\ registry' = [registry EXCEPT ![n] = @ \cup segs]
  /\ drawn' = [drawn EXCEPT ![n] = @ \cup segs]
  /\ ledger' = ReserveWires(n, segs)

NameEnds(n, ps) ==
  IF n \in board.gnd \cup board.supply
  THEN powerEnds' = powerEnds \cup (ps \X {n}) /\ UNCHANGED labelEnds
  ELSE labelEnds' = labelEnds \cup (ps \X {n}) /\ UNCHANGED powerEnds

LabelBox(at, edge) ==
  CASE edge[1] = -1 -> [x0 |-> at[1] - LabelW, x1 |-> at[1], y0 |-> at[2] - LabelH, y1 |-> at[2] + LabelH]
    [] edge[2] = 1  -> [x0 |-> at[1] - LabelH, x1 |-> at[1] + LabelH, y0 |-> at[2], y1 |-> at[2] + LabelW]
    [] edge[2] = -1 -> [x0 |-> at[1] - LabelH, x1 |-> at[1] + LabelH, y0 |-> at[2] - LabelW, y1 |-> at[2]]
    [] OTHER        -> [x0 |-> at[1], x1 |-> at[1] + LabelW, y0 |-> at[2] - LabelH, y1 |-> at[2] + LabelH]

\* A text and the margin around it.
BookText(l, b, owner, kind) ==
  Reserve(Reserve(l, [box |-> b, owner |-> owner, kind |-> kind]),
          [box |-> Grown(b, KEEP), owner |-> owner, kind |-> "text_keepout"])

------------------------------------------------------------------------------
Before(p, q) == p[1] < q[1] \/ (p[1] = q[1] /\ p[2] < q[2])
First(S) == CHOOSE p \in S : \A q \in S : p = q \/ Before(p, q)
Last(S)  == CHOOSE p \in S : \A q \in S : p = q \/ Before(q, p)

Init ==
  /\ board \in Boards
  /\ mirror = board.body
  /\ todo = Net
  /\ chain = NoChain
  /\ registry = [n \in Net |-> {}]
  /\ drawn = [n \in Net |-> {}]
  /\ junctions = {}
  /\ ledger = {}
  /\ texts = {}
  /\ labels = {}
  /\ labelEnds = {}
  /\ powerEnds = {}
  /\ flagged = {}
  /\ phase = "drawing"

\* The composer books the bodies, the emitter then the texts inside them.
mirror_rect ==
  \E r \in mirror :
    /\ r.kind = "body" \/ \A o \in mirror : o.kind # "body"
    /\ mirror' = mirror \ {r}
    /\ IF r.kind = "body"
       THEN ledger' = Reserve(ledger, r) /\ UNCHANGED texts
       ELSE ledger' = BookText(ledger, r.box, r.owner, r.kind) /\ texts' = texts \cup {r.box}
    /\ UNCHANGED <<board, todo, chain, registry, drawn, junctions, labels, labelEnds, powerEnds,
                   flagged, phase>>

Next_net(n) == mirror = {} /\ chain = NoChain /\ n \in todo
IsDrawn(n) == n \notin board.forced \cup board.gnd /\ Cardinality(PinsOf(n)) > 1

\* Ground, forced nets and single pins are never drawn.
name_net(n) ==
  /\ Next_net(n)
  /\ ~IsDrawn(n)
  /\ todo' = todo \ {n}
  /\ NameEnds(n, PinsOf(n))
  /\ UNCHANGED <<board, mirror, chain, registry, drawn, junctions, ledger, texts, labels, flagged, phase>>

route_pair(n) ==
  /\ Next_net(n)
  /\ IsDrawn(n)
  /\ Cardinality(PinsOf(n)) = 2
  /\ todo' = todo \ {n}
  /\ \E w \in Found(n, First(PinsOf(n)), Last(PinsOf(n)), TRUE) :
       IF w = <<>>
       THEN NameEnds(n, PinsOf(n)) /\ UNCHANGED <<registry, drawn, ledger>>
       ELSE Draw(n, Segs(w)) /\ UNCHANGED <<labelEnds, powerEnds>>
  /\ UNCHANGED <<board, mirror, chain, junctions, texts, labels, flagged, phase>>

Alone(p) == [pins |-> {p}, trunk |-> <<>>]

begin_chain(n) ==
  /\ Next_net(n)
  /\ IsDrawn(n)
  /\ Cardinality(PinsOf(n)) > 2
  /\ todo' = todo \ {n}
  /\ LET p == First(PinsOf(n))
     IN  chain' = [net |-> n, at |-> p, left |-> PinsOf(n) \ {p}, piece |-> Alone(p), pieces |-> <<>>]
  /\ UNCHANGED <<board, mirror, registry, drawn, junctions, ledger, texts, labels, labelEnds,
                 powerEnds, flagged, phase>>

Hopping == chain # NoChain /\ chain.left # {}

\* A pin no hop has reached or left is no piece.
Pieces == IF chain.piece.trunk = <<>> THEN chain.pieces ELSE Append(chain.pieces, chain.piece)

\* A hop that cannot be drawn ends one piece and begins the next.
hop ==
  /\ Hopping
  /\ LET q == First(chain.left)
         c == [chain EXCEPT !.at = q, !.left = @ \ {q}]
     IN  \E w \in Found(chain.net, chain.at, q, FALSE) :
           IF w = <<>>
           THEN /\ chain' = [c EXCEPT !.piece = Alone(q), !.pieces = Pieces]
                /\ UNCHANGED <<registry, drawn, ledger>>
           ELSE /\ chain' = [c EXCEPT !.piece.pins = @ \cup {q},
                                      !.piece.trunk = IF @ = <<>> THEN <<w[1], w[2]>> ELSE @]
                /\ Draw(chain.net, Segs(w))
  /\ UNCHANGED <<board, mirror, todo, junctions, texts, labels, labelEnds, powerEnds, flagged, phase>>

\* A dot on every inner pin of a piece, a name for every pin that is in none.
end_chain ==
  /\ chain # NoChain /\ chain.left = {} /\ chain.piece.pins # {}
  /\ NameEnds(chain.net, PinsOf(chain.net) \ UNION {f.pins : f \in Range(Pieces)})
  /\ junctions' = junctions \cup
       UNION {(f.pins \ {First(f.pins), Last(f.pins)}) \X {chain.net} : f \in Range(Pieces)}
  /\ chain' = IF Pieces = <<>> THEN NoChain
              ELSE [chain EXCEPT !.pieces = Pieces, !.piece = [@ EXCEPT !.pins = {}]]
  /\ UNCHANGED <<board, mirror, todo, registry, drawn, ledger, texts, labels, flagged, phase>>

------------------------------------------------------------------------------
\* _place_local_label: the first seat on the trunk that is free of text, else its far end.
Seats(a, b) ==
  LET along == Greatest(a[1], b[1]) - Least(a[1], b[1]) + Greatest(a[2], b[2]) - Least(a[2], b[2])
      dir(i) == IF a[i] < b[i] THEN 1 ELSE IF b[i] < a[i] THEN -1 ELSE 0
  IN  <<a, b>> \o [k \in 1 .. along \div GRID |-> <<a[1] + dir(1) * k * GRID, a[2] + dir(2) * k * GRID>>]

FreeOfText(b) ==
  /\ \A t \in texts : ~Overlaps(b, t)
  /\ \A r \in ledger : r.kind \in {"label", "pin_extent", "power"} => ~Overlaps(b, r.box)

Seat(a, b) ==
  LET seats == Seats(a, b)
      free == {k \in DOMAIN seats : FreeOfText(LabelBox(seats[k], <<1, 0>>))}
  IN  IF free = {} THEN b ELSE seats[CHOOSE k \in free : \A j \in free : k <= j]

NoPin == <<>>

PutLabel(n, p, at, b) ==
  /\ labels' = labels \cup {[net |-> n, pin |-> p, at |-> at, box |-> b]}
  /\ ledger' = BookText(ledger, b, n, "label")

MutantLabelPiece ==
  /\ chain # NoChain /\ chain.left = {} /\ chain.piece.pins = {}
  /\ LET f == Head(chain.pieces)
         at == Seat(f.trunk[1], f.trunk[2])
     IN  /\ PutLabel(chain.net, NoPin, at, LabelBox(at, <<1, 0>>))
         /\ texts' = texts \cup {LabelBox(at, <<1, 0>>)}
         /\ chain' = NoChain
  /\ UNCHANGED <<board, mirror, todo, registry, drawn, junctions, labelEnds, powerEnds, flagged, phase>>

\* Every piece of a split chain carries the net's name.
label_piece ==
  /\ chain # NoChain /\ chain.left = {} /\ chain.piece.pins = {}
  /\ LET f == Head(chain.pieces)
         at == Seat(f.trunk[1], f.trunk[2])
     IN  /\ PutLabel(chain.net, NoPin, at, LabelBox(at, <<1, 0>>))
         /\ texts' = texts \cup {LabelBox(at, <<1, 0>>)}
         /\ chain' = IF Tail(chain.pieces) = <<>> THEN NoChain ELSE [chain EXCEPT !.pieces = Tail(@)]
  /\ UNCHANGED <<board, mirror, todo, registry, drawn, junctions, labelEnds, powerEnds, flagged, phase>>

Routed == phase = "drawing" /\ mirror = {} /\ todo = {} /\ chain = NoChain

FirstEnd(S) == CHOOSE e \in S : \A d \in S : e = d \/ Before(e[1], d[1])

Outward(p, d) == <<p[1] + d * board.at[p].edge[1], p[2] + d * board.at[p].edge[2]>>

\* The pins that are named by a label, whether it is on the sheet already or not.
LabelledPins == {e[1] : e \in labelEnds} \cup {l.pin : l \in {k \in labels : k.pin # NoPin}}

\* _dd19_dense_column_offsets: a label that points towards larger y and one further on that points
\* back, whose names run into each other, are both pushed out along their own edge, by half of
\* what is missing each.
Missing(p, q) == 2 * LabelW - (q[2] - p[2])

Opposing ==
  {pq \in LabelledPins \X LabelledPins :
     LET p == pq[1]  q == pq[2]
     IN  /\ p[1] = q[1] /\ p[2] < q[2]
         /\ board.at[p].edge = <<0, 1>> /\ board.at[q].edge = <<0, -1>>
         /\ \A r \in LabelledPins : r[1] = p[1] /\ board.at[r].edge = <<0, 1>> /\ r[2] < q[2] => r[2] <= p[2]
         /\ Missing(p, q) > GRID}

Separation(p) ==
  MapThenSumSet(LAMBDA pq : (Missing(pq[1], pq[2]) + GRID) \div 2, {pq \in Opposing : p \in {pq[1], pq[2]}})

\* _avoid_label_overlap: steps of a text's height outward until the name is clear of the parts'
\* texts, the ports to come, the labels before it and, by a grid, of every body; at most L6Steps.
NameIsClear(b) ==
  /\ \A t \in texts \ {l.box : l \in {k \in labels : k.pin = NoPin}} : ~Overlaps(b, t)
  /\ \A e \in powerEnds : ~Overlaps(b, Around(e[1], LabelH))
  /\ \A l \in labels : l.pin # NoPin => ~Overlaps(b, l.box)
  /\ \A r \in board.body : r.kind = "body" => ~Overlaps(b, Grown(r.box, GRID))

Avoidance(p) ==
  LET step(k) == 2 * LabelH * k
      clear == {k \in 0 .. L6Steps - 1 : NameIsClear(LabelBox(Outward(p, step(k)), board.at[p].edge))}
  IN  IF ~board.l6_avoidance THEN 0
      ELSE step(IF clear = {} THEN L6Steps ELSE CHOOSE k \in clear : \A j \in clear : k <= j)

\* A pin's label sits on the pin, or further out with no wire back to it; whatever lies there.
place_label ==
  /\ Routed /\ labelEnds # {}
  /\ LET e == FirstEnd(labelEnds)
         at == Outward(e[1], Avoidance(e[1]) + Separation(e[1]))
     IN  /\ PutLabel(e[2], e[1], at, LabelBox(at, board.at[e[1]].edge))
         /\ labelEnds' = labelEnds \ {e}
  /\ UNCHANGED <<board, mirror, todo, chain, registry, drawn, junctions, texts, powerEnds, flagged, phase>>

Out(p, k) == <<p[1] + k * GRID * board.at[p].edge[1], p[2] + k * GRID * board.at[p].edge[2]>>

\* A stub straight out of the pin to the port; the supply's first port also gets a flag one
\* stub further out, whose wire is drawn without being registered.
place_port ==
  /\ Routed /\ labelEnds = {} /\ powerEnds # {}
  /\ LET e == FirstEnd(powerEnds)
         n == e[2]
         stub == <<e[1], Out(e[1], 2)>>
         flag == IF n \in flagged THEN {} ELSE {<<Out(e[1], 2), Out(e[1], 4)>>}
     IN  /\ powerEnds' = powerEnds \ {e}
         /\ registry' = [registry EXCEPT ![n] = @ \cup {stub}]
         /\ drawn' = [drawn EXCEPT ![n] = @ \cup {stub} \cup flag]
         /\ flagged' = flagged \cup {n}
         /\ ledger' = Reserve(ledger, [box |-> Around(e[1], LabelH), owner |-> board.port[n], kind |-> "power"])
  /\ UNCHANGED <<board, mirror, todo, chain, junctions, texts, labels, labelEnds, phase>>

JunctionShorts ==
  {j \in junctions : \E m \in Net \ {j[2]} : \E s \in registry[m] : PointOnSegment(j[1], s)}

\* The assertion at the end of emission, and the composer's label gate.
finish ==
  /\ Routed /\ labelEnds = {} /\ powerEnds = {}
  /\ phase' = IF JunctionShorts # {} THEN "shorted"
              ELSE IF OverlapsOfKinds(ledger, {"label"}) # {} THEN "stacked" ELSE "emitted"
  /\ UNCHANGED <<board, mirror, todo, chain, registry, drawn, junctions, ledger, texts, labels,
                 labelEnds, powerEnds, flagged>>

Route(n) == name_net(n) \/ route_pair(n) \/ begin_chain(n)

Next ==
  \/ mirror_rect
  \/ \E n \in Net : Route(n)
  \/ hop \/ end_chain \/ label_piece
  \/ place_label \/ place_port \/ finish

Spec == Init /\ [][Next]_vars

------------------------------------------------------------------------------
\* KiCad joins wires that lie on each other, meet end to end, or meet under a dot.
Welded(s, t) == CollinearOverlap(s, t) \/ \E i, j \in 1 .. 2 : s[i] = t[j]

Apart(wires) ==
  \A n \in Net : \A m \in Net \ {n} :
    /\ \A s \in wires[n], t \in wires[m] : ~Welded(s, t)
    /\ \A j \in junctions : j[2] = n => \A t \in wires[m] : ~PointOnSegment(j[1], t)

\* Until ports are drawn no two nets are joined on the sheet, whatever order the nets came in
\* and whatever wires an exempted route was allowed to end on: dots come later than the
\* routes they could short.
RoutedApart == flagged = {} => Apart(drawn)

\* The pins of a net that its wires reach from p.
Reached(n, p) ==
  LET Grow(ps) == ps \cup UNION {{s[1], s[2]} : s \in {t \in drawn[n] : t[1] \in ps \/ t[2] \in ps}}
      r[k \in Nat] == IF k = 0 THEN {p} ELSE Grow(r[k - 1])
  IN  r[Cardinality(drawn[n])]

\* A named place: a label of the net on one of these points or on a wire between them, or a port.
Named(n, ps) ==
  \/ \E l \in labels : l.net = n /\ (l.at \in ps \/ \E s \in drawn[n] : s[1] \in ps /\ PointOnSegment(l.at, s))
  \/ n \in flagged /\ \E p \in ps \cap PinsOf(n) : <<p, Out(p, 2)>> \in drawn[n]

\* A label of one of these pins that was pushed off it.
Strayed(n, ps) == \E l \in labels : l.net = n /\ l.pin \in ps /\ l.at # l.pin

\* An emitted sheet keeps every net whole: its pins hang together by wire, or every part that
\* does not reach the others carries the net's name.  The one thing that may cut a part off is
\* a label that was pushed off its pin.
WholeButForStrays ==
  phase = "emitted" =>
    \A n \in Net : \A p \in PinsOf(n) :
      PinsOf(n) \subseteq Reached(n, p) \/ Named(n, Reached(n, p)) \/ Strayed(n, Reached(n, p))

==============================================================================
