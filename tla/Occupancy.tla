------------------------------ MODULE Occupancy ------------------------------
(***************************************************************************)
(* The occupancy ledger of one schematic page: rectangles with an owner (a *)
(* component's reference or a net's name) and a kind, and the questions    *)
(* the placer, the label solver and the router put to it.  Lengths are     *)
(* integers; HAIR is the thickness a wire is given, KEEP the margin kept   *)
(* around text.                                                            *)
(***************************************************************************)
EXTENDS Integers, Sequences

CONSTANTS Owner, HAIR, KEEP

ASSUME LedgerScale == HAIR \in Nat \ {0} /\ KEEP \in Nat \ {0}

Kind == {"body", "pin_extent", "label", "power", "wire", "text_keepout"}

Box == [x0 : Int, x1 : Int, y0 : Int, y1 : Int]

LedgerRect == [box : Box, owner : Owner, kind : Kind]

\* Half-open intervals: boxes that share an edge do not overlap.
Overlaps(a, b) ==
  a.x0 < b.x1 /\ b.x0 < a.x1 /\ a.y0 < b.y1 /\ b.y0 < a.y1

\* What one owner draws may lie on itself.
Conflicts(r, s) == r.owner # s.owner /\ Overlaps(r.box, s.box)

Grown(b, m) == [x0 |-> b.x0 - m, x1 |-> b.x1 + m, y0 |-> b.y0 - m, y1 |-> b.y1 + m]

------------------------------------------------------------------------------
\* Segments are pairs of points <<x, y>>.

Least(a, b) == IF a < b THEN a ELSE b
Greatest(a, b) == IF a < b THEN b ELSE a

SegAxis(s) ==
  CASE s[1][2] = s[2][2] /\ s[1][1] # s[2][1] -> "h"
    [] s[1][1] = s[2][1] /\ s[1][2] # s[2][2] -> "v"
    [] OTHER -> "none"

RectAxis(b) ==
  LET w == b.x1 - b.x0
      h == b.y1 - b.y0
  IN  IF w > h THEN "h" ELSE IF h > w THEN "v" ELSE "none"

Span(s) ==
  [x0 |-> Least(s[1][1], s[2][1]), x1 |-> Greatest(s[1][1], s[2][1]),
   y0 |-> Least(s[1][2], s[2][2]), y1 |-> Greatest(s[1][2], s[2][2])]

\* The segment runs through the inside of the box; touching its edge does not count.
SegHitsBox(s, b) ==
  LET p == Span(s)
  IN  \/ p.y0 = p.y1 /\ b.y0 < p.y0 /\ p.y0 < b.y1 /\ p.x0 < b.x1 /\ b.x0 < p.x1 /\ p.x0 # p.x1
      \/ p.x0 = p.x1 /\ b.x0 < p.x0 /\ p.x0 < b.x1 /\ p.y0 < b.y1 /\ b.y0 < p.y1 /\ p.y0 # p.y1

Crossing(axis, b) == axis # "none" /\ RectAxis(b) # "none" /\ axis # RectAxis(b)

------------------------------------------------------------------------------
\* The rectangles that stand in the way of rect.

Query(ledger, rect, exempt, kinds) ==
  {r \in ledger : r.owner \notin exempt /\ r.kind \in kinds /\ Conflicts(r, rect)}

\* try_reserve: an occupied place is refused without a word.
TryReserve(ledger, rect, exempt, kinds) ==
  IF Query(ledger, rect, exempt, kinds) = {} THEN ledger \cup {rect} ELSE ledger

Reserve(ledger, rect) == TryReserve(ledger, rect, {}, Kind)

\* path_clear: only the own text may not be crossed by a host; a foreign rectangle
\* of a kind in perp is no obstacle to a segment at right angles to it.
PathClear(ledger, segs, hosts, kinds, perp) ==
  \A s \in segs, r \in ledger :
    /\ r.kind = "text_keepout" \/ r.owner \notin hosts
    /\ r.kind \in kinds
    /\ SegHitsBox(s, r.box)
    => r.kind \in perp /\ Crossing(SegAxis(s), r.box)

OverlapsOfKinds(ledger, kinds) ==
  {p \in ledger \X ledger : p[1].kind \in kinds /\ p[2].kind \in kinds /\ Conflicts(p[1], p[2])}
==============================================================================
