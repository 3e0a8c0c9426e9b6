--------------------------- MODULE MCSheetRouting ---------------------------
(***************************************************************************)
(* Pages with an IC U between a part R on its right and a connector J      *)
(* below; one grid is ten units.                                           *)
(***************************************************************************)
EXTENDS SheetRouting, TLC

B(x0, y0, x1, y1, ref) ==
  [box |-> [x0 |-> x0, x1 |-> x1, y0 |-> y0, y1 |-> y1], owner |-> ref, kind |-> "body"]
T(x0, y0, x1, y1, ref) == [B(x0, y0, x1, y1, ref) EXCEPT !.kind = "pin_extent"]
P(ref, x, y) == [ref |-> ref, edge |-> <<x, y>>]

NetName == {"A", "B", "C", "GND", "VCC"}
MCOwner == {"U", "R", "J"} \cup NetName \cup {"GND#pwr", "VCC#pwr"}
Port(ns) == [n \in ns |-> IF n = "GND" THEN "GND#pwr" ELSE IF n = "VCC" THEN "VCC#pwr" ELSE n]

\* Two pairs that cross, a chain of three and a ground pin.
Crossed ==
  [pins |-> ("A" :> {<<20, 0>>, <<80, 20>>}) @@ ("B" :> {<<20, 20>>, <<80, 0>>})
            @@ ("C" :> {<<20, 40>>, <<50, 70>>, <<80, 40>>}) @@ ("GND" :> {<<30, 70>>}),
   at |-> (<<20, 0>> :> P("U", 1, 0)) @@ (<<20, 20>> :> P("U", 1, 0)) @@ (<<20, 40>> :> P("U", 1, 0))
          @@ (<<80, 0>> :> P("R", -1, 0)) @@ (<<80, 20>> :> P("R", -1, 0)) @@ (<<80, 40>> :> P("R", -1, 0))
          @@ (<<50, 70>> :> P("J", 0, -1)) @@ (<<30, 70>> :> P("J", 0, -1)),
   body |-> {B(-20, -10, 10, 50, "U"), B(90, -10, 120, 50, "R"), B(20, 80, 60, 100, "J"),
             T(-10, -5, 5, 5, "U")},
   gnd |-> {"GND"}, supply |-> {}, forced |-> {}, port |-> Port({"A", "B", "C", "GND"}),
   l6_avoidance |-> FALSE]

\* A supply of four pins across the page, two pairs in its way and a forced net: the chain may
\* split anywhere.
Rail ==
  [pins |-> ("VCC" :> {<<20, 0>>, <<20, 40>>, <<80, 0>>, <<80, 40>>})
            @@ ("A" :> {<<20, 20>>, <<80, 20>>}) @@ ("B" :> {<<50, -20>>, <<50, 70>>})
            @@ ("C" :> {<<30, 70>>}),
   at |-> (<<20, 0>> :> P("U", 1, 0)) @@ (<<20, 20>> :> P("U", 1, 0)) @@ (<<20, 40>> :> P("U", 1, 0))
          @@ (<<80, 0>> :> P("R", -1, 0)) @@ (<<80, 20>> :> P("R", -1, 0)) @@ (<<80, 40>> :> P("R", -1, 0))
          @@ (<<50, -20>> :> P("U", 0, 1)) @@ (<<50, 70>> :> P("J", 0, -1)) @@ (<<30, 70>> :> P("J", 0, -1)),
   body |-> {B(-20, -10, 10, 50, "U"), B(90, -10, 120, 50, "R"), B(20, 80, 60, 100, "J")},
   gnd |-> {}, supply |-> {"VCC"}, forced |-> {"C"}, port |-> Port({"A", "B", "C", "VCC"}),
   l6_avoidance |-> TRUE]

\* Two parts above each other, joined crosswise by names, and a pair drawn between them: the names
\* of a column run into each other.
Facing ==
  [pins |-> ("A" :> {<<30, 20>>, <<50, 70>>}) @@ ("B" :> {<<50, 20>>, <<30, 70>>})
            @@ ("C" :> {<<40, 20>>, <<40, 70>>}),
   at |-> (<<30, 20>> :> P("U", 0, 1)) @@ (<<40, 20>> :> P("U", 0, 1)) @@ (<<50, 20>> :> P("U", 0, 1))
          @@ (<<30, 70>> :> P("J", 0, -1)) @@ (<<40, 70>> :> P("J", 0, -1)) @@ (<<50, 70>> :> P("J", 0, -1)),
   body |-> {B(20, -10, 60, 10, "U"), B(20, 80, 60, 100, "J")},
   gnd |-> {}, supply |-> {}, forced |-> {"A", "B"}, port |-> Port({"A", "B", "C"}),
   l6_avoidance |-> FALSE]

MCBoards == {Crossed, Rail, Facing}
MCJogs == {-20, 10}
==============================================================================
