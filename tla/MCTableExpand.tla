--------------------------- MODULE MCTableExpand ---------------------------
(* Small tables for TableExpand.                                             *)
EXTENDS TableExpand

Cell(r, k, token) == [row |-> r, col |-> k, rowSpan |-> 1, colSpan |-> 1, token |-> token]
Wide(r, k, n, token) == [Cell(r, k, token) EXCEPT !.colSpan = n]
Tall(r, k, n, token) == [Cell(r, k, token) EXCEPT !.rowSpan = n]

TableOf(rows, cols, cells, zones) ==
  [rows |-> rows, cols |-> cols, cells |-> cells, border |-> 9, zones |-> zones,
   extra |-> <<77>>,
   sizes |-> [r \in 1 .. rows |-> Cardinality({n \in DOMAIN cells : cells[n].row = r - 1})]]

X == TableMarker("items", "x")
Y == TableMarker("items", "y")
Z == TableMarker("others", "z")
B == TableMarker("items[", "x")
Zone == <<0, 0, 1, 1, 6>>

MCTables ==
  {\* a header, the template row, a total
   TableOf(3, 2, <<Cell(0, 0, Text("h")), Cell(0, 1, Text("i")),
                   Cell(1, 0, X), Cell(1, 1, Y),
                   Cell(2, 0, Text("t")), Cell(2, 1, Marker("title"))>>, <<Zone>>),
   \* the template row first, with a marker of another kind; merged cells below
   TableOf(3, 2, <<Cell(0, 0, Marker("title")), Cell(0, 1, Y),
                   Tall(1, 0, 2, Text("a")), Cell(1, 1, Text("b")), Cell(2, 1, Text("c"))>>, << >>),
   \* a merged cell in the template row, merged cells above it
   TableOf(3, 2, <<Tall(0, 0, 2, Text("a")), Cell(0, 1, Text("b")), Cell(1, 1, Text("c")),
                   Wide(2, 0, 2, X)>>, << >>),
   \* two marked rows, and another array in the first
   TableOf(2, 2, <<Cell(0, 0, X), Cell(0, 1, Z), Cell(1, 0, Y), Cell(1, 1, Text("b"))>>, <<Zone, Zone>>),
   \* an array that the data has not
   TableOf(2, 1, <<Cell(0, 0, Z), Cell(1, 0, X)>>, << >>),
   \* a cell merged across the template row
   TableOf(2, 2, <<Tall(0, 0, 2, Text("a")), Cell(0, 1, Text("b")), Cell(1, 1, X)>>, << >>),
   \* an expression that is none
   TableOf(2, 1, <<Cell(0, 0, Text("h")), Cell(1, 0, B)>>, << >>),
   \* no marker, no column
   TableOf(1, 1, <<Cell(0, 0, Marker("title"))>>, <<Zone>>),
   TableOf(1, 0, << >>, << >>)}

One(t) == [x |-> Text(t), y |-> Text("2")]
ItemSet == {One("1"), [x |-> Text("3")], [y |-> Marker("title"), z |-> Text("4")]}
Lists == UNION {[1 .. n -> ItemSet] : n \in 0 .. 3}

MCBadNames == {"items["}
MCPolicies == {"error", "empty", "keep"}

Items_(v) == [a \in {"items", "title"} |-> IF a = "items" THEN v ELSE Scalar(Text("T"))]
Untitled(v) == [a \in {"items"} |-> v]
MCDataSets == UNION {{Items_(v), Untitled(v)} :
                 v \in {ArrayOf(s) : s \in Lists} \cup {Scalar(Text("s"))}}
=============================================================================
