---------------------------- MODULE TableExpand ----------------------------
(***************************************************************************)
(* The filling of a table (rhwp-batch/src/template/mod.rs): expand_table     *)
(* repeats its template row, fill_paragraphs fills the cells there are now, *)
(* and the table record is saved and read back                              *)
(* (rhwp/src/serializer/control.rs, serialize_table_record;                 *)
(* rhwp/src/parser/control.rs, parse_table_record).                         *)
(*                                                                          *)
(* A cell holds one token: text, a marker {{table:array[].field}}, or a     *)
(* simple marker {{key}}, which is also what a value is that looks like     *)
(* one.  Rows and columns are counted from 0, and stored in 16 bits.        *)
(***************************************************************************)
EXTENDS Integers, Sequences, FiniteSets, Ordered

CONSTANTS Tables,   \* the tables of the template
          DataSets, \* the data files: functions from names to values
          Policies, \* of OnMissingKey: "error", "empty", "keep"
          BadNames, \* what stands for an array, and JMESPath rejects
          Word      \* 65536 in the code: the values of a u16

Text(t) == [kind |-> "text", value |-> t]
TableMarker(a, f) == [kind |-> "table", array |-> a, field |-> f]
Marker(k) == [kind |-> "simple", key |-> k]

\* What a name stands for: a value that is no array, or the items of one.
Scalar(t) == [array |-> FALSE, value |-> t]
ArrayOf(items) == [array |-> TRUE, items |-> items]

\* A table of a well-formed document: the counts are words and a cell spans one
\* row and one column at least, which the parsers see to; and the cells lie in
\* the table and there is a size for every row, which is up to the document.
IsTable(t) ==
  /\ t.rows \in 0 .. (Word - 1) /\ t.cols \in 0 .. (Word - 1) /\ t.border \in Nat
  /\ t.sizes \in [1 .. t.rows -> Nat]
  /\ t.zones \in Seq([1 .. 5 -> Nat])
  /\ t.extra \in Seq(Nat)
  /\ IsIndexed(t.cells)
  /\ \A n \in DOMAIN t.cells :
       /\ DOMAIN t.cells[n] = {"row", "col", "rowSpan", "colSpan", "token"}
       /\ t.cells[n].row \in 0 .. (t.rows - 1) /\ t.cells[n].rowSpan \in Nat \ {0}
       /\ t.cells[n].col \in 0 .. (t.cols - 1) /\ t.cells[n].colSpan \in Nat \ {0}

ASSUME TableAssumption ==
  /\ Word \in Nat \ {0}
  /\ \A t \in Tables : IsTable(t)
  /\ \A d \in DataSets : \A a \in DOMAIN d : d[a].array => IsIndexed(d[a].items)
  \* no simple marker stands for the JSON text of an array
  /\ \A t \in Tables, d \in DataSets : \A k \in DOMAIN t.cells :
       t.cells[k].token.kind = "simple" /\ t.cells[k].token.key \in DOMAIN d =>
         ~d[t.cells[k].token.key].array

VARIABLES given,   \* the table as the parser gave it
          data, policy,
          table,   \* [rows, cols, sizes, border, zones, extra, cells, grid]
          phase,   \* "given", "expanded", "filled", "failed", "saved" or "reopened"
          record   \* the u16 words of the table record from the row count on

vars == <<given, data, policy, table, phase, record>>

Before(c, d) == c.row < d.row \/ (c.row = d.row /\ c.col < d.col)

\* rebuild_grid: a later cell overwrites an earlier one, and what lies outside
\* of the table is dropped.  0 stands for None.
Covers(c, r, k) ==
  /\ r \in c.row .. (c.row + c.rowSpan - 1)
  /\ k \in c.col .. (c.col + c.colSpan - 1)
Grid(rows, cols, cells) ==
  [r \in 0 .. (rows - 1) |-> [k \in 0 .. (cols - 1) |->
     LET at == {n \in DOMAIN cells : Covers(cells[n], r, k)}
     IN IF at = {} THEN 0 ELSE CHOOSE n \in at : \A m \in at : m <= n]]

Init ==
  /\ given \in Tables
  /\ data \in DataSets
  /\ policy \in Policies
  /\ table = [rows |-> given.rows, cols |-> given.cols, sizes |-> given.sizes,
              border |-> given.border, zones |-> given.zones, extra |-> given.extra,
              cells |-> given.cells,
              grid |-> Grid(given.rows, given.cols, given.cells)]
  /\ phase = "given"
  /\ record = << >>

-----------------------------------------------------------------------------
(* expand_table.                                                            *)

Marked(t) == {n \in DOMAIN t.cells : t.cells[n].token.kind = "table"}
\* The first marker in the order of the cells names the row and the array.
FirstMarked(t) == CHOOSE n \in Marked(t) : \A m \in Marked(t) : n <= m
TemplateRow(t) == t.cells[FirstMarked(t)].row
ArrayName(t) == t.cells[FirstMarked(t)].token.array
Items(t) == data[ArrayName(t)]

\* A table is expanded if it has a column and a marker that names an array; a
\* name that the data has not is null.
Marks(t) == t.cols # 0 /\ Marked(t) # {}
Rejected(t) == Marks(t) /\ ArrayName(t) \in BadNames
Expands(t) ==
  Marks(t) /\ ~Rejected(t) /\ ArrayName(t) \in DOMAIN data /\ Items(t).array

Unchanged ==
  /\ phase = "given"
  /\ ~Rejected(table)
  /\ ~Expands(table)
  /\ phase' = "expanded"
  /\ UNCHANGED <<given, data, policy, table, record>>

\* An expression that JMESPath rejects ends the filling of the document.
BadExpression ==
  /\ phase = "given"
  /\ Rejected(table)
  /\ phase' = "failed"
  /\ UNCHANGED <<given, data, policy, table, record>>

Others(cells, row) == {n \in DOMAIN cells : cells[n].row # row}

\* An empty array: the cells of the template row go, and nothing else changes.
Kept(cells, row) ==
  LET others == Others(cells, row)
  IN Ranked([n \in others |-> cells[n]],
            [n \in others |-> Cardinality({m \in others : m <= n})])

RemoveTemplateRow ==
  /\ phase = "given"
  /\ Expands(table)
  /\ Items(table).items = << >>
  /\ LET cells == Kept(table.cells, TemplateRow(table))
     IN table' = [table EXCEPT !.cells = cells,
                               !.grid = Grid(table.rows, table.cols, cells)]
  /\ phase' = "expanded"
  /\ UNCHANGED <<given, data, policy, record>>

\* substitute_table_row: the last part of the expression is looked up in the
\* item, and is empty if it is not there.  Mutant: every marker is looked up.
LookedUp(field, item) == IF field \in DOMAIN item THEN item[field] ELSE Text("")
FilledAlways(token, item) ==
  IF token.kind = "text" THEN token
  ELSE LookedUp(IF token.kind = "table" THEN token.field ELSE token.key, item)
Filled(token, item) ==
  IF token.kind # "table" THEN token ELSE LookedUp(token.field, item)

\* How far the rows below the template row move.  Mutant: a row too far.
ShiftOneMore(n) == n
ShiftBy(n) == n - 1

\* The copies of the template row.  Mutant: all of them in its place.
RowOfFirst(row, i) == row
RowOfCopy(row, i) == (row + i - 1) % Word

\* What is pushed, by the number of the item (0 for the rows that are no copies)
\* and that of the cell; and in which order.
Pushed(cells, row, items) ==
  ({0} \X Others(cells, row)) \cup ((DOMAIN items) \X ((DOMAIN cells) \ Others(cells, row)))

CellOf(cells, row, items, p) ==
  LET c == cells[p[2]]
  IN IF p[1] # 0
       THEN [c EXCEPT !.row = RowOfCopy(row, p[1]), !.token = Filled(@, items[p[1]])]
     ELSE IF c.row > row THEN [c EXCEPT !.row = (@ + ShiftBy(Len(items))) % Word]
     ELSE c

PushedBefore(p, q) == p[1] < q[1] \/ (p[1] = q[1] /\ p[2] < q[2])

\* The sort is stable.
ExpandedCells(cells, row, items) ==
  LET pushed == Pushed(cells, row, items)
      cell == [p \in pushed |-> CellOf(cells, row, items, p)]
      first(p, q) == Before(cell[p], cell[q])
                       \/ (~Before(cell[q], cell[p]) /\ PushedBefore(p, q))
  IN Ranked(cell, [p \in pushed |-> Cardinality({q \in pushed : p = q \/ first(q, p)})])

AtLeastOne(n) == IF n = 0 THEN 1 ELSE n

ExpandRows ==
  /\ phase = "given"
  /\ Expands(table)
  /\ Items(table).items # << >>
  /\ LET items == Items(table).items
         cells == ExpandedCells(table.cells, TemplateRow(table), items)
         rows == AtLeastOne((table.rows + Len(items) - 1) % Word)
     IN table' = [table EXCEPT !.cells = cells, !.rows = rows,
                               !.grid = Grid(rows, table.cols, cells)]
  /\ phase' = "expanded"
  /\ UNCHANGED <<given, data, policy, record>>

-----------------------------------------------------------------------------
(* The cells, copies included, are filled as paragraphs are (TextFill); a   *)
(* table marker that was not expanded stays.                                *)

Known(key) == key \in DOMAIN data
Missing(t) == \E n \in DOMAIN t.cells :
                t.cells[n].token.kind = "simple" /\ ~Known(t.cells[n].token.key)

FilledCell(token) ==
  IF token.kind # "simple" THEN token
  ELSE IF Known(token.key) THEN data[token.key].value
  ELSE IF policy = "empty" THEN Text("") ELSE token

FillCells ==
  /\ phase = "expanded"
  /\ policy = "error" => ~Missing(table)
  /\ table' = [table EXCEPT !.cells =
                 [n \in DOMAIN table.cells |->
                    [table.cells[n] EXCEPT !.token = FilledCell(table.cells[n].token)]]]
  /\ phase' = "filled"
  /\ UNCHANGED <<given, data, policy, record>>

FillCellsFails ==
  /\ phase = "expanded"
  /\ policy = "error"
  /\ Missing(table)
  /\ phase' = "failed"
  /\ UNCHANGED <<given, data, policy, table, record>>

-----------------------------------------------------------------------------
(* The table record: the row count, the column count, the number of cells   *)
(* of every row, the border, the zones of five words each and what follows  *)
(* them; and back.                                                          *)

Words(t) ==
  LET zones == [w \in 1 .. (5 * Len(t.zones)) |->
                  t.zones[((w - 1) \div 5) + 1][((w - 1) % 5) + 1]]
  IN <<t.rows, t.cols>> \o t.sizes \o <<t.border, Len(t.zones)>> \o zones \o t.extra

Save ==
  /\ phase = "filled"
  /\ record' = Words(table)
  /\ phase' = "saved"
  /\ UNCHANGED <<given, data, policy, table>>

Least(a, b) == IF a < b THEN a ELSE b
WordAt(n) == IF n \in DOMAIN record THEN record[n] ELSE 0

\* The words that are taken for row sizes.  Mutant: one too many.
SizesEndLate(rows) == Least(Len(record), rows + 3)
SizesEnd(rows) == Least(Len(record), rows + 2)

\* A zone is read while its five words are there.
Reopen ==
  /\ phase = "saved"
  /\ LET size == SizesEnd(record[1])
         zones == Least(WordAt(size + 2), (IF Len(record) < size + 2 THEN 0
                                            ELSE Len(record) - size - 2) \div 5)
         start(n) == size + 3 + 5 * (n - 1)
     IN table' = [table EXCEPT
                    !.sizes = SubSeq(record, 3, size),
                    !.border = WordAt(size + 1),
                    !.zones = [n \in 1 .. zones |-> SubSeq(record, start(n), start(n) + 4)],
                    !.extra = SubSeq(record, start(zones + 1), Len(record))]
  /\ phase' = "reopened"
  /\ UNCHANGED <<given, data, policy, record>>

Done == phase \in {"failed", "reopened"} /\ UNCHANGED vars

Next == \/ Unchanged \/ BadExpression \/ RemoveTemplateRow \/ ExpandRows
        \/ FillCells \/ FillCellsFails \/ Save \/ Reopen \/ Done

Spec == Init /\ [][Next]_vars

-----------------------------------------------------------------------------
(* Properties.                                                              *)

\* The row and column counts fit their words, every cell is inside of the
\* table and every grid entry is the index of a cell (what rebuild_grid and
\* the layout code index with).
TypeOK ==
  /\ phase \in {"given", "expanded", "filled", "failed", "saved", "reopened"}
  /\ table.rows \in 0 .. (Word - 1)
  /\ table.cols \in 0 .. (Word - 1)
  /\ \A n \in DOMAIN table.cells :
       table.cells[n].row < table.rows /\ table.cells[n].col < table.cols
  /\ \A r \in 0 .. (table.rows - 1), k \in 0 .. (table.cols - 1) :
       table.grid[r][k] \in {0} \cup DOMAIN table.cells

Holders(cells, r, k) == {n \in DOMAIN cells : Covers(cells[n], r, k)}
Tiles(t) == \A r \in 0 .. (t.rows - 1), k \in 0 .. (t.cols - 1) :
              Cardinality(Holders(t.cells, r, k)) = 1

\* Tables whose template row stands alone: no cell is merged across its edges.
RowStandsAlone(t) ==
  \A n \in DOMAIN t.cells :
    LET c == t.cells[n]
    IN TemplateRow(t) \in c.row .. (c.row + c.rowSpan - 1) => c.rowSpan = 1

WellExpanded ==
  /\ Expands(given)
  /\ Items(given).items # << >>
  /\ RowStandsAlone(given)
  /\ Tiles(given)

\* What a slot of the expanded table shows, by the documented rules
\* (template_syntax.md, section 4): rows above stay, copy i shows item i, rows
\* below are Len(items) - 1 further down.
Shown(t, r, k) == LET n == CHOOSE n \in Holders(t.cells, r, k) : TRUE IN t.cells[n].token
ItemOf(r) == LET n == r - TemplateRow(given) + 1
             IN IF n \in DOMAIN Items(given).items THEN {Items(given).items[n]} ELSE {}
Template(r, k) ==
  LET at == TemplateRow(given)
  IN IF r < at THEN Shown(given, r, k)
     ELSE IF ItemOf(r) # {} THEN Shown(given, at, k)
     ELSE Shown(given, r - Len(Items(given).items) + 1, k)
Expected(r, k) ==
  LET token == Template(r, k)
  IN IF ItemOf(r) = {} \/ token.kind # "table" THEN token
     ELSE LookedUp(token.field, CHOOSE i \in ItemOf(r) : TRUE)

\* Looked up through the grid, as the layout code does, every slot of an
\* expanded table shows what the rules say.
ShowsItems ==
  \A r \in 0 .. (table.rows - 1), k \in 0 .. (table.cols - 1) :
    /\ table.grid[r][k] # 0
    /\ table.cells[table.grid[r][k]].token = Expected(r, k)

\* A table whose number of rows was not changed is read back as it was saved:
\* the reader and the writer of the record agree on where every part begins
\* (serialize_table_record, parse_table_record).
SameRowsReopen ==
  phase = "reopened" /\ table.rows = given.rows =>
    /\ table.sizes = given.sizes
    /\ table.border = given.border
    /\ table.zones = given.zones
    /\ table.extra = given.extra

\* The rows of the expanded table can be counted in a word; beyond, they wrap
\* around.
Fits == Expands(given) => given.rows + Len(Items(given).items) - 1 < Word

\* Expanding a table keeps it a table, as long as its rows can be counted: if
\* every slot was covered by one cell and the template row stands alone, every
\* slot of the longer table is covered by one cell again, so that no two rows
\* landed on one another, and before the cells are filled every slot shows its
\* item (expand_table's shift, copies and row count agree, and rebuild_grid
\* indexes what was sorted); and saving keeps it.
RowsInPlace ==
  Fits =>
    /\ TypeOK
    /\ SameRowsReopen
    /\ phase \notin {"given", "failed"} /\ WellExpanded => Tiles(table)
    /\ phase = "expanded" /\ WellExpanded => ShowsItems
=============================================================================
