--------------------------- MODULE MCRepagination ---------------------------
EXTENDS Repagination, TLC

CONSTANTS rows, whole, a, b

ATable(k) == [kind |-> k, height |-> 1]
AText == [kind |-> Text, height |-> 1]
SectionOf(paras, restarts) == [paras |-> paras, restarts |-> restarts]

\* A table alone; a table in a section before a text, which is numbered on or
\* from one.
SomeDocuments ==
  { <<SectionOf(<<ATable(rows)>>, FALSE)>> }
  \cup { <<SectionOf(<<ATable(whole)>>, FALSE), SectionOf(<<AText>>, r)>> : r \in BOOLEAN }

ThreeOrTwo == <<3, 2>>
Three == <<3, 3>>
OneOrTwo == {1, 2}
BothTables == {rows, whole}
RowBroken == {rows}
TwoCells == {a, b}
SameCells == Permutations(TwoCells)
=============================================================================
