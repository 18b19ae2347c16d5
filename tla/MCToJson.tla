------------------------------- MODULE MCToJson -------------------------------
(* Small documents for ToJson.                                               *)
EXTENDS ToJson

Plain(level, text) == [level |-> level, text |-> text, controls |-> << >>]
Holding(text, controls) == [level |-> 0, text |-> text, controls |-> controls]
Cell(r, k, text) == [row |-> r, col |-> k, rowSpan |-> 1, colSpan |-> 1, text |-> text]

TableOf(rows, cols, cells, gridded, caption) ==
  [kind |-> "table", rows |-> rows, cols |-> cols, cells |-> cells,
   gridded |-> gridded, caption |-> caption]
PictureOf(image, caption) == [kind |-> "picture", image |-> image, caption |-> caption]
NoteOf(kind, text) == [kind |-> kind, text |-> text]
Other == [kind |-> "other"]

Merged == <<[Cell(0, 0, "A") EXCEPT !.colSpan = 2], Cell(0, 2, "B"),
            [Cell(1, 0, "c") EXCEPT !.rowSpan = 2], Cell(1, 1, "d"), Cell(1, 2, "e"),
            Cell(2, 1, "f"), Cell(2, 2, "g")>>
Twins == <<Cell(0, 0, "A"), Cell(0, 1, "A"), Cell(1, 0, "b"), Cell(1, 1, "c")>>

\* What a paragraph may be.
Paras ==
  {Plain(1, "one"), Plain(2, "two"), Plain(2, "TWO"), Plain(3, "three"), Plain(0, "text"), Plain(0, ""),
   Holding("", <<Other, PictureOf(1, "pic")>>),
   Holding("with", <<NoteOf("footnote", "note"), Other>>)}
Holders ==
  {Holding("", <<TableOf(3, 3, Merged, g, c)>>) : g \in BOOLEAN, c \in {"", "cap"}}
   \cup {Holding("", <<TableOf(0, 0, << >>, FALSE, "cap"), NoteOf("header", ""), NoteOf("endnote", "end")>>),
         Holding("", <<PictureOf(1, "")>>), Holding("", <<PictureOf(2, "pic"), PictureOf(1, "")>>)}

DocOf(name, ext, paras, images) ==
  [name |-> name, ext |-> ext, parses |-> TRUE, paras |-> paras, images |-> images]
Bad == [DocOf("bad", "hwp", << >>, << >>) EXCEPT !.parses = FALSE]

One == [i \in {1} |-> "cat"]
Two == [i \in {1} |-> "dog"]

\* One document: three paragraphs and one that holds something.
SingleTrees == {<<DocOf("a", "hwp", <<p, q, h, r>>, One)>> : p, q, r \in Paras, h \in Holders}

Pictured(name, ext, images) ==
  DocOf(name, ext, <<Holding("", <<PictureOf(1, ""), PictureOf(2, "")>>), Plain(0, "end")>>, images)
SeveralTrees ==
  {<<Pictured("a", "hwp", One), Pictured("b", "hwp", Two)>>,
   <<Bad, Pictured("a", "hwp", One)>>,
   <<Pictured("a", "hwp", One), Pictured("a", "hwpx", Two), Pictured("b", "hwp", Two)>>}

\* Two headers are equal; a paragraph with text holds a table; no images.
OddTrees ==
  {<<DocOf("a", "hwp", <<Holding("order", <<TableOf(2, 2, Twins, g, "")>>)>>, << >>)>> : g \in BOOLEAN}

AllTrees == SingleTrees \cup SeveralTrees \cup OddTrees

OnOrOff == BOOLEAN
=============================================================================
