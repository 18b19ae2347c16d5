------------------------------ MODULE TextFill ------------------------------
(***************************************************************************)
(* Filling the markers of one paragraph (rhwp-batch/src/template/mod.rs,    *)
(* fill_paragraph) and saving it (rhwp/src/serializer/body_text.rs,         *)
(* serialize_para_text).  A paragraph keeps its text apart from its         *)
(* controls and character shapes: both are tied to the text by positions in *)
(* UTF-16 code units, in which a control takes eight.                       *)
(*                                                                          *)
(* A document is given as a layout, the sequence of glyphs and controls the *)
(* reader sees, each with its shape; the parser's paragraph is made from    *)
(* it.  "{{", "}}", "table:" and a key are glyphs of their own, so a marker *)
(* is as short as a TLC instance needs, and its parts have the widths of    *)
(* Width, which is all that the positions depend on.  Fields, tabs, title   *)
(* marks and automatic numbers, which the serializer places by further      *)
(* rules, do not occur.                                                     *)
(***************************************************************************)
EXTENDS Integers, Sequences, FiniteSets, SequencesExt, Ordered

CONSTANTS Layouts,   \* sequences of [glyph, shape]
          Controls,  \* the glyphs that are controls
          ValueSets,  \* the data files: functions from glyphs to sequences of glyphs
          MissingPolicies   \* of OnMissingKey: "error", "empty", "keep"

Prefixed == {"table:", "image:"}
Width(g) == IF g \in Controls THEN 8 ELSE IF g \in {"{{", "}}"} THEN 2 ELSE 1

ASSUME LayoutAssumption ==
  /\ \A l \in Layouts :
       /\ IsIndexed(l)
       /\ \A k \in DOMAIN l : /\ l[k] = [glyph |-> l[k].glyph, shape |-> l[k].shape]
                             /\ l[k].shape \in Nat
  /\ \A d \in ValueSets : \A key \in DOMAIN d : IsIndexed(d[key])
  /\ MissingPolicies \subseteq {"error", "empty", "keep"}
  /\ Controls \cap (Prefixed \cup {"{{", "}}"}) = {}

VARIABLES layout, values, onMissing,
          stage,     \* "given", "filling", "filled", "failed" or "saved"
          text,      \* para.text, growing and shrinking with every marker
          shapes,    \* para.char_shapes: [pos, id]
          lineSegs,  \* para.line_segs still describe the text
          markers,   \* what find_markers found in the text as it came
          left,      \* markers not yet replaced: how many, from the first on
          deltas,    \* char_shape_deltas: [at, by]
          saved      \* the units the serializer wrote: glyphs and controls

textVars == <<layout, values, onMissing, stage, text, shapes, lineSegs, markers, left, deltas, saved>>

\* The sum of a sequence of numbers.
Total(numbers) ==
  LET upTo[j \in 0 .. Len(numbers)] == IF j = 0 THEN 0 ELSE upTo[j - 1] + numbers[j]
  IN upTo[Len(numbers)]

WidthOf(s) == Total([j \in DOMAIN s |-> Width(s[j])])

-----------------------------------------------------------------------------
(* What the parser makes of a layout.                                       *)

Glyphs(l) == [k \in DOMAIN l |-> l[k].glyph]
PosIn(l, k) == WidthOf(SubSeq(Glyphs(l), 1, k - 1))

IsControl(l, k) == l[k].glyph \in Controls
TextIndices(l) == Ascending({k \in DOMAIN l : ~IsControl(l, k)})
TextOf(l) == LET at == TextIndices(l) IN [j \in DOMAIN at |-> l[at[j]].glyph]
OffsetsOf(l) == LET at == TextIndices(l) IN [j \in DOMAIN at |-> PosIn(l, at[j])]
ControlsOf(l) ==
  LET at == Ascending({k \in DOMAIN l : IsControl(l, k)}) IN [j \in DOMAIN at |-> l[at[j]].glyph]

Changes(l) == {k \in DOMAIN l : k = 1 \/ l[k].shape # l[k - 1].shape}
ShapesOf(l) ==
  LET at == Ascending(Changes(l))
  IN [j \in DOMAIN at |-> [pos |-> PosIn(l, at[j]), id |-> l[at[j]].shape]]

-----------------------------------------------------------------------------
(* find_markers: from left to right, an opening takes the first closing     *)
(* after it; an opening without one is text.                                *)

Closings(s, i) == {j \in DOMAIN s : j > i /\ s[j] = "}}"}

MarkersOf(s) ==
  LET From[i \in 1 .. (Len(s) + 1)] ==
        IF i > Len(s) THEN << >>
        ELSE IF s[i] = "{{" /\ Closings(s, i) # {}
          THEN LET j == CHOOSE c \in Closings(s, i) : \A d \in Closings(s, i) : c <= d
               IN <<[first |-> i, last |-> j]>> \o From[j + 1]
        ELSE From[i + 1]
  IN From[1]

Inner(s, m) == SubSeq(s, m.first + 1, m.last - 1)

\* {{table:...}} and {{image:...}} are left for others.
IsSimple(s, m) == s[m.first + 1] \notin Prefixed

\* resolve_value: nothing for an empty expression, an error for one that is
\* no expression, and what OnMissingKey says for one without a value.
Error == [ok |-> FALSE]
Ok(s) == [ok |-> TRUE, value |-> s]
Resolve(expr) ==
  CASE expr = << >> -> Ok(<< >>)
    [] Len(expr) > 1 \/ expr = <<"{{">> -> Error
    [] OTHER ->
         LET key == expr[1] IN
         IF key \in DOMAIN values THEN Ok(values[key])
         ELSE CASE onMissing = "error" -> Error
                [] onMissing = "empty" -> Ok(<< >>)
                [] onMissing = "keep" -> Ok(<<"{{", key, "}}">>)

-----------------------------------------------------------------------------
(* fill_paragraph.                                                          *)

TextInit ==
  /\ layout \in Layouts
  /\ values \in ValueSets
  /\ onMissing \in MissingPolicies
  /\ stage = "given"
  /\ text = TextOf(layout)
  /\ shapes = ShapesOf(layout)
  /\ lineSegs = TRUE
  /\ markers = << >>
  /\ left = 0
  /\ deltas = << >>
  /\ saved = << >>

FindMarkers ==
  /\ stage = "given"
  /\ markers' = MarkersOf(text)
  /\ left' = Len(markers')
  /\ stage' = IF markers' = << >> THEN "filled" ELSE "filling"
  /\ UNCHANGED <<layout, values, onMissing, text, shapes, lineSegs, deltas, saved>>

\* The markers are replaced from the last to the first.  Mutant: from the first.
NextFromTheFront == markers[Len(markers) - left + 1]
NextMarker == markers[left]

SkipMarker ==
  /\ stage = "filling"
  /\ left > 0
  /\ ~IsSimple(text, NextMarker)
  /\ left' = left - 1
  /\ UNCHANGED <<layout, values, onMissing, stage, text, shapes, lineSegs, markers, deltas, saved>>

\* The position from which shapes move, and by how much.  Mutant: from the
\* start of the marker.
ShiftFromStart(m, replacement) ==
  [at |-> WidthOf(SubSeq(text, 1, m.first - 1)),
   by |-> WidthOf(replacement) - WidthOf(SubSeq(text, m.first, m.last))]
Shift(m, replacement) ==
  [at |-> WidthOf(SubSeq(text, 1, m.last)),
   by |-> WidthOf(replacement) - WidthOf(SubSeq(text, m.first, m.last))]

ReplaceMarker ==
  /\ stage = "filling"
  /\ left > 0
  /\ LET m == NextMarker
         result == Resolve(Inner(text, m))
     IN /\ IsSimple(text, m)
        /\ result.ok
        /\ text' = SubSeq(text, 1, m.first - 1) \o result.value
                     \o SubSeq(text, m.last + 1, Len(text))
        /\ deltas' = LET shift == Shift(m, result.value)
                     IN IF shift.by = 0 THEN deltas ELSE Append(deltas, shift)
  /\ left' = left - 1
  /\ UNCHANGED <<layout, values, onMissing, stage, shapes, lineSegs, markers, saved>>

\* A mutant of ReplaceFails: the marker is left alone and the loop goes on.
ReplaceErrorIgnored ==
  /\ stage = "filling"
  /\ left > 0
  /\ IsSimple(text, NextMarker)
  /\ ~Resolve(Inner(text, NextMarker)).ok
  /\ left' = left - 1
  /\ UNCHANGED <<layout, values, onMissing, stage, text, shapes, lineSegs, markers, deltas, saved>>

\* The first error leaves fill_document, and the filled clone is dropped.
ReplaceFails ==
  /\ stage = "filling"
  /\ left > 0
  /\ IsSimple(text, NextMarker)
  /\ ~Resolve(Inner(text, NextMarker)).ok
  /\ stage' = "failed"
  /\ UNCHANGED <<layout, values, onMissing, text, shapes, lineSegs, markers, left, deltas, saved>>

\* adjust_char_shapes: every delta at or before a shape moves it.
Moved(pos) ==
  LET by == Total([k \in DOMAIN deltas |-> IF pos >= deltas[k].at THEN deltas[k].by ELSE 0])
  IN IF pos + by < 0 THEN 0 ELSE pos + by

\* Does a filled paragraph have line segments?  Mutant: it keeps the old ones.
LinesStay == TRUE
LinesAfter == FALSE

AdjustShapes ==
  /\ stage = "filling"
  /\ left = 0
  /\ shapes' = [k \in DOMAIN shapes |-> [shapes[k] EXCEPT !.pos = Moved(@)]]
  /\ lineSegs' = LinesAfter
  /\ stage' = "filled"
  /\ UNCHANGED <<layout, values, onMissing, text, markers, left, deltas, saved>>

-----------------------------------------------------------------------------
(* serialize_para_text: a control is written before the first text          *)
(* character whose recorded offset leaves room for it; what is left goes to *)
(* the end.  The offsets are those the parser recorded.                     *)

\* How many controls fit between the end of what is written and an offset.
\* Mutant: the last unit of the gap is not used.
RoomStrict(offset, end) == IF offset <= end THEN 0 ELSE (offset - end - 1) \div 8
Room(offset, end) == IF offset < end THEN 0 ELSE (offset - end) \div 8

\* One character is written, and before it the controls there is room for.
Written(acc, j) ==
  LET offsets == OffsetsOf(layout)
      controls == ControlsOf(layout)
      offset == IF j \in DOMAIN offsets THEN offsets[j] ELSE acc.end
      room == Room(offset, acc.end)
      rest == Len(controls) - acc.written
      n == IF room < rest THEN room ELSE rest
  IN [units |-> acc.units \o SubSeq(controls, acc.written + 1, acc.written + n)
                          \o <<text[j]>>,
      written |-> acc.written + n,
      end |-> offset + Width(text[j])]

Serialized ==
  LET upTo[j \in 0 .. Len(text)] ==
        IF j = 0 THEN [units |-> << >>, written |-> 0, end |-> 0]
        ELSE Written(upTo[j - 1], j)
      all == upTo[Len(text)]
      controls == ControlsOf(layout)
  IN all.units \o SubSeq(controls, all.written + 1, Len(controls))

SaveText ==
  /\ stage = "filled"
  /\ saved' = Serialized
  /\ stage' = "saved"
  /\ UNCHANGED <<layout, values, onMissing, text, shapes, lineSegs, markers, left, deltas>>

TextDone == stage \in {"failed", "saved"} /\ UNCHANGED textVars

TextNext == \/ FindMarkers \/ SkipMarker \/ ReplaceMarker \/ ReplaceFails
        \/ AdjustShapes \/ SaveText \/ TextDone

TextSpec == TextInit /\ [][TextNext]_textVars
-----------------------------------------------------------------------------
(* What the saved paragraph shows when it is opened.                        *)

\* The shape of a unit is the last one that starts at or before it.
ShapeAt(pos) ==
  LET at == {k \in DOMAIN shapes : shapes[k].pos <= pos}
  IN IF at = {} THEN 0 ELSE shapes[CHOOSE k \in at : \A j \in at : j <= k].id

Reopened ==
  [k \in DOMAIN saved |->
     [glyph |-> saved[k], shape |-> ShapeAt(WidthOf(SubSeq(saved, 1, k - 1)))]]

-----------------------------------------------------------------------------
(* What it should show, read off the layout: every simple marker gives way  *)
(* to its value in the shape of its opening, and all else is as it was.     *)

TextIndex(k) == Cardinality({j \in 1 .. k : ~IsControl(layout, j)})

MarkerAt(k) ==
  {n \in DOMAIN markers :
     /\ ~IsControl(layout, k)
     /\ TextIndex(k) \in markers[n].first .. markers[n].last
     /\ IsSimple(TextOf(layout), markers[n])}

InPlaceOf(k) ==
  IF MarkerAt(k) = {} THEN <<layout[k]>>
  ELSE LET m == markers[CHOOSE n \in MarkerAt(k) : TRUE]
           value == Resolve(Inner(TextOf(layout), m)).value
       IN IF TextIndex(k) # m.first THEN << >>
          ELSE [j \in DOMAIN value |-> [glyph |-> value[j], shape |-> layout[k].shape]]

ExpectedUnits == FlattenSeq([k \in DOMAIN layout |-> InPlaceOf(k)])

\* Types; and a paragraph whose text changed has no line segments, so that the
\* viewer computes them again (mod.rs:298).
TextTypeOK ==
  /\ layout \in Layouts /\ values \in ValueSets /\ onMissing \in MissingPolicies
  /\ stage \in {"given", "filling", "filled", "failed", "saved"}
  /\ left \in 0 .. Len(markers)
  /\ lineSegs \in BOOLEAN
  /\ stage \in {"filled", "saved"} /\ lineSegs => text = TextOf(layout)
  /\ \A k \in DOMAIN shapes : shapes[k].pos \in Nat
  /\ \A k \in DOMAIN deltas : deltas[k].at \in Nat /\ deltas[k].by \in Int

\* While markers are replaced, those still to come are where they were found,
\* whatever the values are and whatever they contain.
MarkersStayPut ==
  stage = "filling" =>
    \A n \in 1 .. left :
      SubSeq(text, markers[n].first, markers[n].last)
        = SubSeq(TextOf(layout), markers[n].first, markers[n].last)

\* A shape that starts strictly inside a marker has no place to go.
SplitMarker ==
  \E k \in DOMAIN layout :
    /\ k > 1
    /\ layout[k].shape # layout[k - 1].shape
    /\ MarkerAt(k) # {}
    /\ MarkerAt(k - 1) = MarkerAt(k)

\* Controls that no text precedes keep their place, and so does every character
\* of the text: the order in the saved paragraph is right, whatever the shapes
\* (body_text.rs:801-946).
LeadingControlsStay ==
  stage = "saved" /\ text # << >>
    /\ (\A k \in DOMAIN layout :
          IsControl(layout, k) => \A j \in 1 .. k : IsControl(layout, j))
  => saved = Glyphs(ExpectedUnits)

\* Filling fails only for a marker that cannot be resolved, and succeeds only
\* if all can be: the order of replacement hides none.
FailsRightly ==
  stage \in {"failed", "filled", "saved"} =>
    (stage = "failed" <=>
       \E n \in DOMAIN markers :
         LET expr == Inner(TextOf(layout), markers[n]) IN
         IsSimple(TextOf(layout), markers[n]) /\ ~Resolve(expr).ok)

\* Filling fails for the right reason, replaces the right markers and leaves
\* leading controls in place; and a paragraph without controls is saved as
\* expected: every kept character in its shape, every value in its marker's, and
\* a value that looks like a marker as it is (mod.rs:257-302 with 406-421).
FilledAsExpected ==
  /\ TextTypeOK /\ MarkersStayPut /\ FailsRightly /\ LeadingControlsStay
  /\ stage = "saved" /\ ControlsOf(layout) = << >> /\ ~SplitMarker => Reopened = ExpectedUnits
=============================================================================
