----------------------------- MODULE MCTextFill -----------------------------
(* Short paragraphs for TextFill: a layout is spelled as glyphs and shapes.  *)
EXTENDS TextFill

MCControls == {"note", "table"}

Spell(glyphs, shapeOf) ==
  [j \in DOMAIN glyphs |-> [glyph |-> glyphs[j], shape |-> shapeOf[j]]]
\* All ways to change the shape at most once.
OneChange(glyphs) ==
  {Spell(glyphs, [j \in DOMAIN glyphs |-> IF j < at THEN 1 ELSE 2]) :
     at \in 1 .. (Len(glyphs) + 1)}
TwoChanges(glyphs) ==
  {Spell(glyphs, [j \in DOMAIN glyphs |-> IF j < p THEN 1 ELSE IF j < q THEN 2 ELSE 3]) :
     p, q \in 1 .. (Len(glyphs) + 1)}

PlainTexts ==
  {<<"a", "{{", "k", "}}", "b", "{{", "m", "}}">>,
   <<"{{", "k", "}}", "{{", "m", "}}", "c">>,
   <<"a", "{{", "b", "{{", "k", "}}">>,
   <<"{{", "table:", "k", "}}", "a", "{{", "}}", "b", "{{", "m", "}}">>,
   <<"a", "{{", "k">>,
   <<"}}", "{{", "m", "}}", "a">>}
LeadingTexts ==
  {<<"table", "a", "{{", "k", "}}", "b">>,
   <<"note", "table", "{{", "m", "}}", "c">>}

LeadingLayouts == UNION {OneChange(t) : t \in LeadingTexts}
AnchoredLayouts == OneChange(<<"a", "{{", "k", "}}", "note", "b">>)
MCLayouts == UNION {TwoChanges(t) : t \in PlainTexts} \cup LeadingLayouts \cup AnchoredLayouts

Short == [key \in {"k", "m"} |-> << >>]
Long == [key \in {"k", "m"} |-> <<"v", "w", "x", "y", "z", "v", "w">>]
Tricky == [key \in {"k", "m"} |-> IF key = "k" THEN <<"{{", "m", "}}">> ELSE <<"v">>]
Partial == [key \in {"m"} |-> <<"v", "w">>]

MCData == {Short, Long, Tricky, Partial}
AllPolicies == {"error", "empty", "keep"}
=============================================================================
