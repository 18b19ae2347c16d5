------------------------------ MODULE PlanSteps ------------------------------
(***************************************************************************)
(* The steps of an edit plan (`rhwp run`), as its engine judges and         *)
(* executes them: judging looks at the document as it was read, executing   *)
(* at the document as the earlier steps left it.                            *)
(*                                                                          *)
(* A document is a text, one word per place in the order of the search, and *)
(* the place of each field.  Some places are table cells.  Judging looks a  *)
(* word up with grep and replacing with search_all, and these two do not    *)
(* visit the same places: only search_all goes into a text box in a cell.   *)
(***************************************************************************)
EXTENDS Integers, Sequences, FiniteSets

CONSTANTS Box, Ticked, \* the words of an empty and of a ticked check box
          All,         \* in place of an occurrence: every match
          Cells,       \* the places of the text that are cells
          Grepped,     \* the places that grep visits
          Searched     \* the places that search_all visits

IsDocument(doc) ==
  /\ DOMAIN doc = {"text", "fields"}
  /\ DOMAIN doc.text \subseteq Nat /\ IsFiniteSet(DOMAIN doc.text)
  /\ \A name \in DOMAIN doc.fields : doc.fields[name] \in DOMAIN doc.text \ Cells

Always == [kind |-> "always"]
FieldEquals(name, value) == [kind |-> "fieldEquals", name |-> name, value |-> value]
TextFound(word) == [kind |-> "textFound", word |-> word]

ReplaceText(find, value, occurrence) ==
  [action |-> "replace", find |-> find, value |-> value,
   occurrence |-> occurrence, if |-> Always]
SetCheckbox(occurrence) == ReplaceText(Box, Ticked, occurrence)
FillField(name, value) ==
  [action |-> "fill_fields", name |-> name, value |-> value, if |-> Always]
SetCell(cell, value) ==
  [action |-> "set_cell", cell |-> cell, value |-> value, if |-> Always]
If(condition, step) == [step EXCEPT !.if = condition]

IsPlan(steps) ==
  /\ Len(steps) \in Nat /\ DOMAIN steps = 1 .. Len(steps)
  /\ \A k \in DOMAIN steps :
       /\ steps[k].action \in {"replace", "fill_fields", "set_cell"}
       /\ steps[k].action = "replace" => steps[k].occurrence \in Nat \cup {All}

PlacesOf(doc, word) == {i \in DOMAIN doc.text : doc.text[i] = word}
Found(doc, word) == PlacesOf(doc, word) \cap Grepped
Matches(doc, word) == PlacesOf(doc, word) \cap Searched

Holds(condition, doc) ==
  CASE condition.kind = "always" -> TRUE
    [] condition.kind = "fieldEquals" ->
         /\ condition.name \in DOMAIN doc.fields
         /\ doc.text[doc.fields[condition.name]] = condition.value
    [] condition.kind = "textFound" -> Found(doc, condition.word) # {}

\* Can the step be executed on this document?
Feasible(step, doc) ==
  CASE step.action = "fill_fields" -> step.name \in DOMAIN doc.fields
    [] step.action = "set_cell" -> step.cell \in Cells \cap DOMAIN doc.text
    [] step.action = "replace" ->
         LET count == Cardinality(Found(doc, step.find))
         IN IF step.occurrence = All THEN count > 0 ELSE step.occurrence < count

\* A step whose condition is false is skipped, and it need not be feasible.
Skipped(steps, input) == {k \in DOMAIN steps : ~Holds(steps[k].if, input)}

Invalid(steps, input) ==
  {k \in DOMAIN steps \ Skipped(steps, input) : ~Feasible(steps[k], input)}

\* How many places the preview of a dry run says a step will replace.
WillReplace(step, input) ==
  IF step.occurrence = All THEN Cardinality(Found(input, step.find)) ELSE 1

\* replace_nth beyond the last match replaces nothing, and is no error.
Places(step, doc) ==
  LET matches == Matches(doc, step.find)
  IN IF step.occurrence = All THEN matches
     ELSE {i \in matches : Cardinality({j \in matches : j < i}) = step.occurrence}

\* The places a step writes.
Written(step, doc) ==
  CASE step.action = "replace" -> Places(step, doc)
    [] step.action = "fill_fields" -> {doc.fields[step.name]}
    [] step.action = "set_cell" -> {step.cell}

Applied(step, doc) ==
  [doc EXCEPT !.text = [i \in DOMAIN doc.text |->
     IF i \in Written(step, doc) THEN step.value ELSE doc.text[i]]]

\* Which steps the run skips: the conditions were judged before it, on the input.
\* Mutant: each is judged when its turn comes.
SkipsNow(steps, input, doc, k) == ~Holds(steps[k].if, doc)
Skips(steps, input, doc, k) == k \in Skipped(steps, input)

\* The documents before the first step and after each.
Trace(steps, input) ==
  LET after[k \in 0 .. Len(steps)] ==
        IF k = 0 THEN input
        ELSE IF Skips(steps, input, after[k - 1], k) THEN after[k - 1]
        ELSE Applied(steps[k], after[k - 1])
  IN after

Executed(steps, input) == Trace(steps, input)[Len(steps)]

SkippedEntry == [skipped |-> TRUE]

\* What the journal of a run says of a step, and the preview of a dry run: how many
\* places are replaced, what the cell says that is overwritten.
Journalled(step, doc) ==
  CASE step.action = "replace" -> [replaced |-> Cardinality(Places(step, doc))]
    [] step.action = "fill_fields" -> [filled |-> step.value]
    [] step.action = "set_cell" -> [old |-> doc.text[step.cell]]
Previewed(step, input) ==
  CASE step.action = "replace" -> [replaced |-> WillReplace(step, input)]
    [] step.action = "fill_fields" -> [filled |-> step.value]
    [] step.action = "set_cell" -> [old |-> input.text[step.cell]]

Journal(steps, input) ==
  LET doc == Trace(steps, input)
  IN [k \in DOMAIN steps |->
       IF Skips(steps, input, doc[k - 1], k) THEN SkippedEntry
       ELSE Journalled(steps[k], doc[k - 1])]

Preview(steps, input) ==
  [k \in DOMAIN steps |->
     IF k \in Skipped(steps, input) THEN SkippedEntry ELSE Previewed(steps[k], input)]
-----------------------------------------------------------------------------
\* Where a step may write, and which places decide what it does, as the input tells.
MayWrite(step, input) ==
  IF step.action = "replace" THEN PlacesOf(input, step.find) ELSE Written(step, input)
Sees(step, input) ==
  CASE step.action = "replace" -> PlacesOf(input, step.find)
    [] step.action = "set_cell" -> {step.cell}
    [] step.action = "fill_fields" -> {}

\* A step disturbs another if it may overwrite what that one looks for, or writes it.
Disturbs(first, second, input) ==
  \/ MayWrite(first, input) \cap Sees(second, input) # {}
  \/ second.action = "replace" /\ first.value = second.find

\* A step is clear if no executed step before it disturbs it, and if both searches
\* see all it looks for.
Clear(steps, input, k) ==
  /\ \A j \in DOMAIN steps \ Skipped(steps, input) :
       j < k => ~Disturbs(steps[j], steps[k], input)
  /\ steps[k].action = "replace" =>
       PlacesOf(input, steps[k].find) \subseteq Grepped \cap Searched
=============================================================================
