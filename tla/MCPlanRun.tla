------------------------------ MODULE MCPlanRun ------------------------------
(* Three commands on two documents.                                          *)
EXTENDS PlanRun

CONSTANTS p1, p2, p3, f, g, a, b, c, n

ThreeProcs == {p1, p2, p3}
TwoPaths == {f, g}
ThirdPlace == {3}

FourPlaces == 1 .. 4
FivePlaces == 1 .. 5

\* Two check boxes, a cell, a field, and a text box in a cell, which grep misses.
OneDisk == {[x \in TwoPaths |->
  IF x = f THEN [text |-> <<Box, Box, a, a, a>>, fields |-> [y \in {n} |-> 4]]
           ELSE [text |-> <<a, b>>, fields |-> [y \in {n} |-> 2]]]}

RunPlan(in, out, cas, steps, dryRun, verify) ==
  [tool |-> "run", input |-> in, output |-> out, cas |-> cas, steps |-> steps,
   dryRun |-> dryRun, verify |-> verify]
Edit(in, out, cas, step, verify) ==
  [RunPlan(in, out, cas, <<step>>, FALSE, verify) EXCEPT !.tool = "edit"]

\* The second step of TickBoth meets one box less.  In WhileBoxes the first step
\* takes the boxes that the second has as its condition, the third misses one place
\* and finds another that grep does not, and the last is skipped, although the fourth
\* makes its condition true.
CellThenTick == <<SetCell(3, b), SetCheckbox(1)>>
TickBoth == <<SetCheckbox(0), SetCheckbox(1)>>
WhileBoxes == <<If(TextFound(Box), ReplaceText(Box, Ticked, All)),
                If(TextFound(Box), SetCell(3, b)),
                ReplaceText(a, c, All),
                FillField(n, b),
                If(FieldEquals(n, b), SetCell(1, b))>>

JobList ==
  <<RunPlan(f, f, TRUE, CellThenTick, FALSE, TRUE),
    RunPlan(f, f, TRUE, WhileBoxes, FALSE, FALSE),
    Edit(f, f, TRUE, ReplaceText(a, b, All), TRUE),
    RunPlan(f, f, FALSE, WhileBoxes, TRUE, FALSE),
    RunPlan(f, g, FALSE, TickBoth, FALSE, FALSE),
    Edit(g, f, TRUE, ReplaceText(a, b, 0), FALSE)>>
ManyJobs == {JobList[i] : i \in 1 .. 6}

\* Which process runs which command does not matter.
Sorted ==
  {[x \in ThreeProcs |-> JobList[IF x = p1 THEN t[1] ELSE IF x = p2 THEN t[2] ELSE t[3]]] :
     t \in {u \in (1 .. 6) \X (1 .. 6) \X (1 .. 6) : u[1] <= u[2] /\ u[2] <= u[3]}}
=============================================================================
