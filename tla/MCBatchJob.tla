----------------------------- MODULE MCBatchJob -----------------------------
(* Small Jobs for BatchJob.                                                  *)
EXTENDS BatchJob

CONSTANTS i1, i2, i3

ThreeInputs == {i1, i2, i3}
TwoInputs == {i1, i2}
NoneOrOne == {{}, {i3}}
None == {{}}
BothModes == {"fill", "to-json"}
ToJsonOnly == {"to-json"}
OnOrOff == BOOLEAN
Off == {FALSE}
=============================================================================
