---------------------------- MODULE MCLogCommands ----------------------------
(* Two processes on one log, and mutants of the commands.                    *)
EXTENDS LogCommands, TLC

CONSTANTS p1, p2, c1, c2

TwoProcs == {p1, p2}
TwoCapsules == {c1, c2}
BothKinds == {"anchorLog", "settlementLedger"}
Symmetric == Permutations(TwoProcs) \cup Permutations(TwoCapsules)
=============================================================================
