---------------------------- MODULE MCBatchRunner ----------------------------
(* Small batches for BatchRunner: three items, at most three threads.       *)
EXTENDS BatchRunner, TLC

CONSTANTS d1, d2, d3, p1, p2, p3

MCData == {d1, d2, d3}
MCPath == {p1, p2, p3}

Pair(d, p) == [data |-> d, output |-> p]

NoItems == << >>
DistinctBatch == <<Pair(d1, p1), Pair(d2, p2), Pair(d3, p3)>>
SharedBatch == <<Pair(d1, p1), Pair(d2, p1), Pair(d3, p2)>>

ConfigsWith(threads) ==
  [onErrorContinue : BOOLEAN, overwrite : BOOLEAN, threads : threads]

\* p2 and p3 are symmetric enough to keep only some of the outputs taken.
FreshTree == [p \in MCPath |-> "missing"]
OneTaken == [FreshTree EXCEPT ![p2] = "prior"]
FirstTaken == [FreshTree EXCEPT ![p1] = "prior"]
AllTaken == [p \in MCPath |-> "prior"]

MCBatches == {NoItems, DistinctBatch, SharedBatch}
MCConfigs == ConfigsWith({0, 2, 3})
MCPrior == {FreshTree, OneTaken, FirstTaken, AllTaken}
=============================================================================
