------------------------- MODULE MCStreamRecords -------------------------
(* Small streams for StreamRecords: the verdicts of five records.           *)
EXTENDS StreamRecords, TLC

Stream5(a, b, c, d, e) == (0 :> a) @@ (1 :> b) @@ (2 :> c) @@ (3 :> d) @@ (4 :> e)
Clean == {Stream5("clean", "clean", "clean", "clean", "clean")}

\* Every verdict comes first, last and alone; each meets every other.
MCOutcomes == Clean \cup
  {Stream5("error", "pages", "ir", "clean", "clean"),
   Stream5("clean", "clean", "ir", "pages", "error"),
   Stream5("ir", "clean", "clean", "error", "ir"),
   Stream5("pages", "ir", "clean", "clean", "pages"),
   Stream5("clean", "ir", "clean", "clean", "clean")}
=============================================================================
