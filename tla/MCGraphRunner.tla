---------------------------- MODULE MCGraphRunner ----------------------------
(* The graphs of the instances of GraphRunner.                             *)
EXTENDS GraphRunner

CONSTANTS a, b, c, d

\* An analysis: two inspectors, and of both a tolerant report and a strict review.
AnalysisOrder == <<a, b, c, d>>
AnalysisDeps == a :> {} @@ b :> {} @@ c :> {a, b} @@ d :> {a, b}

\* A lifecycle: two stages in a row, the second gated, and one that follows.
ChainOrder == <<a, b, c>>
ChainDeps == a :> {} @@ b :> {a} @@ c :> {b}
=============================================================================
