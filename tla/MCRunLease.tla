---------------------------- MODULE MCRunLease -----------------------------
(* Instances of RunLease for TLC. *)
EXTENDS RunLease, TLC

CONSTANTS r1, r2, a1, a2, w1, w2

OneRun == r1 :> a1
OneAgent == r1 :> a1 @@ r2 :> a1
TwoAgents == r1 :> a1 @@ r2 :> a2
NoPrerequisites == [r \in Runs |-> {}]
Chain == r1 :> {} @@ r2 :> {r1}

WorkerSymmetry == Permutations(Workers)
=============================================================================
