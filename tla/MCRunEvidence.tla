---------------------------- MODULE MCRunEvidence ----------------------------
(* Model values and symmetry for the instances of RunEvidence.             *)
EXTENDS RunEvidence

WorkerSymmetry == Permutations(Workers)
=============================================================================
