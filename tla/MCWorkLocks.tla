------------------------------ MODULE MCWorkLocks ------------------------------
(* The prefixes of the instances of WorkLocks: one starts the other.         *)
EXTENDS WorkLocks, TLC

CONSTANTS s1, s2, lib, libOps, k1, k2, k3

LockSymmetry == Permutations({s1, s2}) \cup Permutations({k1, k2, k3})

NestedPrefixes == {<<lib, lib>>, <<libOps, libOps>>, <<lib, libOps>>, <<libOps, lib>>}
=============================================================================
