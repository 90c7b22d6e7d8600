\* Instance for MCWorkLocks; the README says what the run shows.
CONSTANTS
    s1 = s1
    s2 = s2
    lib = lib
    libOps = libOps
    k1 = k1
    k2 = k2
    k3 = k3
    Sessions = {s1, s2}
    Prefixes = {lib, libOps}
    Overlap <- NestedPrefixes
    Rows = {k1, k2, k3}
    Leases = {2, 3}
    Wait = 1
    Horizon = 4

SPECIFICATION Spec
CHECK_DEADLOCK FALSE
SYMMETRY LockSymmetry
INVARIANT HoldersExclude
INVARIANT RetiredLocksAreOver
