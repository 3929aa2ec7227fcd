\* cjose 0.3 (before 0.5.0, not matched by the "0.4." prefix test).
CONSTANTS
    k1 = k1
    k2 = k2
    k3 = k3
    KeyIds <- MC_KeyIds
    Algs <- MC_Algs
    Versions <- MC_VersionsOld
    ABSENT_KEYSET = FALSE
    EC_SUPPORT = FALSE
    GCM_SUPPORT = FALSE
    NoKid = NoKid
    Forged = Forged
    NULL = NULL
    NOKEY = NOKEY
SPECIFICATION Spec
SYMMETRY MC_Symmetry
INVARIANT HandleReleasedOnce
CHECK_DEADLOCK FALSE
