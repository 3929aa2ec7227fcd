\* oidc_jwt_verify called with keys == NULL.
CONSTANTS
    k1 = k1
    k2 = k2
    k3 = k3
    KeyIds <- MC_KeyIds
    Algs <- MC_Algs
    Versions <- MC_Versions
    ABSENT_KEYSET = TRUE
    EC_SUPPORT = FALSE
    GCM_SUPPORT = FALSE
    NoKid = NoKid
    Forged = Forged
    NULL = NULL
    NOKEY = NOKEY
SPECIFICATION Spec
SYMMETRY MC_Symmetry
INVARIANT KeysetFailsFast
CHECK_DEADLOCK FALSE
