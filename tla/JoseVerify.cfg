\* oidc_jwt_verify / serialize / destroy with cjose 0.4 and 0.6.
CONSTANTS
    k1 = k1
    k2 = k2
    k3 = k3
    KeyIds <- MC_KeyIds
    Algs <- MC_Algs
    Versions <- MC_Versions
    ABSENT_KEYSET = TRUE
    EC_SUPPORT = FALSE
    GCM_SUPPORT = FALSE
    NoKid = NoKid
    Forged = Forged
    NULL = NULL
    NOKEY = NOKEY
SPECIFICATION Spec
SYMMETRY MC_Symmetry
INVARIANTS
    TypeOK
    HandleReleasedOnce
    VerifySound
    VerifyComplete
    VerifyExhaustive
\* After oidc_jwt_destroy (or a crash) no operation applies to the JWT.
CHECK_DEADLOCK FALSE
