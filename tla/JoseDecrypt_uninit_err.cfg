\* The kid-less walk fails without trying any key.
CONSTANTS
    k1 = k1
    k2 = k2
    k3 = k3
    KeyIds <- MC_KeyIds
    JweAlgs <- MC_JweAlgs
    ABSENT_KEYSET = TRUE
    EC_SUPPORT = FALSE
    GCM_SUPPORT = FALSE
    NoKid = NoKid
    Foreign = Foreign
    NULL = NULL
    NOKEY = NOKEY
SPECIFICATION Spec
SYMMETRY MC_Symmetry
INVARIANTS
    DecryptReportsLastAttempt
\* oidc_jwe_decrypt returns: a finished call has no next step.
CHECK_DEADLOCK FALSE
