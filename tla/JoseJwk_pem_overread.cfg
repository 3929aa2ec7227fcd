\* oidc_jwk_parse of a JWK that cjose rejects and whose x5c[0] is one
\* character: the PEM loop copies 75 bytes from a 2-byte buffer.
CONSTANTS
    Lengths <- MC_Lengths
    MaxHandles = 1
    APPEND_FAILS = FALSE
    NULL = NULL
SPECIFICATION Spec
INVARIANT ReadsWithinString
CHECK_DEADLOCK FALSE
