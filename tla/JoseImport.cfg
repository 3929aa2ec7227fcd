\* oidc_jwk_rsa_bio_to_jwk on every input of up to three certificates, with
\* certificate encoding that succeeds.
CONSTANTS
    MaxChain = 3
    ENCODE_FAILS = FALSE
    EC_SUPPORT = FALSE
    GCM_SUPPORT = FALSE
    NULL = NULL
SPECIFICATION Spec
INVARIANTS
    TypeOK
    ChainLeafFirst
    ResourcesReleased
\* The import returns, or glibc aborts: neither has a next step.
CHECK_DEADLOCK FALSE
