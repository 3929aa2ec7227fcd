\* The second certificate of a chain makes realloc grow memory apr_pcalloc handed out.
CONSTANTS
    MaxChain = 2
    ENCODE_FAILS = FALSE
    EC_SUPPORT = FALSE
    GCM_SUPPORT = FALSE
    NULL = NULL
SPECIFICATION Spec
INVARIANT X5cOwnedByPool
CHECK_DEADLOCK FALSE
