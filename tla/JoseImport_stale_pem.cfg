\* A chain certificate that fails to encode leaves the previous certificate's text in its x5c slot.
CONSTANTS
    MaxChain = 2
    ENCODE_FAILS = TRUE
    EC_SUPPORT = FALSE
    GCM_SUPPORT = FALSE
    NULL = NULL
SPECIFICATION Spec
INVARIANT ChainEntriesExact
CHECK_DEADLOCK FALSE
