\* Up to three keys made by parse, create_symmetric_key and the key-file
\* import, with every failure of cjose, OpenSSL and jansson except an
\* append failure in to_json, and x5c texts around the 75-character line.
CONSTANTS
    Lengths <- MC_Lengths
    MaxHandles = 3
    APPEND_FAILS = FALSE
    NULL = NULL
SPECIFICATION FairSpec
INVARIANTS
    KeyMaterialReleasedOnce
    NothingLeaked
PROPERTIES
    PemImplementsSpec
    ParseReturns
\* A PEM copy that faults ends the process: nothing follows it.
CHECK_DEADLOCK FALSE
