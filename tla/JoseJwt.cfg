\* One JWT, parsed or built, with up to four sign and serialize calls and a
\* base64url encoder that does not run out of memory.
CONSTANTS
    MaxOps = 4
    B64_FAILS = FALSE
    EXPORT_FAILS = FALSE
    NULL = NULL
SPECIFICATION Spec
INVARIANT JwtOwnsResources
PROPERTY SerializeFollowsSign
\* A destroyed JWT, or a parse that returned FALSE, has no next step.
CHECK_DEADLOCK FALSE
