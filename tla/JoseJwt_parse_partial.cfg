\* cjose_jws_get_plaintext failing makes oidc_jwt_parse return FALSE with
\* *j_jwt set and the handle and header tree still held.
CONSTANTS
    MaxOps = 1
    B64_FAILS = FALSE
    EXPORT_FAILS = FALSE
    NULL = NULL
SPECIFICATION Spec
INVARIANT ParseFailsClean
CHECK_DEADLOCK FALSE
