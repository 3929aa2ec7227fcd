------------------------------ MODULE JoseKeys ------------------------------
(***************************************************************************)
(* The keyset handed to oidc_jwt_verify, oidc_jwe_decrypt and              *)
(* oidc_jwt_parse: an apr_hash_t from kid to oidc_jwk_t, or NULL.  Only    *)
(* the key type of a JWK matters to the key resolution code, so a keyset   *)
(* is a function from every possible kid to the type of the key stored     *)
(* under it, NOKEY where apr_hash_get finds nothing.                       *)
(***************************************************************************)
EXTENDS JoseAlg, FiniteSets

CONSTANTS
    KeyIds,         \* kids of the keys a keyset may hold
    ABSENT_KEYSET,  \* whether a caller may pass keys == NULL
    NoKid,          \* the token header has no "kid"
    NULL,           \* the C NULL pointer
    NOKEY           \* apr_hash_get found nothing for this kid

ASSUME KeyIdsAssumption == IsFiniteSet(KeyIds) /\ NoKid \notin KeyIds
ASSUME AbsentAssumption == ABSENT_KEYSET \in BOOLEAN
ASSUME NokeyAssumption == NOKEY \notin Kty

\* Every keyset a caller may pass.
KeySets == [KeyIds -> Kty \cup {NOKEY}] \cup (IF ABSENT_KEYSET THEN {NULL} ELSE {})

\* The kids a keyset holds (apr_hash_count(keys) is their number).
Kids(ks) == IF ks = NULL THEN {} ELSE {k \in KeyIds : ks[k] # NOKEY}
=============================================================================
