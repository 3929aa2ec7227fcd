------------------------------- MODULE JoseAlg -------------------------------
(***************************************************************************)
(* Algorithm metadata of src/src/jose.c: the static tables that map a JOSE *)
(* "alg" identifier to a key type, a digest, a key size and a hash length, *)
(* and the lists of supported algorithms.                                  *)
(*                                                                         *)
(* The code compares identifiers with strcmp and, for the signing          *)
(* families, with strncmp(alg, "XX", 2).  TLC cannot take a prefix of a    *)
(* string, so an identifier is a pair <<p, r>>: p is its first two         *)
(* characters and r the rest.  strcmp is equality of pairs and             *)
(* strncmp(alg, p, 2) = 0 is alg[1] = p.  Unknown identifiers are pairs    *)
(* too, so "RSfoo" is <<"RS", "foo">> and maps to RSA exactly as in C.     *)
(***************************************************************************)
EXTENDS Integers, Sequences, Functions

CONSTANTS
    EC_SUPPORT,     \* the compile-time flag OIDC_JOSE_EC_SUPPORT
    GCM_SUPPORT     \* the compile-time flag OIDC_JOSE_GCM_SUPPORT

ASSUME FlagsAssumption == EC_SUPPORT \in BOOLEAN /\ GCM_SUPPORT \in BOOLEAN

\* The CJOSE_HDR_ALG_* identifiers, split as <<first two chars, rest>>.
RS256 == <<"RS", "256">>
RS384 == <<"RS", "384">>
RS512 == <<"RS", "512">>
PS256 == <<"PS", "256">>
PS384 == <<"PS", "384">>
PS512 == <<"PS", "512">>
HS256 == <<"HS", "256">>
HS384 == <<"HS", "384">>
HS512 == <<"HS", "512">>
ES256 == <<"ES", "256">>
ES384 == <<"ES", "384">>
ES512 == <<"ES", "512">>
ALG_NONE == <<"no", "ne">>
ALG_DIR == <<"di", "r">>
A128KW == <<"A1", "28KW">>
A192KW == <<"A1", "92KW">>
A256KW == <<"A2", "56KW">>
RSA1_5 == <<"RS", "A1_5">>
RSA_OAEP == <<"RS", "A-OAEP">>
\* The CJOSE_HDR_ENC_* identifiers.
A128CBC_HS256 == <<"A1", "28CBC-HS256">>
A192CBC_HS384 == <<"A1", "92CBC-HS384">>
A256CBC_HS512 == <<"A2", "56CBC-HS512">>
A256GCM == <<"A2", "56GCM">>

\* The cjose_jwk_kty_t key types, and -1 for "no key type".
KTY_RSA == 1
KTY_EC == 2
KTY_OCT == 3
NoKty == -1
Kty == {KTY_OCT, KTY_RSA, KTY_EC}

KeyWrapAlgs == {A128KW, A192KW, A256KW}

\* A slip for oidc_alg2kty: the "PS" test copied from the "HS" line.
oidc_alg2kty_PSasOct(alg) ==
    IF alg = ALG_DIR \/ alg[1] \in {"HS", "PS"} \/ alg \in KeyWrapAlgs THEN KTY_OCT
    ELSE IF alg[1] = "RS" \/ alg \in {RSA1_5, RSA_OAEP} THEN KTY_RSA
    ELSE IF EC_SUPPORT /\ alg[1] = "ES" THEN KTY_EC
    ELSE NoKty

(***************************************************************************)
(* oidc_alg2kty: the key type that an algorithm requires.  The tests of    *)
(* the code are disjoint, so their order does not matter; the two RSA      *)
(* key-management identifiers also start with "RS" and are caught by the   *)
(* prefix test first.                                                      *)
(***************************************************************************)
oidc_alg2kty(alg) ==
    IF alg = ALG_DIR \/ alg[1] = "HS" \/ alg \in KeyWrapAlgs THEN KTY_OCT
    ELSE IF alg[1] \in {"RS", "PS"} \/ alg \in {RSA1_5, RSA_OAEP} THEN KTY_RSA
    ELSE IF EC_SUPPORT /\ alg[1] = "ES" THEN KTY_EC
    ELSE NoKty

\* Digest sizes in bytes, by bit strength of the algorithm family.
Bits256 == {RS256, PS256, HS256, ES256}
Bits384 == {RS384, PS384, HS384, ES384}
Bits512 == {RS512, PS512, HS512, ES512}

\* oidc_alg2keysize: the symmetric key size an algorithm needs (0: none fixed).
oidc_alg2keysize(alg) ==
    IF alg = A128KW THEN 16
    ELSE IF alg = A192KW THEN 24
    ELSE IF alg = A256KW THEN 32
    ELSE IF alg \in Bits256 \ {ES256} THEN 32
    ELSE IF alg \in Bits384 \ {ES384} THEN 48
    ELSE IF alg \in Bits512 \ {ES512} THEN 64
    ELSE 0

\* oidc_jose_alg_to_openssl_digest: the OpenSSL digest name, or NULL.
oidc_jose_alg_to_openssl_digest(alg) ==
    IF alg \in Bits256 THEN "sha256"
    ELSE IF alg \in Bits384 THEN "sha384"
    ELSE IF alg \in Bits512 THEN "sha512"
    ELSE "NULL"

\* oidc_jose_hash_length: the hash length in bytes (0: unknown algorithm).
oidc_jose_hash_length(alg) ==
    IF alg \in Bits256 THEN 32
    ELSE IF alg \in Bits384 THEN 48
    ELSE IF alg \in Bits512 THEN 64
    ELSE 0

\* oidc_jose_jws_supported_algorithms, in the order the code pushes them.
oidc_jose_jws_supported_algorithms ==
    <<RS256, RS384, RS512, PS256, PS384, PS512, HS256, HS384, HS512>>
    \o (IF EC_SUPPORT THEN <<ES256, ES384, ES512>> ELSE <<>>)
    \o <<ALG_NONE>>

\* oidc_jose_jwe_supported_algorithms.
oidc_jose_jwe_supported_algorithms ==
    <<RSA1_5, A128KW, A192KW, A256KW, RSA_OAEP>>

\* oidc_jose_jwe_supported_encryptions.
oidc_jose_jwe_supported_encryptions ==
    <<A128CBC_HS256, A192CBC_HS384, A256CBC_HS512>>
    \o (IF GCM_SUPPORT THEN <<A256GCM>> ELSE <<>>)

\* oidc_jose_array_has_string: membership in an algorithm list.
oidc_jose_array_has_string(haystack, needle) == needle \in Range(haystack)

\* The three support tests: membership in the corresponding list.
oidc_jose_jws_algorithm_is_supported(alg) ==
    oidc_jose_array_has_string(oidc_jose_jws_supported_algorithms, alg)
oidc_jose_jwe_algorithm_is_supported(alg) ==
    oidc_jose_array_has_string(oidc_jose_jwe_supported_algorithms, alg)
oidc_jose_jwe_encryption_is_supported(enc) ==
    oidc_jose_array_has_string(oidc_jose_jwe_supported_encryptions, enc)

=============================================================================
