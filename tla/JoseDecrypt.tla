------------------------------ MODULE JoseDecrypt ------------------------------
(***************************************************************************)
(* oidc_jwe_decrypt and oidc_jwe_decrypt_impl of src/src/jose.c: import    *)
(* the input as a JWE, then decrypt it with the key its kid names or, with *)
(* no kid, with every key whose type matches the algorithm until one       *)
(* succeeds.  An input that is not a JWE is passed through unless the      *)
(* caller demands a JWE.                                                   *)
(*                                                                         *)
(* cjose_jwe_decrypt succeeds only with the key the content key was        *)
(* wrapped for, and only if that key has the type the algorithm needs.     *)
(* The local cjose_err of oidc_jwe_decrypt_impl is never initialised; it   *)
(* is written by a failed cjose_jwe_decrypt only (cjose_header_get does    *)
(* not write it when a header is merely absent).  cjoseErr records which   *)
(* attempt last wrote it, "uninit" if none did.                            *)
(***************************************************************************)
EXTENDS JoseKeys

CONSTANTS
    JweAlgs,    \* "alg" values a JWE header may carry
    Foreign     \* a content key wrapped for no key of KeyIds

ASSUME ForeignAssumption == Foreign \notin KeyIds
ASSUME JweAlgsAssumption == JweAlgs \subseteq (STRING \X STRING)
\* The NULL pointer is none of the texts *s_json may point to.
ASSUME NullAssumption == NULL \notin {"plaintext", "input"}

VARIABLES
    keys,        \* the keyset: kid -> key type (NOKEY: no such kid), or NULL
    input,       \* the input text: [jwe: parses as a JWE, alg, kid]
    encrypter,   \* the key the content encryption key was wrapped for
    mustSucceed, \* import_must_succeed
    pc,          \* "start", "loop" (kid-less walk), "done", "crashed"
    todo,        \* keys the hash iterator has not visited yet
    tried,       \* keys passed to cjose_jwe_decrypt
    decrypted,   \* the local decrypted: NULL or "plaintext"
    cjoseErr,    \* the key whose failed attempt last wrote cjose_err, or "uninit"
    reported,    \* the error oidc_jose_error recorded: a kind and the cjose_err it shows
    out,         \* *s_json: NULL, "plaintext" or "input" (the input passed through)
    fault        \* "none", or the undefined behaviour the code reached

vars == <<keys, input, encrypter, mustSucceed, pc, todo, tried, decrypted,
          cjoseErr, reported, out, fault>>

ErrVals == KeyIds \cup {"uninit"}
\* An error report: what failed, and the cjose_err it shows ("-": none).
Reports == [kind : {"none", "import", "no_keys", "not_found", "kid", "any"},
            err : ErrVals \cup {"-"}]
Report(kind) == [kind |-> kind, err |-> "-"]

\* The key type cjose_jwe_decrypt demands for a key management algorithm.
ProviderKty(alg) ==
    IF alg \in {RSA1_5, RSA_OAEP} THEN KTY_RSA
    ELSE IF alg \in KeyWrapAlgs \cup {ALG_DIR} THEN KTY_OCT
    ELSE NoKty

\* A slip for NoKeysConfigured: test apr_hash_count(keys) only.
EmptyKeysetOnly == keys # NULL /\ Kids(keys) = {}

\* The test at the top of oidc_jwe_decrypt_impl.
NoKeysConfigured == keys = NULL \/ Kids(keys) = {}

\* A slip for KidFound: use the looked-up JWK without testing it for NULL.
KidFoundUnchecked(kid) == TRUE

\* apr_hash_get(keys, kid) returned a JWK.
KidFound(kid) == kid \in Kids(keys)

\* The test of the kid-less walk: the key has the algorithm's key type.
IsCandidate(k) == keys[k] = oidc_alg2kty(input.alg)

(***************************************************************************)
(* decrypted = cjose_jwe_decrypt(jwe, jwk->cjose_jwk, ...) with key k; a   *)
(* failure writes cjose_err.                                               *)
(***************************************************************************)
cjose_jwe_decrypt(k) ==
    LET ok == k = encrypter /\ keys[k] = ProviderKty(input.alg)
    IN  /\ decrypted' = IF ok THEN "plaintext" ELSE NULL
        /\ cjoseErr' = IF ok THEN cjoseErr ELSE k
        /\ tried' = tried \cup {k}

Init ==
    /\ keys \in KeySets
    /\ input \in [jwe : BOOLEAN, alg : JweAlgs, kid : KeyIds \cup {NoKid}]
    /\ encrypter \in KeyIds \cup {Foreign}
    /\ mustSucceed \in BOOLEAN
    /\ pc = "start"
    /\ todo = {}
    /\ tried = {}
    /\ decrypted = NULL
    /\ cjoseErr = "uninit"
    /\ reported = Report("none")
    /\ out = NULL
    /\ fault = "none"

\* oidc_jwe_decrypt: cjose_jwe_import fails; pass the input through unless
\* the import must succeed.
ImportFails ==
    /\ pc = "start"
    /\ ~input.jwe
    /\ pc' = "done"
    /\ out' = IF mustSucceed THEN NULL ELSE "input"
    /\ reported' = IF mustSucceed THEN Report("import") ELSE reported
    /\ UNCHANGED <<keys, input, encrypter, mustSucceed, todo, tried, decrypted,
                   cjoseErr, fault>>

\* oidc_jwe_decrypt_impl with no keys: fail before any attempt.
DecryptNoKeys ==
    /\ pc = "start"
    /\ input.jwe
    /\ NoKeysConfigured
    /\ pc' = "done"
    /\ reported' = Report("no_keys")
    /\ UNCHANGED <<keys, input, encrypter, mustSucceed, todo, tried, decrypted,
                   cjoseErr, out, fault>>

\* oidc_jwe_decrypt_impl with a kid: look it up and make one attempt; then
\* oidc_jwe_decrypt copies the plaintext out.  apr_hash_get on a NULL
\* keyset crashes.
DecryptKid ==
    /\ pc = "start"
    /\ input.jwe
    /\ ~NoKeysConfigured
    /\ input.kid # NoKid
    /\ IF keys = NULL
          THEN /\ pc' = "crashed"
               /\ fault' = "null_keyset"
               /\ UNCHANGED <<tried, decrypted, cjoseErr, reported, out>>
          ELSE /\ pc' = "done"
               /\ UNCHANGED fault
               /\ IF KidFound(input.kid)
                     THEN /\ cjose_jwe_decrypt(input.kid)
                          /\ out' = decrypted'
                          /\ reported' = IF decrypted' = NULL
                                            THEN [kind |-> "kid", err |-> cjoseErr']
                                            ELSE reported
                     ELSE /\ reported' = Report("not_found")
                          /\ UNCHANGED <<tried, decrypted, cjoseErr, out>>
    /\ UNCHANGED <<keys, input, encrypter, mustSucceed, todo>>

\* oidc_jwe_decrypt_impl without a kid: start the walk over the hash
\* (apr_hash_first on a NULL keyset crashes).
DecryptStart ==
    /\ pc = "start"
    /\ input.jwe
    /\ ~NoKeysConfigured
    /\ input.kid = NoKid
    /\ IF keys = NULL
          THEN /\ pc' = "crashed"
               /\ fault' = "null_keyset"
               /\ UNCHANGED todo
          ELSE /\ pc' = "loop"
               /\ todo' = Kids(keys)
               /\ UNCHANGED fault
    /\ UNCHANGED <<keys, input, encrypter, mustSucceed, tried, decrypted,
                   cjoseErr, reported, out>>

\* A slip for LoopExits: leave the walk after the first key whatever happened.
ExitAfterFirstKey(dec) == TRUE

\* The walk's exit test: if (decrypted != NULL) break;
LoopExits(dec) == dec # NULL

\* One iteration of the walk: try the key if its type matches; on success
\* break and hand the plaintext out.
DecryptStep ==
    /\ pc = "loop"
    /\ \E k \in todo :
         /\ IF IsCandidate(k)
               THEN cjose_jwe_decrypt(k)
               ELSE UNCHANGED <<tried, decrypted, cjoseErr>>
         /\ todo' = todo \ {k}
         /\ IF LoopExits(decrypted')
               THEN pc' = "done" /\ out' = decrypted'
               ELSE UNCHANGED <<pc, out>>
    /\ UNCHANGED <<keys, input, encrypter, mustSucceed, reported, fault>>

\* The walk ends without success: report the number of keys and the
\* cjose_err "for last tried key".
DecryptEnd ==
    /\ pc = "loop"
    /\ todo = {}
    /\ pc' = "done"
    /\ out' = decrypted
    /\ reported' = IF decrypted = NULL THEN [kind |-> "any", err |-> cjoseErr]
                                            ELSE reported
    /\ UNCHANGED <<keys, input, encrypter, mustSucceed, todo, tried, decrypted,
                   cjoseErr, fault>>

Next ==
    \/ ImportFails
    \/ DecryptNoKeys
    \/ DecryptKid
    \/ DecryptStart
    \/ DecryptStep
    \/ DecryptEnd

Spec == Init /\ [][Next]_vars

-----------------------------------------------------------------------------
TypeOK ==
    /\ keys \in KeySets
    /\ input \in [jwe : BOOLEAN, alg : JweAlgs, kid : KeyIds \cup {NoKid}]
    /\ encrypter \in KeyIds \cup {Foreign}
    /\ mustSucceed \in BOOLEAN
    /\ pc \in {"start", "loop", "done", "crashed"}
    /\ todo \in SUBSET Kids(keys)
    /\ tried \in SUBSET Kids(keys)
    /\ decrypted \in {NULL, "plaintext"}
    /\ cjoseErr \in ErrVals
    /\ reported \in Reports
    /\ out \in {NULL, "plaintext", "input"}
    /\ fault \in {"none", "null_keyset"}

\* The keys oidc_jwe_decrypt_impl may use: the one the kid names, or,
\* without a kid, those of the algorithm's type.
Candidates ==
    IF input.kid = NoKid THEN {k \in Kids(keys) : IsCandidate(k)}
    ELSE Kids(keys) \cap {input.kid}

\* Key k of the keyset unwraps the content key.
Decryptable(k) == k \in Kids(keys) /\ k = encrypter /\ keys[k] = ProviderKty(input.alg)

(***************************************************************************)
(* A JWE that oidc_jwe_decrypt fails to decrypt could be decrypted by no   *)
(* key the resolution may use: a failed attempt with one key never ends    *)
(* the walk before the right key was tried.                                *)
(***************************************************************************)
DecryptComplete ==
    (pc = "done" /\ input.jwe /\ out = NULL)
        => \A k \in Candidates : ~Decryptable(k)

(***************************************************************************)
(* An absent or empty keyset makes oidc_jwe_decrypt fail a JWE before any  *)
(* call of cjose_jwe_decrypt and without dereferencing the keyset (spec    *)
(* §4.5 "an empty or absent keyset is always a fail-fast error").          *)
(***************************************************************************)
KeysetFailsFast ==
    (input.jwe /\ Kids(keys) = {})
        => (tried = {} /\ fault = "none" /\ out # "plaintext")

(***************************************************************************)
(* When the kid-less walk fails, the error it records shows the cjose_err  *)
(* of the last key it tried, as its message says ("error for last tried    *)
(* key is: %s"), never the uninitialised cjose_err.                        *)
(***************************************************************************)
DecryptReportsLastAttempt ==
    reported.kind = "any" => reported.err \in tried

=============================================================================
