------------------------------ MODULE JoseVerify ------------------------------
(***************************************************************************)
(* Signature verification of a parsed JWT against a keyset, and the        *)
(* lifetime of the JWT's cjose_jws_t handle (src/src/jose.c).              *)
(*                                                                         *)
(* A JWT has been produced by oidc_jwt_parse: its header carries an "alg"  *)
(* and maybe a "kid", and jwt->cjose_jws points to a live cjose_jws_t.     *)
(* The caller may then call oidc_jwt_verify any number of times, call      *)
(* oidc_jwt_serialize, and finally oidc_jwt_destroy.  oidc_jwt_verify      *)
(* either looks the kid up (one attempt) or walks the hash table and       *)
(* tries every key whose type matches the algorithm; the walk is modelled  *)
(* one key per step, in any order (apr_hash iteration order is not         *)
(* specified).                                                             *)
(*                                                                         *)
(* cjose_jws_verify is the primitive provider.  It succeeds only for the   *)
(* key that made the signature and only when that key has the type the     *)
(* algorithm needs.  In cjose before 0.5.0 a failed verification also      *)
(* releases the cjose_jws_t (comment of oidc_jose_version_deprecated); the *)
(* code detects such a version by the prefix "0.4." of cjose_version() and *)
(* then clears jwt->cjose_jws.  A version is a pair <<major, minor>>.      *)
(***************************************************************************)
EXTENDS JoseKeys

CONSTANTS
    Algs,           \* "alg" values a token header may carry
    Versions,       \* cjose versions <<major, minor>> the module may run with
    Forged          \* a signature made by no key of KeyIds

ASSUME ForgedAssumption == Forged \notin KeyIds
ASSUME AlgsAssumption == Algs \subseteq (STRING \X STRING)
ASSUME VersionsAssumption == Versions \subseteq (Nat \X Nat)
ASSUME NullAssumption == NULL \notin ({"jws"} \cup [KeyIds -> Kty \cup {NOKEY}])

VARIABLES
    version,  \* cjose_version() of the provider the module runs with
    keys,     \* the apr_hash_t keyset: kid -> key type (NOKEY: no such kid), or NULL
    hdr,      \* the token's protected header: [alg, kid]
    signer,   \* the key whose material made the signature (Forged: none of ours)
    jws,      \* jwt->cjose_jws: the handle "jws", or NULL
    handle,   \* the cjose_jws_t object itself: "live" or "freed"
    pc,       \* "idle", "loop" (inside the kid-less walk), "destroyed", "crashed"
    todo,     \* keys the hash iterator has not visited yet in this walk
    tried,    \* keys passed to cjose_jws_verify in the current (or last) call
    rc,       \* the local rc of oidc_jwt_verify
    result,   \* what the last completed oidc_jwt_verify returned, <<>> before any call
    fault,    \* "none", or the undefined behaviour the code first reached
    serialized \* what the last oidc_jwt_serialize returned: "unset" before any

vars == <<version, keys, hdr, signer, jws, handle, pc, todo, tried, rc, result, fault,
         serialized>>

Faults == {"none", "use_after_free", "double_free", "null_keyset"}

\* The kids the hash table holds.
InKeyset == Kids(keys)

\* The key type cjose_jws_verify itself demands for an algorithm.
ProviderKty(alg) ==
    IF alg[1] \in {"RS", "PS"} THEN KTY_RSA
    ELSE IF alg[1] = "HS" THEN KTY_OCT
    ELSE IF alg[1] = "ES" THEN KTY_EC
    ELSE NoKty

\* cjose before 0.5.0 releases the cjose_jws_t when a verification fails.
Defective(v) == v[1] = 0 /\ v[2] < 5

\* A slip for oidc_jose_version_deprecated: matching only the prefix "0.".
VersionPrefixTooShort(v) == v[1] = 0

\* oidc_jose_version_deprecated: cjose_version() starts with "0.4.".
oidc_jose_version_deprecated(v) == v[1] = 0 /\ v[2] = 4

\* The first undefined behaviour reached is the one reported.
Fail(f) == IF fault = "none" THEN f ELSE fault

(***************************************************************************)
(* One call cjose_jws_verify(jwt->cjose_jws, jwk->cjose_jwk) with key k,   *)
(* followed by the code's reaction to a failure: jwt->cjose_jws = NULL     *)
(* when the version is deprecated.  `before' is what `tried' held before.  *)
(***************************************************************************)
cjose_jws_verify(k, before) ==
    LET ok == jws # NULL /\ handle = "live" /\ k = signer
                 /\ keys[k] = ProviderKty(hdr.alg)
    IN  /\ rc' = ok
        /\ tried' = before \cup {k}
        /\ handle' = IF ~ok /\ jws # NULL /\ Defective(version)
                        THEN "freed" ELSE handle
        /\ jws' = IF ~ok /\ oidc_jose_version_deprecated(version)
                     THEN NULL ELSE jws
        /\ fault' = IF jws # NULL /\ handle = "freed"
                       THEN Fail("use_after_free") ELSE fault

\* A slip for KidFound: use the looked-up JWK without testing it for NULL.
KidFoundUnchecked(kid) == TRUE

\* apr_hash_get(keys, kid) returned a JWK.
KidFound(kid) == kid \in InKeyset

\* The test of the kid-less walk: the key has the algorithm's key type.
IsCandidate(k) == keys[k] = oidc_alg2kty(hdr.alg)

\* A slip for LoopExits: leave the walk after the first key whatever happened.
ExitAfterFirstKey(ok, ptr) == TRUE

\* The walk's exit test: if ((rc == TRUE) || (jwt->cjose_jws == NULL)) break;
LoopExits(ok, ptr) == ok \/ ptr = NULL

Init ==
    /\ version \in Versions
    /\ keys \in KeySets
    /\ hdr \in [alg : Algs, kid : KeyIds \cup {NoKid}]
    /\ signer \in KeyIds \cup {Forged}
    /\ jws = "jws"
    /\ handle = "live"
    /\ pc = "idle"
    /\ todo = {}
    /\ tried = {}
    /\ rc = FALSE
    /\ result = <<>>
    /\ fault = "none"
    /\ serialized = "unset"

\* oidc_jwt_verify with a NULL keyset: apr_hash_get / apr_hash_first
\* dereference it and the process dies.
VerifyNullKeyset ==
    /\ pc = "idle"
    /\ keys = NULL
    /\ pc' = "crashed"
    /\ fault' = Fail("null_keyset")
    /\ UNCHANGED <<version, keys, hdr, signer, jws, handle, todo, tried, rc, result,
                   serialized>>

\* oidc_jwt_verify, header with a kid: look it up and make one attempt.
VerifyKid ==
    /\ pc = "idle"
    /\ keys # NULL
    /\ hdr.kid # NoKid
    /\ IF KidFound(hdr.kid)
          THEN cjose_jws_verify(hdr.kid, {})
          ELSE /\ rc' = FALSE
               /\ tried' = {}
               /\ UNCHANGED <<jws, handle, fault>>
    /\ result' = <<rc'>>
    /\ UNCHANGED <<version, keys, hdr, signer, pc, todo, serialized>>

\* A slip for VerifyStart: rc starts out TRUE.
VerifyStartOptimistic ==
    /\ pc = "idle"
    /\ keys # NULL
    /\ hdr.kid = NoKid
    /\ pc' = "loop"
    /\ todo' = InKeyset
    /\ tried' = {}
    /\ rc' = TRUE
    /\ UNCHANGED <<version, keys, hdr, signer, jws, handle, result, fault,
                   serialized>>

\* oidc_jwt_verify, header without a kid: start the walk over the hash.
VerifyStart ==
    /\ pc = "idle"
    /\ keys # NULL
    /\ hdr.kid = NoKid
    /\ pc' = "loop"
    /\ todo' = InKeyset
    /\ tried' = {}
    /\ rc' = FALSE
    /\ UNCHANGED <<version, keys, hdr, signer, jws, handle, result, fault,
                   serialized>>

\* One iteration of the walk: try the key if its type matches, then break
\* on success or on a cleared handle.
VerifyStep ==
    /\ pc = "loop"
    /\ \E k \in todo :
         /\ IF IsCandidate(k)
               THEN cjose_jws_verify(k, tried)
               ELSE UNCHANGED <<rc, tried, jws, handle, fault>>
         /\ todo' = todo \ {k}
         /\ IF LoopExits(rc', jws')
               THEN pc' = "idle" /\ result' = <<rc'>>
               ELSE UNCHANGED <<pc, result>>
    /\ UNCHANGED <<version, keys, hdr, signer, serialized>>

\* The iterator is exhausted without a break: return rc.
VerifyEnd ==
    /\ pc = "loop"
    /\ todo = {}
    /\ pc' = "idle"
    /\ result' = <<rc>>
    /\ UNCHANGED <<version, keys, hdr, signer, jws, handle, todo, tried, rc, fault,
                   serialized>>

\* oidc_jwt_serialize: with alg "none" the payload is emitted after the fixed
\* header; otherwise cjose_jws_export reads the handle (NULL: it fails).
Serialize ==
    /\ pc = "idle"
    /\ IF hdr.alg = ALG_NONE
          THEN /\ serialized' = "unsigned"
               /\ UNCHANGED fault
          ELSE /\ serialized' = IF jws = NULL THEN NULL ELSE "compact"
               /\ fault' = IF jws # NULL /\ handle = "freed"
                             THEN Fail("use_after_free") ELSE fault
    /\ UNCHANGED <<version, keys, hdr, signer, jws, handle, pc, todo, tried, rc, result>>

\* oidc_jwt_destroy: release the handle if the pointer is set.
Destroy ==
    /\ pc = "idle"
    /\ pc' = "destroyed"
    /\ jws' = NULL
    /\ IF jws # NULL
          THEN /\ handle' = "freed"
               /\ fault' = IF handle = "freed" THEN Fail("double_free") ELSE fault
          ELSE UNCHANGED <<handle, fault>>
    /\ UNCHANGED <<version, keys, hdr, signer, todo, tried, rc, result, serialized>>

Next ==
    \/ VerifyNullKeyset
    \/ VerifyKid
    \/ VerifyStart
    \/ VerifyStep
    \/ VerifyEnd
    \/ Serialize
    \/ Destroy

Spec == Init /\ [][Next]_vars

-----------------------------------------------------------------------------
TypeOK ==
    /\ version \in Versions
    /\ keys \in KeySets
    /\ hdr \in [alg : Algs, kid : KeyIds \cup {NoKid}]
    /\ signer \in KeyIds \cup {Forged}
    /\ jws \in {"jws", NULL}
    /\ handle \in {"live", "freed"}
    /\ pc \in {"idle", "loop", "destroyed", "crashed"}
    /\ todo \in SUBSET InKeyset
    /\ tried \in SUBSET InKeyset
    /\ rc \in BOOLEAN
    /\ result \in {<<>>, <<TRUE>>, <<FALSE>>}
    /\ fault \in Faults
    /\ serialized \in {"unset", "unsigned", "compact", NULL}

\* The keys oidc_jwt_verify may accept the signature with: the one the
\* header's kid names, or, without a kid, those of the algorithm's type.
Candidates ==
    IF hdr.kid = NoKid THEN {k \in InKeyset : IsCandidate(k)}
    ELSE InKeyset \cap {hdr.kid}

\* The signature was made by key k of the keyset, of the type the provider needs.
Verifiable(k) == k \in InKeyset /\ k = signer /\ keys[k] = ProviderKty(hdr.alg)

(***************************************************************************)
(* The cjose_jws_t is used and released exactly once: cjose_jws_verify,    *)
(* cjose_jws_export and cjose_jws_release never see it after it was freed  *)
(* (by the provider's failed verify or by oidc_jwt_destroy), and after     *)
(* oidc_jwt_destroy it is freed.  This is what the version-gated clearing  *)
(* of jwt->cjose_jws in oidc_jwt_verify is for.                            *)
(***************************************************************************)
HandleReleasedOnce ==
    /\ fault \notin {"use_after_free", "double_free"}
    /\ pc = "destroyed" => handle = "freed"

(***************************************************************************)
(* oidc_jwt_verify returns TRUE only when the signature was made by a key  *)
(* it was allowed to use: the one the kid names, or, without a kid, one of *)
(* the algorithm's key type (no success carried over from an earlier key   *)
(* or an optimistic rc).                                                   *)
(***************************************************************************)
VerifySound == result = <<TRUE>> => signer \in Candidates

(***************************************************************************)
(* With a provider that keeps its handle after a failed verification,      *)
(* oidc_jwt_verify returns FALSE only if no key it may use made the        *)
(* signature: a failure with one key does not end the walk.                *)
(***************************************************************************)
VerifyComplete ==
    (result = <<FALSE>> /\ ~Defective(version))
        => \A k \in Candidates : ~Verifiable(k)

(***************************************************************************)
(* With a provider that keeps its handle, a kid-less oidc_jwt_verify that  *)
(* returns FALSE for an algorithm oidc_alg2kty gives a key type has found  *)
(* that no key of the whole keyset made the signature: the key type filter *)
(* of the walk (oidc_alg2kty against jwk->kty) never skips the key         *)
(* cjose_jws_verify would accept.                                          *)
(***************************************************************************)
VerifyExhaustive ==
    (/\ result = <<FALSE>> /\ ~Defective(version)
     /\ hdr.kid = NoKid /\ oidc_alg2kty(hdr.alg) # NoKty)
        => \A k \in InKeyset : ~Verifiable(k)

(***************************************************************************)
(* An absent or empty keyset makes oidc_jwt_verify fail without calling    *)
(* the provider and without crashing (spec §8.7, §4.5).                    *)
(***************************************************************************)
KeysetFailsFast ==
    InKeyset = {} => (tried = {} /\ fault # "null_keyset")

=============================================================================
