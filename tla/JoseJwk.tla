-------------------------------- MODULE JoseJwk --------------------------------
(***************************************************************************)
(* The life of oidc_jwk_t structures and the cjose_jwk_t key material     *)
(* they hold, src/src/jose.c: oidc_jwk_parse with its x5c fallback (whose  *)
(* PEM framing loop is the JosePem module), oidc_jwk_create_symmetric_key, *)
(* the PEM key-file import seen from outside, oidc_jwk_to_json,            *)
(* oidc_jwk_destroy and oidc_jwk_list_destroy.                             *)
(*                                                                         *)
(* A cjose_jwk_t is named by the order it was made in; handles[h] says     *)
(* whether it is live or released.  jwks[j] is the cjose_jwk field of the  *)
(* j-th oidc_jwk_t handed to the caller (NULL once destroyed), x5c[j]      *)
(* whether it carries a certificate chain.  Every cjose, OpenSSL and       *)
(* jansson call that can fail is a nondeterministic outcome.  Calls are    *)
(* synchronous: a parse that reaches the x5c path runs the PEM loop to its *)
(* end (pc = "x5c") before the next call.                                  *)
(***************************************************************************)
EXTENDS JosePem

CONSTANTS
    MaxHandles,     \* the most cjose_jwk_t and oidc_jwk_t objects a behaviour makes
    APPEND_FAILS    \* json_array_append_new may fail (out of memory)

ASSUME MaxHandlesAssumption == MaxHandles \in Nat

ASSUME AppendAssumption == APPEND_FAILS \in BOOLEAN

ASSUME NullAssumption == NULL \notin Nat

VARIABLES
    pc,         \* "idle" between calls, "x5c" inside the PEM loop of a parse
    handles,    \* handles[h]: "live" or "released"
    jwks,       \* jwks[j]: the cjose_jwk_t of the j-th oidc_jwk_t, or NULL
    x5c,        \* x5c[j]: x5c_count of the j-th oidc_jwk_t is not 0
    leaked,     \* json objects a call allocated and never freed
    fault,      \* "none", "double_release" or "use_after_release"
    result      \* what the last call returned: "none", "failed" or "jwk"

jwkVars == <<pc, handles, jwks, x5c, leaked, fault, result>>

vars == <<pc, handles, jwks, x5c, leaked, fault, result, n, i, lines, pemPc, overread>>

\* Another cjose_jwk_t and oidc_jwk_t may still be made.
CanMake == Len(handles) < MaxHandles /\ Len(jwks) < MaxHandles

\* A new live cjose_jwk_t wrapped in a new oidc_jwk_t handed to the caller
\* (oidc_jwk_from_cjose, lines 342-349, or the file import's oidc_jwk_new).
Hands(hasX5c) ==
    /\ handles' = Append(handles, "live")
    /\ jwks' = Append(jwks, Len(handles) + 1)
    /\ x5c' = Append(x5c, hasX5c)

\* cjose_jwk_release of the key held at h: a second release is undefined.
Release(h) ==
    /\ handles' = [handles EXCEPT ![h] = "released"]
    /\ fault' = IF handles[h] = "released" THEN "double_release" ELSE fault

Init ==
    /\ PemInit
    /\ pc = "idle"
    /\ handles = <<>>
    /\ jwks = <<>>
    /\ x5c = <<>>
    /\ leaked = 0
    /\ fault = "none"
    /\ result = "none"

\* oidc_jwk_parse (lines 354-369): cjose_jwk_import accepts the JSON, or
\* oidc_jwk_parse_rsa_x5c_spec (294-337) rejects it (not JSON, kty not RSA,
\* no x5c array, x5c[0] not a string), or it takes the x5c path and starts
\* the PEM framing of x5c[0] (1352-1389).
ParseBegin ==
    /\ pc = "idle"
    /\ CanMake
    /\ \/ /\ Hands(FALSE)
          /\ result' = "jwk"
          /\ UNCHANGED <<pc, leaked, fault, pemVars>>
       \/ /\ result' = "failed"
          /\ UNCHANGED <<pc, handles, jwks, x5c, leaked, fault, pemVars>>
       \/ /\ \E len \in Lengths : PemStart(len)
          /\ pc' = "x5c"
          /\ UNCHANGED <<handles, jwks, x5c, leaked, fault, result>>

\* One step of the PEM loop of lines 1390-1395, inside the parse.
ParseX5cLoop ==
    /\ pc = "x5c"
    /\ PemStep \/ PemEnd
    /\ UNCHANGED jwkVars

\* Lines 1397-1422 and the return through 328-337 and 360-368: BIO_new or
\* BIO_puts fails, or oidc_jwk_rsa_bio_to_jwk makes no key, and the parse
\* returns NULL; or it made the key, which *jwk receives whatever its rv
\* (line 1419) and oidc_jwk_from_cjose wraps, without the chain.
ParseX5cEnd ==
    /\ pc = "x5c"
    /\ pemPc = "done"
    /\ pc' = "idle"
    /\ \/ /\ result' = "failed"
          /\ UNCHANGED <<handles, jwks, x5c>>
       \/ /\ Hands(FALSE)
          /\ result' = "jwk"
    /\ UNCHANGED <<leaked, fault, pemVars>>

\* A slip for CreateSymmetricKey: return NULL on a kid failure without
\* releasing the key just made.
CreateSymmetricKeyKeepsKey ==
    /\ pc = "idle"
    /\ CanMake
    /\ \/ /\ result' = "failed"
          /\ UNCHANGED <<handles, jwks, x5c, fault>>
       \/ /\ handles' = Append(handles, "live")
          /\ result' = "failed"
          /\ UNCHANGED <<jwks, x5c, fault>>
       \/ /\ Hands(FALSE)
          /\ result' = "jwk"
          /\ UNCHANGED fault
    /\ UNCHANGED <<pc, leaked, pemVars>>

\* oidc_jwk_create_symmetric_key (lines 481-509): cjose_jwk_create_oct_spec
\* fails; or set_kid holds and oidc_jwk_set_or_generate_kid fails (hashing
\* or cjose_jwk_set_kid) and the key is released; or the key is handed out.
CreateSymmetricKey ==
    /\ pc = "idle"
    /\ CanMake
    /\ \/ /\ result' = "failed"
          /\ UNCHANGED <<handles, jwks, x5c, fault>>
       \/ /\ handles' = Append(handles, "released")
          /\ result' = "failed"
          /\ UNCHANGED <<jwks, x5c, fault>>
       \/ /\ Hands(FALSE)
          /\ result' = "jwk"
          /\ UNCHANGED fault
    /\ UNCHANGED <<pc, leaked, pemVars>>

\* oidc_jwk_parse_rsa_private_key / _public_key (lines 1317-1343, 1429-1440)
\* as their caller sees them (JoseImport models the inside): the file does
\* not open and *jwk is untouched; or *jwk is a new oidc_jwk_t (line 1148)
\* without a key; or with a key, and a chain when a certificate was read,
\* returned TRUE or, when the kid could not be set, FALSE.
ImportKeyFile ==
    /\ pc = "idle"
    /\ CanMake
    /\ \/ /\ result' = "failed"
          /\ UNCHANGED <<handles, jwks, x5c>>
       \/ /\ jwks' = Append(jwks, NULL)
          /\ x5c' = Append(x5c, FALSE)
          /\ result' = "failed"
          /\ UNCHANGED handles
       \/ \E chain \in BOOLEAN, rv \in {"jwk", "failed"} :
            /\ Hands(chain)
            /\ result' = rv
    /\ UNCHANGED <<pc, leaked, fault, pemVars>>

\* Where internal_cjose_jwk_to_json (lines 1445-1516) stops for a JWK
\* whose key is held at h: cjose_jwk_to_json (a NULL key fails), json_loads,
\* json_array and json_array_append_new (only with a chain), json_dumps.
ToJsonStops(j, h) ==
    {"to_json", "ok"}
    \cup (IF h # NULL THEN {"loads", "dumps"} ELSE {})
    \cup (IF h # NULL /\ x5c[j] THEN {"array"} ELSE {})
    \cup (IF h # NULL /\ x5c[j] /\ APPEND_FAILS THEN {"append"} ELSE {})

\* oidc_jwk_to_json (lines 411-421) of the j-th JWK: the cleanup frees the
\* cjose text and the tree, but a tempArray not yet attached to the tree
\* when an append fails (line 1485) is never freed.
ToJson(j) ==
    /\ pc = "idle"
    /\ LET h == jwks[j] IN
       /\ fault' = IF h # NULL /\ handles[h] = "released"
                      THEN "use_after_release" ELSE fault
       /\ \E stop \in ToJsonStops(j, h) :
            /\ result' = IF stop = "ok" /\ h # NULL THEN "jwk" ELSE "failed"
            /\ leaked' = leaked + (IF stop = "append" THEN 1 ELSE 0)
    /\ UNCHANGED <<pc, handles, jwks, x5c, pemVars>>

\* A slip for Destroy: release the key and leave the pointer set.
DestroyKeepsPointer(j) ==
    /\ pc = "idle"
    /\ jwks[j] # NULL
    /\ Release(jwks[j])
    /\ result' = "none"
    /\ UNCHANGED <<pc, jwks, x5c, leaked, pemVars>>

\* oidc_jwk_destroy (lines 374-381): release the key if set, clear the
\* pointer.  Destroying a JWK whose pointer is NULL changes nothing.
Destroy(j) ==
    /\ pc = "idle"
    /\ jwks[j] # NULL
    /\ Release(jwks[j])
    /\ jwks' = [jwks EXCEPT ![j] = NULL]
    /\ result' = "none"
    /\ UNCHANGED <<pc, x5c, leaked, pemVars>>

\* oidc_jwk_list_destroy (lines 386-395) of a list of JWKs: oidc_jwk_destroy
\* of each, in order, so a JWK listed twice is cleared before its second
\* visit.  A list holding no key changes nothing.
ListDestroy(keys) ==
    LET held == {jwks[j] : j \in keys} \ {NULL} IN
    /\ pc = "idle"
    /\ held # {}
    /\ handles' = [h \in DOMAIN handles |-> IF h \in held THEN "released" ELSE handles[h]]
    /\ fault' = IF \E h \in held : handles[h] = "released"
                   THEN "double_release" ELSE fault
    /\ jwks' = [j \in DOMAIN jwks |-> IF j \in keys THEN NULL ELSE jwks[j]]
    /\ result' = "none"
    /\ UNCHANGED <<pc, x5c, leaked, pemVars>>

Next ==
    \/ ParseBegin
    \/ ParseX5cLoop
    \/ ParseX5cEnd
    \/ CreateSymmetricKey
    \/ ImportKeyFile
    \/ \E j \in DOMAIN jwks : ToJson(j) \/ Destroy(j)
    \/ \E keys \in SUBSET DOMAIN jwks : ListDestroy(keys)

Spec == Init /\ [][Next]_vars

\* Each call runs to completion once made: the PEM loop and the end of the
\* parse are not left waiting.
FairSpec == Spec /\ WF_vars(ParseX5cLoop \/ ParseX5cEnd)

-----------------------------------------------------------------------------
TypeOK ==
    /\ PemTypeOK
    /\ pc \in {"idle", "x5c"}
    /\ handles \in Seq({"live", "released"})
    /\ jwks \in Seq(Nat \cup {NULL})
    /\ x5c \in Seq(BOOLEAN)
    /\ Len(x5c) = Len(jwks)
    /\ leaked \in Nat
    /\ fault \in {"none", "double_release", "use_after_release"}
    /\ result \in {"none", "failed", "jwk"}

(***************************************************************************)
(* Key material is released once and never used after: no cjose_jwk_t is  *)
(* released twice or serialised after release, every key a JWK holds is   *)
(* live, and no two JWKs hold the same key (oidc_jwk_destroy clears its    *)
(* pointer, so a later destroy, list destroy or to_json of the same JWK    *)
(* finds NULL).                                                            *)
(***************************************************************************)
KeyMaterialReleasedOnce ==
    /\ fault = "none"
    /\ \A j \in DOMAIN jwks : jwks[j] # NULL => handles[jwks[j]] = "live"
    /\ \A j, k \in DOMAIN jwks : jwks[j] = jwks[k] /\ jwks[j] # NULL => j = k

(***************************************************************************)
(* Nothing leaks: every live cjose_jwk_t is held by a JWK the caller got   *)
(* (create_symmetric_key releases the key it cannot give a kid), and      *)
(* every json object a to_json call allocated was freed.                   *)
(***************************************************************************)
NothingLeaked ==
    /\ \A h \in DOMAIN handles : handles[h] = "live" => \E j \in DOMAIN jwks : jwks[j] = h
    /\ leaked = 0

(***************************************************************************)
(* A parse that takes the x5c path returns, unless the PEM loop faulted    *)
(* reading past x5c[0].                                                    *)
(***************************************************************************)
ParseReturns == pc = "x5c" ~> (pc = "idle" \/ pemPc = "crashed")

=============================================================================
