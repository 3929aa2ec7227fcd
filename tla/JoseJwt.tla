------------------------------- MODULE JoseJwt --------------------------------
(***************************************************************************)
(* The life of one oidc_jwt_t of src/src/jose.c and the objects it owns:   *)
(* the cjose_jws_t handle, the header and payload JSON trees, and the      *)
(* malloc'd strings json_dumps returns.  The caller obtains the JWT from   *)
(* oidc_jwt_parse, or from oidc_jwt_new(pool, TRUE, TRUE) with alg set     *)
(* (spec 3: "created empty ... header/payload JSON objects present"), then *)
(* signs and serializes it any number of times, and destroys it.           *)
(*                                                                         *)
(* Every object gets a fresh identity <<kind, n>> when it is made; live is *)
(* the set of objects made and not yet released.  JSON contents, claims    *)
(* and signature bytes are left out: no property tells them apart.  cjose *)
(* and jansson succeed or fail nondeterministically where the code tests   *)
(* their results.  cjose_jws_import and cjose_jws_sign accept no header    *)
(* without a supported "alg", so a parsed or signed JWT has alg "signed".  *)
(***************************************************************************)
EXTENDS Naturals

CONSTANTS
    MaxOps,      \* the most sign and serialize calls on one JWT
    B64_FAILS,   \* whether cjose_base64url_encode may fail (out of memory)
    EXPORT_FAILS, \* whether cjose_jwe_export may fail (out of memory)
    NULL         \* the C NULL pointer

ASSUME MaxOpsAssumption == MaxOps \in Nat
ASSUME B64Assumption == B64_FAILS \in BOOLEAN
ASSUME ExportAssumption == EXPORT_FAILS \in BOOLEAN

VARIABLES
    pc,          \* "init", "ready", "failed" (parse returned FALSE), "destroyed"
    jwtp,        \* the caller's *j_jwt: NULL or "jwt"
    hdr,         \* jwt->header.value.json
    pay,         \* jwt->payload.value.json
    jws,         \* jwt->cjose_jws
    alg,         \* jwt->header.alg: NULL, "none" or "signed"
    live,        \* the objects made and not released
    nextId,      \* the number of objects made so far
    ops,         \* sign, serialize and encrypt calls made
    lastSign,    \* outcome of the last oidc_jwt_sign: "none", "ok", "failed"
    serialized,  \* the last oidc_jwt_serialize result: NULL, "unsigned" or a handle
    rv           \* the last apr_byte_t returned

vars == <<pc, jwtp, hdr, pay, jws, alg, live, nextId, ops, lastSign, serialized, rv>>

MaxId == 3 + 2 * MaxOps

Ids(kind) == {<<kind, n>> : n \in 0..MaxId}

Objects == Ids("jws") \cup Ids("json") \cup Ids("buf") \cup Ids("jwe")

\* The object the next allocation returns.
Fresh(kind, k) == <<kind, nextId + k>>

\* cjose_jws_release / json_decref of each pointer that is set.
Released(ptrs) == live \ ptrs

\* NULL is no object and none of the strings the model stores.
ASSUME NullAssumption == NULL \notin Objects /\ NULL \notin {"jwt", "none", "signed", "unsigned"}

\* The text of an unsigned serialization is no JWS handle (a string is no pair).
ASSUME TextAssumption == "unsigned" \notin Ids("jws")

Init ==
    /\ pc = "init"
    /\ jwtp = NULL
    /\ hdr = NULL
    /\ pay = NULL
    /\ jws = NULL
    /\ alg = NULL
    /\ live = {}
    /\ nextId = 0
    /\ ops = 0
    /\ lastSign = "none"
    /\ serialized = NULL
    /\ rv = FALSE

(***************************************************************************)
(* oidc_jwt_parse, lines 792-847.  The stage at which it stops:            *)
(*   "decrypt"   oidc_jwe_decrypt returned FALSE: nothing was made;        *)
(*   "import"    cjose_jws_import failed: oidc_jwt_destroy, *j_jwt = NULL; *)
(*   "plaintext" cjose_jws_get_plaintext failed: return FALSE at once;     *)
(*   "json"      json_loads of the payload failed;                         *)
(*   "object"    the payload is not a JSON object (its tree is kept in     *)
(*               payload.value.json and released by oidc_jwt_destroy);     *)
(*   "ok"        every step succeeded.                                     *)
(* The json_dumps string of the header is freed at once (line 814).        *)
(***************************************************************************)
ParseStages == {"decrypt", "import", "plaintext", "json", "object", "ok"}

\* The release of a parse that failed after the JWS was imported.
ParseFailure(stage) ==
    IF stage = "plaintext"
       THEN /\ jwtp' = "jwt"
            /\ live' = live \cup {Fresh("jws", 0), Fresh("json", 1)}
       ELSE /\ jwtp' = NULL
            /\ live' = live

Parse ==
    /\ pc = "init"
    /\ \E stage \in ParseStages :
         \/ /\ stage \in {"decrypt", "import"}
            /\ pc' = "failed"
            /\ rv' = FALSE
            /\ UNCHANGED <<jwtp, hdr, pay, jws, alg, live, nextId>>
         \/ /\ stage \in {"plaintext", "json", "object"}
            /\ pc' = "failed"
            /\ rv' = FALSE
            /\ ParseFailure(stage)
            /\ jws' = IF stage = "plaintext" THEN Fresh("jws", 0) ELSE NULL
            /\ hdr' = IF stage = "plaintext" THEN Fresh("json", 1) ELSE NULL
            /\ alg' = "signed"
            /\ nextId' = nextId + 3
            /\ UNCHANGED pay
         \/ /\ stage = "ok"
            /\ pc' = "ready"
            /\ rv' = TRUE
            /\ jwtp' = "jwt"
            /\ jws' = Fresh("jws", 0)
            /\ hdr' = Fresh("json", 1)
            /\ pay' = Fresh("json", 2)
            /\ alg' = "signed"
            /\ live' = live \cup {Fresh("jws", 0), Fresh("json", 1), Fresh("json", 2)}
            /\ nextId' = nextId + 3
    /\ UNCHANGED <<ops, lastSign, serialized>>

\* oidc_jwt_new(pool, TRUE, TRUE), then the caller sets header.alg.
New ==
    /\ pc = "init"
    /\ \E a \in {"none", "signed"} : alg' = a
    /\ pc' = "ready"
    /\ jwtp' = "jwt"
    /\ hdr' = Fresh("json", 0)
    /\ pay' = Fresh("json", 1)
    /\ live' = live \cup {Fresh("json", 0), Fresh("json", 1)}
    /\ nextId' = nextId + 2
    /\ UNCHANGED <<jws, ops, lastSign, serialized, rv>>

\* jwt->cjose_jws = cjose_jws_sign(...): a new handle, or NULL.
SignResult(ok) == IF ok THEN Fresh("jws", 0) ELSE NULL

\* A slip for Sign: replace the old handle only when signing succeeds.
SignKeepsHandleOnFailure ==
    /\ pc = "ready"
    /\ ops < MaxOps
    /\ \E ok \in IF alg = "signed" THEN BOOLEAN ELSE {FALSE} :
         /\ jws' = IF ok THEN Fresh("jws", 0) ELSE jws
         /\ live' = IF ok THEN Released({jws}) \cup {Fresh("jws", 0)} ELSE live
         /\ lastSign' = IF ok THEN "ok" ELSE "failed"
         /\ rv' = ok
    /\ nextId' = nextId + 1
    /\ ops' = ops + 1
    /\ UNCHANGED <<pc, jwtp, hdr, pay, alg, serialized>>

(***************************************************************************)
(* oidc_jwt_sign, lines 871-901: copy alg/kid/enc into the header tree,    *)
(* release the old handle, dump the payload (the string is freed after     *)
(* the call), sign.  cjose_jws_sign fails for alg "none" and may fail for *)
(* any key.  The payload tree of a ready JWT is never NULL, so strlen of  *)
(* json_dumps(NULL) is not reached.                                        *)
(***************************************************************************)
Sign ==
    /\ pc = "ready"
    /\ ops < MaxOps
    /\ \E ok \in IF alg = "signed" THEN BOOLEAN ELSE {FALSE} :
         /\ jws' = SignResult(ok)
         /\ live' = Released({jws}) \cup (IF ok THEN {Fresh("jws", 0)} ELSE {})
         /\ lastSign' = IF ok THEN "ok" ELSE "failed"
         /\ rv' = ok
    /\ nextId' = nextId + 1
    /\ ops' = ops + 1
    /\ UNCHANGED <<pc, jwtp, hdr, pay, alg, serialized>>

\* Outcomes of cjose_base64url_encode: TRUE it encoded the payload.
B64Outcomes == IF B64_FAILS THEN BOOLEAN ELSE {TRUE}

(***************************************************************************)
(* oidc_jwt_serialize, lines 182-210.  For a signed alg, cjose_jws_export  *)
(* of the handle (it fails on NULL).  For "none", dump the payload and     *)
(* base64url-encode it; if the encoding fails the function returns at     *)
(* line 199 before free(s_payload).                                        *)
(***************************************************************************)
Serialize ==
    /\ pc = "ready"
    /\ ops < MaxOps
    /\ \/ /\ alg = "signed"
          /\ serialized' = jws
          /\ UNCHANGED <<live, nextId>>
       \/ /\ alg = "none"
          /\ \E encoded \in B64Outcomes :
               IF encoded
                  THEN serialized' = "unsigned" /\ UNCHANGED <<live, nextId>>
                  ELSE /\ serialized' = NULL
                       /\ live' = live \cup {Fresh("buf", 0)}
                       /\ nextId' = nextId + 1
    /\ ops' = ops + 1
    /\ UNCHANGED <<pc, jwtp, hdr, pay, jws, alg, lastSign, rv>>

\* Outcomes of cjose_jwe_export: TRUE it exported the JWE.
ExportOutcomes == IF EXPORT_FAILS THEN BOOLEAN ELSE {TRUE}

(***************************************************************************)
(* oidc_jwt_encrypt, lines 916-949: copy alg/kid/enc into the header tree, *)
(* encrypt the caller's payload into a new cjose_jwe_t, export it, free    *)
(* the exported string and release the JWE.  When the export fails the     *)
(* function returns at line 940 before cjose_jwe_release.  The JWT's own   *)
(* handle and trees are not touched.                                       *)
(***************************************************************************)
Encrypt ==
    /\ pc = "ready"
    /\ ops < MaxOps
    /\ \E encrypted \in BOOLEAN, exported \in ExportOutcomes :
         IF encrypted /\ ~exported
            THEN /\ live' = live \cup {Fresh("jwe", 0)}
                 /\ nextId' = nextId + 1
                 /\ rv' = FALSE
            ELSE /\ rv' = encrypted
                 /\ UNCHANGED <<live, nextId>>
    /\ ops' = ops + 1
    /\ UNCHANGED <<pc, jwtp, hdr, pay, jws, alg, lastSign, serialized>>

\* A slip for Destroy: release the trees and the handle, keep the pointers.
DestroyKeepsPointers ==
    /\ pc = "ready"
    /\ live' = Released({hdr, pay, jws})
    /\ pc' = "destroyed"
    /\ UNCHANGED <<jwtp, hdr, pay, jws, alg, nextId, ops, lastSign, serialized, rv>>

\* oidc_jwt_destroy, lines 849-866: release what is set and clear it.
Destroy ==
    /\ pc = "ready"
    /\ live' = Released({hdr, pay, jws})
    /\ hdr' = NULL
    /\ pay' = NULL
    /\ jws' = NULL
    /\ pc' = "destroyed"
    /\ UNCHANGED <<jwtp, alg, nextId, ops, lastSign, serialized, rv>>

Next == Parse \/ New \/ Sign \/ Serialize \/ Encrypt \/ Destroy

Spec == Init /\ [][Next]_vars

-----------------------------------------------------------------------------
TypeOK ==
    /\ pc \in {"init", "ready", "failed", "destroyed"}
    /\ jwtp \in {NULL, "jwt"}
    /\ hdr \in Ids("json") \cup {NULL}
    /\ pay \in Ids("json") \cup {NULL}
    /\ jws \in Ids("jws") \cup {NULL}
    /\ alg \in {NULL, "none", "signed"}
    /\ live \subseteq Objects
    /\ nextId \in 0..MaxId
    /\ ops \in 0..MaxOps
    /\ lastSign \in {"none", "ok", "failed"}
    /\ serialized \in Ids("jws") \cup {NULL, "unsigned"}
    /\ rv \in BOOLEAN

(***************************************************************************)
(* A JWT in use owns exactly the objects its pointers name, and a          *)
(* destroyed JWT owns none: oidc_jwt_sign releases the handle it replaces, *)
(* oidc_jwt_destroy releases the trees and the handle, and no string of    *)
(* json_dumps is left behind (spec 3: "destroyed explicitly, releasing the *)
(* opaque handle and the JSON trees it owns").                             *)
(***************************************************************************)
JwtOwnsResources ==
    pc \in {"ready", "destroyed"} => live = {hdr, pay, jws} \ {NULL}

(***************************************************************************)
(* oidc_jwt_serialize of a signed JWT exports only a live handle, and     *)
(* never one after an oidc_jwt_sign that failed: the handle the failed    *)
(* call released is not left in jwt->cjose_jws to be exported.            *)
(***************************************************************************)
SerializeFollowsSign ==
    [][Serialize => (serialized' \in Ids("jws") =>
                        (serialized' \in live /\ lastSign # "failed"))]_vars

(***************************************************************************)
(* oidc_jwt_parse either returns a complete JWT or leaves *j_jwt NULL and  *)
(* holds nothing (spec 4.4: "any stage failing ... destroys the partially  *)
(* built JWT and returns no output").                                      *)
(***************************************************************************)
ParseFailsClean ==
    pc = "failed" => (jwtp = NULL /\ live = {})

=============================================================================
