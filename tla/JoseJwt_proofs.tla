---------------------------- MODULE JoseJwt_proofs ----------------------------
(***************************************************************************)
(* Proofs about JoseJwt for every bound on the number of calls.            *)
(***************************************************************************)
EXTENDS JoseJwt, TLAPS

(***************************************************************************)
(* The inductive invariant: JwtOwnsResources, with what makes it           *)
(* inductive.  Before parse or new nothing exists; a destroyed JWT has its *)
(* pointers cleared; a failed oidc_jwt_sign leaves jwt->cjose_jws NULL;    *)
(* at most three objects are made before the first call, one per call.    *)
(***************************************************************************)
JwtInv ==
    /\ TypeOK
    /\ nextId <= 3 + ops
    /\ pc = "init" => (/\ live = {} /\ nextId = 0 /\ ops = 0 /\ lastSign = "none"
                       /\ hdr = NULL /\ pay = NULL /\ jws = NULL)
    /\ pc = "destroyed" => (hdr = NULL /\ pay = NULL /\ jws = NULL)
    /\ lastSign = "failed" => jws = NULL
    /\ JwtOwnsResources

\* An identity the next allocations return is an object of its kind, never NULL.
LEMMA FreshId ==
    ASSUME NEW kind \in {"jws", "json", "buf"}, NEW k \in Nat,
           nextId \in Nat, nextId + k <= MaxId
    PROVE  Fresh(kind, k) \in Ids(kind) /\ Fresh(kind, k) # NULL
<1>1. Fresh(kind, k) \in Ids(kind)
    BY MaxOpsAssumption DEF Fresh, Ids, MaxId
<1>2. Fresh(kind, k) \in Objects
    BY <1>1 DEF Objects
<1> QED
    BY <1>1, <1>2, NullAssumption

\* No object identity is NULL.
LEMMA IdsNotNull ==
    ASSUME NEW kind \in {"jws", "json", "buf"}
    PROVE  NULL \notin Ids(kind)
    BY NullAssumption DEF Objects

\* Nothing exists before the JWT is made.
LEMMA InitInv == Init => JwtInv
<1> SUFFICES ASSUME Init PROVE JwtInv
    OBVIOUS
<1>1. 0 \in 0..MaxId
    BY MaxOpsAssumption DEF MaxId
<1>2. TypeOK
    <2>1. nextId \in 0..MaxId /\ ops \in 0..MaxOps
        BY <1>1, MaxOpsAssumption DEF Init
    <2>2. /\ hdr \in Ids("json") \cup {NULL} /\ pay \in Ids("json") \cup {NULL}
          /\ jws \in Ids("jws") \cup {NULL} /\ serialized \in Ids("jws") \cup {NULL, "unsigned"}
        BY DEF Init
    <2>3. /\ pc \in {"init", "ready", "failed", "destroyed"} /\ jwtp \in {NULL, "jwt"}
          /\ alg \in {NULL, "none", "signed"} /\ live \subseteq Objects
          /\ lastSign \in {"none", "ok", "failed"} /\ rv \in BOOLEAN
        BY DEF Init
    <2> QED
        BY <2>1, <2>2, <2>3 DEF TypeOK
<1>3. JwtOwnsResources
    BY DEF Init, JwtOwnsResources
<1> QED
    BY <1>2, <1>3 DEF Init, JwtInv

(***************************************************************************)
(* Every call on the JWT keeps JwtInv, given a base64url encoder and a    *)
(* JWE export that do not fail.                                            *)
(***************************************************************************)
LEMMA StepInv ==
    ASSUME ~B64_FAILS, ~EXPORT_FAILS
    PROVE  JwtInv /\ [Next]_vars => JwtInv'
<1> SUFFICES ASSUME JwtInv, [Next]_vars PROVE JwtInv'
    OBVIOUS
<1>0. /\ TypeOK /\ nextId <= 3 + ops /\ nextId \in Nat /\ ops \in Nat
      /\ MaxOps \in Nat /\ MaxId = 3 + 2 * MaxOps
    BY MaxOpsAssumption DEF JwtInv, TypeOK, MaxId
<1>1. CASE Parse
    <2>1. /\ pc = "init" /\ live = {} /\ nextId = 0 /\ ops = 0 /\ lastSign = "none"
          /\ hdr = NULL /\ pay = NULL /\ jws = NULL
          /\ UNCHANGED <<ops, lastSign, serialized>>
        BY <1>1 DEF Parse, JwtInv
    <2>2. /\ Fresh("jws", 0) \in Ids("jws") /\ Fresh("jws", 0) # NULL
          /\ Fresh("json", 1) \in Ids("json") /\ Fresh("json", 1) # NULL
          /\ Fresh("json", 2) \in Ids("json") /\ Fresh("json", 2) # NULL
          /\ 3 \in 0..MaxId
        BY <1>0, <2>1, FreshId
    <2>3. PICK stage \in ParseStages :
             \/ /\ stage \in {"decrypt", "import"}
                /\ pc' = "failed"
                /\ rv' = FALSE
                /\ UNCHANGED <<jwtp, hdr, pay, jws, alg, live, nextId>>
             \/ /\ stage \in {"plaintext", "json", "object"}
                /\ pc' = "failed"
                /\ rv' = FALSE
                /\ ParseFailure(stage)
                /\ jws' = IF stage = "plaintext" THEN Fresh("jws", 0) ELSE NULL
                /\ hdr' = IF stage = "plaintext" THEN Fresh("json", 1) ELSE NULL
                /\ alg' = "signed"
                /\ nextId' = nextId + 3
                /\ UNCHANGED pay
             \/ /\ stage = "ok"
                /\ pc' = "ready"
                /\ rv' = TRUE
                /\ jwtp' = "jwt"
                /\ jws' = Fresh("jws", 0)
                /\ hdr' = Fresh("json", 1)
                /\ pay' = Fresh("json", 2)
                /\ alg' = "signed"
                /\ live' = live \cup {Fresh("jws", 0), Fresh("json", 1), Fresh("json", 2)}
                /\ nextId' = nextId + 3
        BY <1>1 DEF Parse
    <2>4. CASE stage \in {"decrypt", "import"}
        <3>1. /\ pc' = "failed" /\ rv' = FALSE
              /\ UNCHANGED <<jwtp, hdr, pay, jws, alg, live, nextId>>
            BY <2>3, <2>4
        <3>2. TypeOK'
            BY <1>0, <2>1, <3>1 DEF TypeOK
        <3> QED
            BY <1>0, <2>1, <3>1, <3>2 DEF JwtInv, JwtOwnsResources
    <2>5. CASE stage \in {"plaintext", "json", "object"}
        <3>1. /\ pc' = "failed" /\ rv' = FALSE /\ alg' = "signed" /\ nextId' = 3
              /\ pay' = NULL /\ jwtp' \in {NULL, "jwt"}
              /\ jws' \in {Fresh("jws", 0), NULL} /\ hdr' \in {Fresh("json", 1), NULL}
              /\ live' \subseteq {Fresh("jws", 0), Fresh("json", 1)}
            BY <2>1, <2>3, <2>5 DEF ParseFailure
        <3>2. TypeOK'
            BY <1>0, <2>1, <2>2, <3>1 DEF TypeOK, Objects
        <3> QED
            BY <1>0, <2>1, <3>1, <3>2 DEF JwtInv, JwtOwnsResources
    <2>6. CASE stage = "ok"
        <3>1. /\ pc' = "ready" /\ rv' = TRUE /\ jwtp' = "jwt" /\ alg' = "signed"
              /\ jws' = Fresh("jws", 0) /\ hdr' = Fresh("json", 1) /\ pay' = Fresh("json", 2)
              /\ live' = {Fresh("jws", 0), Fresh("json", 1), Fresh("json", 2)}
              /\ nextId' = 3
            BY <2>1, <2>3, <2>6
        <3>2. TypeOK'
            BY <1>0, <2>1, <2>2, <3>1 DEF TypeOK, Objects
        <3>3. JwtOwnsResources'
            BY <2>2, <3>1 DEF JwtOwnsResources
        <3> QED
            BY <1>0, <2>1, <3>1, <3>2, <3>3 DEF JwtInv
    <2> QED
        BY <2>3, <2>4, <2>5, <2>6
<1>2. CASE New
    <2>1. /\ pc = "init" /\ live = {} /\ nextId = 0 /\ ops = 0 /\ lastSign = "none"
          /\ jws = NULL
        BY <1>2 DEF New, JwtInv
    <2>2. /\ Fresh("json", 0) \in Ids("json") /\ Fresh("json", 0) # NULL
          /\ Fresh("json", 1) \in Ids("json") /\ Fresh("json", 1) # NULL
          /\ 2 \in 0..MaxId
        BY <1>0, <2>1, FreshId
    <2>3. /\ alg' \in {"none", "signed"} /\ pc' = "ready" /\ jwtp' = "jwt"
          /\ hdr' = Fresh("json", 0) /\ pay' = Fresh("json", 1)
          /\ live' = {Fresh("json", 0), Fresh("json", 1)} /\ nextId' = 2
          /\ UNCHANGED <<jws, ops, lastSign, serialized, rv>>
        BY <1>2, <2>1 DEF New
    <2>4. TypeOK'
        BY <1>0, <2>1, <2>2, <2>3 DEF TypeOK, Objects
    <2>5. JwtOwnsResources'
        BY <2>1, <2>2, <2>3 DEF JwtOwnsResources
    <2> QED
        BY <1>0, <2>1, <2>3, <2>4, <2>5 DEF JwtInv
<1>3. CASE Sign
    <2>1. /\ pc = "ready" /\ ops < MaxOps /\ live = {hdr, pay, jws} \ {NULL}
          /\ nextId' = nextId + 1 /\ ops' = ops + 1
          /\ UNCHANGED <<pc, jwtp, hdr, pay, alg, serialized>>
        BY <1>3 DEF Sign, JwtInv, JwtOwnsResources
    <2>2. Fresh("jws", 0) \in Ids("jws") /\ Fresh("jws", 0) # NULL
          /\ nextId + 1 \in 0..MaxId
        BY <1>0, <2>1, FreshId
    <2>3. PICK ok \in IF alg = "signed" THEN BOOLEAN ELSE {FALSE} :
             /\ jws' = SignResult(ok)
             /\ live' = Released({jws}) \cup (IF ok THEN {Fresh("jws", 0)} ELSE {})
             /\ lastSign' = IF ok THEN "ok" ELSE "failed"
             /\ rv' = ok
        BY <1>3 DEF Sign
    <2>4. ok \in BOOLEAN
        BY <2>3
    <2>5. (hdr # jws /\ pay # jws) \/ jws = NULL
        BY <1>0 DEF TypeOK, Ids
    <2>6. live \ {jws} = {hdr, pay} \ {NULL}
        BY <2>1, <2>5
    <2>7. CASE ok
        <3>1. jws' = Fresh("jws", 0) /\ live' = ({hdr, pay} \ {NULL}) \cup {Fresh("jws", 0)}
              /\ lastSign' = "ok" /\ rv' = TRUE
            BY <2>3, <2>6, <2>7, Zenon DEF SignResult, Released
        <3>2. TypeOK'
            BY <1>0, <2>1, <2>2, <3>1 DEF TypeOK, Objects
        <3>3. JwtOwnsResources'
            BY <2>1, <2>2, <3>1 DEF JwtOwnsResources
        <3> QED
            BY <1>0, <2>1, <3>1, <3>2, <3>3 DEF JwtInv
    <2>8. CASE ~ok
        <3>1. jws' = NULL /\ live' = {hdr, pay} \ {NULL}
              /\ lastSign' = "failed" /\ rv' = FALSE
            BY <2>3, <2>4, <2>6, <2>8 DEF SignResult, Released
        <3>4. live' \subseteq Objects
            BY <1>0, <3>1 DEF TypeOK, Objects
        <3>5. /\ nextId' \in 0..MaxId /\ ops' \in 0..MaxOps
            BY <1>0, <2>1, <2>2
        <3>6. /\ pc' \in {"init", "ready", "failed", "destroyed"}
              /\ jwtp' \in {NULL, "jwt"}
              /\ hdr' \in Ids("json") \cup {NULL}
              /\ pay' \in Ids("json") \cup {NULL}
              /\ alg' \in {NULL, "none", "signed"}
              /\ serialized' \in Ids("jws") \cup {NULL, "unsigned"}
            BY <1>0, <2>1 DEF TypeOK
        <3>2. TypeOK'
            BY <3>1, <3>4, <3>5, <3>6 DEF TypeOK
        <3>3. JwtOwnsResources'
            BY <2>1, <3>1 DEF JwtOwnsResources
        <3> QED
            BY <1>0, <2>1, <3>1, <3>2, <3>3 DEF JwtInv
    <2> QED
        BY <2>4, <2>7, <2>8
<1>4. CASE Serialize
    <2>1. /\ pc = "ready" /\ ops < MaxOps /\ ops' = ops + 1
          /\ UNCHANGED <<pc, jwtp, hdr, pay, jws, alg, lastSign, rv>>
        BY <1>4 DEF Serialize
    <2>2. /\ UNCHANGED <<live, nextId>>
          /\ serialized' \in {jws, "unsigned"}
        BY <1>4, B64Assumption DEF Serialize, B64Outcomes
    <2>3. TypeOK'
        BY <1>0, <2>1, <2>2 DEF TypeOK
    <2> QED
        BY <1>0, <2>1, <2>2, <2>3 DEF JwtInv, JwtOwnsResources
<1>7. CASE Encrypt
    <2>1. /\ pc = "ready" /\ ops < MaxOps /\ ops' = ops + 1
          /\ UNCHANGED <<pc, jwtp, hdr, pay, jws, alg, lastSign, serialized>>
        BY <1>7 DEF Encrypt
    <2>2. /\ UNCHANGED <<live, nextId>> /\ rv' \in BOOLEAN
        BY <1>7, ExportAssumption DEF Encrypt, ExportOutcomes
    <2>3. TypeOK'
        BY <1>0, <2>1, <2>2 DEF TypeOK
    <2> QED
        BY <1>0, <2>1, <2>2, <2>3 DEF JwtInv, JwtOwnsResources
<1>5. CASE Destroy
    <2>1. /\ pc = "ready" /\ live = {hdr, pay, jws} \ {NULL}
          /\ live' = live \ {hdr, pay, jws}
          /\ hdr' = NULL /\ pay' = NULL /\ jws' = NULL /\ pc' = "destroyed"
          /\ UNCHANGED <<jwtp, alg, nextId, ops, lastSign, serialized, rv>>
        BY <1>5 DEF Destroy, Released, JwtInv, JwtOwnsResources
    <2>2. live' = {}
        BY <2>1
    <2>3. TypeOK'
        BY <1>0, <2>1, <2>2 DEF TypeOK
    <2> QED
        BY <1>0, <2>1, <2>2, <2>3 DEF JwtInv, JwtOwnsResources
<1>6. CASE UNCHANGED vars
    BY <1>6 DEF vars, JwtInv, TypeOK, JwtOwnsResources
<1> QED
    BY <1>1, <1>2, <1>3, <1>4, <1>5, <1>6, <1>7 DEF Next

(***************************************************************************)
(* A serialize call exports only the live handle of a sign that did not    *)
(* fail, in every state where JwtInv holds.                                *)
(***************************************************************************)
LEMMA SerializeStep ==
    JwtInv /\ [Next]_vars
        => [Serialize => (serialized' \in Ids("jws") =>
                            (serialized' \in live /\ lastSign # "failed"))]_vars
<1> SUFFICES ASSUME JwtInv, Serialize, serialized' \in Ids("jws")
             PROVE  serialized' \in live /\ lastSign # "failed"
    OBVIOUS
<1>1. NULL \notin Ids("jws") /\ "unsigned" \notin Ids("jws")
    BY IdsNotNull, TextAssumption
<1>2. serialized' \notin {NULL, "unsigned"}
    BY <1>1
<1>7. alg = "none" => serialized' \in {NULL, "unsigned"}
    BY B64Assumption DEF Serialize, B64Outcomes
<1>3. /\ pc = "ready" /\ alg = "signed" /\ serialized' = jws
      /\ UNCHANGED <<live, lastSign>>
    BY <1>2, <1>7 DEF Serialize
<1>4. jws # NULL
    BY <1>2, <1>3
<1>5. jws \in live
    BY <1>3, <1>4 DEF JwtInv, JwtOwnsResources
<1>6. lastSign # "failed"
    BY <1>4 DEF JwtInv
<1> QED
    BY <1>3, <1>5, <1>6

(***************************************************************************)
(* The JWT's pointers and the objects it holds keep their types through    *)
(* every parse, new, sign, serialize, encrypt and destroy.                          *)
(***************************************************************************)
THEOREM JwtTypeCorrect ==
    ASSUME ~B64_FAILS, ~EXPORT_FAILS
    PROVE  Spec => []TypeOK
<1>1. JwtInv => TypeOK
    BY DEF JwtInv
<1> QED
    BY <1>1, InitInv, StepInv, PTL DEF Spec

(***************************************************************************)
(* oidc_jwt_sign releases the handle it replaces and oidc_jwt_destroy      *)
(* releases everything: a JWT in use or destroyed owns exactly the objects *)
(* its pointers name, when base64url encoding and JWE export never fail   *)
(* (the failures at lines 201 and 940 leak: TLC finds it with either     *)
(* constant TRUE in JoseJwt.cfg).                                        *)
(***************************************************************************)
THEOREM JwtOwnsResourcesHolds ==
    ASSUME ~B64_FAILS, ~EXPORT_FAILS
    PROVE  Spec => []JwtOwnsResources
<1>1. JwtInv => JwtOwnsResources
    BY DEF JwtInv
<1> QED
    BY <1>1, InitInv, StepInv, PTL DEF Spec

(***************************************************************************)
(* oidc_jwt_serialize of a signed JWT never exports a released handle or   *)
(* the handle of a failed oidc_jwt_sign.                                   *)
(***************************************************************************)
THEOREM SerializeFollowsSignHolds ==
    ASSUME ~B64_FAILS, ~EXPORT_FAILS
    PROVE  Spec => SerializeFollowsSign
<1>1. Spec => []JwtInv
    BY InitInv, StepInv, PTL DEF Spec
<1> QED
    BY <1>1, SerializeStep, PTL DEF Spec, SerializeFollowsSign

=============================================================================
