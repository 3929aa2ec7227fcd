---------------------------- MODULE JoseJwk_proofs ----------------------------
(***************************************************************************)
(* Proofs about the JWK life cycle, for every bound on the number of keys  *)
(* and every set of x5c text lengths.                                      *)
(***************************************************************************)
EXTENDS JoseJwk, JosePem_proofs

\* The types of the JWK state, without the PEM loop's.
JwkTypeOK ==
    /\ pc \in {"idle", "x5c"}
    /\ handles \in Seq({"live", "released"})
    /\ jwks \in Seq(Nat \cup {NULL})
    /\ x5c \in Seq(BOOLEAN)
    /\ Len(x5c) = Len(jwks)
    /\ leaked \in Nat
    /\ fault \in {"none", "double_release", "use_after_release"}
    /\ result \in {"none", "failed", "jwk"}

\* Every key a JWK holds is one that was made.
HeldWereMade == \A j \in DOMAIN jwks : jwks[j] # NULL => jwks[j] \in DOMAIN handles

(***************************************************************************)
(* Ownership: the two properties of the run, and that a JWK only holds a   *)
(* key that was made, without which a new key could collide with a held   *)
(* one.                                                                    *)
(***************************************************************************)
Owns == HeldWereMade /\ KeyMaterialReleasedOnce /\ NothingLeaked

JwkInv == PemInv /\ JwkTypeOK /\ Owns

\* Every step of the JWK model is a step of the PEM loop or leaves it alone.
LEMMA NextIsPemStep == [Next]_vars => [PemNext]_pemVars
<1> SUFFICES ASSUME [Next]_vars PROVE [PemNext]_pemVars
    OBVIOUS
<1>1. CASE ParseBegin
    BY <1>1 DEF ParseBegin, PemNext, pemVars
<1>2. CASE ParseX5cLoop
    BY <1>2 DEF ParseX5cLoop, PemNext
<1>3. CASE ParseX5cEnd \/ CreateSymmetricKey \/ ImportKeyFile
    BY <1>3 DEF ParseX5cEnd, CreateSymmetricKey, ImportKeyFile, pemVars
<1>4. CASE \E j \in DOMAIN jwks : ToJson(j) \/ Destroy(j)
    BY <1>4 DEF ToJson, Destroy, pemVars
<1>5. CASE \E keys \in SUBSET DOMAIN jwks : ListDestroy(keys)
    BY <1>5 DEF ListDestroy, pemVars
<1>6. CASE UNCHANGED vars
    BY <1>6 DEF vars, pemVars
<1> QED
    BY <1>1, <1>2, <1>3, <1>4, <1>5, <1>6 DEF Next

\* The JWK model runs the PEM loop as JosePem specifies it.
LEMMA SpecIsPemSpec == Spec => PemSpec
<1>1. Init => PemInit
    BY DEF Init
<1> QED
    BY <1>1, NextIsPemStep, PTL DEF Spec, PemSpec

(***************************************************************************)
(* The x5c path of oidc_jwk_parse frames x5c[0] as spec 4.3 says, in the   *)
(* whole JWK life cycle: the refinement of JosePem_proofs carried over.    *)
(***************************************************************************)
THEOREM JwkPemRefinesSpec == Spec => PemImplementsSpec
BY SpecIsPemSpec, PemRefinesSpec, PTL

\* A new key handed out keeps Owns.
LEMMA HandsOwns ==
    ASSUME JwkTypeOK, Owns, NEW c \in BOOLEAN, Hands(c), UNCHANGED <<fault, leaked>>
    PROVE  Owns'
<1>1. /\ handles' = Append(handles, "live") /\ jwks' = Append(jwks, Len(handles) + 1)
      /\ Len(handles) + 1 \notin DOMAIN handles /\ Len(handles) + 1 # NULL
    BY NullAssumption DEF Hands, JwkTypeOK
<1>2. HeldWereMade'
    BY <1>1 DEF Owns, HeldWereMade, JwkTypeOK
<1>3. KeyMaterialReleasedOnce'
    BY <1>1 DEF Owns, HeldWereMade, KeyMaterialReleasedOnce, JwkTypeOK
<1>4. NothingLeaked'
    BY <1>1 DEF Owns, NothingLeaked, JwkTypeOK
<1> QED
    BY <1>2, <1>3, <1>4 DEF Owns

\* A step that leaves keys, JWKs, faults and leaks alone keeps Owns.
LEMMA StillOwns ==
    ASSUME Owns, UNCHANGED <<handles, jwks, fault, leaked>>
    PROVE  Owns'
BY DEF Owns, HeldWereMade, KeyMaterialReleasedOnce, NothingLeaked

LEMMA JwkInitInv == Init => JwkInv
<1> SUFFICES ASSUME Init PROVE JwkInv
    OBVIOUS
<1>1. PemInv
    BY PemInitInv DEF Init
<1>2. <<>> \in Seq({"live", "released"}) /\ <<>> \in Seq(Nat \cup {NULL})
      /\ <<>> \in Seq(BOOLEAN)
    OBVIOUS
<1> QED
    BY <1>1, <1>2 DEF Init, JwkInv, JwkTypeOK, Owns, HeldWereMade,
                      KeyMaterialReleasedOnce, NothingLeaked

(***************************************************************************)
(* Every call keeps JwkInv, when json_array_append_new does not fail.      *)
(***************************************************************************)
LEMMA JwkStepInv ==
    ASSUME ~APPEND_FAILS
    PROVE  JwkInv /\ [Next]_vars => JwkInv'
<1> SUFFICES ASSUME JwkInv, [Next]_vars PROVE JwkInv'
    OBVIOUS
<1>0. /\ PemInv' /\ JwkTypeOK /\ Owns
    BY NextIsPemStep, PemStepInv DEF JwkInv
<1>1. CASE ParseBegin
    <2>1. CASE Hands(FALSE) /\ result' = "jwk" /\ UNCHANGED <<pc, leaked, fault, pemVars>>
        <3>1. JwkTypeOK'
            BY <1>0, <2>1 DEF Hands, JwkTypeOK
        <3> QED
            BY <1>0, <2>1, <3>1, HandsOwns DEF JwkInv
    <2>2. CASE result' = "failed" /\ UNCHANGED <<pc, handles, jwks, x5c, leaked, fault, pemVars>>
        BY <1>0, <2>2, StillOwns DEF JwkInv, JwkTypeOK
    <2>3. CASE pc' = "x5c" /\ UNCHANGED <<handles, jwks, x5c, leaked, fault, result>>
        BY <1>0, <2>3, StillOwns DEF JwkInv, JwkTypeOK
    <2> QED
        BY <1>1, <2>1, <2>2, <2>3 DEF ParseBegin
<1>2. CASE ParseX5cLoop
    BY <1>0, <1>2, StillOwns DEF ParseX5cLoop, jwkVars, JwkInv, JwkTypeOK
<1>3. CASE ParseX5cEnd
    <2>1. CASE Hands(FALSE) /\ result' = "jwk"
        <3>1. JwkTypeOK'
            BY <1>0, <1>3, <2>1 DEF ParseX5cEnd, Hands, JwkTypeOK
        <3> QED
            BY <1>0, <1>3, <2>1, <3>1, HandsOwns DEF ParseX5cEnd, JwkInv
    <2>2. CASE result' = "failed" /\ UNCHANGED <<handles, jwks, x5c>>
        BY <1>0, <1>3, <2>2, StillOwns DEF ParseX5cEnd, JwkInv, JwkTypeOK
    <2> QED
        BY <1>3, <2>1, <2>2 DEF ParseX5cEnd
<1>4. CASE CreateSymmetricKey
    <2>1. CASE result' = "failed" /\ UNCHANGED <<handles, jwks, x5c, fault>>
        BY <1>0, <1>4, <2>1, StillOwns DEF CreateSymmetricKey, JwkInv, JwkTypeOK
    <2>2. CASE handles' = Append(handles, "released") /\ result' = "failed"
               /\ UNCHANGED <<jwks, x5c, fault>>
        <3>1. JwkTypeOK'
            BY <1>0, <1>4, <2>2 DEF CreateSymmetricKey, JwkTypeOK
        <3>2. Owns'
            BY <1>0, <1>4, <2>2 DEF CreateSymmetricKey, JwkTypeOK, Owns, HeldWereMade,
                                   KeyMaterialReleasedOnce, NothingLeaked
        <3> QED
            BY <1>0, <3>1, <3>2 DEF JwkInv
    <2>3. CASE Hands(FALSE) /\ result' = "jwk" /\ UNCHANGED fault
        <3>1. JwkTypeOK'
            BY <1>0, <1>4, <2>3 DEF CreateSymmetricKey, Hands, JwkTypeOK
        <3> QED
            BY <1>0, <1>4, <2>3, <3>1, HandsOwns DEF CreateSymmetricKey, JwkInv
    <2> QED
        BY <1>4, <2>1, <2>2, <2>3 DEF CreateSymmetricKey
<1>5. CASE ImportKeyFile
    <2>1. CASE result' = "failed" /\ UNCHANGED <<handles, jwks, x5c>>
        BY <1>0, <1>5, <2>1, StillOwns DEF ImportKeyFile, JwkInv, JwkTypeOK
    <2>2. CASE jwks' = Append(jwks, NULL) /\ x5c' = Append(x5c, FALSE)
               /\ result' = "failed" /\ UNCHANGED handles
        <3>1. JwkTypeOK'
            BY <1>0, <1>5, <2>2 DEF ImportKeyFile, JwkTypeOK
        <3>2. Owns'
            BY <1>0, <1>5, <2>2 DEF ImportKeyFile, JwkTypeOK, Owns, HeldWereMade,
                                   KeyMaterialReleasedOnce, NothingLeaked
        <3> QED
            BY <1>0, <3>1, <3>2 DEF JwkInv
    <2>3. CASE \E chain \in BOOLEAN, rv \in {"jwk", "failed"} : Hands(chain) /\ result' = rv
        <3>1. PICK chain \in BOOLEAN, rv \in {"jwk", "failed"} : Hands(chain) /\ result' = rv
            BY <2>3
        <3>2. JwkTypeOK'
            BY <1>0, <1>5, <3>1 DEF ImportKeyFile, Hands, JwkTypeOK
        <3> QED
            BY <1>0, <1>5, <3>1, <3>2, HandsOwns DEF ImportKeyFile, JwkInv
    <2> QED
        BY <1>5, <2>1, <2>2, <2>3 DEF ImportKeyFile
<1>6. ASSUME NEW j \in DOMAIN jwks, ToJson(j)
      PROVE  JwkInv'
    <2>1. fault' = fault
        BY <1>0, <1>6 DEF ToJson, JwkTypeOK, Owns, KeyMaterialReleasedOnce
    <2>2. PICK stop \in ToJsonStops(j, jwks[j]) :
                 /\ result' = IF stop = "ok" /\ jwks[j] # NULL THEN "jwk" ELSE "failed"
                 /\ leaked' = leaked + (IF stop = "append" THEN 1 ELSE 0)
        BY <1>6 DEF ToJson
    <2>5. stop # "append"
        BY <2>2 DEF ToJsonStops
    <2>6. leaked' = leaked /\ result' \in {"jwk", "failed"}
        BY <1>0, <2>2, <2>5 DEF JwkTypeOK
    <2>3. JwkTypeOK'
        BY <1>0, <1>6, <2>1, <2>6 DEF ToJson, JwkTypeOK
    <2> QED
        BY <1>0, <1>6, <2>1, <2>6, <2>3, StillOwns DEF ToJson, JwkInv
<1>7. ASSUME NEW j \in DOMAIN jwks, Destroy(j)
      PROVE  JwkInv'
    <2>1. /\ jwks[j] \in DOMAIN handles /\ handles[jwks[j]] = "live"
          /\ \A k \in DOMAIN jwks : k # j => jwks[k] # jwks[j]
        BY <1>0, <1>7 DEF Destroy, Owns, HeldWereMade, KeyMaterialReleasedOnce
    <2>2. /\ handles' = [handles EXCEPT ![jwks[j]] = "released"] /\ fault' = fault
          /\ jwks' = [jwks EXCEPT ![j] = NULL] /\ UNCHANGED <<pc, x5c, leaked>>
          /\ result' = "none"
        BY <1>7, <2>1 DEF Destroy, Release
    <2>3. JwkTypeOK'
        BY <1>0, <1>7, <2>1, <2>2 DEF JwkTypeOK
    <2>4. Owns'
        BY <1>0, <2>1, <2>2 DEF JwkTypeOK, Owns, HeldWereMade,
                               KeyMaterialReleasedOnce, NothingLeaked
    <2> QED
        BY <1>0, <2>3, <2>4 DEF JwkInv
<1>8. ASSUME NEW keys \in SUBSET DOMAIN jwks, ListDestroy(keys)
      PROVE  JwkInv'
    <2> DEFINE held == {jwks[j] : j \in keys} \ {NULL}
    <2>1. \A h \in held : h \in DOMAIN handles /\ handles[h] = "live"
        BY <1>0 DEF Owns, HeldWereMade, KeyMaterialReleasedOnce
    <2>2. /\ handles' = [h \in DOMAIN handles |-> IF h \in held THEN "released" ELSE handles[h]]
          /\ fault' = fault
          /\ jwks' = [j \in DOMAIN jwks |-> IF j \in keys THEN NULL ELSE jwks[j]]
          /\ UNCHANGED <<pc, x5c, leaked>> /\ result' = "none"
        BY <1>8, <2>1 DEF ListDestroy
    <2>3. \A j \in DOMAIN jwks : j \notin keys /\ jwks[j] # NULL => jwks[j] \notin held
        BY <1>0 DEF Owns, KeyMaterialReleasedOnce
    <2>4. JwkTypeOK'
        BY <1>0, <2>2 DEF JwkTypeOK
    <2>5. Owns'
        BY <1>0, <2>1, <2>2, <2>3 DEF JwkTypeOK, Owns, HeldWereMade,
                                     KeyMaterialReleasedOnce, NothingLeaked
    <2> QED
        BY <1>0, <2>4, <2>5 DEF JwkInv
<1>9. CASE UNCHANGED vars
    BY <1>0, <1>9, StillOwns DEF vars, JwkInv, JwkTypeOK
<1> QED
    BY <1>1, <1>2, <1>3, <1>4, <1>5, <1>6, <1>7, <1>8, <1>9 DEF Next

\* Every reachable state of the JWK model is well typed, for every bound,
\* when json_array_append_new does not fail.
THEOREM JwkTypeCorrect ==
    ASSUME ~APPEND_FAILS
    PROVE  Spec => []TypeOK
<1>1. Spec => []JwkInv
    BY JwkInitInv, JwkStepInv, PTL DEF Spec
<1>2. JwkInv => TypeOK
    BY DEF JwkInv, PemInv, JwkTypeOK, TypeOK
<1> QED
    BY <1>1, <1>2, PTL

(***************************************************************************)
(* For every bound on the keys made, oidc_jwk_destroy and                  *)
(* oidc_jwk_list_destroy release each cjose_jwk_t once, never one another  *)
(* JWK still holds, and to_json never reads a released key.                *)
(***************************************************************************)
THEOREM KeyMaterialReleasedOnceHolds ==
    ASSUME ~APPEND_FAILS
    PROVE  Spec => []KeyMaterialReleasedOnce
<1>1. Spec => []JwkInv
    BY JwkInitInv, JwkStepInv, PTL DEF Spec
<1> QED
    BY <1>1, PTL DEF JwkInv, Owns

(***************************************************************************)
(* For every bound, every live cjose_jwk_t is held by a JWK the caller     *)
(* got (create_symmetric_key releases the key it cannot give a kid) and,   *)
(* when json_array_append_new does not fail, to_json frees what it makes.  *)
(***************************************************************************)
THEOREM NothingLeakedHolds ==
    ASSUME ~APPEND_FAILS
    PROVE  Spec => []NothingLeaked
<1>1. Spec => []JwkInv
    BY JwkInitInv, JwkStepInv, PTL DEF Spec
<1> QED
    BY <1>1, PTL DEF JwkInv, Owns

=============================================================================
