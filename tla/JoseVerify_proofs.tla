--------------------------- MODULE JoseVerify_proofs ---------------------------
(***************************************************************************)
(* Proofs about JoseVerify for every keyset size, every set of algorithms  *)
(* and every set of cjose versions.                                        *)
(***************************************************************************)
EXTENDS JoseVerify, TLAPS

\* The initial state of a parsed JWT is well typed.
LEMMA TypeInit == Init => TypeOK
<1> SUFFICES ASSUME Init PROVE TypeOK
OBVIOUS
<1>1. todo \in SUBSET InKeyset /\ tried \in SUBSET InKeyset
  BY DEF Init
<1>2. jws \in {"jws", NULL} /\ handle \in {"live", "freed"}
      /\ pc \in {"idle", "loop", "destroyed", "crashed"}
      /\ rc \in BOOLEAN /\ result \in {<<>>, <<TRUE>>, <<FALSE>>}
      /\ fault \in Faults /\ serialized \in {"unset", "unsigned", "compact", NULL}
  BY DEF Init, Faults
<1>3. QED
  BY <1>1, <1>2 DEF Init, TypeOK

\* Every operation on the JWT keeps the variables well typed.
LEMMA TypeStep == TypeOK /\ [Next]_vars => TypeOK'
<1> SUFFICES ASSUME TypeOK, [Next]_vars PROVE TypeOK'
  OBVIOUS
<1>1. CASE VerifyNullKeyset
  BY <1>1 DEF VerifyNullKeyset, TypeOK, InKeyset, Faults, Fail
<1>2. CASE VerifyKid
  BY <1>2 DEF VerifyKid, KidFound, cjose_jws_verify, TypeOK, InKeyset, Faults, Fail
<1>3. CASE VerifyStart
  BY <1>3 DEF VerifyStart, TypeOK, InKeyset
<1>4. CASE VerifyStep
  <2>1. PICK k \in todo :
          /\ IF IsCandidate(k)
                THEN cjose_jws_verify(k, tried)
                ELSE UNCHANGED <<rc, tried, jws, handle, fault>>
          /\ todo' = todo \ {k}
          /\ IF LoopExits(rc', jws')
                THEN pc' = "idle" /\ result' = <<rc'>>
                ELSE UNCHANGED <<pc, result>>
    BY <1>4 DEF VerifyStep
  <2>2. keys' = keys /\ k \in InKeyset
    BY <1>4, <2>1 DEF VerifyStep, TypeOK
  <2>3. /\ rc' \in BOOLEAN
        /\ tried' \in SUBSET InKeyset
        /\ jws' \in {"jws", NULL}
        /\ handle' \in {"live", "freed"}
        /\ fault' \in Faults
    <3>1. CASE IsCandidate(k)
      BY <2>1, <2>2, <3>1 DEF cjose_jws_verify, TypeOK, Faults, Fail
    <3>2. CASE ~IsCandidate(k)
      BY <2>1, <3>2 DEF TypeOK
    <3>3. QED
      BY <3>1, <3>2
  <2>4. pc' \in {"idle", "loop", "destroyed", "crashed"} /\ result' \in {<<>>, <<TRUE>>, <<FALSE>>}
    BY <2>1, <2>3 DEF TypeOK, LoopExits
  <2>5. QED
    BY <1>4, <2>1, <2>2, <2>3, <2>4 DEF VerifyStep, TypeOK, InKeyset
<1>5. CASE VerifyEnd
  BY <1>5 DEF VerifyEnd, TypeOK, InKeyset
<1>6. CASE Serialize
  BY <1>6 DEF Serialize, TypeOK, InKeyset, Faults, Fail
<1>7. CASE Destroy
  BY <1>7 DEF Destroy, TypeOK, InKeyset, Faults, Fail
<1>8. CASE UNCHANGED vars
  BY <1>8 DEF vars, TypeOK, InKeyset
<1>9. QED
  BY <1>1, <1>2, <1>3, <1>4, <1>5, <1>6, <1>7, <1>8 DEF Next

\* Typing: every variable keeps its type, and the walk only ever holds, and
\* cjose_jws_verify only ever receives, kids that are in the keyset.
THEOREM TypeCorrect == Spec => []TypeOK
BY TypeInit, TypeStep, PTL DEF Spec
-----------------------------------------------------------------------------
(***************************************************************************)
(* The condition under which the version test of oidc_jwt_verify is        *)
(* enough: every cjose version that releases the handle on a failed        *)
(* verification is one whose version string starts with "0.4.".            *)
(***************************************************************************)
VersionTestExact == \A v \in Versions : Defective(v) => oidc_jose_version_deprecated(v)

(***************************************************************************)
(* The invariant behind HandleReleasedOnce: jwt->cjose_jws is set exactly  *)
(* while the cjose_jws_t is live, and oidc_jwt_destroy leaves it cleared.  *)
(***************************************************************************)
HandleInv ==
    /\ TypeOK
    /\ fault \notin {"use_after_free", "double_free"}
    /\ (jws = "jws") <=> (handle = "live")
    /\ pc = "destroyed" => jws = NULL

(***************************************************************************)
(* The invariant behind VerifySound: the kid-less walk runs only for a     *)
(* header without a kid and with rc still FALSE.                           *)
(***************************************************************************)
SoundInv ==
    /\ TypeOK
    /\ VerifySound
    /\ pc = "loop" => (hdr.kid = NoKid /\ rc = FALSE)

\* Under VersionTestExact, the version test of oidc_jwt_verify is exactly the
\* question "does a failed cjose_jws_verify release the handle?".
LEMMA VersionTest ==
    ASSUME VersionTestExact, NEW v \in Versions
    PROVE  Defective(v) <=> oidc_jose_version_deprecated(v)
<1>1. v \in Nat \X Nat
  BY VersionsAssumption
<1>2. oidc_jose_version_deprecated(v) => Defective(v)
  BY <1>1 DEF oidc_jose_version_deprecated, Defective
<1>3. QED
  BY <1>2 DEF VersionTestExact

\* One cjose_jws_verify with its version-gated clearing of jwt->cjose_jws
\* neither touches a released handle nor lets pointer and object disagree.
LEMMA VerifyCallKeepsHandle ==
    ASSUME HandleInv, VersionTestExact, NEW k, NEW before, cjose_jws_verify(k, before)
    PROVE  /\ fault' \notin {"use_after_free", "double_free"}
           /\ (jws' = "jws") <=> (handle' = "live")
<1>1. jws \in {"jws", NULL} /\ handle \in {"live", "freed"} /\ "jws" # NULL
  BY NullAssumption DEF HandleInv, TypeOK
<1>2. Defective(version) <=> oidc_jose_version_deprecated(version)
  BY VersionTest DEF HandleInv, TypeOK
<1>3. fault' \notin {"use_after_free", "double_free"}
  BY <1>1 DEF HandleInv, cjose_jws_verify
<1>4. (jws' = "jws") <=> (handle' = "live")
  BY <1>1, <1>2 DEF HandleInv, cjose_jws_verify
<1>5. QED
  BY <1>3, <1>4

\* Every operation on the JWT preserves HandleInv.
LEMMA HandleInvStep ==
    ASSUME VersionTestExact
    PROVE  HandleInv /\ [Next]_vars => HandleInv'
<1> SUFFICES ASSUME HandleInv, [Next]_vars PROVE HandleInv'
  OBVIOUS
<1>1. TypeOK'
  BY TypeStep DEF HandleInv
<1>2. "jws" # NULL /\ jws \in {"jws", NULL} /\ handle \in {"live", "freed"}
  BY NullAssumption DEF HandleInv, TypeOK
<1> DEFINE Rest == /\ fault \notin {"use_after_free", "double_free"}
                   /\ (jws = "jws") <=> (handle = "live")
                   /\ pc = "destroyed" => jws = NULL
<1>3. SUFFICES Rest'
  BY <1>1 DEF HandleInv
<1>4. CASE VerifyNullKeyset
  BY <1>4 DEF VerifyNullKeyset, HandleInv, Fail
<1>5. CASE VerifyKid
  <2>1. CASE KidFound(hdr.kid)
    BY <1>5, <2>1, VerifyCallKeepsHandle DEF VerifyKid
  <2>2. CASE ~KidFound(hdr.kid)
    BY <1>5, <2>2 DEF VerifyKid, HandleInv
  <2>3. QED
    BY <2>1, <2>2
<1>6. CASE VerifyStart
  BY <1>6 DEF VerifyStart, HandleInv
<1>7. CASE VerifyStep
  <2>1. PICK k \in todo :
          /\ IF IsCandidate(k)
                THEN cjose_jws_verify(k, tried)
                ELSE UNCHANGED <<rc, tried, jws, handle, fault>>
          /\ todo' = todo \ {k}
          /\ IF LoopExits(rc', jws')
                THEN pc' = "idle" /\ result' = <<rc'>>
                ELSE UNCHANGED <<pc, result>>
    BY <1>7 DEF VerifyStep
  <2>2. pc' \in {"idle", "loop"}
    BY <1>7, <2>1 DEF VerifyStep
  <2>3. CASE IsCandidate(k)
    BY <2>1, <2>2, <2>3, VerifyCallKeepsHandle
  <2>4. CASE ~IsCandidate(k)
    BY <2>1, <2>2, <2>4 DEF HandleInv
  <2>5. QED
    BY <2>3, <2>4
<1>8. CASE VerifyEnd
  BY <1>8 DEF VerifyEnd, HandleInv
<1>9. CASE Serialize
  BY <1>2, <1>9 DEF Serialize, HandleInv
<1>10. CASE Destroy
  BY <1>2, <1>10 DEF Destroy, HandleInv
<1>11. CASE UNCHANGED vars
  BY <1>11 DEF vars, HandleInv
<1>12. QED
  BY <1>4, <1>5, <1>6, <1>7, <1>8, <1>9, <1>10, <1>11 DEF Next

(***************************************************************************)
(* oidc_jwt_verify, oidc_jwt_serialize and oidc_jwt_destroy never use or   *)
(* release a freed cjose_jws_t, and destroy leaves it freed, for every     *)
(* keyset, algorithm and key type, provided every cjose version that frees *)
(* the handle on a failed verification matches the "0.4." prefix test.     *)
(***************************************************************************)
THEOREM HandleSafe ==
    ASSUME VersionTestExact
    PROVE  Spec => []HandleReleasedOnce
<1>1. Init => HandleInv
  BY TypeInit, NullAssumption DEF Init, HandleInv
<1>2. HandleInv => HandleReleasedOnce
  BY NullAssumption DEF HandleInv, HandleReleasedOnce, TypeOK
<1>3. QED
  BY <1>1, <1>2, HandleInvStep, PTL DEF Spec

\* Every operation on the JWT preserves SoundInv.
LEMMA SoundInvStep == SoundInv /\ [Next]_vars => SoundInv'
<1> SUFFICES ASSUME SoundInv, [Next]_vars PROVE SoundInv'
  OBVIOUS
<1>1. TypeOK'
  BY TypeStep DEF SoundInv
<1>2. SUFFICES VerifySound' /\ (pc' = "loop" => (hdr'.kid = NoKid /\ rc' = FALSE))
  BY <1>1 DEF SoundInv
<1>3. CASE VerifyNullKeyset
  BY <1>3 DEF VerifyNullKeyset, SoundInv, VerifySound, Candidates, InKeyset, IsCandidate
<1>4. CASE VerifyKid
  <2>1. CASE KidFound(hdr.kid)
    <3>1. rc' = TRUE => signer = hdr.kid /\ hdr.kid \in InKeyset
      BY <1>4, <2>1 DEF VerifyKid, cjose_jws_verify, KidFound
    <3>2. QED
      BY <1>4, <3>1 DEF VerifyKid, SoundInv, VerifySound, Candidates, InKeyset, IsCandidate
  <2>4. CASE ~KidFound(hdr.kid)
    BY <1>4, <2>4 DEF VerifyKid, SoundInv, VerifySound, Candidates, InKeyset, IsCandidate
  <2>5. QED
    BY <2>1, <2>4
<1>5. CASE VerifyStart
  BY <1>5 DEF VerifyStart, SoundInv, VerifySound, Candidates, InKeyset, IsCandidate
<1>6. CASE VerifyStep
  <2>1. PICK j \in todo :
          /\ IF IsCandidate(j)
                THEN cjose_jws_verify(j, tried)
                ELSE UNCHANGED <<rc, tried, jws, handle, fault>>
          /\ todo' = todo \ {j}
          /\ IF LoopExits(rc', jws')
                THEN pc' = "idle" /\ result' = <<rc'>>
                ELSE UNCHANGED <<pc, result>>
    BY <1>6 DEF VerifyStep
  <2>2. keys' = keys /\ hdr' = hdr /\ signer' = signer /\ pc = "loop" /\ hdr.kid = NoKid /\ rc = FALSE
    BY <1>6 DEF VerifyStep, SoundInv
  <2>3. j \in InKeyset
    BY <2>1 DEF SoundInv, TypeOK
  <2>4. rc' = TRUE => signer \in Candidates
    <3>1. CASE IsCandidate(j)
      BY <2>1, <2>2, <2>3, <3>1 DEF cjose_jws_verify, Candidates
    <3>2. CASE ~IsCandidate(j)
      BY <2>1, <2>2, <3>2
    <3>3. QED
      BY <3>1, <3>2
  <2>5. Candidates' = Candidates
    BY <2>2 DEF Candidates, InKeyset, IsCandidate
  <2>6. CASE LoopExits(rc', jws')
    <3>1. result' = <<rc'>> /\ rc' \in BOOLEAN /\ pc' = "idle"
      BY <1>1, <2>1, <2>6 DEF TypeOK
    <3>2. result' = <<TRUE>> => rc' = TRUE
      BY <3>1
    <3>3. QED
      BY <3>1, <3>2, <2>2, <2>4, <2>5 DEF VerifySound
  <2>7. CASE ~LoopExits(rc', jws')
    <3>1. result' = result /\ pc' = pc /\ rc' = FALSE
      BY <1>1, <2>1, <2>7 DEF TypeOK, LoopExits
    <3>2. QED
      BY <3>1, <2>2, <2>5 DEF SoundInv, VerifySound
  <2>8. QED
    BY <2>6, <2>7
<1>7. CASE VerifyEnd
  BY <1>7 DEF VerifyEnd, SoundInv, VerifySound, Candidates, InKeyset, IsCandidate
<1>8. CASE Serialize
  BY <1>8 DEF Serialize, SoundInv, VerifySound, Candidates, InKeyset, IsCandidate
<1>9. CASE Destroy
  BY <1>9 DEF Destroy, SoundInv, VerifySound, Candidates, InKeyset, IsCandidate
<1>10. CASE UNCHANGED vars
  BY <1>10 DEF vars, SoundInv, VerifySound, Candidates, InKeyset, IsCandidate
<1>11. QED
  BY <1>3, <1>4, <1>5, <1>6, <1>7, <1>8, <1>9, <1>10 DEF Next

(***************************************************************************)
(* oidc_jwt_verify returns TRUE only for a signature made by the key the   *)
(* kid names or, without a kid, by a key of the algorithm's type: neither  *)
(* an rc left over from an earlier call nor a failed attempt can make the  *)
(* walk succeed.  Holds for every keyset and every cjose version.          *)
(***************************************************************************)
THEOREM VerifySoundness == Spec => []VerifySound
<1>1. Init => SoundInv
  BY TypeInit, NullAssumption DEF Init, SoundInv, VerifySound
<1>2. SoundInv => VerifySound
  BY DEF SoundInv
<1>3. QED
  BY <1>1, <1>2, SoundInvStep, PTL DEF Spec

-----------------------------------------------------------------------------
(***************************************************************************)
(* The invariant behind VerifyComplete.  With a provider that keeps its    *)
(* handle, jwt->cjose_jws stays set and live until oidc_jwt_destroy, so    *)
(* every attempt is a real one; the walk runs with rc FALSE for a header   *)
(* without a kid, and every candidate it has visited failed.               *)
(***************************************************************************)
CompleteInv ==
    /\ TypeOK
    /\ VerifyComplete
    /\ pc = "loop" => hdr.kid = NoKid /\ rc = FALSE
    /\ ~Defective(version) =>
         /\ pc \in {"idle", "loop"} => jws = "jws" /\ handle = "live"
         /\ pc = "loop" => \A k \in Candidates \ todo : ~Verifiable(k)

\* A version whose failed verification keeps the handle is not one the
\* "0.4." test takes for deprecated.
LEMMA KeepsHandleNotDeprecated ==
    ASSUME NEW v \in Versions, ~Defective(v)
    PROVE  ~oidc_jose_version_deprecated(v)
<1>1. v \in Nat \X Nat
  BY VersionsAssumption
<1>2. QED
  BY <1>1 DEF Defective, oidc_jose_version_deprecated

\* The version, keyset, header and signer are fixed once the JWT is parsed.
LEMMA VerifyConstStep ==
    ASSUME [Next]_vars
    PROVE  /\ version' = version /\ keys' = keys /\ hdr' = hdr /\ signer' = signer
           /\ Candidates' = Candidates
           /\ \A k : Verifiable(k)' = Verifiable(k)
<1>1. version' = version /\ keys' = keys /\ hdr' = hdr /\ signer' = signer
  BY DEF Next, vars, VerifyNullKeyset, VerifyKid, VerifyStart, VerifyStep, VerifyEnd,
         Serialize, Destroy
<1>2. QED
  BY <1>1 DEF Candidates, InKeyset, IsCandidate, Verifiable

\* One cjose_jws_verify with a live handle and a provider that keeps it:
\* it fails exactly for a key that did not make a valid signature, and
\* leaves the handle as it was.
LEMMA LiveVerifyCall ==
    ASSUME TypeOK, ~Defective(version), jws = "jws", handle = "live",
           NEW k \in InKeyset, \E before : cjose_jws_verify(k, before)
    PROVE  /\ rc' = Verifiable(k)
           /\ jws' = "jws" /\ handle' = "live"
<1>1. ~oidc_jose_version_deprecated(version)
  BY KeepsHandleNotDeprecated DEF TypeOK
<1>2. "jws" # NULL
  BY NullAssumption
<1>3. PICK before : cjose_jws_verify(k, before)
  OBVIOUS
<1>4. QED
  BY <1>1, <1>2, <1>3 DEF cjose_jws_verify, Verifiable

\* Every operation on the JWT preserves CompleteInv.
LEMMA CompleteInvStep == CompleteInv /\ [Next]_vars => CompleteInv'
<1> SUFFICES ASSUME CompleteInv, [Next]_vars PROVE CompleteInv'
  OBVIOUS
<1>0. TypeOK /\ TypeOK'
  BY TypeStep DEF CompleteInv
<1>9. /\ version' = version /\ keys' = keys /\ hdr' = hdr /\ signer' = signer
      /\ Candidates' = Candidates
      /\ \A k : Verifiable(k)' = Verifiable(k)
  BY VerifyConstStep
<1>1. CASE VerifyNullKeyset \/ Serialize \/ Destroy
  <2>1. /\ UNCHANGED <<rc, result, todo>>
        /\ pc' \in {"crashed", "idle", "destroyed"}
        /\ pc' = "idle" => pc = "idle" /\ UNCHANGED <<jws, handle>>
    BY <1>1 DEF VerifyNullKeyset, Serialize, Destroy
  <2>2. QED
    BY <1>0, <1>9, <2>1 DEF CompleteInv, VerifyComplete
<1>2. CASE VerifyKid
  <2>1. /\ pc = "idle" /\ pc' = "idle" /\ hdr.kid # NoKid /\ todo' = todo
        /\ result' = <<rc'>>
    BY <1>2 DEF VerifyKid
  <2>2. Candidates = InKeyset \cap {hdr.kid}
    BY <2>1 DEF Candidates
  <2>3. CASE KidFound(hdr.kid)
    <3>1. (\E before : cjose_jws_verify(hdr.kid, before)) /\ hdr.kid \in InKeyset
      BY <1>2, <2>3 DEF VerifyKid, KidFound
    <3>2. ~Defective(version) =>
            /\ rc' = Verifiable(hdr.kid)
            /\ jws' = "jws" /\ handle' = "live"
      BY <1>0, <3>1, LiveVerifyCall, <2>1 DEF CompleteInv
    <3>3. (result' = <<FALSE>> /\ ~Defective(version)) => ~Verifiable(hdr.kid)
      BY <2>1, <3>2
    <3>4. VerifyComplete'
      BY <1>9, <2>2, <3>3 DEF VerifyComplete
    <3>5. QED
      BY <1>0, <1>9, <2>1, <3>2, <3>4 DEF CompleteInv
  <2>4. CASE ~KidFound(hdr.kid)
    <3>1. Candidates = {}
      BY <2>2, <2>4 DEF KidFound
    <3>2. UNCHANGED <<jws, handle>>
      BY <1>2, <2>4 DEF VerifyKid
    <3>3. QED
      BY <1>0, <1>9, <2>1, <3>1, <3>2 DEF CompleteInv, VerifyComplete
  <2>5. QED
    BY <2>3, <2>4
<1>3. CASE VerifyStart
  <2>1. /\ pc = "idle" /\ pc' = "loop" /\ hdr.kid = NoKid /\ rc' = FALSE
        /\ todo' = InKeyset /\ UNCHANGED <<jws, handle, result>>
    BY <1>3 DEF VerifyStart
  <2>2. Candidates \ todo' = {}
    BY <2>1 DEF Candidates
  <2>3. QED
    BY <1>0, <1>9, <2>1, <2>2 DEF CompleteInv, VerifyComplete
<1>4. CASE VerifyStep
  <2>1. PICK j \in todo :
          /\ IF IsCandidate(j)
                THEN cjose_jws_verify(j, tried)
                ELSE UNCHANGED <<rc, tried, jws, handle, fault>>
          /\ todo' = todo \ {j}
          /\ IF LoopExits(rc', jws')
                THEN pc' = "idle" /\ result' = <<rc'>>
                ELSE UNCHANGED <<pc, result>>
    BY <1>4 DEF VerifyStep
  <2>2. /\ pc = "loop" /\ hdr.kid = NoKid /\ rc = FALSE /\ j \in InKeyset
    BY <1>4, <2>1 DEF VerifyStep, CompleteInv, TypeOK
  <2>3. CASE Defective(version)
    <3>3. pc' \in {"idle", "loop"} /\ (pc' = "idle" => result' = <<rc'>>)
          /\ (pc' = "loop" => result' = result /\ rc' = FALSE)
      BY <2>1, <2>2, <1>0 DEF LoopExits, TypeOK
    <3>4. QED
      BY <1>0, <1>9, <2>2, <2>3, <3>3 DEF CompleteInv, VerifyComplete, Defective
  <2>4. CASE ~Defective(version)
    <3>1. jws = "jws" /\ handle = "live"
      BY <2>2, <2>4 DEF CompleteInv
    <3>2. /\ jws' = "jws" /\ handle' = "live"
          /\ rc' \in BOOLEAN
          /\ (rc' = FALSE /\ IsCandidate(j)) => ~Verifiable(j)
      <4>1. CASE IsCandidate(j)
        <5>1. \E before : cjose_jws_verify(j, before)
          BY <2>1, <4>1
        <5>2. j \in InKeyset /\ TypeOK
          BY <1>0, <2>2
        <5>3. rc' = Verifiable(j) /\ jws' = "jws" /\ handle' = "live"
          BY <5>1, <5>2, <2>4, <3>1, LiveVerifyCall, Zenon
        <5>4. QED
          BY <5>3, <4>1, <1>0 DEF TypeOK
      <4>2. CASE ~IsCandidate(j)
        BY <2>1, <2>2, <3>1, <4>2, <1>0 DEF TypeOK
      <4>3. QED
        BY <4>1, <4>2
    <3>3. NULL # "jws"
      BY NullAssumption
    <3>4. CASE rc' = TRUE
      <4>1. pc' = "idle" /\ result' = <<TRUE>>
        BY <2>1, <3>4 DEF LoopExits
      <4>2. QED
        BY <1>0, <1>9, <2>4, <3>2, <4>1 DEF CompleteInv, VerifyComplete
    <3>5. CASE rc' = FALSE
      <4>1. pc' = "loop" /\ result' = result
        BY <2>1, <2>2, <3>2, <3>3, <3>5 DEF LoopExits
      <4>2. j \in Candidates => ~Verifiable(j)
        BY <2>2, <3>2, <3>5 DEF Candidates
      <4>3. \A k \in Candidates \ todo' : ~Verifiable(k)
        BY <2>1, <2>2, <2>4, <4>2 DEF CompleteInv
      <4>4. QED
        BY <1>0, <1>9, <2>2, <2>4, <3>2, <3>5, <4>1, <4>3 DEF CompleteInv, VerifyComplete
    <3>6. QED
      BY <1>0, <3>4, <3>5 DEF TypeOK
  <2>5. QED
    BY <2>3, <2>4
<1>5. CASE VerifyEnd
  <2>1. /\ pc = "loop" /\ todo = {} /\ pc' = "idle" /\ result' = <<rc>>
        /\ UNCHANGED <<jws, handle, rc>>
    BY <1>5 DEF VerifyEnd
  <2>2. rc = FALSE
    BY <2>1 DEF CompleteInv
  <2>3. ~Defective(version) => \A k \in Candidates : ~Verifiable(k)
    BY <2>1 DEF CompleteInv
  <2>4. QED
    BY <1>0, <1>9, <2>1, <2>2, <2>3 DEF CompleteInv, VerifyComplete
<1>6. CASE UNCHANGED vars
  BY <1>0, <1>9, <1>6 DEF vars, CompleteInv, VerifyComplete
<1>7. QED
  BY <1>1, <1>2, <1>3, <1>4, <1>5, <1>6 DEF Next

(***************************************************************************)
(* For every keyset and every cjose version that keeps the handle after a  *)
(* failed verification: oidc_jwt_verify returns FALSE only when no key it  *)
(* may use made the signature.  The walk never stops at a failed key       *)
(* before the right one has been tried.                                    *)
(***************************************************************************)
THEOREM VerifyCompleteness == Spec => []VerifyComplete
<1>1. Init => CompleteInv
  BY TypeInit DEF Init, CompleteInv, VerifyComplete
<1>2. CompleteInv => VerifyComplete
  BY DEF CompleteInv
<1>3. QED
  BY <1>1, <1>2, CompleteInvStep, PTL DEF Spec

-----------------------------------------------------------------------------
(***************************************************************************)
(* oidc_alg2kty agrees with the provider: for every algorithm it gives a   *)
(* key type, cjose_jws_verify demands that same type, or accepts no key    *)
(* at all (dir and the key wrapping algorithms are no signing algorithms). *)
(***************************************************************************)
LEMMA AlgKtyAgrees ==
    ASSUME NEW alg \in STRING \X STRING, oidc_alg2kty(alg) # NoKty
    PROVE  ProviderKty(alg) \in {oidc_alg2kty(alg), NoKty}
BY DEF oidc_alg2kty, ProviderKty, ALG_DIR, KeyWrapAlgs, A128KW, A192KW, A256KW,
       RSA1_5, RSA_OAEP, KTY_OCT, KTY_RSA, KTY_EC, NoKty

(***************************************************************************)
(* For every keyset, every signing algorithm oidc_alg2kty knows and every  *)
(* cjose version that keeps the handle: a kid-less oidc_jwt_verify that    *)
(* returns FALSE has rejected a signature no key of the keyset made.  It   *)
(* rests on VerifyComplete and on the agreement of the two key type maps.  *)
(***************************************************************************)
THEOREM VerifyExhaustiveHolds == Spec => []VerifyExhaustive
<1>1. CompleteInv => VerifyExhaustive
    <2> SUFFICES ASSUME CompleteInv, result = <<FALSE>>, ~Defective(version),
                        hdr.kid = NoKid, oidc_alg2kty(hdr.alg) # NoKty,
                        NEW k \in InKeyset, Verifiable(k)
                 PROVE  FALSE
        BY DEF VerifyExhaustive
    <2>1. hdr.alg \in STRING \X STRING /\ keys \in KeySets /\ keys # NULL
        BY AlgsAssumption DEF CompleteInv, TypeOK, InKeyset, Kids
    <2>2. keys[k] \in Kty
        BY <2>1 DEF InKeyset, Kids, KeySets
    <2>3. keys[k] = ProviderKty(hdr.alg) /\ ProviderKty(hdr.alg) # NoKty
        BY <2>2 DEF Verifiable, Kty, KTY_OCT, KTY_RSA, KTY_EC, NoKty
    <2>4. keys[k] = oidc_alg2kty(hdr.alg)
        BY <2>1, <2>3, AlgKtyAgrees
    <2>5. k \in Candidates
        BY <2>4 DEF Candidates, IsCandidate
    <2> QED
        BY <2>5 DEF CompleteInv, VerifyComplete
<1>2. Init => CompleteInv
    BY TypeInit DEF Init, CompleteInv, VerifyComplete
<1> QED
    BY <1>1, <1>2, CompleteInvStep, PTL DEF Spec

====
