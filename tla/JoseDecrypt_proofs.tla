--------------------------- MODULE JoseDecrypt_proofs ---------------------------
(***************************************************************************)
(* Proofs about oidc_jwe_decrypt (JoseDecrypt) for every set of kids,      *)
(* every set of JWE algorithms and both values of each compile-time flag.  *)
(***************************************************************************)
EXTENDS JoseDecrypt, TLAPS

(***************************************************************************)
(* The kid-less walk has ruled out, with a failed attempt, every candidate *)
(* it has visited: it leaves the loop on the first success.  The walk runs *)
(* only for a header without a kid, and nothing is handed out before it    *)
(* ends.                                                                   *)
(***************************************************************************)
WalkInv ==
    /\ pc \in {"start", "loop"} => out = NULL
    /\ pc = "loop" =>
         /\ input.kid = NoKid
         /\ \A k \in Candidates \ todo : ~Decryptable(k)

(***************************************************************************)
(* No plaintext without an attempt: a plaintext handed out is the one      *)
(* cjose_jwe_decrypt returned, and that took a key that was tried.  The    *)
(* NULL-keyset crash branches are dead, since the keyset test comes first. *)
(***************************************************************************)
FastInv ==
    /\ fault = "none"
    /\ out = "plaintext" => decrypted = "plaintext"
    /\ decrypted = "plaintext" => tried # {}

\* The inductive invariant: DecryptComplete alone is not inductive, since a
\* walk still in progress must already have excluded what it visited.
DecInv == TypeOK /\ WalkInv /\ FastInv /\ DecryptComplete

\* The keys a keyset holds are kids.
LEMMA KidsType == ASSUME NEW ks PROVE Kids(ks) \subseteq KeyIds
BY DEF Kids

\* The caller's keyset, its input and the wrapping key never change.
LEMMA ConstStep ==
    ASSUME [Next]_vars
    PROVE  /\ keys' = keys /\ input' = input /\ encrypter' = encrypter
           /\ mustSucceed' = mustSucceed
           /\ Candidates' = Candidates
           /\ \A k : Decryptable(k)' = Decryptable(k)
<1>1. keys' = keys /\ input' = input /\ encrypter' = encrypter /\ mustSucceed' = mustSucceed
  BY DEF Next, vars, ImportFails, DecryptNoKeys, DecryptKid, DecryptStart, DecryptStep, DecryptEnd
<1>2. QED
  BY <1>1 DEF Candidates, IsCandidate, Decryptable, Kids

LEMMA DecInitInv == Init => DecInv
<1> SUFFICES ASSUME Init PROVE DecInv
  OBVIOUS
<1>1. TypeOK
  BY NullAssumption DEF Init, TypeOK, Report, Reports, ErrVals
<1>2. QED
  BY <1>1, NullAssumption DEF Init, DecInv, WalkInv, FastInv, DecryptComplete

\* One call of cjose_jwe_decrypt with a key of the keyset: it succeeds
\* exactly when that key unwraps the content key, and keeps the types.
LEMMA DecryptCall ==
    ASSUME TypeOK, NEW k \in Kids(keys), cjose_jwe_decrypt(k)
    PROVE  /\ decrypted' \in {NULL, "plaintext"}
           /\ decrypted' = "plaintext" <=> Decryptable(k)
           /\ cjoseErr' \in ErrVals
           /\ tried' = tried \cup {k}
           /\ tried' \in SUBSET Kids(keys)
           /\ tried' # {}
<1>1. k \in KeyIds
  BY KidsType
<1>2. QED
  BY <1>1, NullAssumption DEF cjose_jwe_decrypt, Decryptable, ErrVals, TypeOK

(***************************************************************************)
(* Every step of oidc_jwe_decrypt keeps DecInv.  One step per action, and  *)
(* under each the conjuncts the action can disturb.                        *)
(***************************************************************************)
LEMMA DecStepInv == DecInv /\ [Next]_vars => DecInv'
<1> SUFFICES ASSUME DecInv, [Next]_vars PROVE DecInv'
  OBVIOUS
<1>0. /\ TypeOK /\ WalkInv /\ FastInv /\ DecryptComplete
      /\ Kids(keys) \subseteq KeyIds
  BY KidsType DEF DecInv
<1>9. /\ keys' = keys /\ input' = input /\ encrypter' = encrypter
      /\ mustSucceed' = mustSucceed
      /\ Candidates' = Candidates
      /\ \A k : Decryptable(k)' = Decryptable(k)
  BY ConstStep
<1>1. CASE ImportFails
  BY <1>0, <1>9, <1>1, NullAssumption
     DEF ImportFails, DecInv, TypeOK, WalkInv, FastInv, DecryptComplete, Report, Reports
<1>2. CASE DecryptNoKeys
  <2>1. Candidates = {}
    <3>1. Kids(keys) = {}
      BY <1>2 DEF DecryptNoKeys, NoKeysConfigured, Kids
    <3>2. QED
      BY <3>1 DEF Candidates
  <2>2. QED
    BY <1>0, <1>9, <1>2, <2>1
       DEF DecryptNoKeys, DecInv, TypeOK, WalkInv, FastInv, DecryptComplete, Report, Reports
<1>3. CASE DecryptKid
  <2>1. /\ pc = "start" /\ input.jwe /\ input.kid # NoKid /\ keys # NULL
        /\ pc' = "done" /\ fault' = fault
        /\ UNCHANGED <<todo>>
    BY <1>3 DEF DecryptKid, NoKeysConfigured
  <2>2. Candidates = Kids(keys) \cap {input.kid}
    BY <2>1 DEF Candidates
  <2>3. CASE KidFound(input.kid)
    <3>1. /\ cjose_jwe_decrypt(input.kid) /\ out' = decrypted'
          /\ reported' = IF decrypted' = NULL THEN [kind |-> "kid", err |-> cjoseErr']
                                              ELSE reported
      BY <1>3, <2>1, <2>3 DEF DecryptKid
    <3>2. input.kid \in Kids(keys)
      BY <2>3 DEF KidFound
    <3>3. /\ decrypted' \in {NULL, "plaintext"}
          /\ decrypted' = "plaintext" <=> Decryptable(input.kid)
          /\ cjoseErr' \in ErrVals
          /\ tried' \in SUBSET Kids(keys) /\ tried' # {}
      BY <1>0, <3>1, <3>2, DecryptCall
    <3>4. reported' \in Reports
      BY <1>0, <3>1, <3>3 DEF TypeOK, Reports
    <3>5. TypeOK'
      BY <1>0, <1>9, <2>1, <3>1, <3>3, <3>4 DEF TypeOK
    <3>6. out' = NULL => \A k \in Candidates : ~Decryptable(k)
      BY <2>2, <3>1, <3>3, NullAssumption
    <3>7. DecryptComplete'
      BY <1>9, <3>6 DEF DecryptComplete
    <3>8. QED
      BY <1>0, <2>1, <3>1, <3>3, <3>5, <3>7 DEF DecInv, WalkInv, FastInv
  <2>4. CASE ~KidFound(input.kid)
    <3>1. Candidates = {}
      BY <2>2, <2>4 DEF KidFound
    <3>2. QED
      BY <1>0, <1>9, <1>3, <2>1, <2>4, <3>1
         DEF DecryptKid, DecInv, TypeOK, WalkInv, FastInv, DecryptComplete, Report, Reports
  <2>7. QED
    BY <2>3, <2>4
<1>4. CASE DecryptStart
  <2>1. /\ keys # NULL /\ pc' = "loop" /\ todo' = Kids(keys) /\ fault' = fault
        /\ UNCHANGED <<tried, decrypted, cjoseErr, reported, out>>
    BY <1>4 DEF DecryptStart, NoKeysConfigured
  <2>2. Candidates \ todo' = {}
    BY <2>1 DEF Candidates
  <2>3. input.kid = NoKid /\ pc = "start"
    BY <1>4 DEF DecryptStart
  <2>4. QED
    BY <1>0, <1>9, <2>1, <2>2, <2>3 DEF DecInv, TypeOK, WalkInv, FastInv, DecryptComplete
<1>5. CASE DecryptStep
  <2>1. PICK k \in todo :
          /\ IF IsCandidate(k)
                THEN cjose_jwe_decrypt(k)
                ELSE UNCHANGED <<tried, decrypted, cjoseErr>>
          /\ todo' = todo \ {k}
          /\ IF LoopExits(decrypted')
                THEN pc' = "done" /\ out' = decrypted'
                ELSE UNCHANGED <<pc, out>>
    BY <1>5 DEF DecryptStep
  <2>2. /\ pc = "loop" /\ k \in Kids(keys)
        /\ UNCHANGED <<reported, fault>>
    BY <1>0, <1>5 DEF DecryptStep, TypeOK
  <2>3. /\ decrypted' \in {NULL, "plaintext"}
        /\ cjoseErr' \in ErrVals
        /\ tried' \in SUBSET Kids(keys)
        /\ decrypted' = "plaintext" => tried' # {}
        /\ decrypted' = NULL => (k \in Candidates => ~Decryptable(k))
    <3>1. CASE IsCandidate(k)
      BY <1>0, <2>1, <2>2, <3>1, DecryptCall, NullAssumption
    <3>2. CASE ~IsCandidate(k)
      <4>1. k \notin Candidates
        BY <1>0, <2>2, <3>2 DEF WalkInv, Candidates
      <4>2. QED
        BY <1>0, <2>1, <3>2, <4>1 DEF TypeOK, FastInv
    <3>3. QED
      BY <3>1, <3>2
  <2>4. TypeOK'
    BY <1>0, <1>9, <2>1, <2>2, <2>3, NullAssumption DEF TypeOK, LoopExits
  <2>5. CASE LoopExits(decrypted')
    <3>1. pc' = "done" /\ out' = decrypted' /\ out' = "plaintext"
      BY <2>1, <2>3, <2>5 DEF LoopExits
    <3>2. QED
      BY <2>2, <2>3, <2>4, <3>1, NullAssumption DEF DecInv, WalkInv, FastInv, DecryptComplete
  <2>6. CASE ~LoopExits(decrypted')
    <3>1. pc' = "loop" /\ out' = out /\ decrypted' = NULL
      BY <2>1, <2>2, <2>6 DEF LoopExits
    <3>2. WalkInv'
      BY <1>0, <1>9, <2>1, <2>3, <3>1 DEF WalkInv
    <3>3. QED
      BY <1>0, <2>4, <3>1, <3>2, <2>2, NullAssumption DEF DecInv, WalkInv, FastInv, DecryptComplete
  <2>7. QED
    BY <2>5, <2>6
<1>6. CASE DecryptEnd
  <2>1. /\ pc = "loop" /\ todo = {} /\ pc' = "done" /\ out' = decrypted
        /\ reported' = IF decrypted = NULL THEN [kind |-> "any", err |-> cjoseErr]
                                                ELSE reported
        /\ UNCHANGED <<todo, tried, decrypted, cjoseErr, fault>>
    BY <1>6 DEF DecryptEnd
  <2>2. reported' \in Reports
    BY <1>0, <2>1 DEF TypeOK, Reports, ErrVals
  <2>3. \A k \in Candidates : ~Decryptable(k)
    BY <1>0, <2>1 DEF WalkInv
  <2>4. QED
    BY <1>0, <1>9, <2>1, <2>2, <2>3, NullAssumption
       DEF DecInv, TypeOK, WalkInv, FastInv, DecryptComplete
<1>7. CASE UNCHANGED vars
  BY <1>0, <1>7 DEF vars, DecInv, TypeOK, WalkInv, FastInv, DecryptComplete,
                    Candidates, IsCandidate, Decryptable, Kids
<1>8. QED
  BY <1>1, <1>2, <1>3, <1>4, <1>5, <1>6, <1>7 DEF Next

\* Typing: every variable of oidc_jwe_decrypt keeps its type, and the walk
\* only visits, and cjose_jwe_decrypt only receives, kids of the keyset.
THEOREM DecryptTypeCorrect == Spec => []TypeOK
<1>1. DecInv => TypeOK
  BY DEF DecInv
<1>2. QED
  BY <1>1, DecInitInv, DecStepInv, PTL DEF Spec

(***************************************************************************)
(* For every keyset, header and wrapping key: when oidc_jwe_decrypt fails  *)
(* a JWE, no key it may use (the kid's, or without a kid every key of the  *)
(* algorithm's type) would have decrypted it.  The walk's early exit on    *)
(* success never skips the right key.                                      *)
(***************************************************************************)
THEOREM DecryptCompleteHolds == Spec => []DecryptComplete
<1>1. DecInv => DecryptComplete
  BY DEF DecInv
<1>2. QED
  BY <1>1, DecInitInv, DecStepInv, PTL DEF Spec

(***************************************************************************)
(* For every keyset: an absent or empty keyset fails a JWE before any call *)
(* of cjose_jwe_decrypt, without a crash and without a plaintext (spec     *)
(* 4.5).                                                                   *)
(***************************************************************************)
THEOREM KeysetFailsFastHolds == Spec => []KeysetFailsFast
<1>1. DecInv => KeysetFailsFast
  <2> SUFFICES ASSUME DecInv, input.jwe, Kids(keys) = {}
               PROVE  tried = {} /\ fault = "none" /\ out # "plaintext"
    BY DEF KeysetFailsFast
  <2>1. tried = {}
    BY DEF DecInv, TypeOK
  <2> QED
    BY <2>1, NullAssumption DEF DecInv, FastInv
<1>2. QED
  BY <1>1, DecInitInv, DecStepInv, PTL DEF Spec

=============================================================================
