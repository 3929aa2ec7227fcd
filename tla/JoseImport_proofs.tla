-------------------------- MODULE JoseImport_proofs ---------------------------
(***************************************************************************)
(* Proofs about JoseImport for every bound on the chain length.            *)
(***************************************************************************)
EXTENDS JoseImport, SequenceTheorems, TLAPS

(***************************************************************************)
(* What each segment of oidc_jwk_rsa_bio_to_jwk holds, which TypeOK and    *)
(* ResourcesReleased need in order to be inductive: the objects allocated *)
(* at each label, the pointer x509 at the end: label, and, in the chain   *)
(* loop, that x5c_count counts the certificates read so far.               *)
(***************************************************************************)
ImportInv ==
    /\ TypeOK
    /\ fault # "double_free"
    /\ pc = "open" => (live = {} /\ x509 = NULL /\ jwk = NULL)
    /\ pc \in {"leaf", "chain", "rsa", "end", "done"} => jwk \in Jwks
    /\ pc \in {"leaf", "chain", "rsa"} => pkey \in Keys
    /\ pc = "leaf" => (x509 = 1 /\ live = {X509(1), PKEY} /\ 1 <= Len(input.certs))
    /\ pc = "chain" => /\ live \subseteq {DER, PKEY}
                       /\ pos \in 2..Len(input.certs) + 1
                       /\ jwk.x5c \in Seq(Entries)
                       /\ jwk.x5c_count = pos - 1
                       /\ pem \in 1..MaxChain
    /\ pc = "rsa" => (live \subseteq {DER, PKEY} /\ x509 = NULL)
    /\ pc = "end" => /\ live \subseteq {DER, PKEY} \cup {X509(i) : i \in {x509} \ {NULL}}
                     /\ x509 # NULL => X509(x509) \in live
    /\ pc \in {"done", "returned"} => live = {}

\* The CERTIFICATE blocks of an input form a sequence of at most MaxChain.
LEMMA ChainLen ==
    ASSUME NEW c \in Chains
    PROVE  c \in Seq(BOOLEAN) /\ Len(c) \in 0..MaxChain
<1>1. PICK n \in 0..MaxChain : c \in [1..n -> BOOLEAN]
    BY DEF Chains
<1>2. n \in Nat
    BY MaxChainAssumption
<1>3. c \in Seq(BOOLEAN) /\ Len(c) = n
    BY <1>1, <1>2
<1> QED
    BY <1>1, <1>3

\* What oidc_jwk_new returns is a JWK of the model's type.
LEMMA EmptyJwkType == EmptyJwk \in Jwks
    BY MaxChainAssumption DEF EmptyJwk, Jwks

\* Each update the import makes to *oidc_jwk keeps it a JWK of the model's
\* type: x5c, x5c with its count, the thumbprints, the key, the key with
\* its kid and type.
LEMMA SetX5c ==
    ASSUME NEW j \in Jwks, NEW x \in Seq(Entries) \cup {NULL}
    PROVE  [j EXCEPT !.x5c = x] \in Jwks
    BY DEF Jwks

LEMMA SetX5cCount ==
    ASSUME NEW j \in Jwks, NEW x \in Seq(Entries), NEW n \in 0..MaxChain
    PROVE  [j EXCEPT !.x5c = x, !.x5c_count = n] \in Jwks
    BY DEF Jwks

LEMMA SetThumbprints ==
    ASSUME NEW j \in Jwks, NEW a \in {NULL, 1}, NEW b \in {NULL, 1}
    PROVE  [j EXCEPT !.x5t = a, !.x5t_S256 = b] \in Jwks
    BY DEF Jwks

LEMMA SetKey ==
    ASSUME NEW j \in Jwks, NEW c \in CjoseJwks
    PROVE  [j EXCEPT !.cjose_jwk = c] \in Jwks
    BY DEF Jwks

LEMMA SetKeyKid ==
    ASSUME NEW j \in Jwks, NEW c \in CjoseJwks, NEW d \in KidVals
    PROVE  [j EXCEPT !.cjose_jwk = c, !.kid = d, !.kty = KTY_RSA] \in Jwks
    BY DEF Jwks

\* What oidc_jwk_parse returns on the x5c path is a result of the model's type.
LEMMA ParseResultType ==
    ASSUME NEW c \in CjoseJwks \cup {NULL}
    PROVE  ParseResult(c) \in [ok : BOOLEAN, jwk : Jwks \cup {NULL}]
<1>1. CASE c = NULL
    BY <1>1 DEF ParseResult
<1>2. CASE c # NULL
    <2>1. c.kid \in KidVals \cup {NULL} /\ c \in CjoseJwks
        BY <1>2 DEF CjoseJwks
    <2>2. [EmptyJwk EXCEPT !.cjose_jwk = c, !.kid = c.kid, !.kty = KTY_RSA] \in Jwks
        BY <2>1, EmptyJwkType DEF Jwks
    <2> QED
        BY <1>2, <2>2 DEF ParseResult
<1> QED
    BY <1>1, <1>2

\* The kid oidc_jwk_set_or_generate_kid sets is one the model knows.
LEMMA KidForType ==
    ASSUME input \in ValidInputs, NEW k \in Keys
    PROVE  KidFor(k) \in KidVals
    BY DEF KidFor, KidVals, ValidInputs, Inputs

\* The initial state: nothing read, nothing allocated.
LEMMA InitInv == Init => ImportInv
<1> SUFFICES ASSUME Init PROVE ImportInv
    OBVIOUS
<1>1. input \in ValidInputs /\ pc = "open" /\ jwk = NULL /\ live = {}
    BY DEF Init
<1>2. pos \in 1..MaxChain + 1
    BY MaxChainAssumption DEF Init
<1>3. /\ pem = NULL /\ x509 = NULL /\ pkey = NULL /\ rv = FALSE
      /\ fault = "none" /\ out = NULL /\ x5cAlloc = "none"
    BY DEF Init
<1>4. TypeOK
    BY <1>1, <1>2, <1>3 DEF TypeOK
<1> QED
    BY <1>1, <1>3, <1>4 DEF ImportInv

(***************************************************************************)
(* Every segment of oidc_jwk_rsa_bio_to_jwk, and the callers, keep         *)
(* ImportInv.                                                              *)
(***************************************************************************)
LEMMA StepInv == ImportInv /\ [Next]_vars => ImportInv'
<1> SUFFICES ASSUME ImportInv, [Next]_vars PROVE ImportInv'
    OBVIOUS
<1>0. TypeOK
    BY DEF ImportInv
<1>1. CASE OpenFails
    <2>1. pc = "open" /\ pc' = "returned" /\ out' = [ok |-> FALSE, jwk |-> NULL]
        BY <1>1 DEF OpenFails
    <2>2. live' = {} /\ live = {}
        BY <1>1, <2>1 DEF OpenFails, ImportInv
    <2>3. TypeOK'
        BY <1>0, <1>1, <2>1 DEF OpenFails, TypeOK
    <2> QED
        BY <1>1, <2>1, <2>2, <2>3 DEF OpenFails, ImportInv
<1>2. CASE ReadPrivateKey
    <2>1. jwk' = EmptyJwk /\ jwk' \in Jwks
        BY <1>2, EmptyJwkType DEF ReadPrivateKey
    <2>2. CASE input.privkey
        <3>1. pkey' = "priv" /\ live' = {PKEY} /\ pc' = "rsa" /\ x509' = NULL
            BY <1>2, <2>2 DEF ReadPrivateKey, ImportInv
        <3>2. TypeOK'
            BY <1>0, <1>2, <2>1, <3>1 DEF ReadPrivateKey, TypeOK, Keys
        <3> QED
            BY <1>2, <2>1, <3>1, <3>2 DEF ReadPrivateKey, ImportInv, Keys
    <2>3. CASE ~input.privkey
        <3>1. pc' = "end" /\ live' = {} /\ x509' = NULL
            BY <1>2, <2>3 DEF ReadPrivateKey, ImportInv
        <3>2. TypeOK'
            BY <1>0, <1>2, <2>1, <2>3, <3>1 DEF ReadPrivateKey, TypeOK
        <3> QED
            BY <1>2, <2>1, <3>1, <3>2 DEF ReadPrivateKey, ImportInv
    <2> QED
        BY <2>2, <2>3
<1>3. CASE ReadPublicKey
    <2>1. jwk' \in Jwks /\ pkey' = "pub" /\ live' = {PKEY} /\ pc' = "rsa" /\ x509' = NULL
        BY <1>3, EmptyJwkType DEF ReadPublicKey, ImportInv
    <2>2. TypeOK'
        BY <1>0, <1>3, <2>1 DEF ReadPublicKey, TypeOK, Keys
    <2> QED
        BY <1>3, <2>1, <2>2 DEF ReadPublicKey, ImportInv, Keys
<1>4. CASE ReadLeafCert
    <2>1. jwk' \in Jwks /\ input' = input /\ pc = "open"
        BY <1>4, EmptyJwkType DEF ReadLeafCert
    <2>2. Len(input.certs) \in 0..MaxChain
        BY <1>0, ChainLen DEF TypeOK, ValidInputs, Inputs
    <2>3. 1 \in 1..MaxChain
        BY MaxChainAssumption
    <2>4. CASE Decodes(1)
        <3>1. x509' = 1 /\ 1 <= Len(input.certs)
            BY <1>4, <2>4 DEF ReadLeafCert, Decodes
        <3>2. PICK pubOk \in BOOLEAN :
                IF pubOk
                   THEN pkey' = "leaf" /\ live' = {X509(1), PKEY} /\ pc' = "leaf"
                   ELSE pc' = "end" /\ live' = {X509(1)} /\ UNCHANGED pkey
            BY <1>4, <2>4 DEF ReadLeafCert
        <3>3. CASE pubOk
            <4>1. pkey' = "leaf" /\ live' = {X509(1), PKEY} /\ pc' = "leaf"
                BY <3>2, <3>3
            <4>2. TypeOK'
                BY <1>0, <1>4, <2>1, <2>3, <3>1, <4>1 DEF ReadLeafCert, TypeOK, Keys
            <4> QED
                BY <1>4, <2>1, <3>1, <4>1, <4>2 DEF ReadLeafCert, ImportInv, Keys
        <3>4. CASE ~pubOk
            <4>1. pc' = "end" /\ live' = {X509(1)} /\ pkey' = pkey
                BY <3>2, <3>4
            <4>2. TypeOK'
                BY <1>0, <1>4, <2>1, <2>3, <3>1, <4>1 DEF ReadLeafCert, TypeOK
            <4> QED
                BY <1>4, <2>1, <3>1, <4>1, <4>2, NullAssumption DEF ReadLeafCert, ImportInv
        <3> QED
            BY <3>3, <3>4
    <2>6. CASE ~Decodes(1)
        <3>1. x509' = NULL /\ live' = {} /\ pc' = "end" /\ pkey' = pkey
            BY <1>4, <2>1, <2>6 DEF ReadLeafCert, ImportInv
        <3>2. TypeOK'
            BY <1>0, <1>4, <2>1, <3>1 DEF ReadLeafCert, TypeOK
        <3> QED
            BY <1>4, <2>1, <3>1, <3>2 DEF ReadLeafCert, ImportInv
    <2> QED
        BY <2>4, <2>6
<1>5. CASE EncodeLeaf
    <2>1. /\ pc = "leaf" /\ x509 = 1 /\ live = {X509(1), PKEY} /\ 1 <= Len(input.certs)
          /\ jwk \in Jwks /\ pkey \in Keys
        BY <1>5 DEF EncodeLeaf, ImportInv
    <2>2. /\ x5cAlloc' = "pool" /\ pos' = 2 /\ x509' = x509 /\ pkey' = pkey
          /\ input' = input /\ fault' = fault /\ out' = out /\ rv' = rv
        BY <1>5 DEF EncodeLeaf
    <2>3. 2 \in 1..MaxChain + 1 /\ 1 \in 1..MaxChain /\ 1 \in 0..MaxChain
        BY MaxChainAssumption
    <2>4. CASE jwk' = [jwk EXCEPT !.x5c = <<>>] /\ pc' = "end" /\ pem' = pem /\ live' = live
        <3>1. <<>> \in Seq(Entries)
            OBVIOUS
        <3>2. jwk' \in Jwks
            BY <2>1, <2>4, <3>1, SetX5c
        <3>3. TypeOK'
            BY <1>0, <2>2, <2>3, <2>4, <3>2 DEF TypeOK
        <3> QED
            BY <2>1, <2>2, <2>4, <3>2, <3>3, NullAssumption DEF ImportInv
    <2>5. DEFINE leafEntry == <<[cert |-> 1, whole |-> TRUE]>>
                 drafted == [jwk EXCEPT !.x5c = leafEntry, !.x5c_count = CountAfterAppend(0)]
    <2>6. leafEntry \in Seq(Entries) /\ CountAfterAppend(0) = 1
        BY <2>3 DEF Entries, CountAfterAppend
    <2>7. drafted \in Jwks /\ drafted.x5c = leafEntry /\ drafted.x5c_count = 1
        BY <2>1, <2>3, <2>6, SetX5cCount DEF Jwks
    <2>8. CASE pem' = 1 /\ jwk' = drafted /\ pc' = "end" /\ live' = live
        <3>1. TypeOK'
            BY <1>0, <2>2, <2>3, <2>7, <2>8 DEF TypeOK
        <3> QED
            BY <2>1, <2>2, <2>7, <2>8, <3>1, NullAssumption DEF ImportInv
    <2>9. CASE /\ pem' = 1 /\ pc' = "chain"
               /\ live' = (live \cup {DER}) \ {X509(1)}
               /\ \E x5tOk, x5tS256Ok \in BOOLEAN :
                     jwk' = [drafted EXCEPT !.x5t = IF x5tOk THEN 1 ELSE NULL,
                                            !.x5t_S256 = IF x5tS256Ok THEN 1 ELSE NULL]
        <3>1. live' \subseteq {DER, PKEY}
            BY <2>1, <2>9
        <3>2. PICK x5tOk, x5tS256Ok \in BOOLEAN :
                jwk' = [drafted EXCEPT !.x5t = IF x5tOk THEN 1 ELSE NULL,
                                       !.x5t_S256 = IF x5tS256Ok THEN 1 ELSE NULL]
            BY <2>9
        <3>3. jwk' \in Jwks
            BY <2>7, <3>2, SetThumbprints
        <3>4. jwk'.x5c = leafEntry /\ jwk'.x5c_count = 1
            BY <2>7, <3>2 DEF Jwks
        <3>5. TypeOK'
            BY <1>0, <2>2, <2>3, <2>9, <3>1, <3>3 DEF TypeOK
        <3> QED
            BY <2>1, <2>2, <2>3, <2>6, <2>9, <3>1, <3>3, <3>4, <3>5 DEF ImportInv
    <2> QED
        BY <1>5, <2>4, <2>8, <2>9 DEF EncodeLeaf
<1>6. CASE ChainStep
    <2>1. /\ pc = "chain" /\ pos <= Len(input.certs)
          /\ live \subseteq {DER, PKEY} /\ pos \in 2..Len(input.certs) + 1
          /\ jwk \in Jwks /\ jwk.x5c \in Seq(Entries) /\ jwk.x5c_count = pos - 1
          /\ pem \in 1..MaxChain /\ pkey \in Keys
        BY <1>6 DEF ChainStep, ChainContinues, Decodes, ImportInv
    <2>2. Len(input.certs) \in 0..MaxChain
        BY <1>0, ChainLen DEF TypeOK, ValidInputs, Inputs
    <2>3. pos \in 1..MaxChain /\ pos + 1 \in 2..Len(input.certs) + 1
          /\ pos + 1 \in 1..MaxChain + 1 /\ pos \in 0..MaxChain
        BY <2>1, <2>2, MaxChainAssumption
    <2>4. /\ x509' = pos /\ input' = input /\ pkey' = pkey /\ rv' = rv /\ out' = out
          /\ fault' \in {"none", "realloc_of_pool_memory"}
        BY <1>0, <1>6, <2>1 DEF ChainStep, Fail, ImportInv, TypeOK
    <2>5. PICK enc \in EncodeOutcomes, r \in ReallocOutcomes(x5cAlloc) :
             /\ pem' = IF enc THEN pos ELSE pem
             /\ \/ /\ r = "abort"
                   /\ pc' = "crashed"
                   /\ live' = live \cup {X509(pos)}
                   /\ UNCHANGED <<jwk, x5cAlloc, pos>>
                \/ /\ r = "failed"
                   /\ jwk' = [jwk EXCEPT !.x5c = NULL]
                   /\ live' = live \cup {X509(pos)}
                   /\ pc' = "end"
                   /\ UNCHANGED <<x5cAlloc, pos>>
                \/ /\ r = "moved"
                   /\ x5cAlloc' = "heap"
                   /\ jwk' = [jwk EXCEPT !.x5c = Append(@, [cert |-> pem', whole |-> enc]),
                                         !.x5c_count = CountAfterAppend(@)]
                   /\ pos' = pos + 1
                   /\ UNCHANGED <<pc, live>>
        BY <1>6 DEF ChainStep
    <2>6. enc \in BOOLEAN /\ pem' \in 1..MaxChain
        BY <2>1, <2>3, <2>5 DEF EncodeOutcomes
    <2>7. x5cAlloc \in {"none", "pool", "heap"}
        BY <1>0 DEF TypeOK
    <2>8. CASE r = "abort"
        <3>1. pc' = "crashed" /\ live' = live \cup {X509(pos)} /\ jwk' = jwk
              /\ x5cAlloc' = x5cAlloc /\ pos' = pos
            BY <2>5, <2>8
        <3>2. TypeOK'
            BY <1>0, <2>1, <2>3, <2>4, <2>6, <2>7, <3>1 DEF TypeOK
        <3> QED
            BY <2>4, <3>1, <3>2 DEF ImportInv
    <2>9. CASE r = "failed"
        <3>1. pc' = "end" /\ live' = live \cup {X509(pos)} /\ jwk' = [jwk EXCEPT !.x5c = NULL]
              /\ x5cAlloc' = x5cAlloc /\ pos' = pos
            BY <2>5, <2>9
        <3>2. jwk' \in Jwks
            BY <2>1, <3>1, SetX5c
        <3>3. TypeOK'
            BY <1>0, <2>1, <2>3, <2>4, <2>6, <2>7, <3>1, <3>2 DEF TypeOK
        <3>4. live' \subseteq {DER, PKEY} \cup {X509(i) : i \in {x509'} \ {NULL}}
              /\ X509(x509') \in live'
            BY <2>1, <2>3, <2>4, <3>1, NullAssumption
        <3> QED
            BY <2>4, <3>1, <3>2, <3>3, <3>4 DEF ImportInv
    <2>10. CASE r = "moved"
        <3>1. /\ x5cAlloc' = "heap" /\ pos' = pos + 1 /\ pc' = "chain" /\ live' = live
              /\ jwk' = [jwk EXCEPT !.x5c = Append(jwk.x5c, [cert |-> pem', whole |-> enc]),
                                    !.x5c_count = CountAfterAppend(jwk.x5c_count)]
            <4>1. r # "abort" /\ r # "failed"
                BY <2>10
            <4> QED
                BY <2>1, <2>5, <2>10, <4>1
        <3>2. Append(jwk.x5c, [cert |-> pem', whole |-> enc]) \in Seq(Entries)
            BY <2>1, <2>6 DEF Entries
        <3>3. CountAfterAppend(jwk.x5c_count) = pos /\ pos \in 0..MaxChain
            BY <2>1, <2>3 DEF CountAfterAppend
        <3>4. jwk' \in Jwks /\ jwk'.x5c \in Seq(Entries) /\ jwk'.x5c_count = pos' - 1
            <4>1. jwk' \in Jwks
                BY <2>1, <3>1, <3>2, <3>3, SetX5cCount
            <4>2. jwk'.x5c = Append(jwk.x5c, [cert |-> pem', whole |-> enc])
                  /\ jwk'.x5c_count = pos
                BY <2>1, <3>1, <3>3 DEF Jwks
            <4> QED
                BY <2>1, <3>1, <3>2, <4>1, <4>2
        <3>5. TypeOK'
            BY <1>0, <2>1, <2>3, <2>4, <2>6, <3>1, <3>4 DEF TypeOK
        <3> QED
            BY <2>1, <2>3, <2>4, <2>6, <3>1, <3>4, <3>5 DEF ImportInv
    <2> QED
        BY <2>5, <2>8, <2>9, <2>10
<1>7. CASE ChainEnd
    <2>1. /\ pc = "chain" /\ pc' = "rsa" /\ x509' = NULL /\ live' = live
          /\ UNCHANGED <<input, pos, jwk, x5cAlloc, pem, pkey, rv, fault, out>>
        BY <1>7 DEF ChainEnd
    <2>2. live \subseteq {DER, PKEY} /\ jwk \in Jwks /\ pkey \in Keys
        BY <2>1 DEF ImportInv
    <2>3. TypeOK'
        BY <1>0, <2>1 DEF TypeOK
    <2> QED
        BY <2>1, <2>2, <2>3 DEF ImportInv
<1>8. CASE BuildKey
    <2>1. /\ pc = "rsa" /\ pc' = "end" /\ live \subseteq {DER, PKEY} /\ x509 = NULL
          /\ jwk \in Jwks /\ pkey \in Keys /\ input \in ValidInputs
          /\ UNCHANGED <<input, pos, x5cAlloc, pem, x509, pkey, live, fault, out>>
        BY <1>0, <1>8 DEF BuildKey, ImportInv, TypeOK
    <2>2. jwk' \in Jwks /\ rv' \in BOOLEAN
        <3>1. [key |-> pkey, kid |-> NULL] \in CjoseJwks
              /\ [key |-> pkey, kid |-> KidFor(pkey)] \in CjoseJwks
              /\ KidFor(pkey) \in KidVals
            BY <2>1, KidForType DEF CjoseJwks
        <3>2. rv \in BOOLEAN
            BY <1>0 DEF TypeOK
        <3> QED
            BY <1>8, <2>1, <3>1, <3>2, SetKey, SetKeyKid DEF BuildKey
    <2>3. TypeOK'
        BY <1>0, <2>1, <2>2 DEF TypeOK
    <2> QED
        BY <2>1, <2>2, <2>3 DEF ImportInv
<1>9. CASE End
    <2>1. /\ pc = "end" /\ pc' = "done" /\ jwk \in Jwks
          /\ live \subseteq {DER, PKEY} \cup {X509(i) : i \in {x509} \ {NULL}}
          /\ x509 # NULL => X509(x509) \in live
          /\ UNCHANGED <<input, pos, jwk, x5cAlloc, pem, x509, pkey, rv, out>>
        BY <1>9 DEF End, ImportInv
    <2>2. live' = {}
        BY <1>9, <2>1 DEF End
    <2>3. fault' = fault
        BY <1>9, <2>1 DEF End
    <2>4. TypeOK'
        BY <1>0, <2>1, <2>2, <2>3 DEF TypeOK
    <2> QED
        BY <2>1, <2>2, <2>3, <2>4 DEF ImportInv
<1>10. CASE Return
    <2>1. /\ pc = "done" /\ pc' = "returned" /\ jwk \in Jwks /\ live = {}
          /\ UNCHANGED <<input, pos, jwk, x5cAlloc, pem, x509, pkey, live, rv, fault>>
        BY <1>10 DEF Return, ImportInv
    <2>2. out' \in {NULL} \cup [ok : BOOLEAN, jwk : Jwks \cup {NULL}]
        <3>1. jwk.cjose_jwk \in CjoseJwks \cup {NULL} /\ rv \in BOOLEAN
            BY <1>0, <2>1 DEF Jwks, TypeOK
        <3> QED
            BY <1>10, <2>1, <3>1, ParseResultType DEF Return
    <2>3. TypeOK'
        BY <1>0, <2>1, <2>2 DEF TypeOK
    <2> QED
        BY <2>1, <2>3 DEF ImportInv
<1>11. CASE UNCHANGED vars
    BY <1>11 DEF vars, ImportInv, TypeOK
<1> QED
    BY <1>1, <1>2, <1>3, <1>4, <1>5, <1>6, <1>7, <1>8, <1>9, <1>10, <1>11 DEF Next

(***************************************************************************)
(* Every run of oidc_jwk_rsa_bio_to_jwk, from a file or from an x5c JWK,   *)
(* keeps every variable within its type, for every chain length.           *)
(***************************************************************************)
THEOREM ImportTypeCorrect == Spec => []TypeOK
<1>1. Init => ImportInv
    BY InitInv
<1>2. ImportInv /\ [Next]_vars => ImportInv'
    BY StepInv
<1>3. ImportInv => TypeOK
    BY DEF ImportInv
<1> QED
    BY <1>1, <1>2, <1>3, PTL DEF Spec

(***************************************************************************)
(* Every path out of oidc_jwk_rsa_bio_to_jwk, whatever OpenSSL, the base64 *)
(* encoder, the hashing or cjose fail on and however long the chain, has   *)
(* released the key, the DER bytes and the certificate it held, and none  *)
(* twice.                                                                  *)
(***************************************************************************)
THEOREM ImportReleasesResources == Spec => []ResourcesReleased
<1>1. ImportInv => ResourcesReleased
    BY DEF ImportInv, ResourcesReleased
<1> QED
    BY InitInv, StepInv, <1>1, PTL DEF Spec

-----------------------------------------------------------------------------
\* The path through the leaf certificate: no private key, no PUBLIC KEY block.
Leafy == ~input.private /\ ~input.pubkey

\* The x5c entry of certificate i, whole.
CertEntry(i) == [cert |-> i, whole |-> TRUE]

\* x5c holds certificates 1 .. p - 1, whole and in order, x5c_count is
\* their number, and each of them decoded.
ChainSoFar(p) ==
    /\ jwk.x5c \in Seq(Entries)
    /\ Len(jwk.x5c) = p - 1
    /\ \A i \in 1..p - 1 : jwk.x5c[i] = CertEntry(i)
    /\ jwk.x5c_count = p - 1
    /\ \A i \in 1..p - 1 : Decodes(i)

(***************************************************************************)
(* The invariant behind ChainLeafFirst.  rv is set only by the RSA         *)
(* segment; on the leaf path the chain loop has appended every decoded     *)
(* certificate so far, and once it is past the loop the next block does   *)
(* not decode.                                                             *)
(***************************************************************************)
LeafInv ==
    /\ ImportInv
    /\ ChainLeafFirst
    /\ pc \in {"open", "leaf", "chain", "rsa"} => ~rv
    /\ Leafy =>
         /\ pc = "leaf" => Decodes(1)
         /\ pc = "chain" => ChainSoFar(pos)
         /\ (pc = "rsa" \/ (pc \in {"end", "done"} /\ rv))
              => ChainSoFar(pos) /\ ~Decodes(pos)

\* The number of leading blocks that decode is p - 1 when blocks 1 .. p - 1
\* decode and block p does not.
LEMMA DecodedLengthIs ==
    ASSUME input \in ValidInputs, NEW p \in Nat \ {0},
           \A i \in 1..p - 1 : Decodes(i), ~Decodes(p)
    PROVE  DecodedLength = p - 1
<1> DEFINE c == input.certs
           P(n) == /\ \A i \in 1..n : c[i]
                   /\ n < Len(c) => ~c[n + 1]
<1>1. c \in Seq(BOOLEAN) /\ Len(c) \in Nat
    BY ChainLen, MaxChainAssumption DEF ValidInputs, Inputs
<1>2. p - 1 \in 0..Len(c)
    <2>1. CASE p = 1
        BY <1>1, <2>1
    <2>2. CASE p > 1
        <3>1. Decodes(p - 1)
            BY <2>2
        <3> QED
            BY <1>1, <3>1 DEF Decodes
    <2> QED
        BY <2>1, <2>2
<1>3. P(p - 1)
    BY <1>1, <1>2 DEF Decodes
<1>4. ASSUME NEW m \in 0..Len(c), P(m) PROVE m = p - 1
    <2>1. CASE m < p - 1
        <3>1. Decodes(m + 1) /\ m < Len(c)
            BY <1>1, <1>2, <2>1 DEF Decodes
        <3> QED
            BY <1>4, <3>1 DEF Decodes
    <2>2. CASE m > p - 1
        <3>1. p - 1 < Len(c) /\ c[p] /\ p <= Len(c)
            BY <1>1, <1>2, <1>4, <2>2
        <3> QED
            BY <3>1 DEF Decodes
    <2> QED
        BY <1>1, <1>2, <2>1, <2>2
<1>5. DecodedLength \in 0..Len(c) /\ P(DecodedLength)
    BY <1>2, <1>3 DEF DecodedLength
<1> QED
    BY <1>4, <1>5

\* Appending certificate p, whole, to the first p - 1 gives the first p.
LEMMA AppendCert ==
    ASSUME NEW x \in Seq(Entries), NEW p \in 1..MaxChain, Len(x) = p - 1,
           \A i \in 1..p - 1 : x[i] = CertEntry(i)
    PROVE  /\ Append(x, CertEntry(p)) \in Seq(Entries)
           /\ Len(Append(x, CertEntry(p))) = p
           /\ \A i \in 1..p : Append(x, CertEntry(p))[i] = CertEntry(i)
<1>1. CertEntry(p) \in Entries
    BY DEF CertEntry, Entries
<1>2. /\ Append(x, CertEntry(p)) \in Seq(Entries)
      /\ Len(Append(x, CertEntry(p))) = p
      /\ \A i \in 1..p - 1 : Append(x, CertEntry(p))[i] = x[i]
      /\ Append(x, CertEntry(p))[p] = CertEntry(p)
    BY <1>1, AppendProperties
<1> QED
    BY <1>2

\* x5c as ChainSoFar describes it is the sequence of the first p - 1
\* certificates.
LEMMA ChainSoFarIs ==
    ASSUME NEW p \in 1..MaxChain + 1, ChainSoFar(p)
    PROVE  jwk.x5c = [i \in 1..p - 1 |-> CertEntry(i)]
<1> DEFINE t == [i \in 1..p - 1 |-> CertEntry(i)]
<1>1. p - 1 \in Nat
    BY MaxChainAssumption
<1>2. t \in Seq(Entries) /\ Len(t) = p - 1
    BY <1>1, MaxChainAssumption DEF CertEntry, Entries
<1>3. \A i \in 1..Len(jwk.x5c) : jwk.x5c[i] = t[i]
    BY DEF ChainSoFar
<1> QED
    BY <1>2, <1>3, SeqEqual DEF ChainSoFar

\* The rest of LeafInv, beside ImportInv.
LeafRest ==
    /\ ChainLeafFirst
    /\ pc \in {"open", "leaf", "chain", "rsa"} => ~rv
    /\ Leafy =>
         /\ pc = "leaf" => Decodes(1)
         /\ pc = "chain" => ChainSoFar(pos)
         /\ (pc = "rsa" \/ (pc \in {"end", "done"} /\ rv))
              => ChainSoFar(pos) /\ ~Decodes(pos)

(***************************************************************************)
(* With certificate encoding that succeeds, every segment of               *)
(* oidc_jwk_rsa_bio_to_jwk and the callers keep LeafInv.                   *)
(***************************************************************************)
LEMMA LeafStep ==
    ASSUME ~ENCODE_FAILS
    PROVE  LeafInv /\ [Next]_vars => LeafInv'
<1> SUFFICES ASSUME LeafInv, [Next]_vars PROVE LeafInv'
    OBVIOUS
<1>0. /\ ImportInv /\ ImportInv' /\ TypeOK /\ LeafRest
      /\ input' = input
    BY StepInv DEF LeafInv, LeafRest, ImportInv, Next, vars, OpenFails, ReadPrivateKey,
                   ReadPublicKey, ReadLeafCert, EncodeLeaf, ChainStep, ChainEnd, BuildKey,
                   End, Return
<1>1. SUFFICES LeafRest'
    BY <1>0 DEF LeafInv, LeafRest
<1>2. Leafy' = Leafy /\ \A i : Decodes(i)' = Decodes(i)
    BY <1>0 DEF Leafy, Decodes
<1>3. CASE OpenFails
    BY <1>0, <1>3 DEF OpenFails, LeafRest, ChainLeafFirst
<1>4. CASE ReadPrivateKey \/ ReadPublicKey
    <2>1. pc = "open" /\ pc' \in {"rsa", "end"} /\ rv' = rv /\ ~Leafy
        BY <1>4 DEF ReadPrivateKey, ReadPublicKey, Leafy
    <2> QED
        BY <1>0, <1>2, <2>1 DEF LeafRest, ChainLeafFirst
<1>5. CASE ReadLeafCert
    <2>1. pc = "open" /\ pc' \in {"leaf", "end"} /\ rv' = rv
          /\ (pc' = "leaf" => Decodes(1))
        BY <1>5 DEF ReadLeafCert
    <2> QED
        BY <1>0, <1>2, <2>1 DEF LeafRest, ChainLeafFirst
<1>6. CASE EncodeLeaf
    <2>1. /\ pc = "leaf" /\ pc' \in {"end", "chain"} /\ rv' = rv /\ pos' = 2
          /\ jwk \in Jwks
        BY <1>0, <1>6 DEF EncodeLeaf, ImportInv
    <2>2. pc' = "chain" =>
            /\ jwk'.x5c = <<[cert |-> 1, whole |-> TRUE]>>
            /\ jwk'.x5c_count = 1
        <3>1. SUFFICES ASSUME pc' = "chain"
                       PROVE  /\ jwk'.x5c = <<[cert |-> 1, whole |-> TRUE]>>
                              /\ jwk'.x5c_count = 1
            OBVIOUS
        <3>2. PICK x5tOk, x5tS256Ok \in BOOLEAN :
                jwk' = [[jwk EXCEPT !.x5c = <<[cert |-> 1, whole |-> TRUE]>>,
                                    !.x5c_count = CountAfterAppend(0)]
                           EXCEPT !.x5t = IF x5tOk THEN 1 ELSE NULL,
                                  !.x5t_S256 = IF x5tS256Ok THEN 1 ELSE NULL]
            BY <1>6, <3>1 DEF EncodeLeaf
        <3>3. /\ [jwk EXCEPT !.x5c = <<[cert |-> 1, whole |-> TRUE]>>,
                             !.x5c_count = CountAfterAppend(0)] \in Jwks
              /\ [jwk EXCEPT !.x5c = <<[cert |-> 1, whole |-> TRUE]>>,
                             !.x5c_count = CountAfterAppend(0)].x5c
                   = <<[cert |-> 1, whole |-> TRUE]>>
              /\ [jwk EXCEPT !.x5c = <<[cert |-> 1, whole |-> TRUE]>>,
                             !.x5c_count = CountAfterAppend(0)].x5c_count = 1
            <4>1. <<[cert |-> 1, whole |-> TRUE]>> \in Seq(Entries) /\ CountAfterAppend(0) = 1
                  /\ 1 \in 0..MaxChain
                BY MaxChainAssumption DEF Entries, CountAfterAppend
            <4> QED
                BY <2>1, <4>1, SetX5cCount DEF Jwks
        <3> QED
            BY <3>2, <3>3 DEF Jwks
    <2>3. /\ <<[cert |-> 1, whole |-> TRUE]>> \in Seq(Entries)
          /\ Len(<<[cert |-> 1, whole |-> TRUE]>>) = 2 - 1
          /\ \A i \in 1..2 - 1 : <<[cert |-> 1, whole |-> TRUE]>>[i] = CertEntry(i)
        BY MaxChainAssumption DEF Entries, CertEntry
    <2>4. Leafy /\ pc' = "chain" => ChainSoFar(pos)'
        <3>1. SUFFICES ASSUME Leafy, pc' = "chain" PROVE ChainSoFar(pos)'
            OBVIOUS
        <3>2. Decodes(1)
            BY <1>0, <2>1, <3>1 DEF LeafRest
        <3>3. \A i \in 1..2 - 1 : Decodes(i)'
            BY <1>0, <3>2 DEF Decodes
        <3> QED
            BY <2>1, <2>2, <2>3, <3>1, <3>3 DEF ChainSoFar
    <2> QED
        BY <1>0, <1>2, <2>1, <2>4 DEF LeafRest, ChainLeafFirst
<1>7. CASE ChainStep
    <2>1. /\ pc = "chain" /\ Decodes(pos) /\ rv' = rv /\ ~rv
          /\ jwk \in Jwks /\ pos \in 1..MaxChain + 1
        BY <1>0, <1>7 DEF ChainStep, ChainContinues, ImportInv, LeafRest, TypeOK
    <2>2. PICK enc \in EncodeOutcomes, r \in ReallocOutcomes(x5cAlloc) :
            /\ pem' = IF enc THEN pos ELSE pem
            /\ \/ /\ r = "abort"
                  /\ pc' = "crashed"
                  /\ UNCHANGED <<jwk, x5cAlloc, pos>>
               \/ /\ r = "failed"
                  /\ pc' = "end"
                  /\ UNCHANGED <<x5cAlloc, pos>>
               \/ /\ r = "moved"
                  /\ jwk' = [jwk EXCEPT !.x5c = Append(@, [cert |-> pem', whole |-> enc]),
                                        !.x5c_count = CountAfterAppend(@)]
                  /\ pos' = pos + 1
                  /\ UNCHANGED pc
        BY <1>7 DEF ChainStep
    <2>3. enc = TRUE /\ pem' = pos
        BY <2>2 DEF EncodeOutcomes
    <2>4. CASE pc' \in {"crashed", "end"}
        BY <1>0, <1>2, <2>1, <2>4 DEF LeafRest, ChainLeafFirst
    <2>5. CASE pc' = "chain"
        <3>1. /\ jwk' = [jwk EXCEPT !.x5c = Append(@, [cert |-> pos, whole |-> TRUE]),
                                    !.x5c_count = CountAfterAppend(@)]
              /\ pos' = pos + 1
            BY <2>1, <2>2, <2>3, <2>5
        <3>2. SUFFICES ASSUME Leafy PROVE ChainSoFar(pos)'
            BY <1>0, <1>2, <2>1, <2>5, <3>1 DEF LeafRest, ChainLeafFirst
        <3>3. ChainSoFar(pos)
            BY <1>0, <2>1, <3>2 DEF LeafRest
        <3>4. pos \in 1..MaxChain
            <4>1. pos <= Len(input.certs) /\ Len(input.certs) \in 0..MaxChain
                BY <1>0, <2>1, ChainLen DEF Decodes, TypeOK, ValidInputs, Inputs
            <4> QED
                BY <2>1, <4>1, MaxChainAssumption
        <3>5. /\ jwk'.x5c = Append(jwk.x5c, CertEntry(pos))
              /\ jwk'.x5c_count = pos
            BY <2>1, <3>1, <3>3, <3>4 DEF ChainSoFar, Jwks, CountAfterAppend, CertEntry
        <3>6. /\ jwk'.x5c \in Seq(Entries)
              /\ Len(jwk'.x5c) = pos
              /\ \A i \in 1..pos : jwk'.x5c[i] = CertEntry(i)
            BY <3>3, <3>4, <3>5, AppendCert DEF ChainSoFar
        <3>7. \A i \in 1..pos : Decodes(i)'
            BY <1>0, <2>1, <3>3, <3>4 DEF ChainSoFar, Decodes
        <3>8. pos' - 1 = pos
            BY <3>1, <3>4
        <3> QED
            BY <3>5, <3>6, <3>7, <3>8 DEF ChainSoFar
    <2> QED
        BY <2>1, <2>2, <2>4, <2>5
<1>8. CASE ChainEnd
    <2>1. /\ pc = "chain" /\ pc' = "rsa" /\ ~Decodes(pos)
          /\ UNCHANGED <<pos, jwk, rv>>
        BY <1>8 DEF ChainEnd, ChainContinues
    <2> QED
        BY <1>0, <1>2, <2>1 DEF LeafRest, ChainLeafFirst, ChainSoFar
<1>9. CASE BuildKey
    <2>1. /\ pc = "rsa" /\ pc' = "end" /\ UNCHANGED pos /\ jwk \in Jwks
          /\ jwk'.x5c = jwk.x5c /\ jwk'.x5c_count = jwk.x5c_count
        BY <1>0, <1>9 DEF BuildKey, ImportInv, Jwks
    <2> QED
        BY <1>0, <1>2, <2>1 DEF LeafRest, ChainLeafFirst, ChainSoFar
<1>10. CASE End
    <2>1. pc = "end" /\ pc' = "done" /\ UNCHANGED <<pos, jwk, rv>>
        BY <1>10 DEF End
    <2> QED
        BY <1>0, <1>2, <2>1 DEF LeafRest, ChainLeafFirst, ChainSoFar
<1>11. CASE Return
    <2>1. /\ pc = "done" /\ pc' = "returned" /\ UNCHANGED <<pos, jwk, rv>>
          /\ input.caller = "file" => out' = [ok |-> rv, jwk |-> jwk]
        BY <1>11 DEF Return
    <2>2. SUFFICES ASSUME input.caller = "file", out'.ok, Leafy
                   PROVE  /\ jwk.x5c = [i \in 1..DecodedLength |-> [cert |-> i, whole |-> TRUE]]
                          /\ jwk.x5c_count = DecodedLength
        BY <1>0, <2>1 DEF LeafRest, ChainLeafFirst, Leafy, DecodedLength
    <2>3. rv /\ ChainSoFar(pos) /\ ~Decodes(pos)
        BY <1>0, <2>1, <2>2 DEF LeafRest
    <2>4. pos \in Nat \ {0} /\ input \in ValidInputs
        BY <1>0 DEF TypeOK
    <2>5. DecodedLength = pos - 1
        BY <2>3, <2>4, DecodedLengthIs DEF ChainSoFar
    <2>6. jwk.x5c = [i \in 1..pos - 1 |-> CertEntry(i)]
        BY <1>0, <2>3, ChainSoFarIs DEF TypeOK
    <2> QED
        BY <2>3, <2>5, <2>6 DEF ChainSoFar, CertEntry
<1>12. CASE UNCHANGED vars
    BY <1>0, <1>2, <1>12 DEF vars, LeafRest, ChainLeafFirst, ChainSoFar, DecodedLength
<1> QED
    BY <1>3, <1>4, <1>5, <1>6, <1>7, <1>8, <1>9, <1>10, <1>11, <1>12 DEF Next

(***************************************************************************)
(* For every bound on the chain length, with certificate encoding that     *)
(* succeeds: a successful certificate import from a file returns in x5c    *)
(* every leading certificate that decodes, whole, each once and leaf       *)
(* first, and x5c_count is their number.                                   *)
(***************************************************************************)
THEOREM ChainLeafFirstHolds ==
    ASSUME ~ENCODE_FAILS
    PROVE  Spec => []ChainLeafFirst
<1>1. Init => LeafInv
    BY InitInv DEF Init, LeafInv, ChainLeafFirst
<1>2. LeafInv => ChainLeafFirst
    BY DEF LeafInv
<1> QED
    BY <1>1, <1>2, LeafStep, PTL DEF Spec

=============================================================================
