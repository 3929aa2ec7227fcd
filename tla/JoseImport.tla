------------------------------ MODULE JoseImport ------------------------------
(***************************************************************************)
(* oidc_jwk_rsa_bio_to_jwk of src/src/jose.c, and its two callers:         *)
(* oidc_jwk_parse_rsa_key (a PEM file) and oidc_jwk_parse_rsa_x5c (the     *)
(* first x5c entry of a JWK, wrapped as one CERTIFICATE block), the latter *)
(* as reached from oidc_jwk_parse through oidc_jwk_parse_rsa_x5c_spec.      *)
(*                                                                         *)
(* The function runs from one goto end to the next; each action is one    *)
(* such segment.  The BIO is abstracted to what the readers find in it: a *)
(* private key, a PUBLIC KEY block, and the CERTIFICATE blocks in order,   *)
(* each of which decodes or not.  A key is named after where it was read   *)
(* from ("priv", "pub", "leaf"); a certificate after its position.  The    *)
(* x5c array is a sequence of entries: the base64 text of certificate i,   *)
(* whole, or a one-byte copy of it.  live is the set of OpenSSL objects    *)
(* allocated and not yet freed.                                            *)
(***************************************************************************)
EXTENDS JoseAlg

CONSTANTS
    MaxChain,       \* the most CERTIFICATE blocks an input holds
    ENCODE_FAILS,   \* whether encoding a chain certificate to base64 may fail
    NULL            \* the C NULL pointer

ASSUME MaxChainAssumption == MaxChain \in Nat \ {0}
ASSUME EncodeAssumption == ENCODE_FAILS \in BOOLEAN
\* NULL is no certificate position and no kid or key name.
ASSUME NullAssumption == NULL \notin Nat \cup STRING

VARIABLES
    input,     \* what the caller passes: see Inputs
    pc,        \* "open", "leaf", "chain", "rsa", "end", "done", "returned", "crashed"
    pos,       \* the position of the next CERTIFICATE block the chain loop reads
    jwk,       \* *oidc_jwk: NULL before oidc_jwk_new, then the draft JWK
    x5cAlloc,  \* where jwk->x5c lives: "none", "pool" (apr_pcalloc), "heap" (realloc)
    pem,       \* x509_pem_encoded_certificate: NULL or the certificate it encodes
    x509,      \* the local x509: NULL or the position of the certificate it points to
    pkey,      \* the local pkey: NULL or the key read
    live,      \* the OpenSSL objects allocated and not freed
    rv,        \* the local rv
    fault,     \* "none", or the undefined behaviour the code first reached
    out        \* what the caller returns: NULL before, then [ok, jwk]

vars == <<input, pc, pos, jwk, x5cAlloc, pem, x509, pkey, live, rv, fault, out>>

Keys == {"priv", "pub", "leaf"}

\* The kid oidc_jwk_set_or_generate_kid derives: base64url(SHA-256(n || e)),
\* an injective function of the key.
Fingerprint(k) == "sha256_of_" \o k

KidVals == {"kid"} \cup {Fingerprint(k) : k \in Keys}

\* The CERTIFICATE blocks of an input in order: TRUE if the block decodes.
Chains == UNION {[1..n -> BOOLEAN] : n \in 0..MaxChain}

Inputs ==
    [caller : {"file", "x5c"},  \* oidc_jwk_parse_rsa_key or oidc_jwk_parse_rsa_x5c
     private : BOOLEAN,         \* is_private_key
     privkey : BOOLEAN,         \* the BIO holds a decodable private key
     pubkey : BOOLEAN,          \* the BIO holds a decodable PUBLIC KEY block
     certs : Chains,            \* its CERTIFICATE blocks
     rsa : BOOLEAN,             \* the key read is an RSA key
     kid : {NULL, "kid"}]       \* the kid argument (x5c: the JWK's "kid" string)

\* The inputs a caller can pass.  A private-key read ignores certificates;
\* oidc_jwk_parse_rsa_x5c builds one CERTIFICATE block and reads it as public.
ValidInputs ==
    {i \in Inputs :
        /\ i.private => (~i.pubkey /\ i.certs = <<>>)
        /\ ~i.private => ~i.privkey
        /\ i.caller = "x5c" => (~i.private /\ ~i.pubkey /\ Len(i.certs) = 1)}

\* An x5c entry: the base64 text of certificate cert, whole or cut to one byte.
Entries == [cert : 1..MaxChain, whole : BOOLEAN]

CjoseJwks == [key : Keys, kid : KidVals \cup {NULL}]

Jwks ==
    [x5c : Seq(Entries) \cup {NULL}, x5c_count : 0..MaxChain,
     x5t : {NULL, 1}, x5t_S256 : {NULL, 1},
     cjose_jwk : CjoseJwks \cup {NULL}, kid : KidVals \cup {NULL}, kty : {0, KTY_RSA}]

\* oidc_jwk_new: apr_pcalloc, every field zero.
EmptyJwk ==
    [x5c |-> NULL, x5c_count |-> 0, x5t |-> NULL, x5t_S256 |-> NULL,
     cjose_jwk |-> NULL, kid |-> NULL, kty |-> 0]

\* OpenSSL objects: the EVP_PKEY, the DER bytes of the leaf, certificate i.
PKEY == <<"pkey", 0>>
DER == <<"der", 0>>
X509(i) == <<"x509", i>>

Fail(f) == IF fault = "none" THEN f ELSE fault

\* PEM_read_bio_X509_AUX finds a decodable i-th CERTIFICATE block.
Decodes(i) == i <= Len(input.certs) /\ input.certs[i]

\* Outcomes of oidc_jose_util_get_b64encoded_certificate_data for a chain
\* certificate: TRUE it encoded it, FALSE it failed before writing the pointer.
EncodeOutcomes == IF ENCODE_FAILS THEN BOOLEAN ELSE {TRUE}

\* realloc on jwk->x5c.  On memory apr_pcalloc handed out this is undefined:
\* glibc aborts, or the array is copied to a fresh heap block.  On a heap
\* block it moves the array or fails.
ReallocOutcomes(a) == IF a = "pool" THEN {"abort", "moved"} ELSE {"moved", "failed"}

\* oidc_jwk_set_or_generate_kid: the given kid, or the key's fingerprint.
KidFor(k) == IF input.kid = NULL THEN Fingerprint(k) ELSE input.kid

Init ==
    /\ input \in ValidInputs
    /\ pc = "open"
    /\ pos = 1
    /\ jwk = NULL
    /\ x5cAlloc = "none"
    /\ pem = NULL
    /\ x509 = NULL
    /\ pkey = NULL
    /\ live = {}
    /\ rv = FALSE
    /\ fault = "none"
    /\ out = NULL

\* The caller fails before oidc_jwk_rsa_bio_to_jwk: the file cannot be
\* opened, or BIO_new / BIO_puts fail; *jwk is not touched.
OpenFails ==
    /\ pc = "open"
    /\ pc' = "returned"
    /\ out' = [ok |-> FALSE, jwk |-> NULL]
    /\ UNCHANGED <<input, pos, jwk, x5cAlloc, pem, x509, pkey, live, rv, fault>>

\* is_private_key: PEM_read_bio_PrivateKey.
ReadPrivateKey ==
    /\ pc = "open"
    /\ input.private
    /\ jwk' = EmptyJwk
    /\ IF input.privkey
          THEN pkey' = "priv" /\ live' = {PKEY} /\ pc' = "rsa"
          ELSE pc' = "end" /\ UNCHANGED <<pkey, live>>
    /\ UNCHANGED <<input, pos, x5cAlloc, pem, x509, rv, fault, out>>

\* PEM_read_bio_PUBKEY finds a public key.
ReadPublicKey ==
    /\ pc = "open"
    /\ ~input.private
    /\ input.pubkey
    /\ jwk' = EmptyJwk
    /\ pkey' = "pub"
    /\ live' = {PKEY}
    /\ pc' = "rsa"
    /\ UNCHANGED <<input, pos, x5cAlloc, pem, x509, rv, fault, out>>

\* No public key: BIO_reset, read the leaf certificate, X509_get_pubkey.
ReadLeafCert ==
    /\ pc = "open"
    /\ ~input.private
    /\ ~input.pubkey
    /\ jwk' = EmptyJwk
    /\ IF Decodes(1)
          THEN /\ x509' = 1
               /\ \E pubOk \in BOOLEAN :
                    IF pubOk
                       THEN pkey' = "leaf" /\ live' = {X509(1), PKEY} /\ pc' = "leaf"
                       ELSE pc' = "end" /\ live' = {X509(1)} /\ UNCHANGED pkey
          ELSE pc' = "end" /\ UNCHANGED <<x509, pkey, live>>
    /\ UNCHANGED <<input, pos, x5cAlloc, pem, rv, fault, out>>

\* A slip for CountAfterAppend: count the entry twice.
CountAfterAppendTwice(n) == n + 2

\* x5c_count += 1
CountAfterAppend(n) == n + 1

(***************************************************************************)
(* Lines 1174-1219: allocate x5c from the pool, encode the leaf into       *)
(* x5c[0], take its DER bytes, hash them into x5t and x5t#S256 (a failure  *)
(* of either is only logged), release the leaf.                            *)
(***************************************************************************)
EncodeLeaf ==
    /\ pc = "leaf"
    /\ x5cAlloc' = "pool"
    /\ \/ /\ jwk' = [jwk EXCEPT !.x5c = <<>>]    \* encoding failed, pem still NULL
          /\ pc' = "end"
          /\ UNCHANGED <<pem, live>>
       \/ /\ pem' = 1
          /\ LET drafted == [jwk EXCEPT !.x5c = <<[cert |-> 1, whole |-> TRUE]>>,
                                        !.x5c_count = CountAfterAppend(0)]
             IN \/ /\ jwk' = drafted              \* i2d_X509 failed
                   /\ pc' = "end"
                   /\ UNCHANGED live
                \/ /\ \E x5tOk, x5tS256Ok \in BOOLEAN :
                        jwk' = [drafted EXCEPT !.x5t = IF x5tOk THEN 1 ELSE NULL,
                                               !.x5t_S256 = IF x5tS256Ok THEN 1 ELSE NULL]
                   /\ live' = (live \cup {DER}) \ {X509(1)}
                   /\ pc' = "chain"
    /\ pos' = 2
    /\ UNCHANGED <<input, x509, pkey, rv, fault, out>>

\* A slip for ChainContinues: take any block, decodable or not.
ChainReadsAnyBlock(p) == p <= Len(input.certs)

\* The chain loop's test: PEM_read_bio_X509_AUX returned a certificate.
ChainContinues(p) == Decodes(p)

(***************************************************************************)
(* One iteration of the chain loop (lines 1221-1243): read certificate     *)
(* pos, encode it (a failure returns 0 before writing, so                  *)
(* x509_pem_encoded_certificate still points at the previous certificate's *)
(* text), grow x5c with realloc, append a copy of b64_len + 1 bytes,       *)
(* release the certificate.  The NULL test of line 1232 never fires here:  *)
(* the leaf already set the pointer.                                       *)
(***************************************************************************)
ChainStep ==
    /\ pc = "chain"
    /\ ChainContinues(pos)
    /\ x509' = pos
    /\ fault' = IF x5cAlloc = "pool" THEN Fail("realloc_of_pool_memory") ELSE fault
    /\ \E enc \in EncodeOutcomes, r \in ReallocOutcomes(x5cAlloc) :
         /\ pem' = IF enc THEN pos ELSE pem
         /\ \/ /\ r = "abort"
               /\ pc' = "crashed"
               /\ live' = live \cup {X509(pos)}
               /\ UNCHANGED <<jwk, x5cAlloc, pos>>
            \/ /\ r = "failed"
               /\ jwk' = [jwk EXCEPT !.x5c = NULL]
               /\ live' = live \cup {X509(pos)}
               /\ pc' = "end"
               /\ UNCHANGED <<x5cAlloc, pos>>
            \/ /\ r = "moved"
               /\ x5cAlloc' = "heap"
               /\ jwk' = [jwk EXCEPT !.x5c = Append(@, [cert |-> pem', whole |-> enc]),
                                     !.x5c_count = CountAfterAppend(@)]
               /\ pos' = pos + 1
               /\ UNCHANGED <<pc, live>>
    /\ UNCHANGED <<input, pkey, rv, out>>

\* The chain loop ends at the first block that does not decode.
ChainEnd ==
    /\ pc = "chain"
    /\ ~ChainContinues(pos)
    /\ x509' = NULL
    /\ pc' = "rsa"
    /\ UNCHANGED <<input, pos, jwk, x5cAlloc, pem, pkey, live, rv, fault, out>>

(***************************************************************************)
(* Lines 1247-1302: EVP_PKEY_get1_RSA, cjose_jwk_create_RSA_spec, then     *)
(* oidc_jwk_set_or_generate_kid on the new cjose_jwk, then kid and kty.   *)
(***************************************************************************)
BuildKey ==
    /\ pc = "rsa"
    /\ pc' = "end"
    /\ \/ /\ ~input.rsa                    \* not an RSA key
          /\ UNCHANGED <<jwk, rv>>
       \/ /\ input.rsa                     \* cjose_jwk_create_RSA_spec failed
          /\ UNCHANGED <<jwk, rv>>
       \/ /\ input.rsa                     \* the kid could not be set
          /\ jwk' = [jwk EXCEPT !.cjose_jwk = [key |-> pkey, kid |-> NULL]]
          /\ UNCHANGED rv
       \/ /\ input.rsa
          /\ jwk' = [jwk EXCEPT !.cjose_jwk = [key |-> pkey, kid |-> KidFor(pkey)],
                                !.kid = KidFor(pkey), !.kty = KTY_RSA]
          /\ rv' = TRUE
    /\ UNCHANGED <<input, pos, x5cAlloc, pem, x509, pkey, live, fault, out>>

\* A slip for End: the certificate still held is not released.
EndKeepsCertificate ==
    /\ pc = "end"
    /\ live' = live \ {DER, PKEY}
    /\ UNCHANGED fault
    /\ pc' = "done"
    /\ UNCHANGED <<input, pos, jwk, x5cAlloc, pem, x509, pkey, rv, out>>

\* The end: label: free x509_bytes, pkey and x509 where set.
End ==
    /\ pc = "end"
    /\ live' = live \ ({DER, PKEY} \cup IF x509 # NULL THEN {X509(x509)} ELSE {})
    /\ fault' = IF x509 # NULL /\ X509(x509) \notin live THEN Fail("double_free") ELSE fault
    /\ pc' = "done"
    /\ UNCHANGED <<input, pos, jwk, x5cAlloc, pem, x509, pkey, rv, out>>

\* oidc_jwk_parse on the x5c path: oidc_jwk_from_cjose on the cjose_jwk
\* that oidc_jwk_parse_rsa_x5c handed out, or NULL.
ParseResult(cj) ==
    IF cj = NULL THEN [ok |-> FALSE, jwk |-> NULL]
    ELSE [ok |-> TRUE, jwk |-> [EmptyJwk EXCEPT !.cjose_jwk = cj, !.kid = cj.kid,
                                                !.kty = KTY_RSA]]

(***************************************************************************)
(* The caller: oidc_jwk_parse_rsa_key returns rv with *jwk set; the x5c    *)
(* path copies oidc_jwk->cjose_jwk out whatever rv is (line 1419), and    *)
(* oidc_jwk_parse_rsa_x5c_spec ignores rv (line 328).                      *)
(***************************************************************************)
Return ==
    /\ pc = "done"
    /\ pc' = "returned"
    /\ out' = IF input.caller = "file" THEN [ok |-> rv, jwk |-> jwk]
              ELSE ParseResult(jwk.cjose_jwk)
    /\ UNCHANGED <<input, pos, jwk, x5cAlloc, pem, x509, pkey, live, rv, fault>>

Next ==
    \/ OpenFails
    \/ ReadPrivateKey
    \/ ReadPublicKey
    \/ ReadLeafCert
    \/ EncodeLeaf
    \/ ChainStep
    \/ ChainEnd
    \/ BuildKey
    \/ End
    \/ Return

Spec == Init /\ [][Next]_vars

-----------------------------------------------------------------------------
TypeOK ==
    /\ input \in ValidInputs
    /\ pc \in {"open", "leaf", "chain", "rsa", "end", "done", "returned", "crashed"}
    /\ pos \in 1..MaxChain + 1
    /\ jwk \in Jwks \cup {NULL}
    /\ x5cAlloc \in {"none", "pool", "heap"}
    /\ pem \in 1..MaxChain \cup {NULL}
    /\ x509 \in 1..MaxChain \cup {NULL}
    /\ pkey \in Keys \cup {NULL}
    /\ live \subseteq {PKEY, DER} \cup {X509(i) : i \in 1..MaxChain}
    /\ rv \in BOOLEAN
    /\ fault \in {"none", "realloc_of_pool_memory", "double_free"}
    /\ out \in {NULL} \cup [ok : BOOLEAN, jwk : Jwks \cup {NULL}]

\* The number of leading CERTIFICATE blocks that decode.
DecodedLength ==
    CHOOSE n \in 0..Len(input.certs) :
        /\ \A i \in 1..n : input.certs[i]
        /\ n < Len(input.certs) => ~input.certs[n + 1]

(***************************************************************************)
(* A certificate import that succeeds returns in x5c every certificate of  *)
(* the chain up to the first block that does not decode, each once, whole *)
(* and leaf first, and x5c_count is their number (spec 4.3: "appending     *)
(* each successfully decoded certificate ... in the order encountered").   *)
(***************************************************************************)
ChainLeafFirst ==
    (/\ pc = "returned" /\ input.caller = "file" /\ out.ok
     /\ ~input.private /\ ~input.pubkey)
        => /\ out.jwk.x5c = [i \in 1..DecodedLength |-> [cert |-> i, whole |-> TRUE]]
           /\ out.jwk.x5c_count = DecodedLength

(***************************************************************************)
(* Every path out of oidc_jwk_rsa_bio_to_jwk, success or goto end, has     *)
(* released the key, the DER bytes and every certificate it read, and     *)
(* none twice.                                                             *)
(***************************************************************************)
ResourcesReleased ==
    /\ pc \in {"done", "returned"} => live = {}
    /\ fault # "double_free"

(***************************************************************************)
(* jwk->x5c is only ever handled by the allocator that made it: no        *)
(* realloc of memory apr_pcalloc handed out.                              *)
(***************************************************************************)
X5cOwnedByPool == fault # "realloc_of_pool_memory"

(***************************************************************************)
(* Every x5c entry the import produces is the whole base64 text of the     *)
(* certificate at its position in the chain.                               *)
(***************************************************************************)
ChainEntriesExact ==
    (jwk # NULL /\ jwk.x5c # NULL)
        => \A i \in 1..Len(jwk.x5c) : jwk.x5c[i] = [cert |-> i, whole |-> TRUE]

=============================================================================
