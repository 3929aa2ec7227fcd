# TLA+ models of the JOSE layer of mod_auth_openidc (`src/src/jose.c`)

This directory holds TLA+ specifications of the JOSE code of mod_auth_openidc,
TLC configurations that model-check them on small instances, and TLAPS proofs
of their main safety properties for every instance. All of the C code lives in
one file, `src/src/jose.c`. `spec.md` describes it in five components.

## The system

| Component (spec.md) | Code in jose.c | What it does |
|---|---|---|
| Algorithm Metadata (4.1) | `oidc_alg2kty` 215, `oidc_alg2keysize` 248, supported lists 527-599, `oidc_jose_alg_to_openssl_digest` 1066, `oidc_jose_hash_length` 1110 | Pure tables from an `alg` string to a key type, key size, digest and hash length. |
| JWK Model (4.2) | `oidc_jwk_parse` 354, `oidc_jwk_destroy` 374, `oidc_jwk_list_destroy` 386, `oidc_jwk_to_json` 411, `oidc_jwk_set_or_generate_kid` 451, `oidc_jwk_create_symmetric_key` 481, `internal_cjose_jwk_to_json` 1445 | Builds, serialises and destroys keys and derives kids. |
| Key/Cert Importer (4.3) | `oidc_jwk_rsa_bio_to_jwk` 1136, `oidc_jwk_parse_rsa_x5c` 1352 | Builds an RSA JWK from PEM, with the x5c chain and thumbprints. |
| JWT Model (4.4) | `oidc_jwt_new` 152, `oidc_jwt_parse` 792, `oidc_jwt_serialize` 182, `oidc_jwt_sign` 871, `oidc_jwt_encrypt` 916, `oidc_jwt_destroy` 849 | The token, its `cjose_jws_t` handle and its JSON trees. |
| Key Resolution Engine (4.5) | `oidc_jwt_verify` 965, `oidc_jwe_decrypt` 763, `oidc_jwe_decrypt_impl` 706 | Picks keys from a keyset (an `apr_hash_t` from kid to JWK) and tries them. |

The components interact like this:

- The importer and the JWK model fill a keyset.
- `oidc_jwt_parse` first runs the decryption engine, then imports the JWS and keeps its handle in `jwt->cjose_jws`.
- `oidc_jwt_verify` tries keys of the keyset against that handle.
- `oidc_jwt_serialize` and `oidc_jwt_destroy` use the same handle afterwards.

cjose (the signing and encryption provider) is not part of this repository. Its behaviour is an assumption of the models, stated where it is used:

- `cjose_jws_verify` and `cjose_jwe_decrypt` succeed only with the key that made the signature (or wrapped the content key), and only when that key has the type the algorithm needs (`ProviderKty`).
- In cjose before 0.5.0, a failed `cjose_jws_verify` releases the `cjose_jws_t`. This is the comment at jose.c 953-955 and spec 4.5.

Everything runs synchronously (spec 5). There are no threads here, so the hard behaviours are of three kinds:

- long call sequences on one JWT: verify, verify, serialize, destroy;
- the unspecified iteration order of `apr_hash`;
- the version-dependent ownership of the handle.

## Modules

- **`JoseAlg`** models Algorithm Metadata.
  - An algorithm identifier is a pair `<<first two characters, rest>>`. `strcmp` is then equality of pairs, and `strncmp(alg, "RS", 2) == 0` is `alg[1] = "RS"`. Unknown identifiers are pairs too, so `"RSfoo"` maps to RSA as it does in C.
  - Key types are the integers of `cjose_jwk_kty_t`, and -1 means "none".
  - Every table of the code is an operator named after its C function.
- **`JoseKeys`** models the keyset.
  - A keyset is a function from every kid in `KeyIds` to a key type, or `NOKEY` where `apr_hash_get` finds nothing.
  - It can also be `NULL` when `ABSENT_KEYSET` is TRUE.
  - `Kids(ks)` is the set of kids in the table.
- **`JoseVerify`** models a parsed JWT and the calls a caller makes on it, any number of times and in any order, until destroy.
  - State: the header (`alg`, `kid`), the key that made the signature (`signer`, or `Forged`), the pointer `jws` (`jwt->cjose_jws`), the object `handle` (`live`/`freed`), the cjose `version`, the local `rc` of `oidc_jwt_verify`, the walk's `todo` and `tried` sets, the last `result`, the last `serialized` output and a `fault` that records the first undefined behaviour reached.
  - Actions:
    - `VerifyKid`: the kid branch, lines 973-989.
    - `VerifyStart`, `VerifyStep` and `VerifyEnd`: the kid-less walk, lines 990-1020, one hash entry per step, in any order.
    - `VerifyNullKeyset`: `keys == NULL`.
    - `Serialize`: lines 182-210.
    - `Destroy`: lines 849-866.
  - Each call of the provider, `cjose_jws_verify(k, before)`, includes the code's reaction to its failure: `jwt->cjose_jws = NULL` when `oidc_jose_version_deprecated`.
- **`JoseDecrypt`** models `oidc_jwe_decrypt` together with `oidc_jwe_decrypt_impl`.
  - Actions:
    - `ImportFails`: the input is not a JWE, so it is passed through or fails, depending on `import_must_succeed`.
    - `DecryptNoKeys`: the test at line 719.
    - `DecryptKid`.
    - `DecryptStart`, `DecryptStep` and `DecryptEnd`: the walk, including the copy of the plaintext into `*s_json`.
  - `cjoseErr` records which attempt last wrote the local `cjose_err`, or `"uninit"` if none did. `reported` is the error the code records.
- **`JoseImport`** models `oidc_jwk_rsa_bio_to_jwk` and its callers `oidc_jwk_parse_rsa_key` (a PEM file) and `oidc_jwk_parse_rsa_x5c` / `oidc_jwk_parse_rsa_x5c_spec` / `oidc_jwk_parse` (the first `x5c` entry of a JWK).
  - The BIO is abstracted to what the OpenSSL readers find in it: a private key, a PUBLIC KEY block, and the CERTIFICATE blocks in order, each of which decodes or not (`input`). The x5c caller builds exactly one CERTIFICATE block and reads it as public (`ValidInputs`).
  - State: `pc` (the segment between two `goto end`s), `pos` (the next block of the chain loop), `jwk` (`*oidc_jwk`, with `x5c` as a sequence of entries `[cert, whole]`), `x5cAlloc` (pool or heap), `pem` (`x509_pem_encoded_certificate`), the locals `x509`, `pkey` and `rv`, `live` (the OpenSSL objects not yet freed), `fault` and the caller's `out`.
  - Actions: `OpenFails` (the BIO cannot be made), `ReadPrivateKey`, `ReadPublicKey`, `ReadLeafCert` (lines 1158-1171), `EncodeLeaf` (1172-1219), `ChainStep` and `ChainEnd` (the loop at 1221-1244), `BuildKey` (1247-1302), `End` (the `end:` label) and `Return` (the caller).
  - Every failure of OpenSSL, of the base64 encoder, of hashing and of cjose is a nondeterministic outcome. `realloc` on pool memory is undefined: it aborts or copies to the heap (`ReallocOutcomes`). `ENCODE_FAILS` says whether a chain certificate's encoding may fail.
- **`JoseJwt`** models the life of one `oidc_jwt_t` and every object it owns.
  - The JWT comes from `oidc_jwt_parse` (`Parse`) or from `oidc_jwt_new(pool, TRUE, TRUE)` with `alg` set by the caller (`New`). Then `Sign`, `Serialize` and `Encrypt` are called up to `MaxOps` times in any order, and `Destroy` ends it.
  - Every object gets a fresh identity `<<kind, n>>` when it is made (`Fresh`). `live` is the set of objects made and not yet released. The pointers `hdr`, `pay` and `jws` are `jwt->header.value.json`, `jwt->payload.value.json` and `jwt->cjose_jws`, and `jwtp` is the caller's `*j_jwt`.
  - `Parse` stops at one of six stages (`ParseStages`): a failed decryption, import, `cjose_jws_get_plaintext`, `json_loads`, a payload that is not an object, or success. Each failure does exactly what its lines do (`ParseFailure`).
  - `Sign` releases the old handle and stores the result of `cjose_jws_sign`, which is NULL on failure (`SignResult`). `cjose_jws_sign` fails for alg `none` and may fail for any key.
  - `Serialize` exports the handle for a signed alg. For `none` it base64url-encodes the payload, which may fail when `B64_FAILS` (`B64Outcomes`). `Encrypt` makes and releases a temporary `cjose_jwe_t`; its export may fail when `EXPORT_FAILS` (`ExportOutcomes`).
  - JSON contents, claims and header fields are left out: no property tells them apart.
- **`JosePemSpec`** is the abstract PEM framing that spec 4.3 promises for `x5c[0]`. A character of the text is named by its position. `RefLines(n)` cuts a text of `n` characters into lines of 75, the last one shorter. `Start` hands over a new text, and `Wrap` produces its framing all at once.
- **`JosePem`** models the framing loop of `oidc_jwk_parse_rsa_x5c`, lines 1384-1395, one pass per step.
  - State: `n` (`strlen(s_x5c)`), `i`, `lines` (the lines between the delimiters), `pemPc` and `overread`.
  - `Chunk(i)` is what `"%s"` prints of `apr_pstrmemdup(pool, s_x5c + i, 75)`: the characters up to the end of the text.
  - `ReadsPastEnd(i)` says whether those 75 bytes go past the `n + 1` bytes of the string's buffer. Reading past it is undefined, so `PemStep` then either reads harmless bytes behind the NUL or faults (`pemPc = "crashed"`).
  - `Abs` maps the loop onto `JosePemSpec`: `pem` is `lines` once the END line is written, and NULL before.
- **`JoseJwk`** models the JWK life cycle. It EXTENDS `JosePem`: a parse that takes the x5c path runs the PEM loop to its end before the next call (`pc = "x5c"`).
  - State: `handles` (each `cjose_jwk_t` made, `live` or `released`), `jwks` (the `cjose_jwk` field of each `oidc_jwk_t` handed to the caller, NULL once destroyed), `x5c` (whether it carries a chain), `leaked` (json objects never freed), `fault` and the last `result`.
  - Actions:
    - `ParseBegin`, `ParseX5cLoop` and `ParseX5cEnd`: `oidc_jwk_parse`. cjose imports the JSON, or `oidc_jwk_parse_rsa_x5c_spec` rejects it, or the x5c path frames `x5c[0]`, fills a BIO and calls `oidc_jwk_rsa_bio_to_jwk`. The key it made is handed out whatever `rv` is (line 1419).
    - `CreateSymmetricKey`: lines 481-509. The key is released when its kid cannot be set.
    - `ImportKeyFile`: the PEM key-file import as its caller sees it. `JoseImport` models its inside.
    - `ToJson`: `oidc_jwk_to_json`, stopping at each stage of `internal_cjose_jwk_to_json` (`ToJsonStops`).
    - `Destroy`: lines 374-381.
    - `ListDestroy`: lines 386-395, on any subset of the JWKs.
  - `APPEND_FAILS` says whether `json_array_append_new` may fail. `MaxHandles` bounds the keys and JWKs made.
- **`MC_JoseVerify`**, **`MC_JoseDecrypt`**, **`MC_JoseImport`**, **`MC_JoseJwt`** and **`MC_JoseJwk`** instantiate the models for TLC:
  - three kids, which are model values, with symmetry over them;
  - the algorithms RS256, HS256, ES256 and none for verify, and RSA-OAEP and A128KW for decrypt;
  - cjose 0.4 and 0.6 (or 0.3 for the old-cjose run);
  - x5c texts of 0, 1, 74, 75, 76, 150 and 151 characters.
- **`JoseVerify_proofs`**, **`JoseImport_proofs`**, **`JoseDecrypt_proofs`**, **`JoseJwt_proofs`**, **`JosePem_proofs`** and **`JoseJwk_proofs`** hold the TLAPS proofs.

Operators named `...Unchecked`, `...Optimistic`, `ExitAfterFirstKey`, `VersionPrefixTooShort`, `EmptyKeysetOnly`, `PemContinuesWhileDifferent`, `PemStepFullChunks`, `CreateSymmetricKeyKeepsKey`, `DestroyKeepsPointer`, `oidc_alg2kty_PSasOct` and the other `...Keeps...` operators are plausible slips of the code. They are used only as mutants: each replaces the definition that follows it and must make a property fail.

## Runs

| Run | Expect | What it shows |
|---|---|---|
| `verify` (`JoseVerify.cfg`) | pass (28634 states) | See below. |
| `verify_old_cjose` | violation of HandleReleasedOnce | cjose 0.3 frees the handle on a failed verify, but `"0.3.x"` fails the `"0.4."` prefix test at line 959. The pointer stays set, so the next verify or destroy uses freed memory. |
| `verify_absent_keyset` | violation of KeysetFailsFast | `oidc_jwt_verify` dereferences a NULL keyset; `oidc_jwe_decrypt_impl` tests for it. |
| `import` (`JoseImport.cfg`) | pass (2344 states) | See below. |
| `import_realloc` | violation of X5cOwnedByPool | A second certificate makes the chain loop `realloc` the array `apr_pcalloc` made (line 1225). |
| `import_stale_pem` | violation of ChainEntriesExact | A chain certificate whose encoding fails gets a one-byte copy of the previous certificate's text, because the pointer tested at line 1232 was never reset. |
| `jwt` (`JoseJwt.cfg`) | pass (352 states) | See below. |
| `jwt_parse_partial` | violation of ParseFailsClean | When `cjose_jws_get_plaintext` fails, `oidc_jwt_parse` returns FALSE at line 835 with `*j_jwt` still set and the handle and header tree held. The import and payload failures destroy the JWT and clear `*j_jwt`. |
| `decrypt` (`JoseDecrypt.cfg`) | pass (4416 states) | See below. |
| `decrypt_uninit_err` | violation of DecryptReportsLastAttempt | When no key has the algorithm's type, the message "error for last tried key" prints the uninitialised `cjose_err` (lines 713, 753). |
| `jwk` (`JoseJwk.cfg`) | pass (10267 states) | See below. |
| `jwk_pem_overread` | violation of ReadsWithinString | For an `x5c[0]` of one character, the PEM loop copies 75 bytes from a 2-byte buffer (lines 1391-1392). This happens for every length that is not 0 or 74 modulo 75. |

In the `verify` run, every sequence of verify, serialize and destroy satisfies these properties, for every keyset of up to three keys (NULL included), every signer and both cjose versions:

- **HandleReleasedOnce**: the handle is never used after it was freed, never freed twice, and is freed after destroy.
- **VerifySound**: TRUE is returned only for a key the code may use.
- **VerifyComplete**: with a cjose that keeps its handle, FALSE is returned only if no usable key made the signature, whatever the hash order.
- **VerifyExhaustive**: with such a cjose, a kid-less verify whose algorithm has a key type returns FALSE only if no key of the keyset at all verifies the signature. The key-type filter at line 994 therefore drops no key the provider would accept. This fails if `oidc_alg2kty` maps an algorithm to the wrong type. The mutant that maps "PS" to `oct` shows it.

In the `decrypt` run:

- **DecryptComplete**: decryption fails only if no usable key could decrypt.
- **KeysetFailsFast**: an absent or empty keyset fails before any attempt.

In the `import` run (up to three CERTIFICATE blocks, encoding of chain certificates succeeding):

- **ChainLeafFirst**: a successful certificate import returns in `x5c` exactly the leading run of decodable certificates, whole, leaf first, with `x5c_count` their number.
- **ResourcesReleased**: every path out of `oidc_jwk_rsa_bio_to_jwk` has freed the key, the DER bytes and the certificate it held, none twice.

In the `jwt` run (a parsed or new JWT, up to four calls, no allocation failure):

- **JwtOwnsResources**: a JWT in use owns exactly the objects its pointers name, and a destroyed JWT owns none. `oidc_jwt_sign` releases the handle it replaces, and no `json_dumps` string or temporary JWE is left behind.
- **SerializeFollowsSign**: serializing a signed JWT exports only a live handle, and never the handle of a failed sign.

In the `jwk` run (up to three keys and JWKs, `json_array_append_new` not failing, under the fairness below):

- **KeyMaterialReleasedOnce**: no `cjose_jwk_t` is released twice or serialised after release, every key a JWK holds is live, and no two JWKs hold the same key.
- **NothingLeaked**: every live key is held by a JWK the caller got, and `to_json` frees every json object it makes.
- **PemImplementsSpec**: the PEM loop implements `JosePemSpec` through `Abs`. `Init` maps to `Init`, `PemStart` to `Start`, `PemEnd` to `Wrap`, and every other step to a stutter.
- **ParseReturns**: a parse on the x5c path returns, unless a copy of the PEM loop faulted.

Two failures stay outside the passing runs. They are not runs of their own. Each is shown by the cfg of a passing run with one constant set to TRUE, and the traces below are what TLC then reports:

- With `APPEND_FAILS = TRUE` in `JoseJwk.cfg`, TLC finds NothingLeaked violated. A failed append at line 1485 skips `json_object_set_new`, so the cleanup never frees `tempArray`.
- With `B64_FAILS` or `EXPORT_FAILS` TRUE in `JoseJwt.cfg`, TLC finds JwtOwnsResources violated:
  - a failed `cjose_jwe_export` returns at line 940, before `cjose_jwe_release` (trace: Parse, then Encrypt);
  - a failed base64url encoding returns at line 201, before `free(s_payload)` (trace: New, then Serialize).

Bounds, and why they are enough:

- Three kids are enough for the walk to skip a key of the wrong type, fail with one key of the right type and then succeed with another, in every order.
- The algorithms cover one of each key type and `none`. There are two RSA algorithms, RS256 and PS256, because each prefix has its own test in `oidc_alg2kty`.
- Two versions give one defective and one fixed provider.
- Three CERTIFICATE blocks let the chain loop run twice: once on pool memory and once on the heap copy, where `realloc` may fail. The violation runs need only two.
- Four JWT calls let a failed sign come between two successful ones and be followed by a serialize and an encrypt.
- The x5c lengths 0, 1, 74, 75, 76, 150 and 151 cover each case of the loop:
  - an empty text;
  - a last line of one character, which over-reads;
  - a last line of 74 characters, which ends exactly at the NUL;
  - whole lines;
  - one line more than a whole number of lines.
  The loop's arithmetic depends only on the length modulo 75 and on the number of lines.
- Three keys let a JWK be destroyed alone and then in a list, and let a key released for a kid failure sit between held ones.
- The runs set `EC_SUPPORT = FALSE`, the default build. ES256 then maps to no key type, which is the case where the walk finds no candidate.

Every operation here is a single synchronous call that runs to completion on one thread (spec 5).

- The `jwk` run therefore assumes weak fairness of the steps inside a parse, `WF_vars(ParseX5cLoop \/ ParseX5cEnd)`: once the loop has begun, nothing else can take the thread. No fairness is assumed for the caller's next call.
- Under this fairness, ParseReturns shows that the loop test `i < strlen(s_x5c)` ends every x5c framing. The mutant that tests `i != strlen` loops until the line cap.
- The other loops (the hash walk and the chain loop) are bounded by the finite keyset and the finite PEM input, and TLC explores them to their end. `CHECK_DEADLOCK FALSE` is set because after `oidc_jwt_destroy`, after a crash, after a parse that failed, and after decryption or an import has returned, the code applies no further operation to that object.

## Proofs (JoseVerify_proofs)

The proofs hold for every finite `KeyIds`, every set of algorithm pairs and every set of versions.

- **TypeCorrect**: `Spec => []TypeOK`.
  - It follows from `TypeInit` and `TypeStep`, with one step per action.
  - The only non-trivial step is `VerifyStep`: the picked key is in `todo`, which is a subset of the keyset, so `tried` stays a subset of the keyset.
- **HandleSafe**: `ASSUME VersionTestExact PROVE Spec => []HandleReleasedOnce`.
  - `VersionTestExact` says that every deployed cjose version that frees the handle also satisfies the prefix test. The `verify_old_cjose` run shows that the theorem is false without it.
  - The inductive invariant `HandleInv` is TypeOK, plus "no use-after-free or double free so far", plus `jws = "jws" <=> handle = "live"`, plus "after destroy the pointer is NULL".
  - HandleReleasedOnce alone is not inductive: it does not say that the pointer and the object agree, which is what makes the next verify or destroy safe.
  - Lemma `VerifyCallKeepsHandle` covers one provider call. Lemma `VersionTest` turns the assumption into `Defective(v) <=> oidc_jose_version_deprecated(v)`.
- **VerifySoundness**: `Spec => []VerifySound`.
  - The inductive invariant `SoundInv` adds that the walk runs only for a header without a kid and with `rc` still FALSE. A key skipped for its type therefore never carries a stale TRUE.

- **VerifyCompleteness**: `Spec => []VerifyComplete`.
  - The inductive invariant `CompleteInv` adds three facts to TypeOK:
    - the walk runs only without a kid and with `rc` FALSE;
    - with a non-defective provider, the handle is live while the walk runs;
    - every candidate already taken from `todo` failed to verify.
  - VerifyComplete alone is not inductive: it speaks only of the result, and says nothing of the keys the unfinished walk has passed.
  - Lemma `LiveVerifyCall` says that a call of a non-defective provider keeps the handle.
- **VerifyExhaustiveHolds**: `Spec => []VerifyExhaustive`, from `CompleteInv` and lemma `AlgKtyAgrees`. That lemma says that for every algorithm `oidc_alg2kty` maps to a key type, the provider accepts only keys of that type.

## Proofs (JoseDecrypt_proofs)

These hold for every keyset and every set of JWE algorithms, under `NullAssumption` (NULL is none of the texts).

- **DecryptTypeCorrect**: `Spec => []TypeOK`.
- **DecryptCompleteHolds**: `Spec => []DecryptComplete`.
- **KeysetFailsFastHolds**: `Spec => []KeysetFailsFast`.
- All three rest on `DecInv`, which is TypeOK, DecryptComplete, `WalkInv` and `FastInv`:
  - `WalkInv`: during the walk the output is still NULL, the header has no kid, and every candidate already passed could not decrypt;
  - `FastInv`: no fault, a plaintext is returned only after one was decrypted, and only after some key was tried.
  - `FastInv` shows that the NULL-keyset crash branches cannot be reached: the keyset test comes first.
  - DecryptComplete alone is not inductive, for the same reason as VerifyComplete.
- Lemma `DecryptCall` covers one `cjose_jwe_decrypt` call. Lemma `ConstStep` says that `Decryptable` does not change.

## Proofs (JoseImport_proofs)

These hold for every `MaxChain`, under `MaxChainAssumption` (a positive bound) and `NullAssumption` (NULL is neither a certificate position nor a string).

- **ImportTypeCorrect**: `Spec => []TypeOK`.
- **ImportReleasesResources**: `Spec => []ResourcesReleased`.
- Both rest on the inductive invariant `ImportInv`, which says what each segment of `oidc_jwk_rsa_bio_to_jwk` holds:
  - at `open` nothing is allocated;
  - at `leaf` exactly the leaf certificate and its key are live;
  - in the chain loop only the key and the DER bytes are live, `x5c_count = pos - 1` and `pos` never passes the end of the input;
  - at `end:` the live objects are the key, the DER bytes and at most the certificate `x509` points to, and that one is live whenever `x509` is set.
  - TypeOK alone is not inductive: without `x5c_count = pos - 1` nothing bounds the count by `MaxChain`. ResourcesReleased alone is not inductive: it says nothing of what `End` will find to free.
- **ChainLeafFirstHolds**: `ASSUME ~ENCODE_FAILS PROVE Spec => []ChainLeafFirst`.
  - This is the hypothesis of the `import` run. `import_stale_pem` shows that a failed encoding breaks the chain contents.
  - The inductive invariant `LeafInv` adds the following to ImportInv for a certificate import:
    - nothing has succeeded before `end:`;
    - at `leaf`, block 1 decodes;
    - in the chain loop, `ChainSoFar(pos)` holds: `x5c` has the certificates `1..pos-1`, whole and in order, and each of them decoded;
    - at `rsa` and after a successful return, block `pos` also failed to decode.
  - ChainLeafFirst alone is not inductive: it speaks only of the returned JWK.
  - Lemma `DecodedLengthIs` says that the first block that fails ends `DecodedLength`. `ChainSoFarIs` turns the element-wise facts into the sequence, by `SeqEqual`.
- The lemmas `SetX5c`, `SetX5cCount`, `SetThumbprints`, `SetKey` and `SetKeyKid` say that each field update the import makes keeps a JWK well typed. `ChainLen` bounds the input, and `ParseResultType` types the x5c caller's result.

## Proofs (JoseJwt_proofs)

These hold for every `MaxOps`, under `NullAssumption` (NULL is no object and none of the strings stored), `TextAssumption` (the text `"unsigned"` is no handle), and the hypotheses `~B64_FAILS` and `~EXPORT_FAILS`. TLC shows that JwtOwnsResources is false without those two hypotheses (see above).

- **JwtTypeCorrect**: `Spec => []TypeOK`.
- **JwtOwnsResourcesHolds**: `Spec => []JwtOwnsResources`.
- **SerializeFollowsSignHolds**: `Spec => SerializeFollowsSign`, from lemma `SerializeStep`: in a state of `JwtInv`, a serialize that exports a handle exports `jws`, which is live and not left by a failed sign.
- All three rest on the inductive invariant `JwtInv`. It adds these facts to TypeOK and JwtOwnsResources:
  - before parse or new nothing exists;
  - a destroyed JWT has its pointers cleared;
  - after a failed sign `jws` is NULL;
  - at most `3 + ops` objects have been made.
  - JwtOwnsResources alone is not inductive: a destroyed JWT with pointers still set could be released twice, and without the count a fresh identity could pass `MaxId`.
- Lemma `FreshId` says that a fresh identity is an object of its kind and never NULL.

## Proofs (JosePem_proofs, JoseJwk_proofs)

These hold for every set of x5c lengths (`LengthsAssumption`: a non-empty set of naturals) and every `MaxHandles`.

- **PemRefinesSpec**: `PemSpec => PemImplementsSpec`.
  - This is the refinement. `Init` maps to `Abs!Init`. Each step maps to a `Start`, a `Wrap` or a stutter. The QED step combines these with `[]PemInv` by PTL.
  - The inductive invariant `PemInv` says that while the loop runs and when it is done:
    - `i = 75 * Len(lines)`;
    - every line written is the reference line at its place;
    - the last line started inside the text;
    - when done, `i >= n`.
  - PemTypeOK alone is not inductive: it does not say that the END line comes after exactly the reference lines.
  - Lemma `ChunkIsRefLine` says that a copy from position `75 * L` of a longer text is reference line `L + 1`. `LinesAreRefLines` says that such lines, as many as the text needs, are the whole framing.
- **PemTypeCorrect**: `PemSpec => []PemTypeOK`.
- **JwkPemRefinesSpec**: `Spec => PemImplementsSpec` for the whole JWK model, from lemma `SpecIsPemSpec`: every JWK step is a PEM step or leaves the loop alone.
- **KeyMaterialReleasedOnceHolds**, **NothingLeakedHolds** and **JwkTypeCorrect** take the hypothesis `~APPEND_FAILS` and rest on `JwkInv`. It is `PemInv`, the types, the two properties, and `HeldWereMade` (a JWK holds only a key that was made).
  - The two properties alone are not inductive: without `HeldWereMade`, a new key could collide with one a JWK holds.
  - `HandsOwns` covers a key handed out. `StillOwns` covers a step that touches no key.
  - `Destroy` keeps the invariant because of injectivity: no other JWK holds the key it releases. `ListDestroy` keeps it for the same reason, key by key.

`HandleInv`, `SoundInv`, `CompleteInv`, `DecInv`, `ImportInv`, `LeafInv`, `JwtInv` and `PemInv` were checked with TLC on the `verify`, `decrypt`, `import` and `jwt` instances before they were proved.

Only TLC checks the following:

- The violated properties of the violation runs, DecryptReportsLastAttempt among them. TLC shows that the code breaks them, so there is nothing to prove.
- ParseReturns, a liveness property under fairness, which the prover cannot handle.
- ReadsWithinString, which is false.

## Not modelled yet, and the plan

- **JWT lifecycle**: a composition of JoseJwt's `Parse` with JoseDecrypt (the decrypt stage is one nondeterministic outcome now), and with JoseVerify for verify on a parsed JWT.
- **JWK model**: kid derivation (`oidc_jwk_set_or_generate_kid`) is only an outcome, success or failure, in `JoseJwk` and `JoseImport`. No property is about kid values.
- **Spec 4.3, "partial outputs are never returned"**: line 1419 hands out a key whose kid could not be set, and line 328 ignores `rv`. Both models keep this behaviour, but no run asserts the spec's rule against it.
- **Refinement**: an abstract key-resolution specification ("return TRUE iff some usable key verifies"), with `JoseVerify` shown to implement it when the provider is not defective.
- Out of reach or pure I/O, and left out: hashing (`oidc_jose_hash_bytes`, `oidc_jose_hash_and_base64url_encode`), base64, JSON parsing and error formatting (`_oidc_jose_error_set`). They are wrappers around OpenSSL, jansson and `apr_psprintf` whose only control is an early return on a failed call. The models take that return as the failure outcome of the caller's step.
