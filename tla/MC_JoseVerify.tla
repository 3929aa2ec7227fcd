---------------------------- MODULE MC_JoseVerify ----------------------------
(* Model-checking instance of JoseVerify: three keys, header algorithms    *)
(* that exercise every branch of oidc_alg2kty the walk can take (the "RS"  *)
(* and "PS" RSA tests, oct, EC without EC support, and "none"), and cjose  *)
(* 0.4 / 0.6.                                                              *)
EXTENDS JoseVerify, TLC

CONSTANTS k1, k2, k3

MC_KeyIds == {k1, k2, k3}
MC_Algs == {RS256, PS256, HS256, ES256, ALG_NONE}
MC_Versions == {<<0, 4>>, <<0, 6>>}
\* cjose 0.3: before 0.5.0, but not matched by the "0.4." prefix.
MC_VersionsOld == {<<0, 3>>}
MC_Symmetry == Permutations(MC_KeyIds)
=============================================================================
