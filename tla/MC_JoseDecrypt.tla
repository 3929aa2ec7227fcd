---------------------------- MODULE MC_JoseDecrypt ----------------------------
(* Model-checking instance of JoseDecrypt: three keys, an RSA and an oct   *)
(* key management algorithm, keysets that may be NULL.                     *)
EXTENDS JoseDecrypt, TLC

CONSTANTS k1, k2, k3

MC_KeyIds == {k1, k2, k3}
MC_JweAlgs == {RSA_OAEP, A128KW}
MC_Symmetry == Permutations(MC_KeyIds)
=============================================================================
