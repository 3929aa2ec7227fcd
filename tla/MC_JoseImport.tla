---------------------------- MODULE MC_JoseImport -----------------------------
(* Model-checking instance of JoseImport: PEM inputs with up to three      *)
(* CERTIFICATE blocks, from a file or from an x5c JWK.                     *)
EXTENDS JoseImport, TLC
=============================================================================
