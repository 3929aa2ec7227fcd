------------------------------ MODULE MC_JoseJwt ------------------------------
(* Model-checking instance of JoseJwt: a parsed or new JWT and up to four  *)
(* sign and serialize calls on it.                                         *)
EXTENDS JoseJwt, TLC
=============================================================================
