------------------------------ MODULE MC_JoseJwk ------------------------------
(* The JWK life cycle and the PEM framing of x5c[0], for TLC. *)
EXTENDS JoseJwk

\* Empty text, one character, the lengths around one and two full lines.
MC_Lengths == {0, 1, 74, 75, 76, 150, 151}

=============================================================================
