------------------------------ MODULE JosePemSpec ------------------------------
(***************************************************************************)
(* What the x5c import of src/src/jose.c promises of the PEM framing it    *)
(* builds (spec 4.3 and 6): the base64 text of x5c[0], of n characters,    *)
(* wrapped at a line width of 75 between the certificate delimiters.  A    *)
(* character is named by its position in the text; pem is the sequence of  *)
(* lines between the delimiters once the framing is complete, NULL before. *)
(* Each call starts a new framing of a text of some length (Start).        *)
(***************************************************************************)
EXTENDS Naturals, Sequences

CONSTANTS
    Lengths,    \* the lengths of x5c text considered
    NULL

VARIABLES
    n,          \* the length of the text being framed
    pem         \* NULL, or the lines of the finished framing

LineWidth == 75

\* Line k of the framing of a text of len characters: positions
\* (k-1)*LineWidth + 1 up to k*LineWidth, or up to len on the last line.
RefLine(len, k) ==
    [j \in 1..(IF k * LineWidth <= len THEN LineWidth ELSE len - (k - 1) * LineWidth)
       |-> (k - 1) * LineWidth + j]

\* All lines of the framing: as many as it takes to hold len characters.
RefLines(len) == [k \in 1..((len + LineWidth - 1) \div LineWidth) |-> RefLine(len, k)]

Init ==
    /\ n \in Nat
    /\ pem = NULL

\* A new text is handed over for framing.
Start(len) ==
    /\ n' = len
    /\ pem' = NULL

\* The framing is produced, all at once.
Wrap ==
    /\ pem = NULL
    /\ pem' = RefLines(n)
    /\ UNCHANGED n

Next == (\E len \in Lengths : Start(len)) \/ Wrap

Spec == Init /\ [][Next]_<<n, pem>>

=============================================================================
