-------------------------------- MODULE JosePem --------------------------------
(***************************************************************************)
(* The PEM framing loop of oidc_jwk_parse_rsa_x5c, src/src/jose.c lines    *)
(* 1384-1395:                                                              *)
(*                                                                         *)
(*   const int len = 75; int i = 0;                                        *)
(*   s = BEGIN line;                                                       *)
(*   while (i < strlen(s_x5c)) {                                           *)
(*     s = s + apr_pstrmemdup(pool, s_x5c + i, len) + "\n"; i += len; }    *)
(*   s = s + END line;                                                     *)
(*                                                                         *)
(* s_x5c is the JSON string value of x5c[0]: n characters and a NUL in a  *)
(* buffer of n + 1 bytes.  A character is named by its position.           *)
(* apr_pstrmemdup copies len bytes whatever the string's length; "%s"     *)
(* then stops at the first NUL, so a line holds the characters up to the  *)
(* end of the text.  Copying past the buffer is undefined: the bytes read  *)
(* are garbage behind the NUL, or the read faults (pemPc = "crashed").     *)
(* lines is the part of s between the delimiters.                          *)
(***************************************************************************)
EXTENDS Naturals, Sequences

CONSTANTS
    Lengths,    \* the lengths of x5c text considered
    NULL

ASSUME LengthsAssumption == Lengths \subseteq Nat /\ Lengths # {}

VARIABLES
    n,          \* strlen(s_x5c)
    i,          \* the loop index
    lines,      \* the lines appended to s after the BEGIN line
    pemPc,      \* "idle", "loop", "done" (END line appended), "crashed"
    overread    \* a copy has read past the buffer of s_x5c

pemVars == <<n, i, lines, pemPc, overread>>

\* const int len = 75 (line 1387).
ChunkLen == 75

\* The loop runs at most this many times for a text of a length in
\* Lengths; the guard of PemStep caps it there.
MaxLines ==
    CHOOSE m \in {len \div ChunkLen + 1 : len \in Lengths} :
        \A len \in Lengths : len \div ChunkLen + 1 <= m

\* The text of apr_pstrmemdup(pool, s_x5c + pos, len) printed with "%s".
Chunk(pos) ==
    [j \in 1..(IF pos + ChunkLen <= n THEN ChunkLen ELSE n - pos) |-> pos + j]

\* The copy reads bytes pos .. pos + len - 1; the buffer holds 0 .. n.
ReadsPastEnd(pos) == pos + ChunkLen > n + 1

PemInit ==
    /\ n = 0
    /\ i = 0
    /\ lines = <<>>
    /\ pemPc = "idle"
    /\ overread = FALSE

\* Lines 1384-1389: take x5c[0] of length len, i = 0, s = the BEGIN line.
PemStart(len) ==
    /\ pemPc \in {"idle", "done"}
    /\ n' = len
    /\ i' = 0
    /\ lines' = <<>>
    /\ pemPc' = "loop"
    /\ UNCHANGED overread

\* A slip for PemContinues: loop while i differs from the length.
PemContinuesWhileDifferent == i # n

\* The loop test at line 1390.
PemContinues == i < n

\* A slip for PemStep: take the copy to hold all len bytes it reads.
PemStepFullChunks ==
    /\ pemPc = "loop"
    /\ PemContinues
    /\ Len(lines) < MaxLines
    /\ lines' = Append(lines, [j \in 1..ChunkLen |-> i + j])
    /\ i' = i + ChunkLen
    /\ overread' = (overread \/ ReadsPastEnd(i))
    /\ UNCHANGED <<n, pemPc>>

\* Lines 1390-1394: one pass of the loop.  A copy past the buffer faults
\* or reads garbage behind the NUL.
PemStep ==
    /\ pemPc = "loop"
    /\ PemContinues
    /\ Len(lines) < MaxLines
    /\ \E fault \in IF ReadsPastEnd(i) THEN BOOLEAN ELSE {FALSE} :
         IF fault
            THEN /\ pemPc' = "crashed"
                 /\ overread' = TRUE
                 /\ UNCHANGED <<n, i, lines>>
            ELSE /\ lines' = Append(lines, Chunk(i))
                 /\ i' = i + ChunkLen
                 /\ overread' = (overread \/ ReadsPastEnd(i))
                 /\ UNCHANGED <<n, pemPc>>

\* Line 1395: the loop is left and the END line appended.
PemEnd ==
    /\ pemPc = "loop"
    /\ ~PemContinues
    /\ pemPc' = "done"
    /\ UNCHANGED <<n, i, lines, overread>>

PemNext == (\E len \in Lengths : PemStart(len)) \/ PemStep \/ PemEnd

PemSpec == PemInit /\ [][PemNext]_pemVars

-----------------------------------------------------------------------------
PemTypeOK ==
    /\ n \in Nat
    /\ i \in Nat
    /\ lines \in Seq(Seq(Nat))
    /\ pemPc \in {"idle", "loop", "done", "crashed"}
    /\ overread \in BOOLEAN

\* The framing as the specification sees it: complete once the END line is
\* written, and nothing before.
Abs == INSTANCE JosePemSpec WITH pem <- IF pemPc = "done" THEN lines ELSE NULL

(***************************************************************************)
(* The loop of lines 1390-1394 frames x5c[0] as spec 4.3 says: once the   *)
(* END line is written, the lines between the delimiters hold the text in  *)
(* order, 75 characters each and the rest on the last, with nothing lost,  *)
(* repeated or read from behind the text.                                  *)
(***************************************************************************)
PemImplementsSpec == Abs!Spec

(***************************************************************************)
(* No copy of the loop reads past the buffer of the x5c string (the        *)
(* apr_pstrmemdup at lines 1391-1392 copies 75 bytes from s_x5c + i).    *)
(***************************************************************************)
ReadsWithinString == ~overread

=============================================================================
