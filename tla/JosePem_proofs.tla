---------------------------- MODULE JosePem_proofs ----------------------------
(***************************************************************************)
(* Proofs about the PEM framing loop of oidc_jwk_parse_rsa_x5c, for every  *)
(* set of text lengths: the loop refines the abstract framing of           *)
(* JosePemSpec.                                                            *)
(***************************************************************************)
EXTENDS JosePem, TLAPS

(***************************************************************************)
(* The inductive invariant.  While the loop runs and once it is done, i    *)
(* counts the characters of the lines written (75 a line), each line       *)
(* written is the line of the reference framing at its place, and the last *)
(* line written started inside the text; when done, i has passed the end.  *)
(* The type invariant alone does not say that the END line comes after     *)
(* exactly the reference lines, which the refinement needs.                *)
(***************************************************************************)
PemInv ==
    /\ PemTypeOK
    /\ pemPc \in {"loop", "done"} =>
         /\ i = ChunkLen * Len(lines)
         /\ \A k \in 1..Len(lines) : lines[k] = Abs!RefLine(n, k)
         /\ Len(lines) > 0 => ChunkLen * (Len(lines) - 1) < n
    /\ pemPc = "done" => n <= i

\* The copy from position 75 * L of a text that goes on past it is line
\* L + 1 of the reference framing.
LEMMA ChunkIsRefLine ==
    ASSUME NEW L \in Nat, n \in Nat, ChunkLen * L < n
    PROVE  Chunk(ChunkLen * L) = Abs!RefLine(n, L + 1)
BY DEF Chunk, ChunkLen, Abs!RefLine, Abs!LineWidth

\* Lines that match the reference framing, as many as it takes to hold the
\* text, are the reference framing.
LEMMA LinesAreRefLines ==
    ASSUME NEW s \in Seq(Seq(Nat)), NEW len \in Nat,
           \A k \in 1..Len(s) : s[k] = Abs!RefLine(len, k),
           len <= ChunkLen * Len(s),
           Len(s) > 0 => ChunkLen * (Len(s) - 1) < len
    PROVE  s = Abs!RefLines(len)
<1>1. Len(s) = (len + Abs!LineWidth - 1) \div Abs!LineWidth
    BY DEF ChunkLen, Abs!LineWidth
<1> QED
    BY <1>1 DEF Abs!RefLines

LEMMA PemInitInv == PemInit => PemInv
<1> SUFFICES ASSUME PemInit PROVE PemInv
    OBVIOUS
<1>1. <<>> \in Seq(Seq(Nat))
    OBVIOUS
<1> QED
    BY <1>1 DEF PemInit, PemInv, PemTypeOK

(***************************************************************************)
(* Every step of the loop, and every new framing, keeps PemInv.            *)
(***************************************************************************)
LEMMA PemStepInv == PemInv /\ [PemNext]_pemVars => PemInv'
<1> SUFFICES ASSUME PemInv, [PemNext]_pemVars PROVE PemInv'
    OBVIOUS
<1>1. CASE \E len \in Lengths : PemStart(len)
    <2>1. /\ n' \in Nat /\ i' = 0 /\ lines' = <<>> /\ pemPc' = "loop"
          /\ overread' \in BOOLEAN
        BY <1>1, LengthsAssumption DEF PemStart, PemInv, PemTypeOK
    <2>2. <<>> \in Seq(Seq(Nat)) /\ Len(<<>>) = 0
        OBVIOUS
    <2> QED
        BY <2>1, <2>2 DEF PemInv, PemTypeOK, ChunkLen
<1>2. CASE PemStep
    <2>1. /\ pemPc = "loop" /\ i < n /\ n \in Nat
          /\ i = ChunkLen * Len(lines) /\ lines \in Seq(Seq(Nat))
          /\ \A k \in 1..Len(lines) : lines[k] = Abs!RefLine(n, k)
        BY <1>2 DEF PemStep, PemContinues, PemInv, PemTypeOK
    <2>2. CASE pemPc' = "crashed"
        BY <1>2, <2>2 DEF PemStep, PemInv, PemTypeOK
    <2>3. CASE pemPc' # "crashed"
        <3>1. /\ lines' = Append(lines, Chunk(i)) /\ i' = i + ChunkLen
              /\ overread' \in BOOLEAN /\ UNCHANGED <<n, pemPc>>
            BY <1>2, <2>3 DEF PemStep, PemInv, PemTypeOK
        <3>2. Chunk(i) = Abs!RefLine(n, Len(lines) + 1)
            BY <2>1, ChunkIsRefLine
        <3>3. Chunk(i) \in Seq(Nat)
            BY <2>1 DEF Chunk, ChunkLen
        <3>4. \A k \in 1..Len(lines') : lines'[k] = Abs!RefLine(n', k)
            BY <2>1, <3>1, <3>2
        <3> QED
            BY <2>1, <3>1, <3>3, <3>4 DEF PemInv, PemTypeOK, ChunkLen
    <2> QED
        BY <2>2, <2>3
<1>3. CASE PemEnd
    BY <1>3 DEF PemEnd, PemContinues, PemInv, PemTypeOK
<1>4. CASE UNCHANGED pemVars
    BY <1>4 DEF pemVars, PemInv, PemTypeOK
<1> QED
    BY <1>1, <1>2, <1>3, <1>4 DEF PemNext

\* The type invariant of the loop, for every set of lengths.
THEOREM PemTypeCorrect == PemSpec => []PemTypeOK
<1>1. PemSpec => []PemInv
    BY PemInitInv, PemStepInv, PTL DEF PemSpec
<1> QED
    BY <1>1, PTL DEF PemInv

(***************************************************************************)
(* The PEM loop of lines 1384-1395 implements the framing of spec 4.3:     *)
(* whatever the lengths of x5c[0], each call ends, if it ends, with the    *)
(* lines of the reference framing between the delimiters.  Starting a     *)
(* framing is Start, the END line is Wrap, the other steps stutter.        *)
(***************************************************************************)
THEOREM PemRefinesSpec == PemSpec => PemImplementsSpec
<1>1. PemSpec => []PemInv
    BY PemInitInv, PemStepInv, PTL DEF PemSpec
<1>2. PemInit => Abs!Init
    BY DEF PemInit, Abs!Init
<1>3. PemInv /\ [PemNext]_pemVars => [Abs!Next]_<<n, IF pemPc = "done" THEN lines ELSE NULL>>
    <2> SUFFICES ASSUME PemInv, [PemNext]_pemVars
                 PROVE  [Abs!Next]_<<n, IF pemPc = "done" THEN lines ELSE NULL>>
        OBVIOUS
    <2>1. CASE \E len \in Lengths : PemStart(len)
        BY <2>1 DEF PemStart, Abs!Next, Abs!Start
    <2>2. CASE PemStep
        BY <2>2 DEF PemStep
    <2>3. CASE PemEnd
        <3>1. /\ pemPc = "loop" /\ pemPc' = "done" /\ n <= i
              /\ UNCHANGED <<n, lines>>
            BY <2>3 DEF PemEnd, PemContinues, PemInv, PemTypeOK
        <3>2. /\ n \in Nat /\ lines \in Seq(Seq(Nat))
              /\ i = ChunkLen * Len(lines)
              /\ \A k \in 1..Len(lines) : lines[k] = Abs!RefLine(n, k)
              /\ Len(lines) > 0 => ChunkLen * (Len(lines) - 1) < n
            BY <3>1 DEF PemInv, PemTypeOK
        <3>3. lines = Abs!RefLines(n)
            BY <3>1, <3>2, LinesAreRefLines
        <3> QED
            BY <3>1, <3>3 DEF Abs!Next, Abs!Wrap
    <2>4. CASE UNCHANGED pemVars
        BY <2>4 DEF pemVars
    <2> QED
        BY <2>1, <2>2, <2>3, <2>4 DEF PemNext
<1> QED
    BY <1>1, <1>2, <1>3, PTL DEF PemSpec, PemImplementsSpec, Abs!Spec

=============================================================================
