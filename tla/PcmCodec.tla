------------------------------ MODULE PcmCodec ------------------------------
(***************************************************************************)
(* The A-law and mu-law codecs (src/pkg/pcm/pcm.go): samples are int16 and *)
(* codes bytes, with the code's arithmetic, its overflow included.  The    *)
(* tables of the code are given by the formula of their entries.  LoadPCM  *)
(* and WhiteNoise (src/rtp) encode with A-law; Startup has their loop.     *)
(***************************************************************************)
EXTENDS Integers, Bitwise

Int16(n) == ((n + 32768) % 65536) - 32768
Byte(n) == n % 256
Shr(n, k) == n \div 2^k                 \* >> on int16 rounds down

cClip == 32635
Clip(n) == IF n > cClip THEN cClip ELSE n

-----------------------------------------------------------------------------
(* A mutated form of ALawExponent, a slip in its table. *)

ExponentLate(k) == IF k < 3 THEN 1 ELSE CHOOSE e \in 2 .. 7 : 2^(e-1) <= k /\ k < 2^e

-----------------------------------------------------------------------------
(* A-law *)

\* aLawCompressTable: the bits of k, but at least 1.
ALawExponent(k) == IF k < 2 THEN 1 ELSE CHOOSE e \in 2 .. 7 : 2^(e-1) <= k /\ k < 2^e

LinearToALaw(s) ==
    LET sign == IF s >= 0 THEN 128 ELSE 0
        n == Clip(IF sign = 0 THEN Int16(-s) ELSE s)
        e == ALawExponent(Shr(n, 8) % 128)
        code == IF n >= 256 THEN 16 * e + (Shr(n, e + 3) % 16)
                            ELSE Byte(Shr(n, 4))
    IN code ^^ (sign ^^ 85)

\* aLawDecompressTable.
ALawToLinear(b) ==
    LET code == b ^^ 85
        e == (code \div 16) % 8
        n == 16 * (code % 16)
        value == IF e = 0 THEN n + 8 ELSE (n + 264) * 2^(e-1)
    IN IF code >= 128 THEN value ELSE - value

-----------------------------------------------------------------------------
(* mu-law *)

\* muLawCompressTable: the bits of k, less 1.
MuLawExponent(k) == IF k < 2 THEN 0 ELSE CHOOSE e \in 1 .. 7 : 2^e <= k /\ k < 2^(e+1)

MuMagnitude(s) == Int16(Clip(IF s < 0 THEN Int16(-s) ELSE s) + 132)

LinearToMuLaw(s) ==
    LET n == MuMagnitude(s)
        e == MuLawExponent(Shr(n, 7) % 256)
    IN 255 - ((IF s < 0 THEN 128 ELSE 0) + 16 * e + (Shr(n, e + 3) % 16))

\* muLawDecompressTable, whose entry 127 is -1 and not 0.
MuLawToLinear(b) ==
    LET code == 255 - b
        e == (code \div 16) % 8
        value == (8 * (code % 16) + 132) * 2^e - 132
    IN IF b = 127 THEN -1 ELSE IF code >= 128 THEN - value ELSE value

-----------------------------------------------------------------------------
(* Properties *)

Distance(m, n) == IF m > n THEN m - n ELSE n - m
Magnitude(s) == IF s < 0 THEN - s ELSE s

\* A decoded sample is within half a quantisation step of the sample, up to the
\* clipping level: the steps double with every segment (pcm.go:77-97, 156-189).
ALawError(s) ==
    Distance(ALawToLinear(LinearToALaw(s)), s)
        <= 8 * 2^(ALawExponent(Shr(Clip(Magnitude(s)), 8)) - 1)

MuLawError(s) ==
    Distance(MuLawToLinear(LinearToMuLaw(s)),
             IF s < 0 THEN - Clip(- s) ELSE Clip(s))
        <= 4 * 2^MuLawExponent(Shr(Clip(Magnitude(s)) + 132, 7))

\* Encoding and decoding a sample loses only its quantisation, and what was
\* decoded encodes to the same code again, for every sample but the smallest,
\* whose negation overflows (pcm.go:28-46, 77-97).
ALawFaithful(s) ==
    /\ ALawError(s)
    /\ LinearToALaw(ALawToLinear(LinearToALaw(s))) = LinearToALaw(s)

MuLawFaithful(s) ==
    /\ MuLawError(s)
    /\ LinearToMuLaw(MuLawToLinear(LinearToMuLaw(s))) = LinearToMuLaw(s)

\* A larger sample never decodes to a smaller value, across the boundaries of the
\* segments and zero (pcm.go:58-75, 109-142).
Monotone(s) ==
    /\ ALawToLinear(LinearToALaw(s)) <= ALawToLinear(LinearToALaw(s + 1))
    /\ MuLawToLinear(LinearToMuLaw(s)) <= MuLawToLinear(LinearToMuLaw(s + 1))
=============================================================================
