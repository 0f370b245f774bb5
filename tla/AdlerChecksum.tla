---------------------------- MODULE AdlerChecksum ----------------------------
(***************************************************************************)
(* The Adler-32 weak checksum of pnetlibs.c: adler32, which sums a buffer  *)
(* and folds the two sums modulo ADLER32_BASE once every ADLER32_NMAX      *)
(* bytes, and adler32_roll, which slides a window of len bytes one byte    *)
(* on.  Both work in uint32_t: every sum wraps at 2^W.  The value is       *)
(* adler | (sum << 16): the low half is the byte sum, the high half the    *)
(* sum of the running byte sums.                                           *)
(*                                                                         *)
(* TLC's integers stop at 2^31, so the model is checked on a scaled word:  *)
(* W bits, BASE the modulus and NMAX the chunk length, with the relations  *)
(* the code's constants have (BASE * BASE < 2^W, BASE < 2^(W/2), NMAX the  *)
(* largest n with MaxByte*n*(n+1)/2 + (n+1)*(BASE-1) < 2^W, a multiple of  *)
(* the unrolling UNROLL).                                                  *)
(***************************************************************************)
EXTENDS Integers, Sequences, SequencesExt

CONSTANTS
  W,        \* word width of uint32_t
  BASE,     \* ADLER32_BASE
  NMAX,     \* ADLER32_NMAX
  UNROLL,   \* the 16 bytes of ADLER32_16()
  INITIAL,  \* ADLER32_INITIAL
  MaxByte   \* the largest byte value the inputs use

ASSUME /\ BASE * BASE < 2^W /\ BASE <= 2^(W \div 2)
       /\ NMAX % UNROLL = 0
       /\ (MaxByte * NMAX * (NMAX + 1)) \div 2 + (NMAX + 1) * (BASE - 1) < 2^W

Word(x) == x % 2^W
Half == 2^(W \div 2)

\* adler | (sum << 16), for adler < 2^16.
Pack(a, s) == a + Word(s * Half)

\* ADLER32_1(o): adler += buff[o]; sum += adler.
Add1(st, b) == [a |-> Word(st.a + b), s |-> Word(st.s + Word(st.a + b))]

AddAll(st, buf) == FoldLeft(Add1, st, buf)

\* adler %= ADLER32_BASE; sum %= ADLER32_BASE.
Fold(st) == [a |-> st.a % BASE, s |-> st.s % BASE]

(* Mutant: the chunk loop does not fold the sums.                          *)
RECURSIVE Chunks_NoFold(_, _)
Chunks_NoFold(st, buf) ==
  IF Len(buf) >= NMAX
    THEN Chunks_NoFold(AddAll(st, SubSeq(buf, 1, NMAX)),
                       SubSeq(buf, NMAX + 1, Len(buf)))
    ELSE AddAll(st, buf)

(* The three loops of adler32: NMAX bytes at a time, each chunk folded;  *)
(* then the rest, sixteen and then one byte at a time.                    *)
RECURSIVE Chunks(_, _)
Chunks(st, buf) ==
  IF Len(buf) >= NMAX
    THEN Chunks(Fold(AddAll(st, SubSeq(buf, 1, NMAX))),
                SubSeq(buf, NMAX + 1, Len(buf)))
    ELSE AddAll(st, buf)

\* adler32(adler, buff, len): split the value, sum, fold, pack.
adler32(adler, buf) ==
  LET st == Fold(Chunks([a |-> adler % Half, s |-> adler \div Half], buf))
  IN Pack(st.a, st.s)

(* Mutant: the new sum forgets the ADLER32_INITIAL the window started at. *)
adler32_roll_NoInitial(adler, out, in, len) ==
  LET a == Word((adler % Half) + BASE + in - out)
      s == Word(Word(BASE * BASE) + (adler \div Half) - Word(len * out) + a)
  IN Pack(a % BASE, s % BASE)

(* adler32_roll: take byteout off and add bytein; the sum loses len times *)
(* byteout and the initial 1, and gains the new byte sum.  BASE * BASE    *)
(* keeps the unsigned difference from going below zero.                    *)
adler32_roll(adler, out, in, len) ==
  LET a == Word((adler % Half) + BASE + in - out)
      s == Word(Word(BASE * BASE) + (adler \div Half) - Word(len * out)
                - INITIAL + a)
  IN Pack(a % BASE, s % BASE)

(* Reference: Adler-32 from its definition over the integers, A = 1 plus *)
(* the bytes and S the sum of the prefix values of A, both mod BASE.       *)
AdlerRef(buf) ==
  LET A(k) == INITIAL + SumFunction(SubSeq(buf, 1, k))
  IN Pack(A(Len(buf)) % BASE,
          SumFunction([k \in 1 .. Len(buf) |-> A(k)]) % BASE)

=============================================================================
