------------------------------- MODULE Words -------------------------------
(***************************************************************************)
(* Words of the emulated machine (util_Bitfields.h, util_SignExtend.h and  *)
(* the integer operations of the instructions): a word is the set of the   *)
(* positions of its one bits, so that a Word is a subset of 0..31 and a    *)
(* NativeWord or an Address a subset of 0..63, in their real widths.  n is *)
(* the width in bits of the operands and of the result.                    *)
(***************************************************************************)
EXTENDS Iteration, FiniteSetsExt

WordsOf(n) == SUBSET (0 .. n - 1)

\* Naturals below 2^31 as words and back.
Bits(k) == {b \in 0 .. 30 : (k \div 2 ^ b) % 2 = 1}
Value(w) ==
  IF w = {} THEN 0
  ELSE After(Max(w) + 1, 0, [b \in 1 .. Max(w) + 1 |->
                              [sum \in Nat |-> sum + (IF b - 1 \in w THEN 2 ^ (b - 1) ELSE 0)]])

-----------------------------------------------------------------------------
(* Fields and shifts *)

Shl(w, s, n) == {b + s : b \in w} \cap 0 .. n - 1
Shr(w, s) == {b - s : b \in {c \in w : c >= s}}

\* A shift of a signed operand: copies of the sign come in from the left.
Sar(w, s, n) == Shr(w, s) \cup (IF n - 1 \in w THEN n - s .. n - 1 ELSE {})

ExtractBitfield(w, offset, size) == Shr(w, offset) \cap 0 .. size - 1

AssignBitfield(w, offset, size, v) ==
  (w \ (offset .. offset + size - 1)) \cup {b + offset : b \in v \cap 0 .. size - 1}

SignExtend(w, from, to) ==
  IF from < to /\ from - 1 \in w THEN w \cup from .. to - 1 ELSE w

-----------------------------------------------------------------------------
(* Arithmetic modulo 2^n *)

Xor(v, w) == (v \ w) \cup (w \ v)
Not(w, n) == (0 .. n - 1) \ w

\* The carry that position c makes goes up to the first position that does not pass
\* it on.
Carries(v, w, n) == UNION {c + 1 .. Min((c + 1 .. n) \ (v \cup w)) : c \in v \cap w}

Add(v, w, n) ==
  IF v \cap w = {} THEN v \cup w
  ELSE Xor(Xor(v, w), Carries(v, w, n)) \cap 0 .. n - 1

\* The lowest one stays and what lies above it is inverted.
Neg(w, n) == IF w = {} THEN {} ELSE {Min(w)} \cup ((Min(w) + 1 .. n - 1) \ w)

Sub(v, w, n) == Add(v, Neg(w, n), n)

\* The highest position in which they differ is a one of the greater.
LessU(v, w) == \E b \in w \ v : \A c \in Xor(v, w) : c <= b

Negative(w, n) == n - 1 \in w
LessS(v, w, n) == LessU(Xor(v, {n - 1}), Xor(w, {n - 1}))

\* Shifted and added for each one of w, from the lowest position up.
Mul(v, w, n) ==
  After(n, {}, [b \in 1 .. n |->
                 [sum \in WordsOf(n) |->
                   IF b - 1 \in w THEN Add(sum, Shl(v, b - 1, n), n) ELSE sum]])

\* The upper half of the product of 2n bits.
MulUpperU(v, w, n) == Shr(Mul(v, w, 2 * n), n)
MulUpperS(v, w, n) ==
  Shr(Mul(SignExtend(v, n, 2 * n), SignExtend(w, n, 2 * n), 2 * n), n)

\* Long division: quotient and remainder, from the highest position down.  What is
\* subtracted from may have a bit more than a word, the difference has not.
DivideU(v, w, n) ==
  After(n, [quot |-> {}, rem |-> {}],
        [k \in 1 .. n |->
          [before \in [quot : WordsOf(n), rem : WordsOf(n)] |->
            LET b == n - k
                rem == Shl(before.rem, 1, n + 1) \cup Shr(v \cap {b}, b) IN
            IF LessU(rem, w) THEN [before EXCEPT !.rem = rem]
            ELSE [quot |-> before.quot \cup {b}, rem |-> Sub(rem, w, n + 1) \cap 0 .. n - 1]]])

Abs(w, n) == IF Negative(w, n) THEN Neg(w, n) ELSE w

\* C++ rounds towards zero: the remainder has the sign of the dividend.
QuotS(v, w, n) ==
  LET quot == DivideU(Abs(v, n), Abs(w, n), n).quot IN
  IF Negative(v, n) # Negative(w, n) THEN Neg(quot, n) ELSE quot
RemS(v, w, n) ==
  LET rem == DivideU(Abs(v, n), Abs(w, n), n).rem IN
  IF Negative(v, n) THEN Neg(rem, n) ELSE rem
=============================================================================
