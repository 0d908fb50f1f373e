----------------------------- MODULE FloatArith -----------------------------
(***************************************************************************)
(* The Python float arithmetic of parallel_data_provider                   *)
(* (hetu/nn/modules/parallel_ds.py lines 21-23):                          *)
(*                                                                         *)
(*     int(split_index * (global_data.shape[dim] / splits))                *)
(*                                                                         *)
(* `/` of two ints and `*` of an int by a float give the IEEE 754 binary64 *)
(* value nearest to the exact result (ties to even); int() truncates.      *)
(* Only the non-negative operands that code meets are modelled.           *)
(*                                                                         *)
(* A float is a record [bits, exp] standing for the sum of                 *)
(* bits[k] * 2^(exp - k): bits is empty for 0.0, else it starts with a 1   *)
(* and has at most Precision bits.  Bit strings keep every integer small, *)
(* so the full 53-bit significand fits TLC's integers.                     *)
(***************************************************************************)
EXTENDS Integers, Sequences, FiniteSetsExt

Precision == 53   \* significand bits of a binary64

\* The binary digits of m >= 0, most significant first.
IntBits(m) ==
  LET len == CHOOSE l \in 0..31 : m < 2^l /\ (l = 0 \/ 2^(l - 1) <= m)
  IN [k \in 1..len |-> (m \div 2^(len - k)) % 2]

\* The value of a digit string.
BitsValue(b) ==
  LET acc[k \in 0..Len(b)] == IF k = 0 THEN 0 ELSE 2 * acc[k - 1] + b[k]
  IN acc[Len(b)]

\* 2^k % d for 0 <= k < 90, without forming 2^k.
PowTwoMod(k, d) ==
  LET big == 2^30 % d
      low == 2^(k % 30) % d
  IN CASE k \div 30 = 0 -> low
       [] k \div 30 = 1 -> (big * low) % d
       [] OTHER         -> (((big * big) % d) * low) % d

\* The first n binary digits of the fraction r / d (0 <= r < d), by long
\* division: the remainder after k digits is r * 2^k % d.
FracBits(r, d, n) ==
  LET rem(k) == (r * PowTwoMod(k, d)) % d
  IN [bits |-> [k \in 1..n |-> (2 * rem(k - 1)) \div d], rem |-> rem(n)]

\* Drop leading zero digits, lowering the exponent for each.
Normalize(b, e) ==
  LET ones == {k \in DOMAIN b : b[k] = 1}
      first == Min(ones)
  IN IF ones = {} THEN [bits |-> <<>>, exp |-> e]
     ELSE [bits |-> SubSeq(b, first, Len(b)), exp |-> e - (first - 1)]

\* Add one unit in the last place; a carry out of the top lengthens b.
Increment(b) ==
  LET zeros == {k \in DOMAIN b : b[k] = 0}
      last == Max(zeros)
  IN IF zeros = {} THEN <<1>> \o [k \in DOMAIN b |-> 0]
     ELSE [k \in DOMAIN b |-> CASE k < last -> b[k]
                                [] k = last -> 1
                                [] OTHER -> 0]

\* Round a normalized exact value (digits b, exponent e; sticky: nonzero
\* digits follow b) to Precision digits, ties to even.  A value with more
\* than Precision digits always carries its round digit in b.
RoundNearest(b, e, sticky) ==
  IF Len(b) <= Precision THEN [bits |-> b, exp |-> e]
  ELSE LET keep == SubSeq(b, 1, Precision)
           half == b[Precision + 1] = 1
           below == sticky \/ \E k \in (Precision + 2)..Len(b) : b[k] = 1
           r == IF half /\ (below \/ keep[Precision] = 1)
                THEN Increment(keep) ELSE keep
       IN IF Len(r) > Precision
          THEN [bits |-> SubSeq(r, 1, Precision), exp |-> e + 1]
          ELSE [bits |-> r, exp |-> e]

\* Python n / d for ints n >= 0, d >= 1: the integer digits, then enough
\* fraction digits for Precision significant ones and the round digit
\* (n / d >= 2^-Len(IntBits(d)) when n > 0), the remainder as sticky digit.
FloatDiv(n, d) ==
  LET ib == IntBits(n \div d)
      f == FracBits(n % d, d, Precision + 2 + Len(IntBits(d)))
      v == Normalize(ib \o f.bits, Len(ib))
  IN RoundNearest(v.bits, v.exp, f.rem # 0)

\* The digits of b * i for a small int i >= 0, from the last digit up:
\* carry[j] is the carry out of the last j digits.
MulBits(b, i) ==
  LET L == Len(b)
      carry[j \in 0..L] == IF j = 0 THEN 0
                           ELSE (b[L - j + 1] * i + carry[j - 1]) \div 2
  IN IntBits(carry[L]) \o [k \in 1..L |-> (b[k] * i + carry[L - k]) % 2]

\* Python i * x for an int i >= 0 and a float x: the exact product, rounded.
FloatMulInt(i, x) ==
  LET p == MulBits(x.bits, i)
      v == Normalize(p, x.exp + Len(p) - Len(x.bits))
  IN RoundNearest(v.bits, v.exp, FALSE)

\* Python int(x) for x >= 0: the digits above the binary point.
Trunc(x) ==
  BitsValue([k \in 1..(IF x.exp > 0 THEN x.exp ELSE 0) |->
               IF k <= Len(x.bits) THEN x.bits[k] ELSE 0])

=============================================================================
