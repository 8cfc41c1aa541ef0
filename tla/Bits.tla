-------------------------------- MODULE Bits --------------------------------
(***************************************************************************)
(* The puzzles of A02-DataRepresentation/bits.c, and the two that differ   *)
(* in bitsSubmission.c: functions of ints, and of floats given as words,   *)
(* written with few operators.  A word is a function from the places of    *)
(* its bits, 0 for the lowest.  Sums wrap around, as in the build.         *)
(***************************************************************************)
EXTENDS Integers

CONSTANTS
  W,      \* bits of a word: 32
  F       \* bits of the fraction of a float: 23

ASSUME BitsAssumption == W \in Nat /\ F \in Nat /\ F + 2 < W

VARIABLE word      \* what the functions are given, <<>> at first

Places == 0 .. W - 1
Words == [Places -> {0, 1}]
MSB == W - 1
-----------------------------------------------------------------------------
(* The operators of C *)

Word(n) == [b \in Places |-> (n \div 2^b) % 2]

unsigned(x) ==
  LET sum[n \in 0 .. W] == IF n = 0 THEN 0 ELSE sum[n - 1] + x[n - 1] * 2^(n - 1)
  IN  sum[W]

int(x) == unsigned(x) - x[MSB] * 2^W

not(x) == [b \in Places |-> 1 - x[b]]
and(x, y) == [b \in Places |-> x[b] * y[b]]
or(x, y) == [b \in Places |-> IF x[b] + y[b] > 0 THEN 1 ELSE 0]
xor(x, y) == [b \in Places |-> (x[b] + y[b]) % 2]
plus(x, y) == Word(unsigned(x) + unsigned(y))
minus(x) == plus(not(x), Word(1))

\* <<, >> on unsigned, and >> on int, which copies the sign.
shl(x, n) == [b \in Places |-> IF b >= n THEN x[b - n] ELSE 0]
shr(x, n) == [b \in Places |-> IF b + n <= MSB THEN x[b + n] ELSE 0]
sar(x, n) == [b \in Places |-> IF b + n <= MSB THEN x[b + n] ELSE x[MSB]]

\* The operator !
lnot(x) == IF x = Word(0) THEN Word(1) ELSE Word(0)

TMin == shl(Word(1), MSB)
-----------------------------------------------------------------------------
(* Puzzles on ints *)

bitAnd(x, y) == not(or(not(x), not(y)))

bitXor(x, y) ==
  LET gate == not(and(x, y)) IN not(and(not(and(x, gate)), not(and(gate, y))))

isNotEqual(x, y) == lnot(lnot(xor(x, y)))

copyLSB(x) == sar(shl(x, MSB), MSB)

ternary(x, y, z) == xor(and(not(copyLSB(lnot(x))), y), and(copyLSB(lnot(x)), z))

\* bitsSubmission.c
submitted_ternary(x, y, z) ==
  LET x_mask == copyLSB(lnot(x)) IN or(and(not(x_mask), y), and(x_mask, z))

bang(x) == plus(sar(xor(x, plus(not(x), Word(1))), MSB), Word(1))

tmax == not(shl(Word(1), MSB))

isNonNegative(x) == lnot(sar(x, MSB))

\* Mutant: the sign of the sum is compared with that of x only.
OneSign(x, y) == lnot(xor(sar(x, MSB), sar(plus(x, y), MSB)))

addOK(x, y) ==
  LET xbit == sar(x, MSB)
      ybit == sar(y, MSB)
      addbit == sar(plus(x, y), MSB)
  IN  lnot(and(xor(xbit, addbit), xor(ybit, addbit)))

\* x + ~1 + 1 is x - 1.
predecessor(x) == plus(plus(x, not(Word(1))), Word(1))

isPower2(x) == and(lnot(lnot(x)), lnot(and(x, predecessor(x))))

\* bitsSubmission.c
submitted_isPower2(x) ==
  and(and(lnot(lnot(and(x, xor(minus(Word(1)), shl(Word(1), MSB))))), lnot(lnot(x))),
      lnot(and(x, predecessor(x))))
-----------------------------------------------------------------------------
(* Puzzles on floats: a sign, W - 1 - F bits of exponent, F of fraction *)

ExpMask == 2^(W - 1 - F) - 1
bias == ExpMask \div 2

exp_of(uf) == unsigned(and(shr(uf, F), Word(ExpMask)))

float_neg(uf) == IF exp_of(uf) = ExpMask THEN uf ELSE xor(uf, TMin)

\* Mutant: the limit of e is one too high.
LateLimit(e) == e >= MSB + 1

overflows(e) == e >= MSB

float_f2i(uf) ==
  LET exp == exp_of(uf)
      frac == and(uf, Word(2^F - 1))
      e == exp - bias
      shifted == IF e > F - 1 THEN shl(frac, e - F) ELSE shr(frac, F - e)
      final == plus(shifted, shl(Word(1), e))
  IN  IF exp = ExpMask THEN TMin
      ELSE IF exp < bias THEN Word(0)
      ELSE IF overflows(e) THEN TMin
      ELSE IF uf[MSB] = 1 THEN minus(final) ELSE final
-----------------------------------------------------------------------------
(* The functions keep no state: any word may be next. *)

BitsInit == word = <<>>
BitsNext == word' \in Words

BitsSpec == BitsInit /\ [][BitsNext]_word
-----------------------------------------------------------------------------
(* Properties *)

Bool(test) == Word(IF test THEN 1 ELSE 0)
MaxInt == 2^MSB - 1

is_power_of_2(x) == \E n \in 0 .. MSB - 1 : int(x) = 2^n

\* The comments of bang, "Compute !x", and of isPower2, "no negative number is a
\* power of 2", for the versions in bits.c.
CommentsHold ==
  word \in Words => /\ bang(word) = Bool(word = Word(0))
                    /\ isPower2(word) = Bool(is_power_of_2(word))

\* The puzzles compute what their comments say for any word, the most
\* negative one included.  Nothing is said here of bang and of isPower2 of
\* bits.c for that one word: see CommentsHold.
PuzzleRight(x) ==
  /\ \A y \in Words :
       /\ bitAnd(x, y) = and(x, y)
       /\ bitXor(x, y) = xor(x, y)
       /\ isNotEqual(x, y) = Bool(x # y)
       /\ addOK(x, y) = Bool(int(x) + int(y) \in -(MaxInt + 1) .. MaxInt)
       /\ \A z \in {not(y), Word(5)} :
            /\ ternary(x, y, z) = IF x # Word(0) THEN y ELSE z
            /\ submitted_ternary(x, y, z) = ternary(x, y, z)
  /\ copyLSB(x) = Word(-x[0])
  /\ x # TMin => /\ bang(x) = Bool(x = Word(0))
                 /\ isPower2(x) = Bool(is_power_of_2(x))
  /\ isNonNegative(x) = Bool(int(x) >= 0)
  /\ submitted_isPower2(x) = Bool(is_power_of_2(x))
  /\ int(tmax) = MaxInt

\* The puzzles are right for each word that they are given.
PuzzlesRight == word \in Words => PuzzleRight(word)

\* The float that uf stands for, if it is finite, is significand * 2^(scale - F),
\* and its sign.
finite(uf) == exp_of(uf) # ExpMask
fraction(uf) == unsigned(and(uf, Word(2^F - 1)))
significand(uf) == fraction(uf) + IF exp_of(uf) = 0 THEN 0 ELSE 2^F
scale(uf) == (IF exp_of(uf) = 0 THEN 1 ELSE exp_of(uf)) - bias
truncated(uf) ==
  IF scale(uf) < 0 THEN significand(uf) \div 2^(F - scale(uf))
  ELSE (significand(uf) * 2^scale(uf)) \div 2^F

\* float_f2i cuts off the fraction, towards 0, and gives TMin for what no int
\* is, NaN and infinity.  float_neg yields the opposite of every finite float,
\* to the last bit, however small or large, so that the conversions are
\* opposite as well; and a NaN as it is.  Of infinity nothing is said but that
\* two negations cancel: the comment has it negated, the test unchanged.
FloatRight(uf) ==
  LET n == IF uf[MSB] = 1 THEN -truncated(uf) ELSE truncated(uf)
      negated == float_neg(uf)
  IN  /\ int(float_f2i(uf)) = IF finite(uf) /\ n \in -(MaxInt + 1) .. MaxInt
                                THEN n ELSE -(MaxInt + 1)
      /\ finite(uf) =>
           /\ finite(negated) /\ negated[MSB] = 1 - uf[MSB]
           /\ significand(negated) = significand(uf) /\ scale(negated) = scale(uf)
           /\ float_f2i(negated) = minus(float_f2i(uf))
      /\ ~finite(uf) /\ fraction(uf) # 0 => negated = uf
      /\ float_neg(negated) = uf

\* The conversions are right for each float that they are given.
FloatsRight == word \in Words => FloatRight(word)
=============================================================================
