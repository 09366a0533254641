-------------------------------- MODULE Money --------------------------------
(***************************************************************************)
(* internal/domain/money.go: amounts in minor units as two's-complement    *)
(* integers, of 64 bits in the code.  Machine additions wrap around; the   *)
(* code detects it by comparing sign bits.  An operation that may refuse   *)
(* is two operators: whether it reports ErrMoneyOverflow, and its result.  *)
(*                                                                         *)
(* The currency check of every operation is left out: all the movements of *)
(* a wallet carry the wallet's currency (SubmitMismatch of Wagering).      *)
(***************************************************************************)
EXTENDS Integers

CONSTANT Half          \* 2^63: the amounts are -Half .. Half - 1

ASSUME HalfAssumption == Half \in Nat /\ Half >= 100

Minor == (-Half)..(Half - 1)

MaxInt == Half - 1
MinInt == -Half

\* What the machine makes of the sum or the difference of two integers.
Wrap(x) ==
  IF x > MaxInt THEN x - 2 * Half
  ELSE IF x < MinInt THEN x + 2 * Half
  ELSE x

\* The sign bit of x ^ y.
SignsDiffer(x, y) == (x < 0) # (y < 0)

Added(a, b) == Wrap(a + b)

AddOverflows(a, b) == SignsDiffer(a, Added(a, b)) /\ SignsDiffer(b, Added(a, b))

Subtracted(a, b) == Wrap(a - b)

SubOverflows(a, b) == SignsDiffer(a, b) /\ SignsDiffer(a, Subtracted(a, b))

NegateOverflows(a) == a = MinInt

Negated(a) == Wrap(-a)

Cmp(a, b) == IF a < b THEN -1 ELSE IF a > b THEN 1 ELSE 0

-----------------------------------------------------------------------------
(* Decimal text: a sign, a whole part and two decimals, as the numbers     *)
(* that their digits denote.                                               *)

\* ParseMoney, of text without a sign; a whole part that ParseInt refuses is
\* an overflow too.
ParseOverflows(whole, cents) ==
  \/ whole > MaxInt
  \/ whole > (MaxInt - cents) \div 100

ParseMoney(whole, cents) == whole * 100 + cents

\* String.  The absolute value of MinInt does not fit: it is taken unsigned.
Format(a) ==
  LET abs == IF a = MinInt THEN MaxInt + 1
             ELSE IF a < 0 THEN Negated(a)
             ELSE a
  IN [negative |-> a < 0, whole |-> abs \div 100, cents |-> abs % 100]
=============================================================================
