------------------------------- MODULE SdkDec -------------------------------
(***************************************************************************)
(* The fixed-point decimal sdk.Dec that x/market/types/types.go computes   *)
(* prices, dust tests and capacities with.  A Dec is an integer d standing *)
(* for d / Scale; the real type has Scale = 10^18, a model uses a smaller  *)
(* power of ten so that the rounding of Quo and Mul shows at small         *)
(* amounts.  Mul and Quo round half to even (chopPrecisionAndRound), Quo   *)
(* truncates the doubly scaled quotient first, TruncateInt rounds toward   *)
(* zero.                                                                   *)
(***************************************************************************)
EXTENDS Integers

CONSTANT Scale          \* 10^precision of sdk.Dec

ASSUME Scale \in {10^k : k \in 1..6}

ONE == Scale

\* sdk.Int.ToDec
ToDec(i) == i * Scale

\* chopPrecisionAndRound: divide by Scale, rounding half to even,
\* symmetric around zero.
RECURSIVE ChopPrecisionAndRound(_)
ChopPrecisionAndRound(d) ==
    IF d < 0 THEN -ChopPrecisionAndRound(-d)
    ELSE LET q == d \div Scale
             r == d % Scale
         IN  CASE 2 * r < Scale -> q
               [] 2 * r > Scale -> q + 1
               [] OTHER         -> IF q % 2 = 0 THEN q ELSE q + 1

\* big.Int Quo: integer division truncating toward zero (b > 0)
QuoTrunc(a, b) == IF a >= 0 THEN a \div b ELSE -((-a) \div b)

\* Dec.Mul: the product carries Scale twice, chop one off
DecMul(a, b) == ChopPrecisionAndRound(a * b)

\* Dec.Quo: scale the numerator twice, truncate, then chop once
DecQuo(a, b) == ChopPrecisionAndRound(QuoTrunc(a * Scale * Scale, b))

\* Dec.TruncateInt
TruncateInt(d) == QuoTrunc(d, Scale)

\* sdk.MinDec
MinDec(a, b) == IF a <= b THEN a ELSE b

=============================================================================
