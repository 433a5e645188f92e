------------------------------ MODULE Doubles ------------------------------
(* The arithmetic of C's doubles that the size statistics of detector.c use *)
(* (IEEE 754, binary64, rounding to nearest, ties to even), for values that *)
(* are not negative.  Exponents are not bounded: no statistic comes near    *)
(* the least or the greatest double.                                        *)
EXTENDS Integers

CONSTANT Exact           \* 2^53: all integers up to it are doubles

ASSUME ExactAssumption == Exact \in Nat /\ \E p \in 2..53 : Exact = 2^p

\* The number m * 2^e.
Double(m, e) == [m |-> m, e |-> e]

\* Of n/d * 2^e the double next to it, n/d being brought to the size of a significand.
Rounded[n \in Nat, d \in Nat, e \in Int] ==
    IF n \div d >= Exact THEN Rounded[n, 2 * d, e + 1]
    ELSE IF n \div d < Exact \div 2 THEN Rounded[2 * n, d, e - 1]
    ELSE LET q == n \div d
             twice == 2 * (n % d)
         IN  Double(IF twice > d \/ (twice = d /\ q % 2 = 1) THEN q + 1 ELSE q, e)

\* The same, where it may be that nothing has to be rounded.
Nearest(n, d, e) ==
    IF n % d = 0 /\ n \div d <= Exact THEN Double(n \div d, e) ELSE Rounded[n, d, e]

FromInt(n) == Nearest(n, 1, 0)

\* The multiples of 2^e that x and y are, e being the less of their exponents.
Common(x, y) == IF x.e < y.e THEN x.e ELSE y.e
Units(x, e) == IF x.e = e THEN x.m ELSE x.m * 2^(x.e - e)

\* Zero, whatever its exponent, is greater than nothing.
Greater(x, y) == x.m # 0 /\ Units(x, Common(x, y)) > Units(y, Common(x, y))

Plus(x, y) == Nearest(Units(x, Common(x, y)) + Units(y, Common(x, y)), 1, Common(x, y))

\* x - y if that is not negative, and 0 otherwise.
Excess(x, y) ==
    IF Greater(x, y)
    THEN Nearest(Units(x, Common(x, y)) - Units(y, Common(x, y)), 1, Common(x, y))
    ELSE FromInt(0)

\* fabs(x - y).
Difference(x, y) == IF Greater(x, y) THEN Excess(x, y) ELSE Excess(y, x)

Times(x, y) == Nearest(x.m * y.m, 1, x.e + y.e)

\* x divided by an int n.
Quotient(x, n) == Nearest(x.m, n, x.e)

\* The root of n * 2^e, e being even.
RootOf[n \in Nat, e \in Int] ==
    IF n < (Exact \div 2) * (Exact \div 2) THEN RootOf[4 * n, e - 2]
    ELSE LET r == CHOOSE r \in 0..Exact : r * r <= n /\ n < (r + 1) * (r + 1)
         IN  Double(IF n > r * r + r THEN r + 1 ELSE r, e \div 2)

SquareRoot(x) ==
    IF x.m = 0 THEN FromInt(0)
    ELSE IF x.e % 2 = 0 THEN RootOf[x.m, x.e] ELSE RootOf[2 * x.m, x.e - 1]
=============================================================================
