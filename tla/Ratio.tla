-------------------------------- MODULE Ratio --------------------------------
(***************************************************************************)
(* Exact fractions <<n, d>> with d > 0: the Fraction of Python's standard  *)
(* library, in lowest terms.                                               *)
(***************************************************************************)
EXTENDS Integers

Gcd[p \in Nat \X Nat] == IF p[2] = 0 THEN p[1] ELSE Gcd[<<p[2], p[1] % p[2]>>]

Abs(n) == IF n < 0 THEN -n ELSE n

Ratio(n, d) == LET g == Gcd[<<Abs(n), d>>] IN <<n \div g, d \div g>>

Whole(n)    == <<n, 1>>
Plus(p, q)  == Ratio(p[1] * q[2] + q[1] * p[2], p[2] * q[2])
Minus(p, q) == Ratio(p[1] * q[2] - q[1] * p[2], p[2] * q[2])
Times(p, q) == Ratio(p[1] * q[1], p[2] * q[2])
Over(p, q)  == Ratio(p[1] * q[2], p[2] * q[1])

Below(p, q)  == p[1] * q[2] < q[1] * p[2]
AtMost(p, q) == p[1] * q[2] <= q[1] * p[2]

Least(p, q)    == IF AtMost(p, q) THEN p ELSE q
Greatest(p, q) == IF AtMost(p, q) THEN q ELSE p

Floor(p)    == p[1] \div p[2]
Fraction(p) == Minus(p, Whole(Floor(p)))

(* Round half to even, as Python's round.                                  *)
Rounded(p) ==
    LET twice == Times(Whole(2), Fraction(p))
    IN  IF Below(twice, Whole(1)) \/ (twice = Whole(1) /\ Floor(p) % 2 = 0)
        THEN Floor(p) ELSE Floor(p) + 1
=============================================================================
