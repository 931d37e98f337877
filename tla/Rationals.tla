------------------------------ MODULE Rationals ------------------------------
(***************************************************************************)
(* Exact rational numbers: the operations of math/big.Rat the commitment   *)
(* ladder computes with.  A rational is <<n, d>> in lowest terms, d > 0,   *)
(* so that equal numbers are equal values.                                 *)
(***************************************************************************)
EXTENDS Integers, FiniteSetsExt, Functions

IsRational(a) == a[1] \in Int /\ a[2] \in Nat \ {0}

GCD[p \in Nat \X Nat] == IF p[2] = 0 THEN p[1] ELSE GCD[<<p[2], p[1] % p[2]>>]

Rat(n, d) ==
    LET g == GCD[<<IF n < 0 THEN -n ELSE n, d>>]
    IN  IF n = 0 THEN <<0, 1>> ELSE <<n \div g, d \div g>>

(* What every operation here answers.                                      *)
InLowestTerms(a) == IsRational(a) /\ a = Rat(a[1], a[2])

Zero == <<0, 1>>
Int2Rat(n) == <<n, 1>>

RAdd(a, b) == Rat(a[1] * b[2] + b[1] * a[2], a[2] * b[2])
RSub(a, b) == Rat(a[1] * b[2] - b[1] * a[2], a[2] * b[2])
RMul(a, b) == Rat(a[1] * b[1], a[2] * b[2])
RQuo(a, b) == Rat(a[1] * b[2], a[2] * b[1])   \* b > 0

RLe(a, b) == a[1] * b[2] <= b[1] * a[2]
RLt(a, b) == a[1] * b[2] < b[1] * a[2]
RMin(a, b) == IF RLe(a, b) THEN a ELSE b
RMax(a, b) == IF RLe(a, b) THEN b ELSE a

(* The greatest multiple of 1/p that is not above a.                       *)
RFloor(a, p) == Rat((a[1] * p) \div a[2], p)

(* The sum of the values of a function.                                    *)
RSum(f) == FoldFunction(RAdd, Zero, f)
=============================================================================
