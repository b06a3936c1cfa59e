-------------------------- MODULE DecimalRounding --------------------------
(***************************************************************************)
(* The two roundings of decimal text in tracking_adapter_canon.py: one by  *)
(* decimal.Decimal, which works on the magnitude and refuses a result of   *)
(* more digits than its context has, one by floor division, which works on *)
(* the signed number.                                                      *)
(*                                                                         *)
(* A text is its sign, its digits read as one number, and how many of them *)
(* follow the point. A result Fraction(k, 10^places) is the integer k.     *)
(***************************************************************************)
EXTENDS Integers

CONSTANTS
    Coefficients,  \* the numbers that the digits of a text may spell
    MaxPlaces,     \* the most digits after the point, and places to round to
    Precision      \* the digits of a decimal.Context

Text == [negative : BOOLEAN, digits : Coefficients, fraction : 0..MaxPlaces]

ASSUME CanonAssumption ==
    /\ Coefficients \subseteq Nat
    /\ MaxPlaces \in Nat
    /\ 10^Precision \in Nat

\* What is used of 10^k.
ASSUME PowersOfTen ==
    \A i, j \in 0..MaxPlaces :
        /\ 10^i \in Nat \ {0}
        /\ i + j <= MaxPlaces => 10^(i + j) = 10^i * 10^j

Signed(t, k) == IF t.negative THEN -k ELSE k

\* (slip) ROUND_HALF_UP.
RoundHalfUp(a, d) ==
    LET k == a \div d IN IF 2 * (a % d) >= d THEN k + 1 ELSE k

\* The integer nearest to a / d, the even one of two, for a, d natural.
RoundMagnitude(a, d) ==
    LET k == a \div d
        rest == a % d
    IN IF 2 * rest > d \/ (2 * rest = d /\ k % 2 = 1) THEN k + 1 ELSE k

\* Decimal.quantize, before the precision is looked at: the digits are padded,
\* or those beyond the places are rounded away.
Quantized(t, p) ==
    IF t.fraction <= p THEN t.digits * 10^(p - t.fraction)
                       ELSE RoundMagnitude(t.digits, 10^(t.fraction - p))

TooLong(k) == k >= 10^Precision

\* (slip) A tie goes down, whichever is even.
FloorHalfDown(a, d) ==
    LET floor == a \div d IN IF 2 * (a - floor * d) <= d THEN floor ELSE floor + 1

\* The same for an integer a, by floor division and the remainder's distance
\* to one half.
FloorHalfEven(a, d) ==
    LET floor == a \div d
        rest  == a - floor * d
    IN IF 2 * rest < d THEN floor
       ELSE IF 2 * rest > d THEN floor + 1
       ELSE IF floor % 2 = 0 THEN floor ELSE floor + 1

Independent(t, p) == FloorHalfEven(Signed(t, t.digits) * 10^p, 10^t.fraction)
=============================================================================
