---------------------------- MODULE RationalText ----------------------------
(***************************************************************************)
(* The rational texts of every file: parse_rational and parse_vector of    *)
(* r21_certificate_format.py, whose limits and canonical form the OCaml    *)
(* reader and the snapshot verifier share.                                 *)
(*                                                                         *)
(* A rational in a file is the pair <<numerator, denominator>> that its    *)
(* text spells; it parses when the pair is in lowest terms with a positive *)
(* denominator (str(Fraction(s)) = s) and the text is short enough.        *)
(***************************************************************************)
EXTENDS LinearAlgebra

CONSTANT MAX_RATIONAL_CHARS  \* the longest rational text that a parser takes

ASSUME LimitAssumption == MAX_RATIONAL_CHARS \in Nat \ {0}

digits[i \in Nat] == IF i < 10 THEN 1 ELSE 1 + digits[i \div 10]

\* The length of str(Fraction(x)).
chars(x) ==
    (IF x[1] < 0 THEN 1 ELSE 0) + digits[Magnitude(x[1])]
      + (IF x[2] = 1 THEN 0 ELSE 1 + digits[x[2]])

parse_rational(x) == chars(x) <= MAX_RATIONAL_CHARS /\ x[2] # 0 /\ IsFraction(x)
parse_vector(v)   == \A k \in DOMAIN v : parse_rational(v[k])
=============================================================================
