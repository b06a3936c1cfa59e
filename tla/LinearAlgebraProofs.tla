------------------------ MODULE LinearAlgebraProofs ------------------------
(***************************************************************************)
(* Exact arithmetic and the sums of products, for every operand: the       *)
(* fractions that Rational keeps are a field, and the sums that dot,       *)
(* mat_vec and row_vec_mat are made of are linear and can be interchanged. *)
(* On these rest the proofs about certificates.                            *)
(*                                                                         *)
(* Two ways round induction, whose library theorems take an operator: a    *)
(* set of naturals is all of them when it is inductive (Induction, from    *)
(* the well-foundedness of finite sets under inclusion), and the recursive *)
(* functions are shown to exist before their equations are used.           *)
(***************************************************************************)
EXTENDS LinearAlgebra, FiniteSetTheorems, WellFoundedInduction, TLAPS

\* A non-empty set of naturals has a least element.
LEMMA Least ==
    ASSUME NEW S \in SUBSET Nat, S # {}
    PROVE  \E n \in S : \A k \in S : n <= k
<1> DEFINE Below(n) == 0..n
           T == {Below(n) : n \in S}
<1>1. IsWellFoundedOn(StrictSubsetOrdering(Nat), FiniteSubsetsOf(Nat))
    BY FS_StrictSubsetOrderingWellFounded
<1>2. T \subseteq FiniteSubsetsOf(Nat)
    <2>1. \A n \in S : IsFiniteSet(Below(n))
        BY FS_Interval
    <2>2. \A n \in S : Below(n) \in SUBSET Nat
        OBVIOUS
    <2> HIDE DEF Below
    <2> QED
        BY <2>1, <2>2 DEF FiniteSubsetsOf
<1>3. \E x \in T : \A y \in T : <<y, x>> \notin StrictSubsetOrdering(Nat)
    <2>1. T # {}
        OBVIOUS
    <2> HIDE DEF T
    <2> QED
        BY <1>1, <1>2, <2>1, WFMin
<1>4. PICK n \in S : \A k \in S : <<Below(k), Below(n)>> \notin StrictSubsetOrdering(Nat)
    BY <1>3
<1>5. ASSUME NEW k \in S, k < n PROVE FALSE
    <2>1. Below(k) \subseteq Below(n) /\ n \in Below(n) /\ n \notin Below(k)
        BY <1>5
    <2>2. Below(k) \in SUBSET Nat /\ Below(n) \in SUBSET Nat
        OBVIOUS
    <2> HIDE DEF Below
    <2>3. <<Below(k), Below(n)>> \in StrictSubsetOrdering(Nat)
        BY <2>1, <2>2 DEF StrictSubsetOrdering
    <2> QED
        BY <2>3, <1>4
<1> QED
    BY <1>5

\* A set of naturals with 0 and every successor is Nat.
LEMMA Induction ==
    ASSUME NEW P \in SUBSET Nat, 0 \in P, \A n \in P : n + 1 \in P
    PROVE  P = Nat
<1> SUFFICES ASSUME P # Nat PROVE FALSE
    OBVIOUS
<1>1. PICK n \in Nat \ P : \A k \in Nat \ P : n <= k
    BY Least
<1>2. n - 1 \in Nat \ P
    BY <1>1
<1> QED
    BY <1>1, <1>2

\* d divides n.
Divides(d, n) == \E k \in Int : n = d * k

LEMMA DividesAntisymmetric ==
    ASSUME NEW a \in Nat, NEW b \in Nat, Divides(a, b), Divides(b, a)
    PROVE  a = b
<1>1. PICK k \in Int : b = a * k
    BY DEF Divides
<1>2. PICK l \in Int : a = b * l
    BY DEF Divides
<1>3. CASE a = 0
    BY <1>1, <1>3
<1>4. CASE a > 0
    <2>1. b > 0
      BY <1>2, <1>4
    <2>2. k > 0 /\ l > 0
      BY <1>1, <1>2, <1>4, <2>1
    <2>3. b >= a
      BY <1>1, <2>2, <1>4
    <2>4. a >= b
      BY <1>2, <2>2, <2>1
    <2> QED BY <2>3, <2>4
<1> QED BY <1>3, <1>4

LEMMA DividesLinear ==
    ASSUME NEW d \in Int, NEW a \in Int, NEW b \in Int, NEW s \in Int,
           Divides(d, a), Divides(d, b)
    PROVE  Divides(d, a + s * b)
<1>1. PICK k \in Int : a = d * k
    BY DEF Divides
<1>2. PICK l \in Int : b = d * l
    BY DEF Divides
<1>3. a + s * b = d * (k + s * l)
    BY <1>1, <1>2
<1>4. k + s * l \in Int
    OBVIOUS
<1> QED
    BY <1>3, <1>4 DEF Divides

LEMMA Quotient ==
    ASSUME NEW p \in Nat, NEW q \in Nat \ {0}
    PROVE  /\ p % q \in Nat /\ p % q < q
           /\ p \div q \in Nat
           /\ p = q * (p \div q) + (p % q)
<1>1. p % q \in Nat /\ p % q < q
    OBVIOUS
<1>2. p \div q \in Nat
    BY Z3
<1>3. p = q * (p \div q) + (p % q)
    BY Z3
<1> QED
    BY <1>1, <1>2, <1>3

\* The common divisors of p and q, and a number with the same divisors.
Common(p, q) == {d \in Nat : Divides(d, p) /\ Divides(d, q)}
Chosen(p, q) == CHOOSE d \in Nat : Common(p, q) = Common(d, 0)

LEMMA CommonStep ==
    ASSUME NEW p \in Nat, NEW q \in Nat \ {0}
    PROVE  Common(p, q) = Common(q, p % q)
<1> DEFINE k == p \div q
           l == -k
           r == p % q
<1>1. k \in Int /\ l \in Int /\ r \in Nat /\ p = q * k + r /\ l = -k
    BY Quotient
<1> HIDE DEF k, l, r
<1>2. ASSUME NEW d \in Nat, Divides(d, p), Divides(d, q) PROVE Divides(d, r)
    <2>1. Divides(d, p + l * q)
       <3>1. d \in Int /\ p \in Int /\ q \in Int /\ l \in Int BY <1>1
       <3> QED BY ONLY <1>2, <3>1, DividesLinear
    <2>2. r = p + l * q
       BY <1>1
    <2> QED BY ONLY <2>1, <2>2
<1>3. ASSUME NEW d \in Nat, Divides(d, r), Divides(d, q) PROVE Divides(d, p)
    <2>1. Divides(d, r + k * q)
       <3>1. d \in Int /\ r \in Int /\ q \in Int /\ k \in Int BY <1>1
       <3> QED BY ONLY <1>3, <3>1, DividesLinear
    <2>2. p = r + k * q
       BY <1>1
    <2> QED BY ONLY <2>1, <2>2
<1> QED BY <1>2, <1>3 DEF Common, r

LEMMA DividesZero == ASSUME NEW d \in Int PROVE Divides(d, 0) /\ Divides(d, d)
<1>1. 0 = d * 0 /\ d = d * 1
  OBVIOUS
<1> QED BY <1>1 DEF Divides

LEMMA GcdBase == ASSUME NEW p \in Nat PROVE Chosen(p, 0) = p
<1>1. ASSUME NEW d \in Nat, Common(p, 0) = Common(d, 0) PROVE d = p
  <2>1. p \in Common(p, 0) /\ d \in Common(d, 0)
    BY DividesZero DEF Common
  <2>2. Divides(p, d) /\ Divides(d, p)
    BY <2>1, <1>1 DEF Common
  <2> QED BY <2>2, DividesAntisymmetric
<1> QED BY <1>1 DEF Chosen

\* gcd is the function its recursion asks for: the function that picks a
\* number with the same common divisors satisfies the equation.
LEMMA GcdDefined ==
    gcd = [x \in Nat \X Nat |-> IF x[2] = 0 THEN x[1] ELSE gcd[<<x[2], x[1] % x[2]>>]]
<1> DEFINE h == [x \in Nat \X Nat |-> Chosen(x[1], x[2])]
           G(f) == f = [x \in Nat \X Nat |-> IF x[2] = 0 THEN x[1] ELSE f[<<x[2], x[1] % x[2]>>]]
<1>1. ASSUME NEW x \in Nat \X Nat PROVE h[x] = IF x[2] = 0 THEN x[1] ELSE h[<<x[2], x[1] % x[2]>>]
  <2>1. PICK p \in Nat, q \in Nat : x = <<p,q>>
    OBVIOUS
  <2>2. \A r, s \in Nat : h[<<r,s>>] = Chosen(r,s)
    OBVIOUS
  <2>3. q # 0 => p % q \in Nat /\ Chosen(p, q) = Chosen(q, p % q)
    BY CommonStep, Quotient DEF Chosen
  <2>4. q = 0 => Chosen(p, q) = p
    BY GcdBase
  <2> HIDE DEF h
  <2> QED BY <2>1, <2>2, <2>3, <2>4
<1>2. G(h) BY <1>1, Zenon
<1>3. gcd = CHOOSE f : G(f)
  BY Zenon DEF gcd
<1>4. G(CHOOSE f : G(f))
   <2> HIDE DEF G
   <2> QED BY <1>2
<1> QED BY <1>3, <1>4

\* One turn of the Euclidean loop.
LEMMA GcdRec ==
    ASSUME NEW p \in Nat, NEW q \in Nat
    PROVE  gcd[<<p, q>>] = IF q = 0 THEN p ELSE gcd[<<q, p % q>>]
<1> QED BY GcdDefined

\* gcd divides both numbers and is a combination of them.
LEMMA Bezout ==
    ASSUME NEW p \in Nat, NEW q \in Nat
    PROVE  /\ gcd[<<p, q>>] \in Nat
           /\ Divides(gcd[<<p, q>>], p) /\ Divides(gcd[<<p, q>>], q)
           /\ \E a, b \in Int : gcd[<<p, q>>] = a * p + b * q
<1> DEFINE Good(r, s) == /\ gcd[<<r, s>>] \in Nat
           /\ Divides(gcd[<<r, s>>], r) /\ Divides(gcd[<<r, s>>], s)
           /\ \E a, b \in Int : gcd[<<r, s>>] = a * r + b * s
           P == {n \in Nat : \A r, s \in Nat : s <= n => Good(r, s)}
<1>1. ASSUME NEW r \in Nat PROVE Good(r, 0)
  <2>1. gcd[<<r, 0>>] = r BY GcdRec
  <2>2. r = 1 * r + 0 * 0 OBVIOUS
  <2> QED BY <2>1, <2>2, DividesZero
<1>2. ASSUME NEW r \in Nat, NEW s \in Nat \ {0}, Good(s, r % s) PROVE Good(r, s)
  <2> DEFINE g == gcd[<<s, r % s>>]
             k == r \div s
             m == r % s
  <2>1. gcd[<<r, s>>] = g BY GcdRec
  <2>2. k \in Int /\ m \in Nat /\ r = s * k + m BY Quotient
  <2>3. g \in Nat /\ Divides(g, s) /\ Divides(g, m) BY <1>2
  <2>4. PICK a, b \in Int : g = a * s + b * m BY <1>2
  <2> HIDE DEF g, k, m
  <2>5. Divides(g, m + k * s) BY <2>2, <2>3, DividesLinear
  <2>6. r = m + k * s BY <2>2
  <2>7. g = b * r + (a - b * k) * s BY <2>4, <2>2
  <2>8. a - b * k \in Int BY <2>2
  <2>9. \E c, d \in Int : g = c * r + d * s BY <2>7, <2>8
  <2> QED BY <2>1, <2>3, <2>5, <2>6, <2>9
<1>3. 0 \in P
   <2> HIDE DEF Good
   <2> QED BY <1>1
<1>4. ASSUME NEW n \in P PROVE n + 1 \in P
   <2> HIDE DEF Good
   <2>1. ASSUME NEW r \in Nat, NEW s \in Nat, s <= n + 1 PROVE Good(r, s)
     <3>1. CASE s = 0 BY <3>1, <1>1
     <3>2. CASE s # 0
        <4>1. r % s \in Nat /\ r % s <= n BY <3>2, <2>1, Quotient
        <4>2. Good(s, r % s) BY <4>1, <1>4
        <4> QED BY <4>2, <3>2, <1>2
     <3> QED BY <3>1, <3>2
   <2> QED BY <2>1
<1>5. P = Nat 
  <2> HIDE DEF Good, P
  <2>1. P \in SUBSET Nat BY DEF P
  <2> QED BY <2>1, <1>3, <1>4, Induction
<1>6. Good(p, q)
  <2> HIDE DEF Good
  <2> QED BY <1>5
<1> QED BY <1>6

LEMMA CancelFactor == ASSUME NEW k \in Int, k # 0, NEW u \in Int, NEW v \in Int, k * u = k * v PROVE u = v
BY Z3

\* Euclid's lemma.
LEMMA CoprimeDivides ==
    ASSUME NEW p \in Nat, NEW q \in Nat, gcd[<<p, q>>] = 1, NEW m \in Int, Divides(q, p * m)
    PROVE  Divides(q, m)
<1>1. PICK a, b \in Int : gcd[<<p, q>>] = a * p + b * q
    BY Bezout
<1>2. PICK k \in Int : p * m = q * k
    BY DEF Divides
<1>3. m = (a * p + b * q) * m
    <2>1. a * p + b * q = 1
        BY <1>1
    <2> QED BY <2>1
<1>4. (a * p + b * q) * m = a * (p * m) + q * (b * m)
    BY Z3
<1>5. a * (q * k) + q * (b * m) = q * (a * k + b * m)
    BY Z3
<1>6. m = q * (a * k + b * m)
    BY <1>2, <1>3, <1>4, <1>5
<1>7. a * k + b * m \in Int
    OBVIOUS
<1> QED
    BY <1>6, <1>7 DEF Divides

\* The values of Fraction; and x stands for the quotient n / d.
Fractions == {x \in Int \X (Nat \ {0}) : IsFraction(x)}

Represents(x, n, d) == x[1] * d = n * x[2]

LEMMA FractionParts ==
    ASSUME NEW x \in Fractions
    PROVE  /\ x[1] \in Int /\ x[2] \in Int /\ x[2] \in Nat /\ x[2] # 0
           /\ x = <<x[1], x[2]>>
           /\ Magnitude(x[1]) \in Nat
           /\ gcd[<<Magnitude(x[1]), x[2]>>] = 1
<1> QED
    BY DEF Fractions, IsFraction, Magnitude

LEMMA CrossDivides ==
    ASSUME NEW x \in Fractions, NEW y \in Fractions, x[1] * y[2] = y[1] * x[2]
    PROVE  Divides(x[2], y[2])
<1> DEFINE a == x[1]
           b == x[2]
           c == y[1]
           d == y[2]
           p == Magnitude(a)
<1>1. a \in Int /\ b \in Nat \ {0} /\ c \in Int /\ d \in Nat \ {0} /\ p \in Nat
    BY FractionParts
<1>2. gcd[<<p, b>>] = 1
    BY FractionParts
<1>3. a * d = c * b
    OBVIOUS
<1>4. p = a \/ p = -a
    BY <1>1 DEF Magnitude
<1> HIDE DEF a, b, c, d, p
<1>5. p * d = b * c \/ p * d = b * (-c)
    BY <1>1, <1>3, <1>4
<1>6. Divides(b, p * d)
    <2>1. c \in Int /\ -c \in Int
        BY <1>1
    <2> QED
        BY <1>5, <2>1 DEF Divides
<1>7. Divides(b, d)
    BY <1>1, <1>2, <1>6, CoprimeDivides
<1> QED
    BY <1>7 DEF b, d

\* Two fractions in lowest terms that are equal crosswise are the same pair:
\* comparing them for equality, as the code does, compares their values.
LEMMA Lowest ==
    ASSUME NEW x \in Fractions, NEW y \in Fractions, x[1] * y[2] = y[1] * x[2]
    PROVE  x = y
<1> DEFINE a == x[1]
           b == x[2]
           c == y[1]
           d == y[2]
<1>1. a \in Int /\ b \in Nat \ {0} /\ c \in Int /\ d \in Nat \ {0} /\ x = <<a, b>> /\ y = <<c, d>>
    BY FractionParts
<1>2. Divides(b, d)
    BY CrossDivides
<1>3. Divides(d, b)
    <2>1. c * b = a * d
        OBVIOUS
    <2> QED BY <2>1, CrossDivides
<1>4. a * d = c * b
    OBVIOUS
<1> HIDE DEF a, b, c, d
<1>5. b = d
    BY <1>1, <1>2, <1>3, DividesAntisymmetric
<1>6. b * a = b * c
    BY <1>1, <1>4, <1>5
<1>7. a = c
    BY <1>1, <1>6, CancelFactor
<1> QED
    BY <1>1, <1>5, <1>7

\* Fraction(n, d) is in lowest terms and stands for n / d.
LEMMA FractionIs ==
    ASSUME NEW n \in Int, NEW d \in Int \ {0}
    PROVE  Fraction(n, d) \in Fractions /\ Represents(Fraction(n, d), n, d)
<1> DEFINE p == Magnitude(n)
           q == Magnitude(d)
           g == gcd[<<p, q>>]
           s == IF d < 0 THEN -1 ELSE 1
<1>1. p \in Nat /\ q \in Nat /\ q # 0 /\ s \in Int /\ s * d = q /\ s # 0 /\ (s = 1 \/ s = -1)
    BY DEF Magnitude
<1>2. g \in Nat /\ Divides(g, p) /\ Divides(g, q) /\ \E a, b \in Int : g = a * p + b * q
    BY <1>1, Bezout
<1>3. Fraction(n, d) = <<(s * n) \div g, q \div g>>
    BY DEF Fraction
<1>4. s * n = p \/ s * n = -p
    BY <1>1 DEF Magnitude
<1> HIDE DEF p, q, g, s
<1>5. PICK k \in Int : q = g * k
    BY <1>2 DEF Divides
<1>6. g # 0 /\ k \in Nat /\ k # 0
    <2>1. g # 0 /\ k # 0
        BY <1>1, <1>2, <1>5
    <2>2. k > 0
        BY <1>1, <1>2, <1>5, <2>1
    <2> QED BY <2>1, <2>2
<1>7. PICK l \in Int : s * n = g * l
    <2>1. PICK i \in Int : p = g * i
        BY <1>2 DEF Divides
    <2>2. -p = g * (-i)
        BY <1>2, <2>1
    <2>3. -i \in Int OBVIOUS
    <2> QED BY <1>4, <2>1, <2>2, <2>3
<1>8. (s * n) \div g = l /\ q \div g = k
    <2>1. \A i \in Int : (g * i) \div g = i
        BY <1>2, <1>6, Z3
    <2> QED BY <2>1, <1>5, <1>7
<1>9. Represents(Fraction(n, d), n, d)
    <2>1. l * d = n * k
        <3>1. (s * g) * (l * d) = (s * n) * (s * d)
            BY <1>1, <1>2, <1>7
        <3>2. (s * n) * (s * d) = (s * g) * (n * k)
            BY <1>1, <1>2, <1>5
        <3>3. s * g # 0 /\ s * g \in Int
            BY <1>1, <1>2, <1>6
        <3> QED BY <3>1, <3>2, <3>3, CancelFactor
    <2> QED BY <1>3, <1>8, <2>1 DEF Represents
<1>10. gcd[<<Magnitude(l), k>>] = 1
    <2> DEFINE m == Magnitude(l)
               e == gcd[<<m, k>>]
    <2>1. m \in Nat /\ (l = m \/ l = -m)
        BY DEF Magnitude
    <2>2. e \in Nat /\ Divides(e, m) /\ Divides(e, k)
        BY <1>6, <2>1, Bezout
    <2> HIDE DEF m, e
    <2>3. PICK a, b \in Int : g = a * p + b * q
        BY <1>2
    <2>4. p = g * m \/ p = g * (-m)
        BY <1>1, <1>2, <1>4, <1>7, <2>1
    <2>5. PICK c \in Int : p = g * (c * m)
        BY <2>4, <2>1
    <2>6. g * 1 = g * ((a * c) * m + b * k)
        <3>1. g = a * (g * (c * m)) + b * (g * k)
            BY <2>3, <2>5, <1>5
        <3>2. a * (g * (c * m)) + b * (g * k) = g * ((a * c) * m + b * k)
            BY <1>2, <2>1, <1>6
        <3> QED BY <3>1, <3>2, <1>2
    <2>7. 1 = (a * c) * m + b * k
        BY <2>6, <1>2, <1>6, <2>1, CancelFactor
    <2>8. PICK i \in Int : m = e * i
        BY <2>2 DEF Divides
    <2>9. PICK j \in Int : k = e * j
        BY <2>2 DEF Divides
    <2>10. 1 = e * ((a * c) * i + b * j)
        <3>1. 1 = (a * c) * (e * i) + b * (e * j)
            BY <2>7, <2>8, <2>9
        <3> QED BY <3>1, <2>2
    <2>11. (a * c) * i + b * j \in Int
        OBVIOUS
    <2>12. Divides(e, 1)
        BY <2>10, <2>11 DEF Divides
    <2>13. Divides(1, e)
        <3>1. e = 1 * e BY <2>2
        <3> QED BY <3>1, <2>2 DEF Divides
    <2>14. e = 1
        BY <2>2, <2>12, <2>13, DividesAntisymmetric
    <2> QED BY <2>14 DEF e, m
<1>11. Fraction(n, d) = <<l, k>>
    BY <1>3, <1>8
<1>12. <<l, k>> \in Fractions
    BY <1>6, <1>10 DEF Fractions, IsFraction
<1> QED
    BY <1>9, <1>11, <1>12

LEMMA ZeroOne == Zero \in Fractions /\ One \in Fractions /\ Zero # One
<1>1. gcd[<<0, 1>>] = 1 /\ gcd[<<1, 1>>] = 1
    <2>1. 0 % 1 = 0 /\ 1 % 1 = 0
        OBVIOUS
    <2>2. gcd[<<1, 0>>] = 1
        BY GcdRec
    <2>3. gcd[<<0, 1>>] = gcd[<<1, 0 % 1>>] /\ gcd[<<1, 1>>] = gcd[<<1, 1 % 1>>]
        BY GcdRec
    <2> QED BY <2>1, <2>2, <2>3
<1> QED BY <1>1 DEF Fractions, IsFraction, Zero, One, Magnitude

LEMMA RepSelf == ASSUME NEW x \in Fractions PROVE Represents(x, x[1], x[2])
BY FractionParts DEF Represents

\* Fractions that stand for the same quotient are equal. With what Plus,
\* Times and Minus stand for (RepPlus, RepTimes, RepMinus), each law of
\* arithmetic below is an identity of integers.
LEMMA RepEqual ==
    ASSUME NEW x \in Fractions, NEW y \in Fractions,
           NEW n \in Int, NEW d \in Int \ {0}, NEW m \in Int, NEW e \in Int \ {0},
           Represents(x, n, d), Represents(y, m, e), n * e = m * d
    PROVE  x = y
<1> DEFINE a == x[1]
           b == x[2]
           p == y[1]
           q == y[2]
<1>1. a \in Int /\ b \in Int /\ b # 0 /\ p \in Int /\ q \in Int /\ q # 0
    BY FractionParts
<1>2. a * d = n * b /\ p * e = m * q
    BY DEF Represents
<1> HIDE DEF a, b, p, q
<1>3. (d * e) * (a * q) = (a * d) * (q * e)
    BY <1>1
<1>4. (n * b) * (q * e) = (n * e) * (b * q)
    BY <1>1
<1>5. (m * d) * (b * q) = (m * q) * (d * b)
    BY <1>1
<1>6. (p * e) * (d * b) = (d * e) * (p * b)
    BY <1>1
<1>7. (d * e) * (a * q) = (d * e) * (p * b)
    BY <1>2, <1>3, <1>4, <1>5, <1>6
<1>8. d * e # 0 /\ d * e \in Int
    OBVIOUS
<1>9. a * q = p * b
    BY <1>1, <1>7, <1>8, CancelFactor
<1> QED
    BY <1>9, Lowest DEF a, b, p, q

LEMMA RepPlus ==
    ASSUME NEW x \in Fractions, NEW y \in Fractions,
           NEW n \in Int, NEW d \in Int \ {0}, NEW m \in Int, NEW e \in Int \ {0},
           Represents(x, n, d), Represents(y, m, e)
    PROVE  /\ Plus(x, y) \in Fractions
           /\ Represents(Plus(x, y), n * e + m * d, d * e)
<1> DEFINE a == x[1]
           b == x[2]
           p == y[1]
           q == y[2]
           s == Plus(x, y)
<1>1. a \in Int /\ b \in Int /\ b # 0 /\ p \in Int /\ q \in Int /\ q # 0
    BY FractionParts
<1>2. a * d = n * b /\ p * e = m * q
    BY DEF Represents
<1>3. s = Fraction(a * q + p * b, b * q)
    BY DEF Plus
<1> HIDE DEF a, b, p, q, s
<1>4. b * q \in Int \ {0} /\ a * q + p * b \in Int
    BY <1>1
<1>5. s \in Fractions /\ Represents(s, a * q + p * b, b * q)
    BY <1>3, <1>4, FractionIs
<1> DEFINE u == s[1]
           v == s[2]
<1>6. u \in Int /\ v \in Int
    BY <1>5, FractionParts
<1>7. u * (b * q) = (a * q + p * b) * v
    BY <1>5 DEF Represents
<1> HIDE DEF u, v
<1>8. (b * q) * (u * (d * e)) = (u * (b * q)) * (d * e)
    BY <1>1, <1>6
<1>9. ((a * q + p * b) * v) * (d * e) = ((a * d) * (q * e) + (p * e) * (b * d)) * v
    BY <1>1, <1>6
<1>10. ((n * b) * (q * e) + (m * q) * (b * d)) * v = (b * q) * ((n * e + m * d) * v)
    BY <1>1, <1>6
<1>11. (b * q) * (u * (d * e)) = (b * q) * ((n * e + m * d) * v)
    BY <1>2, <1>7, <1>8, <1>9, <1>10
<1>12. u * (d * e) \in Int /\ (n * e + m * d) * v \in Int
    BY <1>6
<1>13. u * (d * e) = (n * e + m * d) * v
    BY <1>4, <1>11, <1>12, CancelFactor
<1> QED
    BY <1>5, <1>13 DEF Represents, u, v, s

LEMMA RepTimes ==
    ASSUME NEW x \in Fractions, NEW y \in Fractions,
           NEW n \in Int, NEW d \in Int \ {0}, NEW m \in Int, NEW e \in Int \ {0},
           Represents(x, n, d), Represents(y, m, e)
    PROVE  /\ Times(x, y) \in Fractions
           /\ Represents(Times(x, y), n * m, d * e)
<1> DEFINE a == x[1]
           b == x[2]
           p == y[1]
           q == y[2]
           s == Times(x, y)
<1>1. a \in Int /\ b \in Int /\ b # 0 /\ p \in Int /\ q \in Int /\ q # 0
    BY FractionParts
<1>2. a * d = n * b /\ p * e = m * q
    BY DEF Represents
<1>3. s = Fraction(a * p, b * q)
    BY DEF Times
<1> HIDE DEF a, b, p, q, s
<1>4. b * q \in Int \ {0} /\ a * p \in Int
    BY <1>1
<1>5. s \in Fractions /\ Represents(s, a * p, b * q)
    BY <1>3, <1>4, FractionIs
<1> DEFINE u == s[1]
           v == s[2]
<1>6. u \in Int /\ v \in Int
    BY <1>5, FractionParts
<1>7. u * (b * q) = (a * p) * v
    BY <1>5 DEF Represents
<1> HIDE DEF u, v
<1>8. (b * q) * (u * (d * e)) = (u * (b * q)) * (d * e)
    BY <1>1, <1>6
<1>9. ((a * p) * v) * (d * e) = ((a * d) * (p * e)) * v
    BY <1>1, <1>6
<1>10. ((n * b) * (m * q)) * v = (b * q) * ((n * m) * v)
    BY <1>1, <1>6
<1>11. (b * q) * (u * (d * e)) = (b * q) * ((n * m) * v)
    BY <1>2, <1>7, <1>8, <1>9, <1>10
<1>12. u * (d * e) \in Int /\ (n * m) * v \in Int
    BY <1>6
<1>13. u * (d * e) = (n * m) * v
    BY <1>4, <1>11, <1>12, CancelFactor
<1> QED
    BY <1>5, <1>13 DEF Represents, u, v, s

LEMMA RepMinus ==
    ASSUME NEW x \in Fractions, NEW y \in Fractions,
           NEW n \in Int, NEW d \in Int \ {0}, NEW m \in Int, NEW e \in Int \ {0},
           Represents(x, n, d), Represents(y, m, e)
    PROVE  /\ Minus(x, y) \in Fractions
           /\ Represents(Minus(x, y), n * e - m * d, d * e)
<1> DEFINE a == x[1]
           b == x[2]
           p == y[1]
           q == y[2]
           s == Minus(x, y)
<1>1. a \in Int /\ b \in Int /\ b # 0 /\ p \in Int /\ q \in Int /\ q # 0
    BY FractionParts
<1>2. a * d = n * b /\ p * e = m * q
    BY DEF Represents
<1>3. s = Fraction(a * q - p * b, b * q)
    BY DEF Minus
<1> HIDE DEF a, b, p, q, s
<1>4. b * q \in Int \ {0} /\ a * q - p * b \in Int
    BY <1>1
<1>5. s \in Fractions /\ Represents(s, a * q - p * b, b * q)
    BY <1>3, <1>4, FractionIs
<1> DEFINE u == s[1]
           v == s[2]
<1>6. u \in Int /\ v \in Int
    BY <1>5, FractionParts
<1>7. u * (b * q) = (a * q - p * b) * v
    BY <1>5 DEF Represents
<1> HIDE DEF u, v
<1>8. (b * q) * (u * (d * e)) = (u * (b * q)) * (d * e)
    BY <1>1, <1>6
<1>9. ((a * q - p * b) * v) * (d * e) = ((a * d) * (q * e) - (p * e) * (b * d)) * v
    BY <1>1, <1>6
<1>10. ((n * b) * (q * e) - (m * q) * (b * d)) * v = (b * q) * ((n * e - m * d) * v)
    BY <1>1, <1>6
<1>11. (b * q) * (u * (d * e)) = (b * q) * ((n * e - m * d) * v)
    BY <1>2, <1>7, <1>8, <1>9, <1>10
<1>12. u * (d * e) \in Int /\ (n * e - m * d) * v \in Int
    BY <1>6
<1>13. u * (d * e) = (n * e - m * d) * v
    BY <1>4, <1>11, <1>12, CancelFactor
<1> QED
    BY <1>5, <1>13 DEF Represents, u, v, s

LEMMA RepOver ==
    ASSUME NEW x \in Fractions, NEW y \in Fractions, y # Zero
    PROVE  /\ Over(x, y) \in Fractions
           /\ Represents(Over(x, y), x[1] * y[2], x[2] * y[1])
           /\ x[2] * y[1] \in Int \ {0} /\ y[1] # 0
<1>1. y[1] # 0
    <2>1. SUFFICES ASSUME y[1] = 0 PROVE FALSE
        OBVIOUS
    <2>2. y[1] * Zero[2] = Zero[1] * y[2]
        <3>1. Zero[1] = 0 /\ Zero[2] = 1 /\ y[2] \in Int
            BY FractionParts DEF Zero
        <3> QED
            BY <2>1, <3>1
    <2> QED
        BY <2>2, ZeroOne, Lowest
<1> DEFINE a == x[1]
           b == x[2]
           p == y[1]
           q == y[2]
<1>2. a \in Int /\ b \in Int /\ b # 0 /\ p \in Int /\ q \in Int /\ p # 0
    BY <1>1, FractionParts
<1> HIDE DEF a, b, p, q
<1>3. a * q \in Int /\ b * p \in Int \ {0}
    BY <1>2
<1>4. Fraction(a * q, b * p) \in Fractions /\ Represents(Fraction(a * q, b * p), a * q, b * p)
    BY <1>3, FractionIs
<1> QED
    BY <1>1, <1>3, <1>4 DEF Over, a, b, p, q

LEMMA FractionsClosed ==
    ASSUME NEW x \in Fractions, NEW y \in Fractions
    PROVE  Plus(x, y) \in Fractions /\ Minus(x, y) \in Fractions /\ Times(x, y) \in Fractions
<1>1. x[1] \in Int /\ x[2] \in Int \ {0} /\ y[1] \in Int /\ y[2] \in Int \ {0}
    BY FractionParts
<1>2. Represents(x, x[1], x[2]) /\ Represents(y, y[1], y[2])
    BY RepSelf
<1>3. Plus(x, y) \in Fractions
    BY <1>1, <1>2, RepPlus
<1>4. Minus(x, y) \in Fractions
    BY <1>1, <1>2, RepMinus
<1>5. Times(x, y) \in Fractions
    BY <1>1, <1>2, RepTimes
<1> QED
    BY <1>3, <1>4, <1>5

LEMMA PlusCommutes ==
    ASSUME NEW x \in Fractions, NEW y \in Fractions
    PROVE  Plus(x, y) = Plus(y, x)
<1> DEFINE a == x[1]
           b == x[2]
           c == y[1]
           d == y[2]
<1>1. a \in Int /\ b \in Int \ {0} /\ Represents(x, a, b) /\ c \in Int /\ d \in Int \ {0} /\ Represents(y, c, d)
    BY FractionParts, RepSelf
<1> HIDE DEF a, b, c, d
<1>2. Represents(Zero, 0, 1) /\ Represents(One, 1, 1) /\ Zero \in Fractions /\ One \in Fractions
    BY ZeroOne DEF Represents, Zero, One
<1>3. Plus(x, y) \in Fractions /\ Represents(Plus(x, y), a * d + c * b, b * d)
       /\ a * d + c * b \in Int /\ b * d \in Int \ {0}
    BY <1>1, <1>2, RepPlus
<1>4. Plus(y, x) \in Fractions /\ Represents(Plus(y, x), c * b + a * d, d * b)
       /\ c * b + a * d \in Int /\ d * b \in Int \ {0}
    BY <1>1, <1>2, RepPlus
<1>5. (a * d + c * b) * (d * b) = (c * b + a * d) * (b * d)
    BY <1>1
<1> QED
    BY <1>1, <1>2, <1>3, <1>4, <1>5, RepEqual

LEMMA PlusAssociates ==
    ASSUME NEW x \in Fractions, NEW y \in Fractions, NEW z \in Fractions
    PROVE  Plus(Plus(x, y), z) = Plus(x, Plus(y, z))
<1> DEFINE a == x[1]
           b == x[2]
           c == y[1]
           d == y[2]
           e == z[1]
           f == z[2]
<1>1. a \in Int /\ b \in Int \ {0} /\ Represents(x, a, b) /\ c \in Int /\ d \in Int \ {0} /\ Represents(y, c, d) /\ e \in Int /\ f \in Int \ {0} /\ Represents(z, e, f)
    BY FractionParts, RepSelf
<1> HIDE DEF a, b, c, d, e, f
<1>2. Represents(Zero, 0, 1) /\ Represents(One, 1, 1) /\ Zero \in Fractions /\ One \in Fractions
    BY ZeroOne DEF Represents, Zero, One
<1>3. Plus(x, y) \in Fractions /\ Represents(Plus(x, y), a * d + c * b, b * d)
       /\ a * d + c * b \in Int /\ b * d \in Int \ {0}
    BY <1>1, <1>2, RepPlus
<1>4. Plus(Plus(x, y), z) \in Fractions /\ Represents(Plus(Plus(x, y), z), (a * d + c * b) * f + e * (b * d), (b * d) * f)
       /\ (a * d + c * b) * f + e * (b * d) \in Int /\ (b * d) * f \in Int \ {0}
    BY <1>1, <1>2, <1>3, RepPlus
<1>5. Plus(y, z) \in Fractions /\ Represents(Plus(y, z), c * f + e * d, d * f)
       /\ c * f + e * d \in Int /\ d * f \in Int \ {0}
    BY <1>1, <1>2, RepPlus
<1>6. Plus(x, Plus(y, z)) \in Fractions /\ Represents(Plus(x, Plus(y, z)), a * (d * f) + (c * f + e * d) * b, b * (d * f))
       /\ a * (d * f) + (c * f + e * d) * b \in Int /\ b * (d * f) \in Int \ {0}
    BY <1>1, <1>2, <1>5, RepPlus
<1>7. ((a * d + c * b) * f + e * (b * d)) * (b * (d * f)) = (a * (d * f) + (c * f + e * d) * b) * ((b * d) * f)
    BY <1>1
<1> QED
    BY <1>1, <1>2, <1>3, <1>4, <1>5, <1>6, <1>7, RepEqual

LEMMA PlusZero ==
    ASSUME NEW x \in Fractions
    PROVE  Plus(x, Zero) = x
<1> DEFINE a == x[1]
           b == x[2]
<1>1. a \in Int /\ b \in Int \ {0} /\ Represents(x, a, b)
    BY FractionParts, RepSelf
<1> HIDE DEF a, b
<1>2. Represents(Zero, 0, 1) /\ Represents(One, 1, 1) /\ Zero \in Fractions /\ One \in Fractions
    BY ZeroOne DEF Represents, Zero, One
<1>3. Plus(x, Zero) \in Fractions /\ Represents(Plus(x, Zero), a * 1 + 0 * b, b * 1)
       /\ a * 1 + 0 * b \in Int /\ b * 1 \in Int \ {0}
    BY <1>1, <1>2, RepPlus
<1>4. (a * 1 + 0 * b) * (b) = (a) * (b * 1)
    BY <1>1
<1> QED
    BY <1>1, <1>2, <1>3, <1>4, RepEqual

LEMMA PlusMinus ==
    ASSUME NEW x \in Fractions, NEW y \in Fractions
    PROVE  Plus(Minus(x, y), y) = x
<1> DEFINE a == x[1]
           b == x[2]
           c == y[1]
           d == y[2]
<1>1. a \in Int /\ b \in Int \ {0} /\ Represents(x, a, b) /\ c \in Int /\ d \in Int \ {0} /\ Represents(y, c, d)
    BY FractionParts, RepSelf
<1> HIDE DEF a, b, c, d
<1>2. Represents(Zero, 0, 1) /\ Represents(One, 1, 1) /\ Zero \in Fractions /\ One \in Fractions
    BY ZeroOne DEF Represents, Zero, One
<1>3. Minus(x, y) \in Fractions /\ Represents(Minus(x, y), a * d - c * b, b * d)
       /\ a * d - c * b \in Int /\ b * d \in Int \ {0}
    BY <1>1, <1>2, RepMinus
<1>4. Plus(Minus(x, y), y) \in Fractions /\ Represents(Plus(Minus(x, y), y), (a * d - c * b) * d + c * (b * d), (b * d) * d)
       /\ (a * d - c * b) * d + c * (b * d) \in Int /\ (b * d) * d \in Int \ {0}
    BY <1>1, <1>2, <1>3, RepPlus
<1>5. ((a * d - c * b) * d + c * (b * d)) * (b) = (a) * ((b * d) * d)
    BY <1>1
<1> QED
    BY <1>1, <1>2, <1>3, <1>4, <1>5, RepEqual

LEMMA MinusPlus ==
    ASSUME NEW x \in Fractions, NEW y \in Fractions
    PROVE  Minus(Plus(x, y), y) = x
<1> DEFINE a == x[1]
           b == x[2]
           c == y[1]
           d == y[2]
<1>1. a \in Int /\ b \in Int \ {0} /\ Represents(x, a, b) /\ c \in Int /\ d \in Int \ {0} /\ Represents(y, c, d)
    BY FractionParts, RepSelf
<1> HIDE DEF a, b, c, d
<1>2. Represents(Zero, 0, 1) /\ Represents(One, 1, 1) /\ Zero \in Fractions /\ One \in Fractions
    BY ZeroOne DEF Represents, Zero, One
<1>3. Plus(x, y) \in Fractions /\ Represents(Plus(x, y), a * d + c * b, b * d)
       /\ a * d + c * b \in Int /\ b * d \in Int \ {0}
    BY <1>1, <1>2, RepPlus
<1>4. Minus(Plus(x, y), y) \in Fractions /\ Represents(Minus(Plus(x, y), y), (a * d + c * b) * d - c * (b * d), (b * d) * d)
       /\ (a * d + c * b) * d - c * (b * d) \in Int /\ (b * d) * d \in Int \ {0}
    BY <1>1, <1>2, <1>3, RepMinus
<1>5. ((a * d + c * b) * d - c * (b * d)) * (b) = (a) * ((b * d) * d)
    BY <1>1
<1> QED
    BY <1>1, <1>2, <1>3, <1>4, <1>5, RepEqual

LEMMA MinusSelf ==
    ASSUME NEW x \in Fractions
    PROVE  Minus(x, x) = Zero
<1> DEFINE a == x[1]
           b == x[2]
<1>1. a \in Int /\ b \in Int \ {0} /\ Represents(x, a, b)
    BY FractionParts, RepSelf
<1> HIDE DEF a, b
<1>2. Represents(Zero, 0, 1) /\ Represents(One, 1, 1) /\ Zero \in Fractions /\ One \in Fractions
    BY ZeroOne DEF Represents, Zero, One
<1>3. Minus(x, x) \in Fractions /\ Represents(Minus(x, x), a * b - a * b, b * b)
       /\ a * b - a * b \in Int /\ b * b \in Int \ {0}
    BY <1>1, <1>2, RepMinus
<1>4. (a * b - a * b) * (1) = (0) * (b * b)
    BY <1>1
<1> QED
    BY <1>1, <1>2, <1>3, <1>4, RepEqual

LEMMA TimesCommutes ==
    ASSUME NEW x \in Fractions, NEW y \in Fractions
    PROVE  Times(x, y) = Times(y, x)
<1> DEFINE a == x[1]
           b == x[2]
           c == y[1]
           d == y[2]
<1>1. a \in Int /\ b \in Int \ {0} /\ Represents(x, a, b) /\ c \in Int /\ d \in Int \ {0} /\ Represents(y, c, d)
    BY FractionParts, RepSelf
<1> HIDE DEF a, b, c, d
<1>2. Represents(Zero, 0, 1) /\ Represents(One, 1, 1) /\ Zero \in Fractions /\ One \in Fractions
    BY ZeroOne DEF Represents, Zero, One
<1>3. Times(x, y) \in Fractions /\ Represents(Times(x, y), a * c, b * d)
       /\ a * c \in Int /\ b * d \in Int \ {0}
    BY <1>1, <1>2, RepTimes
<1>4. Times(y, x) \in Fractions /\ Represents(Times(y, x), c * a, d * b)
       /\ c * a \in Int /\ d * b \in Int \ {0}
    BY <1>1, <1>2, RepTimes
<1>5. (a * c) * (d * b) = (c * a) * (b * d)
    BY <1>1
<1> QED
    BY <1>1, <1>2, <1>3, <1>4, <1>5, RepEqual

LEMMA TimesAssociates ==
    ASSUME NEW x \in Fractions, NEW y \in Fractions, NEW z \in Fractions
    PROVE  Times(Times(x, y), z) = Times(x, Times(y, z))
<1> DEFINE a == x[1]
           b == x[2]
           c == y[1]
           d == y[2]
           e == z[1]
           f == z[2]
<1>1. a \in Int /\ b \in Int \ {0} /\ Represents(x, a, b) /\ c \in Int /\ d \in Int \ {0} /\ Represents(y, c, d) /\ e \in Int /\ f \in Int \ {0} /\ Represents(z, e, f)
    BY FractionParts, RepSelf
<1> HIDE DEF a, b, c, d, e, f
<1>2. Represents(Zero, 0, 1) /\ Represents(One, 1, 1) /\ Zero \in Fractions /\ One \in Fractions
    BY ZeroOne DEF Represents, Zero, One
<1>3. Times(x, y) \in Fractions /\ Represents(Times(x, y), a * c, b * d)
       /\ a * c \in Int /\ b * d \in Int \ {0}
    BY <1>1, <1>2, RepTimes
<1>4. Times(Times(x, y), z) \in Fractions /\ Represents(Times(Times(x, y), z), (a * c) * e, (b * d) * f)
       /\ (a * c) * e \in Int /\ (b * d) * f \in Int \ {0}
    BY <1>1, <1>2, <1>3, RepTimes
<1>5. Times(y, z) \in Fractions /\ Represents(Times(y, z), c * e, d * f)
       /\ c * e \in Int /\ d * f \in Int \ {0}
    BY <1>1, <1>2, RepTimes
<1>6. Times(x, Times(y, z)) \in Fractions /\ Represents(Times(x, Times(y, z)), a * (c * e), b * (d * f))
       /\ a * (c * e) \in Int /\ b * (d * f) \in Int \ {0}
    BY <1>1, <1>2, <1>5, RepTimes
<1>7. ((a * c) * e) * (b * (d * f)) = (a * (c * e)) * ((b * d) * f)
    BY <1>1
<1> QED
    BY <1>1, <1>2, <1>3, <1>4, <1>5, <1>6, <1>7, RepEqual

LEMMA TimesOne ==
    ASSUME NEW x \in Fractions
    PROVE  Times(x, One) = x
<1> DEFINE a == x[1]
           b == x[2]
<1>1. a \in Int /\ b \in Int \ {0} /\ Represents(x, a, b)
    BY FractionParts, RepSelf
<1> HIDE DEF a, b
<1>2. Represents(Zero, 0, 1) /\ Represents(One, 1, 1) /\ Zero \in Fractions /\ One \in Fractions
    BY ZeroOne DEF Represents, Zero, One
<1>3. Times(x, One) \in Fractions /\ Represents(Times(x, One), a * 1, b * 1)
       /\ a * 1 \in Int /\ b * 1 \in Int \ {0}
    BY <1>1, <1>2, RepTimes
<1>4. (a * 1) * (b) = (a) * (b * 1)
    BY <1>1
<1> QED
    BY <1>1, <1>2, <1>3, <1>4, RepEqual

LEMMA TimesZero ==
    ASSUME NEW x \in Fractions
    PROVE  Times(x, Zero) = Zero
<1> DEFINE a == x[1]
           b == x[2]
<1>1. a \in Int /\ b \in Int \ {0} /\ Represents(x, a, b)
    BY FractionParts, RepSelf
<1> HIDE DEF a, b
<1>2. Represents(Zero, 0, 1) /\ Represents(One, 1, 1) /\ Zero \in Fractions /\ One \in Fractions
    BY ZeroOne DEF Represents, Zero, One
<1>3. Times(x, Zero) \in Fractions /\ Represents(Times(x, Zero), a * 0, b * 1)
       /\ a * 0 \in Int /\ b * 1 \in Int \ {0}
    BY <1>1, <1>2, RepTimes
<1>4. (a * 0) * (1) = (0) * (b * 1)
    BY <1>1
<1> QED
    BY <1>1, <1>2, <1>3, <1>4, RepEqual

LEMMA TimesPlus ==
    ASSUME NEW x \in Fractions, NEW y \in Fractions, NEW z \in Fractions
    PROVE  Times(x, Plus(y, z)) = Plus(Times(x, y), Times(x, z))
<1> DEFINE a == x[1]
           b == x[2]
           c == y[1]
           d == y[2]
           e == z[1]
           f == z[2]
<1>1. a \in Int /\ b \in Int \ {0} /\ Represents(x, a, b) /\ c \in Int /\ d \in Int \ {0} /\ Represents(y, c, d) /\ e \in Int /\ f \in Int \ {0} /\ Represents(z, e, f)
    BY FractionParts, RepSelf
<1> HIDE DEF a, b, c, d, e, f
<1>2. Represents(Zero, 0, 1) /\ Represents(One, 1, 1) /\ Zero \in Fractions /\ One \in Fractions
    BY ZeroOne DEF Represents, Zero, One
<1>3. Plus(y, z) \in Fractions /\ Represents(Plus(y, z), c * f + e * d, d * f)
       /\ c * f + e * d \in Int /\ d * f \in Int \ {0}
    BY <1>1, <1>2, RepPlus
<1>4. Times(x, Plus(y, z)) \in Fractions /\ Represents(Times(x, Plus(y, z)), a * (c * f + e * d), b * (d * f))
       /\ a * (c * f + e * d) \in Int /\ b * (d * f) \in Int \ {0}
    BY <1>1, <1>2, <1>3, RepTimes
<1>5. Times(x, y) \in Fractions /\ Represents(Times(x, y), a * c, b * d)
       /\ a * c \in Int /\ b * d \in Int \ {0}
    BY <1>1, <1>2, RepTimes
<1>6. Times(x, z) \in Fractions /\ Represents(Times(x, z), a * e, b * f)
       /\ a * e \in Int /\ b * f \in Int \ {0}
    BY <1>1, <1>2, RepTimes
<1>7. Plus(Times(x, y), Times(x, z)) \in Fractions /\ Represents(Plus(Times(x, y), Times(x, z)), (a * c) * (b * f) + (a * e) * (b * d), (b * d) * (b * f))
       /\ (a * c) * (b * f) + (a * e) * (b * d) \in Int /\ (b * d) * (b * f) \in Int \ {0}
    BY <1>1, <1>2, <1>5, <1>6, RepPlus
<1>8. (a * (c * f + e * d)) * ((b * d) * (b * f)) = ((a * c) * (b * f) + (a * e) * (b * d)) * (b * (d * f))
    BY <1>1
<1> QED
    BY <1>1, <1>2, <1>3, <1>4, <1>5, <1>6, <1>7, <1>8, RepEqual

\* The sum of a sequence is the last term of any sequence of partial sums.
LEMMA SumIs ==
    ASSUME NEW n \in Nat, NEW w, NEW s, s[0] = Zero,
           \A k \in 1..n : s[k] = Plus(s[k - 1], w[k])
    PROVE  Sum([k \in 1..n |-> w[k]]) = s[n]
<1> DEFINE v == [k \in 1..n |-> w[k]]
           R(t) == t = [k \in 0..n |-> IF k = 0 THEN Zero ELSE Plus(t[k - 1], v[k])]
           t == CHOOSE f : R(f)
           h == [k \in 0..n |-> s[k]]
<1>1. v \in Seq({w[k] : k \in 1..n}) /\ Len(v) = n
    OBVIOUS
<1>2. Sum(v) = t[n]
    <2>1. Sum(v) = (CHOOSE f : f = [k \in 0..Len(v) |-> IF k = 0 THEN Zero ELSE Plus(f[k - 1], v[k])])[Len(v)]
        BY Zenon DEF Sum
    <2> QED BY <1>1, <2>1, Zenon
<1>3. R(h)
    <2>1. \A k \in 0..n : h[k] = IF k = 0 THEN Zero ELSE Plus(h[k - 1], v[k])
       <3>1. ASSUME NEW k \in 0..n, k # 0 PROVE h[k] = Plus(h[k - 1], v[k])
          <4>1. k - 1 \in 0..n /\ k \in 1..n BY <3>1
          <4> QED BY <4>1
       <3>2. h[0] = Zero OBVIOUS
       <3> QED BY <3>1, <3>2
    <2> HIDE DEF v
    <2> QED BY <2>1, Zenon
<1>4. R(t)
    <2> HIDE DEF R
    <2> QED BY <1>3
<1>5. t[n] = s[n]
    <2> DEFINE P == {i \in Nat : i <= n => t[i] = s[i]}
    <2>1. \A k \in 0..n : t[k] = IF k = 0 THEN Zero ELSE Plus(t[k - 1], v[k])
        <3> HIDE DEF t, v
        <3> QED BY <1>4
    <2> HIDE DEF t, R
    <2>2. 0 \in P
        <3>1. 0 \in 0..n OBVIOUS
        <3>2. t[0] = Zero BY <2>1, <3>1
        <3> QED BY <3>2
    <2>3. ASSUME NEW i \in P PROVE i + 1 \in P
        <3>1. CASE i + 1 <= n
          <4>1. i + 1 \in 0..n /\ i + 1 # 0 /\ i + 1 \in 1..n /\ (i + 1) - 1 = i /\ t[i] = s[i] BY <3>1
          <4>2. t[i + 1] = Plus(t[i], v[i + 1]) BY <4>1, <2>1
          <4>3. v[i + 1] = w[i + 1] BY <4>1
          <4> QED BY <4>1, <4>2, <4>3
        <3> QED BY <3>1
    <2>4. P = Nat
        <3>1. P \in SUBSET Nat OBVIOUS
        <3> HIDE DEF P
        <3> QED BY <2>2, <2>3, <3>1, Induction
    <2> QED BY <2>4
<1> QED BY <1>2, <1>5

\* Every sequence has partial sums.
LEMMA SumExists ==
    ASSUME NEW n \in Nat, NEW w
    PROVE  \E s : s[0] = Zero /\ \A k \in 1..n : s[k] = Plus(s[k - 1], w[k])
<1> DEFINE P == {m \in Nat : \E s : s[0] = Zero /\ \A k \in 1..m : s[k] = Plus(s[k - 1], w[k])}
<1>1. 0 \in P
    <2> DEFINE s == [k \in 0..0 |-> Zero]
    <2>1. s[0] = Zero /\ \A k \in 1..0 : s[k] = Plus(s[k - 1], w[k])
        OBVIOUS
    <2> HIDE DEF s
    <2> QED BY <2>1
<1>2. ASSUME NEW m \in P PROVE m + 1 \in P
    <2>1. PICK s : s[0] = Zero /\ \A k \in 1..m : s[k] = Plus(s[k - 1], w[k])
        OBVIOUS
    <2> DEFINE t == [k \in 0..(m + 1) |-> IF k = m + 1 THEN Plus(s[m], w[m + 1]) ELSE s[k]]
    <2>2. t[0] = Zero
        BY <2>1
    <2>3. ASSUME NEW k \in 1..(m + 1) PROVE t[k] = Plus(t[k - 1], w[k])
        <3>1. CASE k = m + 1
            <4>1. t[k] = Plus(s[m], w[m + 1]) BY <3>1
            <4>2. k - 1 = m /\ t[m] = s[m] BY <3>1
            <4> HIDE DEF t
            <4> QED BY <4>1, <4>2, <3>1
        <3>2. CASE k # m + 1
            <4>1. k \in 1..m /\ k - 1 \in 0..m BY <3>2
            <4>2. t[k] = s[k] /\ t[k - 1] = s[k - 1] BY <4>1, <3>2
            <4> HIDE DEF t
            <4> QED BY <4>1, <4>2, <2>1
        <3> QED BY <3>1, <3>2
    <2> HIDE DEF t
    <2> QED BY <2>2, <2>3
<1>3. P = Nat
    <2>1. P \in SUBSET Nat OBVIOUS
    <2> HIDE DEF P
    <2> QED BY <1>1, <1>2, <2>1, Induction
<1> QED BY <1>3

\* The sum of products over no indices, and one turn of its loop.
LEMMA ProductsStart == ASSUME NEW u, NEW v PROVE SumProducts(u, v, 0) = Zero
<1> DEFINE w == [k \in 1..0 |-> Times(u[k], v[k])]
           s == [k \in 0..0 |-> Zero]
<1>1. s[0] = Zero /\ \A k \in 1..0 : s[k] = Plus(s[k - 1], w[k])
    OBVIOUS
<1>2. Sum([k \in 1..0 |-> w[k]]) = s[0]
    <2> HIDE DEF s, w
    <2> QED BY <1>1, SumIs
<1>3. [k \in 1..0 |-> w[k]] = w
    OBVIOUS
<1> QED BY <1>1, <1>2, <1>3 DEF SumProducts

LEMMA ProductsStep ==
    ASSUME NEW n \in Nat, NEW u, NEW v
    PROVE  SumProducts(u, v, n + 1) = Plus(SumProducts(u, v, n), Times(u[n + 1], v[n + 1]))
<1> DEFINE w == [k \in 1..(n + 1) |-> Times(u[k], v[k])]
<1>1. PICK s : s[0] = Zero /\ \A k \in 1..(n + 1) : s[k] = Plus(s[k - 1], w[k])
    <2> HIDE DEF w
    <2>1. n + 1 \in Nat OBVIOUS
    <2> QED BY <2>1, SumExists
<1>2. Sum([k \in 1..(n + 1) |-> w[k]]) = s[n + 1]
    <2> HIDE DEF w
    <2>1. n + 1 \in Nat OBVIOUS
    <2> QED BY <2>1, <1>1, SumIs
<1>3. Sum([k \in 1..n |-> w[k]]) = s[n]
    <2> HIDE DEF w
    <2>1. \A k \in 1..n : s[k] = Plus(s[k - 1], w[k]) BY <1>1
    <2> QED BY <2>1, <1>1, SumIs
<1>4. [k \in 1..(n + 1) |-> w[k]] = [k \in 1..(n + 1) |-> Times(u[k], v[k])]
    OBVIOUS
<1>5. [k \in 1..n |-> w[k]] = [k \in 1..n |-> Times(u[k], v[k])]
    OBVIOUS
<1>6. s[n + 1] = Plus(s[n], Times(u[n + 1], v[n + 1]))
    <2>1. n + 1 \in 1..(n + 1) /\ (n + 1) - 1 = n /\ w[n + 1] = Times(u[n + 1], v[n + 1]) OBVIOUS
    <2> HIDE DEF w
    <2> QED BY <2>1, <1>1
<1> HIDE DEF w
<1> QED BY <1>2, <1>3, <1>4, <1>5, <1>6 DEF SumProducts

\* A sum depends on its products only.
LEMMA ProductsCongruent ==
    ASSUME NEW n \in Nat, NEW u, NEW v, NEW x, NEW y,
           \A k \in 1..n : Times(u[k], v[k]) = Times(x[k], y[k])
    PROVE  SumProducts(u, v, n) = SumProducts(x, y, n)
<1>1. [k \in 1..n |-> Times(u[k], v[k])] = [k \in 1..n |-> Times(x[k], y[k])]
    OBVIOUS
<1> QED BY <1>1 DEF SumProducts

LEMMA ProductsType ==
    ASSUME NEW n \in Nat, NEW u, NEW v,
           \A k \in 1..n : u[k] \in Fractions /\ v[k] \in Fractions
    PROVE  SumProducts(u, v, n) \in Fractions
<1> DEFINE P == {m \in Nat : m <= n => SumProducts(u, v, m) \in Fractions}
<1>1. 0 \in P
    BY ProductsStart, ZeroOne
<1>2. ASSUME NEW m \in P PROVE m + 1 \in P
    <2>1. SUFFICES ASSUME m + 1 <= n PROVE SumProducts(u, v, m + 1) \in Fractions
        OBVIOUS
    <2>2. SumProducts(u, v, m) \in Fractions /\ m + 1 \in 1..n
        BY <2>1
    <2>3. Times(u[m + 1], v[m + 1]) \in Fractions
        BY <2>2, FractionsClosed
    <2>4. SumProducts(u, v, m + 1) = Plus(SumProducts(u, v, m), Times(u[m + 1], v[m + 1]))
        BY ProductsStep
    <2> QED BY <2>2, <2>3, <2>4, FractionsClosed
<1>3. P = Nat
    <2>1. P \in SUBSET Nat OBVIOUS
    <2> HIDE DEF P
    <2> QED BY <1>1, <1>2, <2>1, Induction
<1> QED BY <1>3

LEMMA ProductsCommute ==
    ASSUME NEW n \in Nat, NEW u, NEW v,
           \A k \in 1..n : u[k] \in Fractions /\ v[k] \in Fractions
    PROVE  SumProducts(u, v, n) = SumProducts(v, u, n)
<1>1. \A k \in 1..n : Times(u[k], v[k]) = Times(v[k], u[k])
    BY TimesCommutes
<1> QED BY <1>1, ProductsCongruent

LEMMA ProductsOfZero ==
    ASSUME NEW n \in Nat, NEW u, NEW v,
           \A k \in 1..n : u[k] = Zero /\ v[k] \in Fractions
    PROVE  SumProducts(u, v, n) = Zero
<1> DEFINE P == {m \in Nat : m <= n => SumProducts(u, v, m) = Zero}
<1>1. 0 \in P
    BY ProductsStart
<1>2. ASSUME NEW m \in P PROVE m + 1 \in P
    <2>1. SUFFICES ASSUME m + 1 <= n PROVE SumProducts(u, v, m + 1) = Zero
        OBVIOUS
    <2>2. SumProducts(u, v, m) = Zero /\ m + 1 \in 1..n
        BY <2>1
    <2>3. u[m + 1] = Zero /\ v[m + 1] \in Fractions
        BY <2>2
    <2>4. Times(Zero, v[m + 1]) = Zero
        BY <2>3, TimesZero, TimesCommutes, ZeroOne
    <2>5. SumProducts(u, v, m + 1) = Plus(SumProducts(u, v, m), Times(u[m + 1], v[m + 1]))
        BY ProductsStep
    <2>6. Plus(Zero, Zero) = Zero
        BY PlusZero, ZeroOne
    <2> QED BY <2>2, <2>3, <2>4, <2>5, <2>6
<1>3. P = Nat
    <2>1. P \in SUBSET Nat OBVIOUS
    <2> HIDE DEF P
    <2> QED BY <1>1, <1>2, <2>1, Induction
<1> QED BY <1>3

LEMMA PlusExchange ==
    ASSUME NEW a \in Fractions, NEW b \in Fractions, NEW c \in Fractions, NEW d \in Fractions
    PROVE  Plus(Plus(a, b), Plus(c, d)) = Plus(Plus(a, c), Plus(b, d))
<1>1. Plus(Plus(a, b), Plus(c, d)) = Plus(a, Plus(b, Plus(c, d)))
    BY FractionsClosed, PlusAssociates
<1>2. Plus(b, Plus(c, d)) = Plus(Plus(b, c), d)
    BY PlusAssociates
<1>3. Plus(Plus(b, c), d) = Plus(Plus(c, b), d)
    BY PlusCommutes
<1>4. Plus(Plus(c, b), d) = Plus(c, Plus(b, d))
    BY PlusAssociates
<1>5. Plus(a, Plus(c, Plus(b, d))) = Plus(Plus(a, c), Plus(b, d))
    BY FractionsClosed, PlusAssociates
<1> QED BY <1>1, <1>2, <1>3, <1>4, <1>5

\* Sums of products are linear in each vector.
LEMMA ProductsAdd ==
    ASSUME NEW n \in Nat, NEW u, NEW w, NEW x, NEW v,
           \A k \in 1..n : /\ u[k] \in Fractions /\ w[k] \in Fractions /\ v[k] \in Fractions
                           /\ x[k] = Plus(u[k], w[k])
    PROVE  SumProducts(x, v, n) = Plus(SumProducts(u, v, n), SumProducts(w, v, n))
<1> DEFINE P == {m \in Nat : m <= n => SumProducts(x, v, m) = Plus(SumProducts(u, v, m), SumProducts(w, v, m))}
<1>1. 0 \in P
    BY ProductsStart, ZeroOne, PlusZero
<1>2. ASSUME NEW m \in P PROVE m + 1 \in P
    <2>1. SUFFICES ASSUME m + 1 <= n
          PROVE SumProducts(x, v, m + 1) = Plus(SumProducts(u, v, m + 1), SumProducts(w, v, m + 1))
        OBVIOUS
    <2> DEFINE j == m + 1
    <2>2. SumProducts(x, v, m) = Plus(SumProducts(u, v, m), SumProducts(w, v, m)) /\ j \in 1..n
        BY <2>1
    <2>3. /\ SumProducts(x, v, j) = Plus(SumProducts(x, v, m), Times(x[j], v[j]))
          /\ SumProducts(u, v, j) = Plus(SumProducts(u, v, m), Times(u[j], v[j]))
          /\ SumProducts(w, v, j) = Plus(SumProducts(w, v, m), Times(w[j], v[j]))
        BY ProductsStep
    <2>4. SumProducts(u, v, m) \in Fractions /\ SumProducts(w, v, m) \in Fractions
        <3>1. \A k \in 1..m : k \in 1..n BY <2>1
        <3> QED BY <3>1, ProductsType
    <2> HIDE DEF j
    <2>5. /\ u[j] \in Fractions /\ w[j] \in Fractions /\ v[j] \in Fractions
          /\ x[j] = Plus(u[j], w[j])
        BY <2>2
    <2>6. Times(x[j], v[j]) = Plus(Times(u[j], v[j]), Times(w[j], v[j]))
        <3>1. Times(Plus(u[j], w[j]), v[j]) = Times(v[j], Plus(u[j], w[j]))
            BY ONLY <2>5, FractionsClosed, TimesCommutes
        <3>2. Times(v[j], Plus(u[j], w[j])) = Plus(Times(v[j], u[j]), Times(v[j], w[j]))
            BY ONLY <2>5, TimesPlus
        <3>3. Times(v[j], u[j]) = Times(u[j], v[j]) /\ Times(v[j], w[j]) = Times(w[j], v[j])
            BY ONLY <2>5, TimesCommutes
        <3> QED
            BY ONLY <2>5, <3>1, <3>2, <3>3
    <2>7. Times(u[j], v[j]) \in Fractions /\ Times(w[j], v[j]) \in Fractions
        BY <2>5, FractionsClosed
    <2>8. SumProducts(x, v, j) = Plus(SumProducts(u, v, j), SumProducts(w, v, j))
        BY <2>2, <2>3, <2>4, <2>6, <2>7, PlusExchange
    <2> QED BY <2>8 DEF j
<1>3. P = Nat
    <2>1. P \in SUBSET Nat OBVIOUS
    <2> HIDE DEF P
    <2> QED BY <1>1, <1>2, <2>1, Induction
<1> QED BY <1>3

LEMMA ProductsScale ==
    ASSUME NEW n \in Nat, NEW c \in Fractions, NEW u, NEW x, NEW v,
           \A k \in 1..n : /\ u[k] \in Fractions /\ v[k] \in Fractions
                           /\ x[k] = Times(c, u[k])
    PROVE  SumProducts(x, v, n) = Times(c, SumProducts(u, v, n))
<1> DEFINE P == {m \in Nat : m <= n => SumProducts(x, v, m) = Times(c, SumProducts(u, v, m))}
<1>1. 0 \in P
    BY ProductsStart, TimesZero
<1>2. ASSUME NEW m \in P PROVE m + 1 \in P
    <2>1. SUFFICES ASSUME m + 1 <= n
          PROVE SumProducts(x, v, m + 1) = Times(c, SumProducts(u, v, m + 1))
        OBVIOUS
    <2> DEFINE j == m + 1
    <2>2. SumProducts(x, v, m) = Times(c, SumProducts(u, v, m)) /\ j \in 1..n
        BY <2>1
    <2>3. /\ SumProducts(x, v, j) = Plus(SumProducts(x, v, m), Times(x[j], v[j]))
          /\ SumProducts(u, v, j) = Plus(SumProducts(u, v, m), Times(u[j], v[j]))
        BY ProductsStep
    <2>4. SumProducts(u, v, m) \in Fractions
        <3>1. \A k \in 1..m : k \in 1..n BY <2>1
        <3> QED BY <3>1, ProductsType
    <2> HIDE DEF j
    <2>5. u[j] \in Fractions /\ v[j] \in Fractions /\ x[j] = Times(c, u[j])
        BY <2>2
    <2>6. Times(x[j], v[j]) = Times(c, Times(u[j], v[j])) /\ Times(u[j], v[j]) \in Fractions
        <3>1. Times(Times(c, u[j]), v[j]) = Times(c, Times(u[j], v[j]))
            BY <2>5, TimesAssociates
        <3>2. Times(u[j], v[j]) \in Fractions
            BY <2>5, FractionsClosed
        <3> QED
            BY <2>5, <3>1, <3>2
    <2>7. Times(c, Plus(SumProducts(u, v, m), Times(u[j], v[j])))
            = Plus(Times(c, SumProducts(u, v, m)), Times(c, Times(u[j], v[j])))
        BY <2>4, <2>6, TimesPlus
    <2>8. SumProducts(x, v, j) = Times(c, SumProducts(u, v, j))
        BY <2>2, <2>3, <2>6, <2>7
    <2> QED BY <2>8 DEF j
<1>3. P = Nat
    <2>1. P \in SUBSET Nat OBVIOUS
    <2> HIDE DEF P
    <2> QED BY <1>1, <1>2, <2>1, Induction
<1> QED BY <1>3

Vector(v, n)    == \A k \in 1..n : v[k] \in Fractions
Matrix(M, m, n) == \A i \in 1..m : Vector(M[i], n)
Transposes(C, M, m, n) == \A i \in 1..m : \A j \in 1..n : C[j][i] = M[i][j]
Applies(v, M, b, m, n) == \A i \in 1..m : v[i] = SumProducts(M[i], b, n)

\* y . (M b) = (y M) . b: the two sums can be interchanged.
LEMMA ProductsAssociate ==
    ASSUME NEW m \in Nat, NEW n \in Nat, NEW M, NEW C, NEW y, NEW b, NEW v, NEW w,
           Matrix(M, m, n), Transposes(C, M, m, n), Vector(y, m), Vector(b, n),
           Applies(v, M, b, m, n), Applies(w, C, y, n, m)
    PROVE  SumProducts(y, v, m) = SumProducts(w, b, n)
<1> USE DEF Vector, Matrix, Transposes, Applies
<1> DEFINE Mb(k) == [i \in 1..k |-> SumProducts(M[i], b, n)]
           yM(k) == [j \in 1..n |-> SumProducts(y, [i \in 1..k |-> M[i][j]], k)]
           P == {k \in Nat : k <= m => SumProducts(y, Mb(k), k) = SumProducts(yM(k), b, n)}
<1>1. 0 \in P
    <2>1. SumProducts(y, Mb(0), 0) = Zero
        BY ProductsStart
    <2>2. \A j \in 1..n : yM(0)[j] = Zero
        BY ProductsStart
    <2>3. SumProducts(yM(0), b, n) = Zero
        <3> HIDE DEF yM
        <3> QED BY <2>2, ProductsOfZero
    <2> QED BY <2>1, <2>3
<1>2. ASSUME NEW k \in P PROVE k + 1 \in P
    <2>1. SUFFICES ASSUME k + 1 <= m PROVE SumProducts(y, Mb(k + 1), k + 1) = SumProducts(yM(k + 1), b, n)
        OBVIOUS
    <2>2. k \in Nat /\ k + 1 \in 1..m /\ SumProducts(y, Mb(k), k) = SumProducts(yM(k), b, n)
        BY <2>1
    <2>3. SumProducts(y, Mb(k + 1), k + 1) = Plus(SumProducts(y, Mb(k + 1), k), Times(y[k + 1], Mb(k + 1)[k + 1]))
        <3> HIDE DEF Mb
        <3> QED BY <2>2, ProductsStep
    <2>4. SumProducts(y, Mb(k + 1), k) = SumProducts(y, Mb(k), k)
        <3>1. \A i \in 1..k : Mb(k + 1)[i] = Mb(k)[i]
            BY <2>2
        <3> HIDE DEF Mb
        <3> QED BY <3>1, <2>2, ProductsCongruent
    <2>5. Mb(k + 1)[k + 1] = SumProducts(M[k + 1], b, n)
        BY <2>2
    <2> DEFINE row == [j \in 1..n |-> Times(y[k + 1], M[k + 1][j])]
    <2>6. SumProducts(row, b, n) = Times(y[k + 1], SumProducts(M[k + 1], b, n))
        <3>1. y[k + 1] \in Fractions /\ \A j \in 1..n : M[k + 1][j] \in Fractions
            BY <2>2
        <3>2. \A j \in 1..n : row[j] = Times(y[k + 1], M[k + 1][j])
            OBVIOUS
        <3> HIDE DEF row
        <3> QED BY <3>1, <3>2, ProductsScale
    <2>7. \A j \in 1..n : /\ yM(k)[j] \in Fractions /\ row[j] \in Fractions
                          /\ yM(k + 1)[j] = Plus(yM(k)[j], row[j])
        <3> SUFFICES ASSUME NEW j \in 1..n
                     PROVE  /\ yM(k)[j] \in Fractions /\ row[j] \in Fractions
                            /\ yM(k + 1)[j] = Plus(yM(k)[j], row[j])
            OBVIOUS
        <3> DEFINE col(l) == [i \in 1..l |-> M[i][j]]
        <3>1. yM(k)[j] = SumProducts(y, col(k), k) /\ yM(k + 1)[j] = SumProducts(y, col(k + 1), k + 1)
              /\ row[j] = Times(y[k + 1], M[k + 1][j])
            OBVIOUS
        <3>2. \A i \in 1..k : i \in 1..m /\ col(k)[i] = M[i][j] /\ col(k + 1)[i] = M[i][j]
            BY <2>2
        <3>3. col(k + 1)[k + 1] = M[k + 1][j]
            BY <2>2
        <3>4. y[k + 1] \in Fractions /\ M[k + 1][j] \in Fractions
            BY <2>2
        <3> HIDE DEF col, yM, row
        <3>5. SumProducts(y, col(k + 1), k + 1) = Plus(SumProducts(y, col(k + 1), k), Times(y[k + 1], col(k + 1)[k + 1]))
            BY <2>2, ProductsStep
        <3>6. SumProducts(y, col(k + 1), k) = SumProducts(y, col(k), k)
            BY <2>2, <3>2, ProductsCongruent
        <3>7. SumProducts(y, col(k), k) \in Fractions
            <4>1. \A i \in 1..k : y[i] \in Fractions /\ col(k)[i] \in Fractions
                BY <3>2
            <4> QED BY <4>1, <2>2, ProductsType
        <3>8. Times(y[k + 1], M[k + 1][j]) \in Fractions
            BY <3>4, FractionsClosed
        <3> QED BY <3>1, <3>3, <3>5, <3>6, <3>7, <3>8
    <2>8. SumProducts(yM(k + 1), b, n) = Plus(SumProducts(yM(k), b, n), SumProducts(row, b, n))
        <3> HIDE DEF yM, row
        <3> QED BY <2>7, ProductsAdd
    <2> HIDE DEF Mb, yM, row
    <2> QED BY <2>2, <2>3, <2>4, <2>5, <2>6, <2>8
<1>3. P = Nat
    <2>1. P \in SUBSET Nat OBVIOUS
    <2> HIDE DEF P
    <2> QED BY <1>1, <1>2, <2>1, Induction
<1>4. SumProducts(y, Mb(m), m) = SumProducts(yM(m), b, n)
    <2> HIDE DEF Mb, yM
    <2> QED BY <1>3
<1>5. SumProducts(y, v, m) = SumProducts(y, Mb(m), m)
    <2>1. \A i \in 1..m : v[i] = Mb(m)[i] OBVIOUS
    <2> HIDE DEF Mb
    <2> QED BY <2>1, ProductsCongruent
<1>6. \A j \in 1..n : w[j] = yM(m)[j]
    <2> SUFFICES ASSUME NEW j \in 1..n PROVE w[j] = yM(m)[j]
        OBVIOUS
    <2> DEFINE col == [i \in 1..m |-> M[i][j]]
    <2>1. \A i \in 1..m : col[i] = C[j][i] OBVIOUS
    <2>2. yM(m)[j] = SumProducts(y, col, m) OBVIOUS
    <2>3. w[j] = SumProducts(C[j], y, m) OBVIOUS
    <2>4. \A i \in 1..m : C[j][i] \in Fractions /\ y[i] \in Fractions OBVIOUS
    <2> HIDE DEF col, yM
    <2>5. w[j] = SumProducts(y, C[j], m) BY <2>3, <2>4, ProductsCommute
    <2> QED BY <2>1, <2>2, <2>5, ProductsCongruent
<1>7. SumProducts(w, b, n) = SumProducts(yM(m), b, n)
    <2> HIDE DEF yM
    <2> QED BY <1>6, ProductsCongruent
<1> QED BY <1>4, <1>5, <1>7

----------------------------------------------------------------------------
(* The operators of LinearAlgebra on rectangular matrices.                 *)

LEMMA Retyped ==
    ASSUME NEW S, NEW T, NEW v \in Seq(S), \A k \in 1..Len(v) : v[k] \in T
    PROVE  v \in Seq(T)
<1>1. v \in [1..Len(v) -> T] /\ Len(v) \in Nat
    OBVIOUS
<1> QED
    BY <1>1

Rectangular(M) == M \in Seq(Seq(Fractions)) /\ \A i \in 1..Len(M) : Len(M[i]) = columns(M)

LEMMA Shape ==
    ASSUME NEW M, Rectangular(M)
    PROVE  /\ Len(M) \in Nat /\ columns(M) \in Nat
           /\ Matrix(M, Len(M), columns(M))
           /\ Transposes(transpose(M), M, Len(M), columns(M))
<1>1. M \in Seq(Seq(Fractions)) /\ Len(M) \in Nat
    BY DEF Rectangular
<1>2. columns(M) \in Nat
    <2>1. CASE M = <<>>
        BY <2>1 DEF columns
    <2>2. CASE M # <<>>
        <3>1. M[1] \in Seq(Fractions)
            BY <1>1, <2>2
        <3> QED
            BY <2>2, <3>1 DEF columns
    <2> QED
        BY <2>1, <2>2
<1>3. Matrix(M, Len(M), columns(M))
    <2> SUFFICES ASSUME NEW i \in 1..Len(M), NEW j \in 1..columns(M) PROVE M[i][j] \in Fractions
        BY DEF Matrix, Vector
    <2>1. M[i] \in Seq(Fractions) /\ Len(M[i]) = columns(M)
        BY <1>1 DEF Rectangular
    <2> QED
        BY <2>1
<1>4. Transposes(transpose(M), M, Len(M), columns(M))
    BY DEF Transposes, transpose
<1> QED
    BY <1>1, <1>2, <1>3, <1>4

\* y D = 0 is the same question as D^T y = 0, which the checkers ask.
LEMMA SeparatorForms ==
    ASSUME NEW M, Rectangular(M), NEW y, Vector(y, Len(M)), Len(y) = Len(M)
    PROVE  /\ is_zero(row_vec_mat(y, M)) <=> is_zero(mat_vec(transpose(M), y))
           /\ is_zero(row_vec_mat(y, M))
                <=> \A j \in 1..columns(M) : SumProducts(transpose(M)[j], y, Len(M)) = Zero
<1> DEFINE m == Len(M)
           n == columns(M)
           C == transpose(M)
<1>1. m \in Nat /\ n \in Nat /\ Matrix(M, m, n) /\ Transposes(C, M, m, n)
    BY Shape
<1>2. Len(C) = n
    BY <1>1 DEF transpose
<1> HIDE DEF C, m, n
<1>3. ASSUME NEW j \in 1..n
      PROVE  SumProducts(y, C[j], m) = SumProducts(C[j], y, m)
    <2>1. \A i \in 1..m : y[i] \in Fractions /\ C[j][i] \in Fractions
        BY <1>1 DEF Vector, Matrix, Transposes, m
    <2> QED
        BY <1>1, <2>1, ProductsCommute
<1>4. is_zero(row_vec_mat(y, M)) <=> \A j \in 1..n : SumProducts(y, C[j], m) = Zero
    BY <1>1 DEF is_zero, row_vec_mat, m, n, C
<1>5. is_zero(mat_vec(C, y)) <=> \A j \in 1..n : SumProducts(C[j], y, m) = Zero
    BY <1>1, <1>2 DEF is_zero, mat_vec, m
<1> QED
    BY <1>3, <1>4, <1>5 DEF m, n, C

(***************************************************************************)
(* A separator rules every repair out: if y kills each column of D and     *)
(* y . r is not zero, no vector of fractions solves D b = r. This is what  *)
(* a certificate with result "separator" stands on, for every problem.     *)
(***************************************************************************)
THEOREM SeparatorRefutes ==
    ASSUME NEW D, Rectangular(D), NEW r, Len(r) = Len(D),
           NEW y, Vector(y, Len(D)), Len(y) = Len(D),
           is_zero(row_vec_mat(y, D)), dot(y, r) # Zero,
           NEW b, Vector(b, columns(D)), Len(b) = columns(D)
    PROVE  mat_vec(D, b) # r
<1> SUFFICES ASSUME mat_vec(D, b) = r PROVE FALSE
    OBVIOUS
<1> DEFINE m == Len(D)
           n == columns(D)
           C == transpose(D)
           z == [j \in 1..n |-> SumProducts(C[j], y, m)]
<1>1. m \in Nat /\ n \in Nat /\ Matrix(D, m, n) /\ Transposes(C, D, m, n)
    BY Shape
<1>2. Applies(r, D, b, m, n)
    BY DEF Applies, mat_vec
<1>3. \A j \in 1..n : z[j] = Zero
    BY SeparatorForms
<1>4. Applies(z, C, y, n, m)
    BY DEF Applies
<1>5. SumProducts(y, r, m) = dot(y, r)
    BY <1>1 DEF dot
<1> HIDE DEF m, n, C, z
<1>6. Vector(y, m) /\ Vector(b, n)
    BY DEF m, n
<1>7. SumProducts(y, r, m) = SumProducts(z, b, n)
    BY <1>1, <1>2, <1>4, <1>6, ProductsAssociate
<1>8. SumProducts(z, b, n) = Zero
    BY <1>1, <1>3, <1>6, ProductsOfZero DEF Vector
<1> QED
    BY <1>5, <1>7, <1>8

----------------------------------------------------------------------------
(* What elimination needs of rationals and of sums of products.           *)

MinusOne == <<-1, 1>>

LEMMA MinusOneIs ==
    /\ MinusOne \in Fractions
    /\ \A x \in Fractions : /\ Minus(Zero, x) = Times(MinusOne, x)
                            /\ Plus(Times(MinusOne, x), x) = Zero
<1>1. MinusOne \in Fractions
    <2>1. gcd[<<1, 1>>] = 1
        BY ZeroOne DEF Fractions, IsFraction, One, Magnitude
    <2> QED
        BY <2>1 DEF MinusOne, Fractions, IsFraction, Magnitude
<1>2. ASSUME NEW x \in Fractions
      PROVE  /\ Minus(Zero, x) = Times(MinusOne, x)
             /\ Plus(Times(MinusOne, x), x) = Zero
    <2> DEFINE a == x[1]
               b == x[2]
    <2>1. a \in Int /\ b \in Int \ {0} /\ Represents(x, a, b)
        BY FractionParts, RepSelf
    <2>2. Represents(Zero, 0, 1) /\ Represents(MinusOne, -1, 1) /\ Zero \in Fractions
        BY ZeroOne DEF Represents, Zero, MinusOne
    <2> HIDE DEF a, b
    <2>3. Minus(Zero, x) \in Fractions /\ Represents(Minus(Zero, x), 0 * b - a * 1, 1 * b)
        BY <2>1, <2>2, RepMinus
    <2>4. Times(MinusOne, x) \in Fractions /\ Represents(Times(MinusOne, x), (-1) * a, 1 * b)
        BY <1>1, <2>1, <2>2, RepTimes
    <2>5. Minus(Zero, x) = Times(MinusOne, x)
        <3>1. 0 * b - a * 1 \in Int /\ 1 * b \in Int \ {0} /\ (-1) * a \in Int
              /\ (0 * b - a * 1) * (1 * b) = ((-1) * a) * (1 * b)
            BY <2>1
        <3> QED
            BY <2>3, <2>4, <3>1, RepEqual
    <2> QED
        BY <2>2, <2>5, PlusMinus
<1> QED
    BY <1>1, <1>2

LEMMA MinusIs ==
    ASSUME NEW x \in Fractions, NEW y \in Fractions
    PROVE  Minus(x, y) = Plus(x, Times(MinusOne, y)) /\ Minus(x, Zero) = x
<1> DEFINE z == Times(MinusOne, y)
<1>1. z \in Fractions /\ Plus(z, y) = Zero
    BY MinusOneIs, FractionsClosed
<1> HIDE DEF z
<1>2. Plus(Plus(x, z), y) = x
    BY <1>1, PlusAssociates, PlusZero
<1>3. Minus(Plus(Plus(x, z), y), y) = Plus(x, z)
    BY <1>1, FractionsClosed, MinusPlus
<1>4. Minus(Plus(x, Zero), Zero) = x
    BY ZeroOne, MinusPlus
<1> QED
    BY <1>2, <1>3, <1>4, PlusZero DEF z

LEMMA OverIs ==
    ASSUME NEW x \in Fractions, NEW y \in Fractions, y # Zero
    PROVE  /\ Over(x, y) \in Fractions
           /\ Times(y, Over(x, y)) = x
           /\ Over(x, y) = Times(Over(One, y), x)
<1> DEFINE a == x[1]
           b == x[2]
           c == y[1]
           d == y[2]
<1>1. a \in Int /\ b \in Int \ {0} /\ Represents(x, a, b)
      /\ c \in Int \ {0} /\ d \in Int \ {0} /\ Represents(y, c, d)
    BY FractionParts, RepSelf, RepOver
<1>2. Over(x, y) \in Fractions /\ Represents(Over(x, y), a * d, b * c)
    BY RepOver
<1>3. One \in Fractions /\ One[1] = 1 /\ One[2] = 1
    BY ZeroOne DEF One
<1>4. Over(One, y) \in Fractions /\ Represents(Over(One, y), 1 * d, 1 * c)
    BY <1>3, RepOver
<1> HIDE DEF a, b, c, d
<1>5. Times(y, Over(x, y)) = x
    <2>1. a * d \in Int /\ b * c \in Int \ {0}
        BY <1>1
    <2>2. Times(y, Over(x, y)) \in Fractions
          /\ Represents(Times(y, Over(x, y)), c * (a * d), d * (b * c))
        BY <1>1, <1>2, <2>1, RepTimes
    <2>3. c * (a * d) \in Int /\ d * (b * c) \in Int \ {0} /\ (c * (a * d)) * b = a * (d * (b * c))
        BY <1>1
    <2> QED
        BY <1>1, <2>2, <2>3, RepEqual
<1>6. Over(x, y) = Times(Over(One, y), x)
    <2>1. 1 * d \in Int /\ 1 * c \in Int \ {0} /\ a * d \in Int /\ b * c \in Int \ {0}
        BY <1>1
    <2>2. Times(Over(One, y), x) \in Fractions
          /\ Represents(Times(Over(One, y), x), (1 * d) * a, (1 * c) * b)
        BY <1>1, <1>4, <2>1, RepTimes
    <2>3. (1 * d) * a \in Int /\ (1 * c) * b \in Int \ {0} /\ (a * d) * ((1 * c) * b) = ((1 * d) * a) * (b * c)
        BY <1>1
    <2> QED
        BY <1>2, <2>1, <2>2, <2>3, RepEqual
<1> QED
    BY <1>2, <1>5, <1>6

LEMMA OverSelf ==
    ASSUME NEW y \in Fractions, y # Zero
    PROVE  Over(y, y) = One /\ Over(Zero, y) = Zero /\ Over(One, y) \in Fractions
<1>1. Over(One, y) \in Fractions /\ Times(y, Over(One, y)) = One
    BY ZeroOne, OverIs
<1>2. Over(y, y) = Times(Over(One, y), y) /\ Over(Zero, y) = Times(Over(One, y), Zero)
    BY ZeroOne, OverIs
<1> QED
    BY <1>1, <1>2, TimesCommutes, TimesZero

\* A row plus a multiple of another, and less it.
LEMMA ProductsMore ==
    ASSUME NEW n \in Nat, NEW c \in Fractions, NEW u, NEW w, NEW x, NEW v,
           \A k \in 1..n : /\ u[k] \in Fractions /\ w[k] \in Fractions /\ v[k] \in Fractions
                           /\ x[k] = Plus(u[k], Times(c, w[k]))
    PROVE  SumProducts(x, v, n) = Plus(SumProducts(u, v, n), Times(c, SumProducts(w, v, n)))
<1> DEFINE t == [k \in 1..n |-> Times(c, w[k])]
<1>1. \A k \in 1..n : t[k] = Times(c, w[k]) /\ t[k] \in Fractions
    BY FractionsClosed
<1> HIDE DEF t
<1>2. SumProducts(t, v, n) = Times(c, SumProducts(w, v, n))
    BY <1>1, ProductsScale
<1>3. SumProducts(x, v, n) = Plus(SumProducts(u, v, n), SumProducts(t, v, n))
    BY <1>1, ProductsAdd
<1> QED
    BY <1>2, <1>3

LEMMA ProductsLess ==
    ASSUME NEW n \in Nat, NEW c \in Fractions, NEW u, NEW w, NEW x, NEW v,
           \A k \in 1..n : /\ u[k] \in Fractions /\ w[k] \in Fractions /\ v[k] \in Fractions
                           /\ x[k] = Minus(u[k], Times(c, w[k]))
    PROVE  SumProducts(x, v, n) = Minus(SumProducts(u, v, n), Times(c, SumProducts(w, v, n)))
<1> DEFINE t == [k \in 1..n |-> Times(c, w[k])]
           d == Times(c, SumProducts(w, v, n))
<1>1. \A k \in 1..n : t[k] = Times(c, w[k]) /\ t[k] \in Fractions
    BY FractionsClosed
<1>2. SumProducts(w, v, n) \in Fractions /\ SumProducts(u, v, n) \in Fractions
    BY ProductsType
<1>3. d \in Fractions
    BY <1>2, FractionsClosed
<1> HIDE DEF t
<1>4. SumProducts(t, v, n) = d
    BY <1>1, ProductsScale
<1> HIDE DEF d
<1>5. \A k \in 1..n : x[k] = Plus(u[k], Times(MinusOne, t[k]))
    BY <1>1, MinusIs
<1>6. SumProducts(x, v, n) = Plus(SumProducts(u, v, n), Times(MinusOne, SumProducts(t, v, n)))
    BY <1>1, <1>5, MinusOneIs, ProductsMore
<1> QED
    BY <1>2, <1>3, <1>4, <1>6, MinusIs DEF d

\* A sum with one product that is not zero.
LEMMA ProductsSingle ==
    ASSUME NEW n \in Nat, NEW u, NEW v, NEW j \in 1..n,
           u[j] \in Fractions, v[j] \in Fractions,
           \A k \in 1..n : k # j => Times(u[k], v[k]) = Zero
    PROVE  SumProducts(u, v, n) = Times(u[j], v[j])
<1> DEFINE P == {m \in Nat : m <= n => SumProducts(u, v, m) = IF j <= m THEN Times(u[j], v[j]) ELSE Zero}
<1>1. 0 \in P
    BY ProductsStart
<1>2. ASSUME NEW m \in P PROVE m + 1 \in P
    <2>1. SUFFICES ASSUME m + 1 <= n
          PROVE SumProducts(u, v, m + 1) = IF j <= m + 1 THEN Times(u[j], v[j]) ELSE Zero
        OBVIOUS
    <2>2. SumProducts(u, v, m) = (IF j <= m THEN Times(u[j], v[j]) ELSE Zero) /\ m + 1 \in 1..n
        BY <2>1
    <2>3. SumProducts(u, v, m + 1) = Plus(SumProducts(u, v, m), Times(u[m + 1], v[m + 1]))
        BY ProductsStep
    <2>4. Times(u[j], v[j]) \in Fractions
        BY FractionsClosed
    <2>5. CASE m + 1 = j
        <3>1. SumProducts(u, v, m + 1) = Plus(Zero, Times(u[j], v[j]))
            BY <2>2, <2>3, <2>5
        <3> QED
            BY <2>4, <2>5, <3>1, ZeroOne, PlusCommutes, PlusZero
    <2>6. CASE m + 1 # j
        <3>1. Times(u[m + 1], v[m + 1]) = Zero
            BY <2>2, <2>6
        <3>2. SumProducts(u, v, m) \in Fractions
            BY <2>2, <2>4, ZeroOne
        <3>3. SumProducts(u, v, m + 1) = SumProducts(u, v, m)
            BY <2>3, <3>1, <3>2, PlusZero
        <3>4. j <= m + 1 <=> j <= m
            BY <2>6
        <3> QED
            BY <2>2, <3>3, <3>4
    <2> QED
        BY <2>5, <2>6
<1>3. P = Nat
    <2>1. P \in SUBSET Nat OBVIOUS
    <2> HIDE DEF P
    <2> QED BY <1>1, <1>2, <2>1, Induction
<1> QED BY <1>3

----------------------------------------------------------------------------
(* One turn of Gauss-Jordan elimination. A space of rows is closed under   *)
(* the operations on rows; a turn neither leaves such a space nor enters   *)
(* it, which is all that is needed of what solves a system, and of what    *)
(* the identity block records.                                             *)

FractionRow(W) == [1..W -> Fractions]

Scaled(c, u, W)   == [k \in 1..W |-> Times(c, u[k])]
Added(u, c, w, W) == [k \in 1..W |-> Plus(u[k], Times(c, w[k]))]
Less(u, c, w, W)  == [k \in 1..W |-> Minus(u[k], Times(c, w[k]))]

Space(L, W) ==
    /\ L \subseteq FractionRow(W)
    /\ \A c \in Fractions, u \in L : Scaled(c, u, W) \in L
    /\ \A c \in Fractions, u \in L, w \in L : Added(u, c, w, W) \in L /\ Less(u, c, w, W) \in L

LEMMA RowOps ==
    ASSUME NEW W \in Nat, NEW c \in Fractions, NEW u \in FractionRow(W), NEW w \in FractionRow(W)
    PROVE  /\ Scaled(c, u, W) \in FractionRow(W)
           /\ Added(u, c, w, W) \in FractionRow(W)
           /\ Less(u, c, w, W) \in FractionRow(W)
<1>1. \A k \in 1..W : u[k] \in Fractions /\ w[k] \in Fractions
    BY DEF FractionRow
<1>2. \A k \in 1..W : Times(c, u[k]) \in Fractions /\ Times(c, w[k]) \in Fractions
    BY <1>1, FractionsClosed
<1>3. \A k \in 1..W : Plus(u[k], Times(c, w[k])) \in Fractions /\ Minus(u[k], Times(c, w[k])) \in Fractions
    BY <1>1, <1>2, FractionsClosed
<1> QED
    BY <1>2, <1>3 DEF FractionRow, Scaled, Added, Less

LEMMA ComputedIs == ASSUME NEW S, NEW s \in Seq(S) PROVE Computed(s) = s
    BY DEF Computed

LEMMA RowIsSeq ==
    ASSUME NEW W \in Nat, NEW u \in FractionRow(W)
    PROVE  u \in Seq(Fractions) /\ Len(u) = W /\ DOMAIN u = 1..W
    BY DEF FractionRow

\* The rows before the pivot's is taken off them: two have changed places.
Swapped(rows, top, p) == [rows EXCEPT ![top] = rows[p], ![p] = rows[top]]

\* What one pass with the pivot in row p makes of the rows: it goes to row top.
Turned(rows, old, new, top, p, c, m, W) ==
    /\ new \in [1..m -> FractionRow(W)]
    /\ old \in [1..m -> FractionRow(W)]
    /\ old[top] = rows[p] /\ old[p] = rows[top]
    /\ \A i \in 1..m : i # top /\ i # p => old[i] = rows[i]
    /\ new[top] = Scaled(Over(One, rows[p][c]), rows[p], W)
    /\ \A k \in 1..W : new[top][k] = Over(rows[p][k], rows[p][c])
    /\ \A i \in 1..m : i # top =>
          new[i] = IF old[i][c] = Zero THEN old[i] ELSE Less(old[i], old[i][c], new[top], W)

LEMMA PivotedRows ==
    ASSUME NEW m \in Nat, NEW W \in Nat, NEW rows \in [1..m -> FractionRow(W)],
           NEW top \in 1..m, NEW p \in 1..m, NEW c \in 1..W, rows[p][c] # Zero
    PROVE  Turned(rows, Swapped(rows, top, p), Pivoted(rows, top, p, c), top, p, c, m, W)
<1> DEFINE old   == Swapped(rows, top, p)
           pivot == [k \in 1..W |-> Over(rows[p][k], rows[p][c])]
           less(i) == [k \in 1..W |-> Minus(old[i][k], Times(old[i][c], pivot[k]))]
           new   == [i \in 1..m |-> IF i = top THEN pivot
                                    ELSE IF old[i][c] = Zero THEN old[i] ELSE less(i)]
<1>1. old \in [1..m -> FractionRow(W)] /\ DOMAIN old = 1..m
      /\ old[top] = rows[p] /\ old[p] = rows[top]
      /\ \A i \in 1..m : i # top /\ i # p => old[i] = rows[i]
    BY DEF Swapped
<1>2. rows[p] \in FractionRow(W) /\ rows[p][c] \in Fractions /\ DOMAIN rows[p] = 1..W
    BY DEF FractionRow
<1>3. \A k \in 1..W : rows[p][k] \in Fractions
    BY <1>2 DEF FractionRow
<1>4. pivot = Scaled(Over(One, rows[p][c]), rows[p], W)
    BY <1>2, <1>3, OverIs DEF Scaled
<1>5. pivot \in FractionRow(W)
    BY <1>2, <1>3, OverIs DEF FractionRow
<1>6. Normalised(rows[p], c) = pivot
    <2>1. Computed(pivot) = pivot
        BY <1>5, RowIsSeq, ComputedIs
    <2> QED
        BY <1>2, <2>1 DEF Normalised
<1>7. ASSUME NEW i \in 1..m
      PROVE  /\ less(i) = Less(old[i], old[i][c], pivot, W)
             /\ less(i) \in FractionRow(W)
             /\ Computed(less(i)) = less(i)
    <2>1. old[i] \in FractionRow(W) /\ old[i][c] \in Fractions
        BY <1>1 DEF FractionRow
    <2>2. less(i) = Less(old[i], old[i][c], pivot, W)
        BY DEF Less
    <2> HIDE DEF pivot, old
    <2>3. Less(old[i], old[i][c], pivot, W) \in FractionRow(W)
        BY <1>5, <2>1, RowOps
    <2> HIDE DEF less
    <2> QED
        BY <2>2, <2>3, RowIsSeq, ComputedIs
<1> HIDE DEF old
<1>8. new \in [1..m -> FractionRow(W)]
    <2> HIDE DEF pivot, less
    <2> QED
        BY <1>1, <1>5, <1>7
<1>9. Pivoted(rows, top, p, c) = new
    <2>1. DOMAIN pivot = 1..W
        OBVIOUS
    <2>2. Cleared(old, top, c, pivot)
            = Computed([i \in 1..m |-> IF i = top THEN pivot
                                       ELSE IF old[i][c] = Zero THEN old[i]
                                       ELSE Computed(less(i))])
        BY <1>1, <2>1 DEF Cleared
    <2> HIDE DEF pivot, less
    <2>3. [i \in 1..m |-> IF i = top THEN pivot ELSE IF old[i][c] = Zero THEN old[i]
                          ELSE Computed(less(i))] = new
        BY <1>7
    <2>4. new \in Seq(FractionRow(W))
        <3> HIDE DEF new
        <3> QED BY <1>8
    <2>5. Computed(new) = new
        <3> HIDE DEF new
        <3> QED BY <2>4, ComputedIs
    <2> HIDE DEF new
    <2> QED
        BY <1>6, <2>2, <2>3, <2>5 DEF Pivoted, Swapped, old
<1>10. new[top] = pivot /\ \A i \in 1..m : i # top =>
            new[i] = IF old[i][c] = Zero THEN old[i] ELSE Less(old[i], old[i][c], pivot, W)
    <2> HIDE DEF pivot, less
    <2> QED
        BY <1>7
<1>11. \A k \in 1..W : pivot[k] = Over(rows[p][k], rows[p][c])
    OBVIOUS
<1> HIDE DEF new, pivot, less
<1> QED
    BY <1>1, <1>4, <1>8, <1>9, <1>10, <1>11 DEF old, Turned

\* A turn keeps the rows in every space they are in, and brings none in.
LEMMA PivotedSpace ==
    ASSUME NEW m \in Nat, NEW W \in Nat, NEW rows \in [1..m -> FractionRow(W)],
           NEW top \in 1..m, NEW p \in 1..m, NEW c \in 1..W, rows[p][c] # Zero,
           NEW L, Space(L, W)
    PROVE  (\A i \in 1..m : rows[i] \in L) <=> (\A i \in 1..m : Pivoted(rows, top, p, c)[i] \in L)
<1> DEFINE new == Pivoted(rows, top, p, c)
           old == Swapped(rows, top, p)
<1>0. Turned(rows, old, new, top, p, c, m, W)
    BY PivotedRows
<1> HIDE DEF new, old
<1>1. /\ new \in [1..m -> FractionRow(W)]
      /\ old \in [1..m -> FractionRow(W)]
      /\ old[top] = rows[p] /\ old[p] = rows[top]
      /\ \A i \in 1..m : i # top /\ i # p => old[i] = rows[i]
      /\ new[top] = Scaled(Over(One, rows[p][c]), rows[p], W)
      /\ \A k \in 1..W : new[top][k] = Over(rows[p][k], rows[p][c])
      /\ \A i \in 1..m : i # top =>
            new[i] = IF old[i][c] = Zero THEN old[i] ELSE Less(old[i], old[i][c], new[top], W)
    BY <1>0 DEF Turned
<1>2. \A i \in 1..m : old[i][c] \in Fractions /\ new[i] \in FractionRow(W) /\ old[i] \in FractionRow(W)
    BY <1>1 DEF FractionRow
<1>3. Over(One, rows[p][c]) \in Fractions /\ rows[p][c] \in Fractions /\ rows[p] \in FractionRow(W)
    BY OverSelf DEF FractionRow
<1>4. (\A i \in 1..m : rows[i] \in L) <=> (\A i \in 1..m : old[i] \in L)
    BY <1>1
<1>5. ASSUME \A i \in 1..m : old[i] \in L PROVE \A i \in 1..m : new[i] \in L
    <2>1. new[top] \in L
        BY <1>1, <1>3, <1>5 DEF Space
    <2>2. ASSUME NEW i \in 1..m, i # top PROVE new[i] \in L
        BY <1>1, <1>2, <1>5, <2>1, <2>2 DEF Space
    <2> QED
        BY <2>1, <2>2
<1>6. ASSUME \A i \in 1..m : new[i] \in L PROVE \A i \in 1..m : old[i] \in L
    <2>1. old[top] \in L
        <3>1. Scaled(rows[p][c], new[top], W) \in L
            BY <1>3, <1>6 DEF Space
        <3>2. ASSUME NEW k \in 1..W PROVE Times(rows[p][c], new[top][k]) = rows[p][k]
            <4>1. rows[p][k] \in Fractions
                BY <1>3 DEF FractionRow
            <4> QED
                BY <1>1, <1>3, <4>1, OverIs
        <3>3. Scaled(rows[p][c], new[top], W) = rows[p]
            BY <1>3, <3>2 DEF Scaled, FractionRow
        <3> QED
            BY <1>1, <3>1, <3>3
    <2>2. ASSUME NEW i \in 1..m, i # top PROVE old[i] \in L
        <3>1. CASE old[i][c] = Zero
            BY <1>1, <1>6, <2>2, <3>1
        <3>2. CASE old[i][c] # Zero
            <4>1. Added(new[i], old[i][c], new[top], W) \in L
                BY <1>2, <1>6 DEF Space
            <4>2. new[i] = Less(old[i], old[i][c], new[top], W)
                BY <1>1, <2>2, <3>2
            <4>3. ASSUME NEW k \in 1..W
                  PROVE  Plus(new[i][k], Times(old[i][c], new[top][k])) = old[i][k]
                <5>1. old[i][k] \in Fractions /\ new[top][k] \in Fractions /\ old[i][c] \in Fractions
                    BY <1>2 DEF FractionRow
                <5>2. Times(old[i][c], new[top][k]) \in Fractions
                    BY <5>1, FractionsClosed
                <5>3. new[i][k] = Minus(old[i][k], Times(old[i][c], new[top][k]))
                    BY <4>2 DEF Less
                <5> QED
                    BY <5>1, <5>2, <5>3, PlusMinus
            <4>4. Added(new[i], old[i][c], new[top], W) = old[i]
                BY <1>2, <4>3 DEF Added, FractionRow
            <4> QED
                BY <4>1, <4>4
        <3> QED
            BY <3>1, <3>2
    <2> QED
        BY <2>1, <2>2
<1> QED
    BY <1>4, <1>5, <1>6 DEF new

(***************************************************************************)
(* What the columns 1..c look like behind the loop, in m rows of width W:  *)
(* each pivot column is a unit vector, and the rows without a pivot are    *)
(* zero there.                                                             *)
(***************************************************************************)
Echelon(e, m, W, c) ==
    /\ e.rows \in [1..m -> FractionRow(W)]
    /\ e.pivots \in Seq(1..c)
    /\ Len(e.pivots) <= m
    /\ \A i \in 1..Len(e.pivots), j \in 1..Len(e.pivots) : i < j => e.pivots[i] < e.pivots[j]
    /\ \A i \in 1..Len(e.pivots), j \in 1..m :
          e.rows[j][e.pivots[i]] = IF i = j THEN One ELSE Zero
    /\ \A d \in 1..c, j \in 1..m : j > Len(e.pivots) => e.rows[j][d] = Zero

\* The rows a turn at column c may take its pivot from.
Candidate(e, c) == {i \in (Len(e.pivots) + 1)..Len(e.rows) : e.rows[i][c] # Zero}

LEMMA LeastOf ==
    ASSUME NEW S \in SUBSET Nat, S # {}
    PROVE  (CHOOSE i \in S : \A j \in S : i <= j) \in S
<1>1. \E i \in S : \A j \in S : i <= j
    BY Least
<1> QED
    BY <1>1

\* What a turn at column c does when it finds its pivot in row p.
TurnsOn(e, c, m, p) ==
    /\ p \in 1..m
    /\ p = CHOOSE i \in Candidate(e, c) : \A j \in Candidate(e, c) : i <= j
    /\ p > Len(e.pivots) /\ Len(e.pivots) + 1 \in 1..m
    /\ e.rows[p][c] # Zero
    /\ Eliminate(e, c).rows = Pivoted(e.rows, Len(e.pivots) + 1, p, c)
    /\ Eliminate(e, c).pivots = Append(e.pivots, c)

LEMMA EliminateIs ==
    ASSUME NEW m \in Nat, NEW W \in Nat, NEW c \in Nat, c < W, NEW e, Echelon(e, m, W, c)
    PROVE  /\ Candidate(e, c + 1) = {} => Eliminate(e, c + 1) = e
           /\ Candidate(e, c + 1) # {} => \E p : TurnsOn(e, c + 1, m, p)
<1> DEFINE S == Candidate(e, c + 1)
           p == CHOOSE i \in S : \A j \in S : i <= j
<1>1. e.rows \in [1..m -> FractionRow(W)] /\ Len(e.rows) = m /\ Len(e.pivots) \in Nat
    BY DEF Echelon
<1>2. Eliminate(e, c + 1) =
        IF S = {} THEN e
        ELSE [rows |-> Pivoted(e.rows, Len(e.pivots) + 1, p, c + 1), pivots |-> Append(e.pivots, c + 1)]
    BY DEF Eliminate, Candidate
<1>3. ASSUME S # {} PROVE p \in S
    <2>1. S \in SUBSET Nat
        BY <1>1 DEF Candidate
    <2> HIDE DEF S
    <2> QED
        BY <1>3, <2>1, LeastOf
<1>4. ASSUME NEW i \in S
      PROVE  i \in 1..m /\ i > Len(e.pivots) /\ Len(e.pivots) + 1 \in 1..m /\ e.rows[i][c + 1] # Zero
    BY <1>1 DEF Candidate
<1> HIDE DEF S
<1>5. CASE S = {}
    BY <1>2, <1>5 DEF S
<1>6. CASE S # {}
    <2>1. p \in S
        BY <1>3, <1>6
    <2> HIDE DEF p
    <2>2. /\ Eliminate(e, c + 1).rows = Pivoted(e.rows, Len(e.pivots) + 1, p, c + 1)
          /\ Eliminate(e, c + 1).pivots = Append(e.pivots, c + 1)
        BY <1>2, <1>6
    <2> QED
        BY <1>4, <1>6, <2>1, <2>2 DEF p, S, TurnsOn
<1> QED
    BY <1>5, <1>6

LEMMA EliminateKeeps ==
    ASSUME NEW m \in Nat, NEW W \in Nat, NEW c \in Nat, c < W, NEW e, Echelon(e, m, W, c)
    PROVE  /\ Echelon(Eliminate(e, c + 1), m, W, c + 1)
           /\ \A L : Space(L, W) =>
                ((\A i \in 1..m : e.rows[i] \in L)
                   <=> (\A i \in 1..m : Eliminate(e, c + 1).rows[i] \in L))
<1> DEFINE q == Len(e.pivots)
           d == c + 1
<1>1. /\ e.rows \in [1..m -> FractionRow(W)] /\ Len(e.rows) = m
      /\ e.pivots \in Seq(1..c) /\ q \in Nat /\ q <= m /\ d \in 1..W /\ c + 1 = d
    BY DEF Echelon
<1>2. \A i \in 1..q : e.pivots[i] \in 1..c
    BY <1>1
<1>3. e.pivots \in Seq(1..d)
    BY <1>1, <1>2, Retyped
<1>4. \A i \in 1..q, j \in 1..q : i < j => e.pivots[i] < e.pivots[j]
    BY DEF Echelon
<1>5. \A i \in 1..q, j \in 1..m : e.rows[j][e.pivots[i]] = IF i = j THEN One ELSE Zero
    BY DEF Echelon
<1>6. \A k \in 1..c, j \in 1..m : j > q => e.rows[j][k] = Zero
    BY DEF Echelon
<1>7. CASE Candidate(e, d) = {}
    <2>1. Eliminate(e, d) = e
        BY <1>7, EliminateIs
    <2>2. \A j \in 1..m : j > q => e.rows[j][d] = Zero
        BY <1>1, <1>7 DEF Candidate
    <2>3. \A k \in 1..d, j \in 1..m : j > q => e.rows[j][k] = Zero
        <3>1. \A k \in 1..d : k \in 1..c \/ k = d
            OBVIOUS
        <3> QED
            BY <1>6, <2>2, <3>1
    <2>4. Echelon(e, m, W, d)
        BY <1>1, <1>3, <1>4, <1>5, <2>3 DEF Echelon
    <2> QED
        BY <2>1, <2>4
<1>8. CASE Candidate(e, d) # {}
    <2> DEFINE g == Eliminate(e, d)
    <2>1. PICK p \in 1..m :
            /\ p > q /\ q + 1 \in 1..m /\ e.rows[p][d] # Zero
            /\ g.rows = Pivoted(e.rows, q + 1, p, d) /\ g.pivots = Append(e.pivots, d)
        <3>1. PICK p : TurnsOn(e, d, m, p)
            BY <1>8, EliminateIs
        <3> QED
            BY <3>1 DEF TurnsOn
    <2> DEFINE top == q + 1
    <2>3. top \in 1..m /\ top = q + 1
        BY <2>1
    <2> DEFINE new == Pivoted(e.rows, top, p, d)
               old == Swapped(e.rows, top, p)
    <2> HIDE DEF top
    <2>2. /\ new \in [1..m -> FractionRow(W)]
          /\ old \in [1..m -> FractionRow(W)]
          /\ old[top] = e.rows[p] /\ old[p] = e.rows[top]
          /\ \A i \in 1..m : i # top /\ i # p => old[i] = e.rows[i]
          /\ \A k \in 1..W : new[top][k] = Over(e.rows[p][k], e.rows[p][d])
          /\ \A i \in 1..m : i # top =>
                new[i] = IF old[i][d] = Zero THEN old[i] ELSE Less(old[i], old[i][d], new[top], W)
        <3>1. e.rows[p][d] # Zero /\ d \in 1..W
            BY <1>1, <2>1
        <3> HIDE DEF d
        <3>2. e.rows \in [1..m -> FractionRow(W)] /\ top \in 1..m /\ m \in Nat /\ W \in Nat /\ p \in 1..m
            BY <1>1, <2>3
        <3>3. Turned(e.rows, old, new, top, p, d, m, W)
            BY ONLY <3>1, <3>2, PivotedRows
        <3> HIDE DEF old, new
        <3> QED
            BY ONLY <3>3 DEF Turned
    <2> HIDE DEF new, old
    <2>4. e.rows[p][d] \in Fractions
        BY <1>1 DEF FractionRow
    <2>5. \A i \in 1..m, k \in 1..W : old[i][k] \in Fractions
        BY <2>2 DEF FractionRow
    <2>6. new[top][d] = One
        BY <1>1, <2>1, <2>2, <2>4, OverSelf
    <2>7. ASSUME NEW i \in 1..m, i # top PROVE new[i][d] = Zero
        <3>1. old[i][d] \in Fractions
            BY <1>1, <2>5
        <3>2. CASE old[i][d] # Zero
            <4>1. new[i][d] = Minus(old[i][d], Times(old[i][d], One))
                BY <1>1, <2>2, <2>6, <2>7, <3>2 DEF Less
            <4> QED
                BY <3>1, <4>1, TimesOne, MinusSelf
        <3> QED
            BY <2>2, <2>7, <3>2
    \* A column that the pivot's row does not touch stays as it is.
    <2>8. ASSUME NEW k \in 1..c, e.rows[p][k] = Zero
          PROVE  new[top][k] = Zero /\ \A i \in 1..m : i # top => new[i][k] = old[i][k]
        <3>1. k \in 1..W
            BY <1>1
        <3>2. new[top][k] = Zero
            BY <2>1, <2>2, <2>4, <2>8, <3>1, OverSelf
        <3>3. ASSUME NEW i \in 1..m, i # top PROVE new[i][k] = old[i][k]
            <4>1. old[i][d] \in Fractions /\ old[i][k] \in Fractions
                BY <1>1, <2>5, <3>1
            <4>2. CASE old[i][d] # Zero
                <5>1. new[i][k] = Minus(old[i][k], Times(old[i][d], Zero))
                    BY <2>2, <3>1, <3>2, <3>3, <4>2 DEF Less
                <5> QED
                    BY <4>1, <5>1, TimesZero, MinusIs
            <4> QED
                BY <2>2, <3>3, <4>2
        <3> QED
            BY <3>2, <3>3
    <2>9. \A k \in 1..c : e.rows[p][k] = Zero
        BY <1>6, <2>1
    <2>10. \A k \in 1..c : e.rows[top][k] = Zero
        BY <1>1, <1>6, <2>3
    <2>11. /\ Len(g.pivots) = top /\ g.pivots \in Seq(1..d) /\ g.pivots[top] = d
           /\ \A i \in 1..q : g.pivots[i] = e.pivots[i]
        <3>1. d \in 1..d /\ g.pivots = Append(e.pivots, d)
            BY <1>1, <2>1
        <3> HIDE DEF g, d
        <3> QED
            BY <1>1, <1>3, <2>3, <3>1
    <2>12. \A i \in 1..top, j \in 1..top : i < j => g.pivots[i] < g.pivots[j]
        <3>1. \A i \in 1..top : i \in 1..q \/ i = top
            BY <2>3
        <3>2. \A i \in 1..q : g.pivots[i] \in Int /\ g.pivots[i] < d
            BY <1>1, <1>2, <2>11
        <3> HIDE DEF g, d, q
        <3>3. ASSUME NEW i \in 1..top, NEW j \in 1..top, i < j PROVE g.pivots[i] < g.pivots[j]
            <4>1. i \in 1..q
                BY <1>1, <2>3, <3>3
            <4> QED
                BY <1>4, <2>11, <3>1, <3>2, <3>3, <4>1
        <3> QED
            BY <3>3
    <2>13. ASSUME NEW i \in 1..top, NEW j \in 1..m
           PROVE  new[j][g.pivots[i]] = IF i = j THEN One ELSE Zero
        <3>1. CASE i = top
            BY <2>6, <2>7, <2>11, <3>1
        <3>2. CASE i # top
            <4>1. i \in 1..q /\ g.pivots[i] = e.pivots[i] /\ e.pivots[i] \in 1..c
                BY <1>2, <2>3, <2>11, <3>2, SMTT(30)
            <4> DEFINE k == e.pivots[i]
            <4>2. new[top][k] = Zero /\ \A l \in 1..m : l # top => new[l][k] = old[l][k]
                BY <2>8, <2>9, <4>1
            <4>3. j # top => old[j][k] = IF i = j THEN One ELSE Zero
                <5>1. CASE j = p
                    <6>1. old[p][k] = Zero
                        BY <2>2, <2>10, <4>1
                    <6>2. i # p
                        BY <1>1, <2>1, <4>1
                    <6> QED
                        BY <5>1, <6>1, <6>2
                <5>2. CASE j # p
                    BY <1>5, <2>2, <4>1, <5>2
                <5> QED
                    BY <5>1, <5>2
            <4> QED
                BY <3>2, <4>1, <4>2, <4>3
        <3> QED
            BY <3>1, <3>2
    <2>14. ASSUME NEW k \in 1..d, NEW j \in 1..m, j > top PROVE new[j][k] = Zero
        <3>1. CASE k = d
            BY <2>3, <2>7, <2>14, <3>1
        <3>2. CASE k # d
            <4>1. k \in 1..c
                BY <3>2
            <4>2. new[j][k] = old[j][k]
                BY <2>3, <2>8, <2>9, <2>14, <4>1
            <4>3. old[j][k] = Zero
                <5>1. CASE j = p
                    BY <2>2, <2>10, <4>1, <5>1
                <5>2. CASE j # p
                    <6>1. old[j] = e.rows[j] /\ j > q
                        BY <1>1, <2>2, <2>3, <2>14, <5>2
                    <6> QED
                        BY <1>6, <4>1, <6>1
                <5> QED
                    BY <5>1, <5>2
            <4> QED
                BY <4>2, <4>3
        <3> QED
            BY <3>1, <3>2
    <2>15. g.rows = new /\ top <= m
        BY <2>1, <2>3 DEF new, top
    <2>16. Echelon(g, m, W, d)
        <3> HIDE DEF g
        <3> QED
            BY <2>2, <2>11, <2>12, <2>13, <2>14, <2>15 DEF Echelon
    <2>17. ASSUME NEW L, Space(L, W)
           PROVE  (\A i \in 1..m : e.rows[i] \in L) <=> (\A i \in 1..m : g.rows[i] \in L)
        <3>1. e.rows[p][d] # Zero
            BY <2>1
        <3> HIDE DEF d
        <3>2. (\A i \in 1..m : e.rows[i] \in L) <=> (\A i \in 1..m : new[i] \in L)
            <4>1. e.rows \in [1..m -> FractionRow(W)] /\ d \in 1..W /\ top \in 1..m /\ m \in Nat /\ W \in Nat /\ p \in 1..m
                BY <1>1, <2>3
            <4>2. Space(L, W)
                BY <2>17
            <4>3. (\A i \in 1..m : e.rows[i] \in L) <=> (\A i \in 1..m : Pivoted(e.rows, top, p, d)[i] \in L)
                BY ONLY <4>1, <4>2, <3>1, PivotedSpace
            <4> QED
                BY <4>3 DEF new
        <3> QED
            BY <2>15, <3>2
    <2> QED
        BY <2>16, <2>17
<1> QED
    BY <1>7, <1>8

----------------------------------------------------------------------------
(* What is read off the reduced rows.                                      *)

Units(j, n) == [k \in 1..n |-> IF k = j THEN One ELSE Zero]

LEMMA UnitProducts ==
    ASSUME NEW n \in Nat, NEW j \in 1..n, NEW v, Vector(v, n)
    PROVE  SumProducts(Units(j, n), v, n) = v[j] /\ Vector(Units(j, n), n)
<1>1. Vector(Units(j, n), n)
    BY ZeroOne DEF Vector, Units
<1>2. ASSUME NEW k \in 1..n, k # j PROVE Times(Units(j, n)[k], v[k]) = Zero
    <2>1. v[k] \in Fractions /\ Units(j, n)[k] = Zero
        BY <1>2 DEF Vector, Units
    <2> QED
        BY <2>1, ZeroOne, TimesZero, TimesCommutes
<1>3. Units(j, n)[j] = One /\ v[j] \in Fractions
    BY DEF Vector, Units
<1>4. SumProducts(Units(j, n), v, n) = Times(One, v[j])
    BY <1>2, <1>3, ZeroOne, ProductsSingle
<1> QED
    BY <1>1, <1>3, <1>4, ZeroOne, TimesOne, TimesCommutes

IsPivot(e, c) == \E i \in 1..Len(e.pivots) : e.pivots[i] = c

\* b has the entries of t at the pivots, and zeros elsewhere.
Spread(e, t, b, n) ==
    /\ Vector(b, n)
    /\ \A i \in 1..Len(e.pivots) : b[e.pivots[i]] = t[i]
    /\ \A c \in 1..n : ~IsPivot(e, c) => b[c] = Zero

LEMMA SpreadProducts ==
    ASSUME NEW m \in Nat, NEW W \in Nat, NEW n \in Nat, n <= W, NEW e, Echelon(e, m, W, n),
           NEW t, NEW b, Spread(e, t, b, n), NEW i \in 1..m
    PROVE  SumProducts(e.rows[i], b, n) = IF i <= Len(e.pivots) THEN t[i] ELSE Zero
<1> DEFINE q == Len(e.pivots)
<1>1. e.rows[i] \in FractionRow(W) /\ q \in Nat /\ q <= m
    BY DEF Echelon
<1>2. \A k \in 1..n : e.rows[i][k] \in Fractions /\ b[k] \in Fractions
    BY <1>1 DEF FractionRow, Spread, Vector
<1>3. \A k \in 1..q : e.pivots[k] \in 1..n
    BY DEF Echelon
<1>4. ASSUME NEW k \in 1..n, i <= q => k # e.pivots[i]
      PROVE  Times(e.rows[i][k], b[k]) = Zero
    <2>1. CASE IsPivot(e, k)
        <3>1. PICK l \in 1..q : e.pivots[l] = k
            BY <2>1 DEF IsPivot
        <3>2. e.rows[i][k] = Zero
            BY <1>4, <3>1 DEF Echelon
        <3> QED
            BY <1>2, <3>2, ZeroOne, TimesZero, TimesCommutes
    <2>2. CASE ~IsPivot(e, k)
        BY <1>2, <2>2, TimesZero DEF Spread
    <2> QED
        BY <2>1, <2>2
<1>5. CASE i <= q
    <2>1. i \in 1..q /\ e.pivots[i] \in 1..n
        BY <1>3, <1>5
    <2>2. e.rows[i][e.pivots[i]] = One /\ b[e.pivots[i]] = t[i]
        BY <2>1 DEF Echelon, Spread
    <2>3. SumProducts(e.rows[i], b, n) = Times(e.rows[i][e.pivots[i]], b[e.pivots[i]])
        <3> DEFINE j == e.pivots[i]
                   row == e.rows[i]
        <3>1. j \in 1..n /\ \A k \in 1..n : k # j => Times(row[k], b[k]) = Zero
            BY <1>4, <2>1
        <3>2. row[j] \in Fractions /\ b[j] \in Fractions
            BY <1>2, <3>1
        <3> HIDE DEF j, row
        <3>3. SumProducts(row, b, n) = Times(row[j], b[j])
            BY ONLY <3>1, <3>2, ProductsSingle, n \in Nat
        <3> QED
            BY <3>3 DEF j, row
    <2> QED
        BY <1>2, <1>5, <2>1, <2>2, <2>3, ZeroOne, TimesOne, TimesCommutes
<1>6. CASE ~(i <= q)
    <2>1. \A k \in 1..n : e.rows[i][k] = Zero
        BY <1>1, <1>6 DEF Echelon
    <2> QED
        BY <1>2, <1>6, <2>1, ProductsOfZero
<1> QED
    BY <1>5, <1>6

\* The basis vector of the free column f.
LEMMA BasisVector ==
    ASSUME NEW m \in Nat, NEW W \in Nat, NEW n \in Nat, n <= W, NEW e, Echelon(e, m, W, n),
           NEW f \in 1..n, ~IsPivot(e, f), NEW b,
           Vector(b, n), b[f] = One,
           \A i \in 1..Len(e.pivots) : b[e.pivots[i]] = Times(MinusOne, e.rows[i][f]),
           \A c \in 1..n : ~IsPivot(e, c) /\ c # f => b[c] = Zero,
           NEW i \in 1..m
    PROVE  SumProducts(e.rows[i], b, n) = Zero
<1> DEFINE q == Len(e.pivots)
           t == [k \in 1..q |-> Times(MinusOne, e.rows[k][f])]
           a == [k \in 1..n |-> IF k = f THEN Zero ELSE b[k]]
           row == e.rows[i]
<1>1. e.rows \in [1..m -> FractionRow(W)] /\ q \in Nat /\ q <= m
    BY DEF Echelon
<1>2. Vector(row, n) /\ row[f] \in Fractions
    BY <1>1 DEF FractionRow, Vector
<1>3. Spread(e, t, a, n)
    <2>1. Vector(a, n)
        BY ZeroOne DEF Vector
    <2>2. \A k \in 1..q : e.pivots[k] \in 1..n
        BY DEF Echelon
    <2>3. \A k \in 1..q : e.pivots[k] # f
        BY DEF IsPivot
    <2>4. \A k \in 1..q : a[e.pivots[k]] = t[k]
        BY <2>2, <2>3
    <2>5. \A c \in 1..n : ~IsPivot(e, c) => a[c] = Zero
        OBVIOUS
    <2> HIDE DEF a, t
    <2> QED
        BY <2>1, <2>4, <2>5 DEF Spread
<1>4. \A k \in 1..n : /\ a[k] \in Fractions /\ Units(f, n)[k] \in Fractions /\ row[k] \in Fractions
                      /\ b[k] = Plus(a[k], Times(One, Units(f, n)[k]))
    <2> SUFFICES ASSUME NEW k \in 1..n
                 PROVE  /\ a[k] \in Fractions /\ Units(f, n)[k] \in Fractions /\ row[k] \in Fractions
                        /\ b[k] = Plus(a[k], Times(One, Units(f, n)[k]))
        OBVIOUS
    <2>1. a[k] \in Fractions /\ Units(f, n)[k] \in Fractions /\ row[k] \in Fractions /\ b[k] \in Fractions
        BY <1>2, ZeroOne DEF Units, Vector
    <2>2. CASE k = f
        <3>1. a[k] = Zero /\ Units(f, n)[k] = One /\ Times(One, One) = One /\ Plus(Zero, One) = One
            BY <2>2, ZeroOne, TimesOne, PlusCommutes, PlusZero DEF Units
        <3> QED
            BY <2>1, <2>2, <3>1
    <2>3. CASE k # f
        <3>1. a[k] = b[k] /\ Units(f, n)[k] = Zero /\ Times(One, Zero) = Zero
            BY <2>3, ZeroOne, TimesZero DEF Units
        <3> QED
            BY <2>1, <3>1, PlusZero
    <2> QED
        BY <2>2, <2>3
<1> HIDE DEF a, row
<1>5. SumProducts(b, row, n) = Plus(SumProducts(a, row, n), Times(One, SumProducts(Units(f, n), row, n)))
    BY <1>4, ZeroOne, ProductsMore
<1>6. SumProducts(Units(f, n), row, n) = row[f] /\ Times(One, row[f]) = row[f]
    BY <1>2, UnitProducts, ZeroOne, TimesOne, TimesCommutes
<1>7. SumProducts(a, row, n) = SumProducts(row, a, n) /\ SumProducts(b, row, n) = SumProducts(row, b, n)
    BY <1>2, <1>4, ProductsCommute DEF Vector
<1>8. SumProducts(row, a, n) = IF i <= q THEN t[i] ELSE Zero
    <2> HIDE DEF t
    <2> QED
        BY <1>3, SpreadProducts DEF row
<1>9. CASE i <= q
    <2>1. SumProducts(row, b, n) = Plus(Times(MinusOne, row[f]), row[f])
        BY <1>1, <1>5, <1>6, <1>7, <1>8, <1>9 DEF row
    <2> QED
        BY <1>2, <2>1, MinusOneIs DEF row
<1>10. CASE ~(i <= q)
    <2>1. row[f] = Zero
        BY <1>1, <1>10 DEF Echelon, row
    <2>2. SumProducts(row, b, n) = Plus(Zero, Zero)
        BY <1>5, <1>6, <1>7, <1>8, <1>10, <2>1
    <2> QED
        BY <2>2, ZeroOne, PlusZero DEF row
<1> QED
    BY <1>9, <1>10

\* Whatever the reduced rows kill is a combination of those vectors, with its
\* own entries at the free columns as coefficients: entry c of the combination.
ColumnOf(e, g, c, n) ==
    \A k \in 1..n :
        /\ IsPivot(e, k) => g[k] = Zero
        /\ ~IsPivot(e, k) /\ k = c => g[k] = One
        /\ ~IsPivot(e, k) /\ k # c /\ ~IsPivot(e, c) => g[k] = Zero
        /\ ~IsPivot(e, k) => \A i \in 1..Len(e.pivots) : e.pivots[i] = c => g[k] = Times(MinusOne, e.rows[i][k])

LEMMA BasisSpans ==
    ASSUME NEW m \in Nat, NEW W \in Nat, NEW n \in Nat, n <= W, NEW e, Echelon(e, m, W, n),
           NEW x, Vector(x, n), \A i \in 1..m : SumProducts(e.rows[i], x, n) = Zero,
           NEW g, NEW c \in 1..n, ColumnOf(e, g, c, n)
    PROVE  SumProducts(x, g, n) = x[c]
<1>0. /\ \A k \in 1..n : IsPivot(e, k) => g[k] = Zero
      /\ \A k \in 1..n : ~IsPivot(e, k) =>
           /\ k = c => g[k] = One
           /\ k # c /\ ~IsPivot(e, c) => g[k] = Zero
           /\ \A i \in 1..Len(e.pivots) : e.pivots[i] = c => g[k] = Times(MinusOne, e.rows[i][k])
    BY DEF ColumnOf
<1>1. e.rows \in [1..m -> FractionRow(W)] /\ Len(e.pivots) \in Nat /\ Len(e.pivots) <= m
    BY DEF Echelon
<1>2. \A k \in 1..n : x[k] \in Fractions
    BY DEF Vector
<1>3. CASE ~IsPivot(e, c)
    <2>1. \A k \in 1..n : k # c => g[k] = Zero
        BY <1>0, <1>3
    <2>2. g[c] = One
        BY <1>0, <1>3
    <2>3. SumProducts(x, g, n) = Times(x[c], g[c])
        <3>1. \A k \in 1..n : k # c => Times(x[k], g[k]) = Zero
            BY ONLY <1>2, <2>1, TimesZero
        <3>2. x[c] \in Fractions /\ g[c] \in Fractions
            BY <1>2, <2>2, ZeroOne
        <3> QED
            BY ONLY <3>1, <3>2, ProductsSingle, n \in Nat, c \in 1..n
    <2> QED
        BY <1>2, <2>2, <2>3, TimesOne
<1>4. ASSUME NEW i \in 1..Len(e.pivots), e.pivots[i] = c PROVE SumProducts(x, g, n) = x[c]
    <2> DEFINE row == e.rows[i]
               u   == Units(c, n)
    <2>1. i \in 1..m
        BY <1>1
    <2>2. \A k \in 1..n : row[k] \in Fractions
        BY <1>1, <2>1 DEF FractionRow
    <2>3. Vector(u, n) /\ SumProducts(u, x, n) = x[c]
        BY UnitProducts
    <2>4. ASSUME NEW k \in 1..n PROVE g[k] = Plus(u[k], Times(MinusOne, row[k]))
        <3>1. CASE k = c
            <4>1. IsPivot(e, k) /\ row[k] = One /\ u[k] = One
                BY <1>4, <2>1, <3>1 DEF IsPivot, Echelon, Units
            <4>2. Plus(Times(MinusOne, One), One) = Zero
                BY ZeroOne, MinusOneIs
            <4>3. Plus(One, Times(MinusOne, One)) = Zero
                BY <4>2, ZeroOne, MinusOneIs, FractionsClosed, PlusCommutes
            <4> QED
                BY <1>0, <4>1, <4>3
        <3>2. CASE k # c /\ IsPivot(e, k)
            <4>1. PICK l \in 1..Len(e.pivots) : e.pivots[l] = k
                BY <3>2 DEF IsPivot
            <4>2. row[k] = Zero /\ u[k] = Zero
                BY <1>4, <2>1, <3>2, <4>1 DEF Echelon, Units
            <4>3. Plus(Zero, Times(MinusOne, Zero)) = Zero
                BY ZeroOne, MinusOneIs, TimesZero, PlusZero
            <4> QED
                BY <1>0, <3>2, <4>2, <4>3
        <3>3. CASE ~IsPivot(e, k)
            <4>1. g[k] = Times(MinusOne, row[k])
                BY <1>0, <1>4, <3>3
            <4>2. k # c
                BY <1>4, <3>3 DEF IsPivot
            <4>3. u[k] = Zero
                BY <4>2 DEF Units
            <4>4. Times(MinusOne, row[k]) \in Fractions
                BY <2>2, MinusOneIs, FractionsClosed
            <4> QED
                BY <4>1, <4>3, <4>4, ZeroOne, PlusCommutes, PlusZero
        <3> QED
            BY <3>1, <3>2, <3>3
    <2>5. \A k \in 1..n : u[k] \in Fractions
        BY <2>3 DEF Vector
    <2>6. SumProducts(row, x, n) = Zero
        BY <2>1
    <2> HIDE DEF row, u
    <2>7. SumProducts(g, x, n) = Plus(SumProducts(u, x, n), Times(MinusOne, SumProducts(row, x, n)))
        BY <1>2, <2>2, <2>4, <2>5, MinusOneIs, ProductsMore
    <2>8. SumProducts(g, x, n) = x[c]
        BY <1>2, <2>3, <2>6, <2>7, MinusOneIs, TimesZero, PlusZero
    <2>9. \A k \in 1..n : g[k] \in Fractions
        BY <2>2, <2>4, <2>5, MinusOneIs, FractionsClosed, SMTT(30)
    <2> QED
        BY <1>2, <2>8, <2>9, ProductsCommute
<1> QED
    BY <1>3, <1>4 DEF IsPivot

----------------------------------------------------------------------------
(* Three spaces of rows.                                                   *)

\* The rows that x satisfies: x is the unknowns, entry n + 1 the right side.
Satisfied(x, n, W) == {u \in FractionRow(W) : SumProducts(u, x, n) = u[n + 1]}
\* The rows that x satisfies with nothing on the right.
Killed(x, n, W) == {u \in FractionRow(W) : SumProducts(u, x, n) = Zero}
\* The rows whose entries behind o combine those of v to what stands at j.
Tracks(v, m, o, j, W) == {u \in FractionRow(W) : SumProducts([k \in 1..m |-> u[o + k]], v, m) = u[j]}

LEMMA SatisfiedSpace ==
    ASSUME NEW n \in Nat, NEW W \in Nat, n < W, NEW x, Vector(x, n)
    PROVE  Space(Satisfied(x, n, W), W)
<1> DEFINE L == Satisfied(x, n, W)
<1>1. \A k \in 1..n : x[k] \in Fractions
    BY DEF Vector
<1>2. n + 1 \in 1..W
    OBVIOUS
<1>3. ASSUME NEW u \in L
      PROVE  /\ u \in FractionRow(W) /\ SumProducts(u, x, n) = u[n + 1]
             /\ \A k \in 1..n : u[k] \in Fractions
    BY DEF Satisfied, FractionRow
<1>4. ASSUME NEW c \in Fractions, NEW u \in L PROVE Scaled(c, u, W) \in L
    <2>1. \A k \in 1..n : Scaled(c, u, W)[k] = Times(c, u[k])
        BY DEF Scaled
    <2>2. Scaled(c, u, W)[n + 1] = Times(c, u[n + 1])
        BY <1>2 DEF Scaled
    <2>3. SumProducts(Scaled(c, u, W), x, n) = Times(c, SumProducts(u, x, n))
        BY <1>1, <1>3, <2>1, ProductsScale
    <2>4. Scaled(c, u, W) \in FractionRow(W)
        BY <1>3, RowOps
    <2> QED
        BY <1>3, <2>2, <2>3, <2>4 DEF Satisfied
<1>5. ASSUME NEW c \in Fractions, NEW u \in L, NEW w \in L
      PROVE  Added(u, c, w, W) \in L /\ Less(u, c, w, W) \in L
    <2>1. \A k \in 1..n : /\ Added(u, c, w, W)[k] = Plus(u[k], Times(c, w[k]))
                          /\ Less(u, c, w, W)[k] = Minus(u[k], Times(c, w[k]))
        BY DEF Added, Less
    <2>2. /\ Added(u, c, w, W)[n + 1] = Plus(u[n + 1], Times(c, w[n + 1]))
          /\ Less(u, c, w, W)[n + 1] = Minus(u[n + 1], Times(c, w[n + 1]))
        BY <1>2 DEF Added, Less
    <2>3. SumProducts(Added(u, c, w, W), x, n) = Plus(SumProducts(u, x, n), Times(c, SumProducts(w, x, n)))
        BY <1>1, <1>3, <2>1, ProductsMore
    <2>4. SumProducts(Less(u, c, w, W), x, n) = Minus(SumProducts(u, x, n), Times(c, SumProducts(w, x, n)))
        BY <1>1, <1>3, <2>1, ProductsLess
    <2>5. Added(u, c, w, W) \in FractionRow(W) /\ Less(u, c, w, W) \in FractionRow(W)
        BY <1>3, RowOps
    <2> QED
        BY <1>3, <2>2, <2>3, <2>4, <2>5 DEF Satisfied
<1> QED
    BY <1>3, <1>4, <1>5 DEF Space

LEMMA KilledSpace ==
    ASSUME NEW n \in Nat, NEW W \in Nat, n <= W, NEW x, Vector(x, n)
    PROVE  Space(Killed(x, n, W), W)
<1> DEFINE L == Killed(x, n, W)
<1>1. \A k \in 1..n : x[k] \in Fractions
    BY DEF Vector
<1>2. ASSUME NEW u \in L
      PROVE  /\ u \in FractionRow(W) /\ SumProducts(u, x, n) = Zero
             /\ \A k \in 1..n : u[k] \in Fractions
    BY DEF Killed, FractionRow
<1>3. \A c \in Fractions : /\ Times(c, Zero) = Zero
                           /\ Plus(Zero, Times(c, Zero)) = Zero
                           /\ Minus(Zero, Times(c, Zero)) = Zero
    BY ZeroOne, TimesZero, PlusZero, MinusSelf
<1>4. ASSUME NEW c \in Fractions, NEW u \in L PROVE Scaled(c, u, W) \in L
    <2>1. \A k \in 1..n : Scaled(c, u, W)[k] = Times(c, u[k])
        BY DEF Scaled
    <2>2. SumProducts(Scaled(c, u, W), x, n) = Times(c, SumProducts(u, x, n))
        BY <1>1, <1>2, <2>1, ProductsScale
    <2>3. Scaled(c, u, W) \in FractionRow(W)
        BY <1>2, RowOps
    <2> QED
        BY <1>2, <1>3, <2>2, <2>3 DEF Killed
<1>5. ASSUME NEW c \in Fractions, NEW u \in L, NEW w \in L
      PROVE  Added(u, c, w, W) \in L /\ Less(u, c, w, W) \in L
    <2>1. \A k \in 1..n : /\ Added(u, c, w, W)[k] = Plus(u[k], Times(c, w[k]))
                          /\ Less(u, c, w, W)[k] = Minus(u[k], Times(c, w[k]))
        BY DEF Added, Less
    <2>2. SumProducts(Added(u, c, w, W), x, n) = Plus(SumProducts(u, x, n), Times(c, SumProducts(w, x, n)))
        BY <1>1, <1>2, <2>1, ProductsMore
    <2>3. SumProducts(Less(u, c, w, W), x, n) = Minus(SumProducts(u, x, n), Times(c, SumProducts(w, x, n)))
        BY <1>1, <1>2, <2>1, ProductsLess
    <2>4. Added(u, c, w, W) \in FractionRow(W) /\ Less(u, c, w, W) \in FractionRow(W)
        BY <1>2, RowOps
    <2> QED
        BY <1>2, <1>3, <2>2, <2>3, <2>4 DEF Killed
<1> QED
    BY <1>2, <1>4, <1>5 DEF Space

LEMMA TracksSpace ==
    ASSUME NEW m \in Nat, NEW o \in Nat, NEW W \in Nat, o + m <= W, NEW j \in 1..W,
           NEW v, Vector(v, m)
    PROVE  Space(Tracks(v, m, o, j, W), W)
<1> DEFINE L == Tracks(v, m, o, j, W)
           part(u) == [k \in 1..m |-> u[o + k]]
<1>1. \A k \in 1..m : v[k] \in Fractions /\ o + k \in 1..W
    BY DEF Vector
<1>2. ASSUME NEW u \in L
      PROVE  /\ u \in FractionRow(W) /\ SumProducts(part(u), v, m) = u[j]
             /\ \A k \in 1..m : part(u)[k] \in Fractions /\ part(u)[k] = u[o + k]
    BY <1>1 DEF Tracks, FractionRow
<1>3. ASSUME NEW u \in FractionRow(W), SumProducts(part(u), v, m) = u[j] PROVE u \in L
    BY <1>3 DEF Tracks
<1>4. ASSUME NEW c \in Fractions, NEW u \in L PROVE Scaled(c, u, W) \in L
    <2>1. \A k \in 1..m : part(Scaled(c, u, W))[k] = Times(c, part(u)[k])
        BY <1>1 DEF Scaled
    <2>2. Scaled(c, u, W)[j] = Times(c, u[j])
        BY DEF Scaled
    <2>3. Scaled(c, u, W) \in FractionRow(W)
        BY <1>2, RowOps
    <2> HIDE DEF part, L
    <2>4. SumProducts(part(Scaled(c, u, W)), v, m) = Times(c, SumProducts(part(u), v, m))
        BY <1>1, <1>2, <2>1, ProductsScale
    <2> QED
        BY <1>2, <1>3, <2>2, <2>3, <2>4
<1>5. ASSUME NEW c \in Fractions, NEW u \in L, NEW w \in L
      PROVE  Added(u, c, w, W) \in L /\ Less(u, c, w, W) \in L
    <2>1. \A k \in 1..m : /\ part(Added(u, c, w, W))[k] = Plus(part(u)[k], Times(c, part(w)[k]))
                          /\ part(Less(u, c, w, W))[k] = Minus(part(u)[k], Times(c, part(w)[k]))
        BY <1>1 DEF Added, Less
    <2>2. /\ Added(u, c, w, W)[j] = Plus(u[j], Times(c, w[j]))
          /\ Less(u, c, w, W)[j] = Minus(u[j], Times(c, w[j]))
        BY DEF Added, Less
    <2>3. Added(u, c, w, W) \in FractionRow(W) /\ Less(u, c, w, W) \in FractionRow(W)
        BY <1>2, RowOps
    <2> HIDE DEF part, L
    <2>4. SumProducts(part(Added(u, c, w, W)), v, m)
            = Plus(SumProducts(part(u), v, m), Times(c, SumProducts(part(w), v, m)))
        BY <1>1, <1>2, <2>1, ProductsMore
    <2>5. SumProducts(part(Less(u, c, w, W)), v, m)
            = Minus(SumProducts(part(u), v, m), Times(c, SumProducts(part(w), v, m)))
        BY <1>1, <1>2, <2>1, ProductsLess
    <2> QED
        BY <1>2, <1>3, <2>2, <2>3, <2>4, <2>5
<1> QED
    <2>1. L \subseteq FractionRow(W)
        BY DEF Tracks
    <2> HIDE DEF L
    <2>2. Space(L, W)
        BY <1>4, <1>5, <2>1 DEF Space
    <2> QED
        BY <2>2 DEF L

----------------------------------------------------------------------------
(* The loop over the columns, and the answer.                              *)

\* e is what the first c turns make of the rows M.
RunsTo(M, c, e) ==
    \E s : /\ s[0] = [rows |-> M, pivots |-> <<>>]
           /\ \A k \in 1..c : s[k] = Eliminate(s[k - 1], k)
           /\ s[c] = e

LEMMA RunsToStart == ASSUME NEW M PROVE RunsTo(M, 0, [rows |-> M, pivots |-> <<>>])
<1> DEFINE s == [k \in 0..0 |-> [rows |-> M, pivots |-> <<>>]]
<1>1. s[0] = [rows |-> M, pivots |-> <<>>] /\ \A k \in 1..0 : s[k] = Eliminate(s[k - 1], k)
    OBVIOUS
<1> HIDE DEF s
<1> QED
    BY <1>1 DEF RunsTo

LEMMA RunsToStep ==
    ASSUME NEW M, NEW c \in Nat, NEW e, RunsTo(M, c, e)
    PROVE  RunsTo(M, c + 1, Eliminate(e, c + 1))
<1>1. PICK s : /\ s[0] = [rows |-> M, pivots |-> <<>>]
               /\ \A k \in 1..c : s[k] = Eliminate(s[k - 1], k)
               /\ s[c] = e
    BY DEF RunsTo
<1> DEFINE f == Eliminate(e, c + 1)
           t == [k \in 0..(c + 1) |-> IF k = c + 1 THEN f ELSE s[k]]
<1>2. t[0] = [rows |-> M, pivots |-> <<>>] /\ t[c + 1] = f
    BY <1>1
<1>3. ASSUME NEW k \in 1..(c + 1) PROVE t[k] = Eliminate(t[k - 1], k)
    <2>1. CASE k = c + 1
        <3>1. k - 1 = c /\ t[c] = e /\ t[k] = f
            BY <1>1, <2>1
        <3> HIDE DEF t
        <3> QED
            BY <2>1, <3>1
    <2>2. CASE k # c + 1
        <3>1. k \in 1..c /\ t[k] = s[k] /\ t[k - 1] = s[k - 1]
            BY <2>2
        <3> HIDE DEF t
        <3> QED
            BY <1>1, <3>1
    <2> QED
        BY <2>1, <2>2
<1> HIDE DEF t, f
<1> QED
    BY <1>2, <1>3 DEF RunsTo, f

\* When every row has its pivot the turns that are left change nothing.
LEMMA RunsToRest ==
    ASSUME NEW M, NEW n \in Nat, NEW c \in 0..n, NEW e, RunsTo(M, c, e),
           \A k \in 1..n : k > c => Eliminate(e, k) = e
    PROVE  RunsTo(M, n, e)
<1>1. PICK s : /\ s[0] = [rows |-> M, pivots |-> <<>>]
               /\ \A k \in 1..c : s[k] = Eliminate(s[k - 1], k)
               /\ s[c] = e
    BY DEF RunsTo
<1> DEFINE t == [k \in 0..n |-> IF k < c THEN s[k] ELSE e]
<1>2. t[0] = [rows |-> M, pivots |-> <<>>] /\ t[n] = e
    <2>1. CASE c = 0
        BY <1>1, <2>1
    <2>2. CASE c # 0
        BY <1>1, <2>2
    <2> QED
        BY <2>1, <2>2
<1>3. ASSUME NEW k \in 1..n PROVE t[k] = Eliminate(t[k - 1], k)
    <2>1. CASE k <= c
        <3>1. k \in 1..c /\ t[k] = s[k] /\ t[k - 1] = s[k - 1]
            BY <1>1, <2>1
        <3> HIDE DEF t
        <3> QED
            BY <1>1, <3>1
    <2>2. CASE k > c
        <3>1. t[k] = e /\ t[k - 1] = e
            BY <2>2
        <3> HIDE DEF t
        <3> QED
            BY <2>2, <3>1
    <2> QED
        BY <2>1, <2>2
<1> HIDE DEF t
<1> QED
    BY <1>2, <1>3 DEF RunsTo

LEMMA RunsToEnd ==
    ASSUME NEW M, NEW n \in Nat, NEW e, RunsTo(M, n, e)
    PROVE  Eliminated(M, n) = e
<1>1. PICK s : /\ s[0] = [rows |-> M, pivots |-> <<>>]
               /\ \A k \in 1..n : s[k] = Eliminate(s[k - 1], k)
               /\ s[n] = e
    BY DEF RunsTo
<1> DEFINE start == [rows |-> M, pivots |-> <<>>]
           R(t) == t = [k \in 0..n |-> IF k = 0 THEN start ELSE Eliminate(t[k - 1], k)]
           t == CHOOSE f : R(f)
           h == [k \in 0..n |-> s[k]]
<1>2. Eliminated(M, n) = t[n]
    BY Zenon DEF Eliminated
<1>3. R(h)
    <2>1. \A k \in 0..n : h[k] = IF k = 0 THEN start ELSE Eliminate(h[k - 1], k)
        <3>1. ASSUME NEW k \in 0..n, k # 0 PROVE h[k] = Eliminate(h[k - 1], k)
            <4>1. k - 1 \in 0..n /\ k \in 1..n
                BY <3>1
            <4>2. h[k] = s[k] /\ h[k - 1] = s[k - 1]
                BY <4>1
            <4> HIDE DEF h
            <4> QED
                BY <1>1, <4>1, <4>2
        <3>2. h[0] = start
            BY <1>1
        <3> HIDE DEF h
        <3> QED
            BY <3>1, <3>2
    <2>2. h = [k \in 0..n |-> h[k]]
        OBVIOUS
    <2> HIDE DEF h
    <2>3. [k \in 0..n |-> h[k]] = [k \in 0..n |-> IF k = 0 THEN start ELSE Eliminate(h[k - 1], k)]
        BY <2>1, Zenon
    <2> QED
        BY <2>2, <2>3, Zenon
<1>4. R(t)
    <2> HIDE DEF R
    <2> QED
        BY <1>3
<1>5. t[n] = s[n]
    <2> DEFINE P == {i \in Nat : i <= n => t[i] = s[i]}
    <2>1. \A k \in 0..n : t[k] = IF k = 0 THEN start ELSE Eliminate(t[k - 1], k)
        <3> HIDE DEF t, start
        <3> QED
            BY <1>4
    <2> HIDE DEF t, R
    <2>2. 0 \in P
        BY <1>1, <2>1
    <2>3. ASSUME NEW i \in P PROVE i + 1 \in P
        <3>1. CASE i + 1 <= n
            <4>1. i + 1 \in 0..n /\ i + 1 # 0 /\ i + 1 \in 1..n /\ (i + 1) - 1 = i /\ t[i] = s[i]
                BY <3>1
            <4>2. t[i + 1] = Eliminate(t[i], i + 1) /\ s[i + 1] = Eliminate(s[i], i + 1)
                BY <1>1, <2>1, <4>1
            <4> QED
                BY <4>1, <4>2
        <3> QED
            BY <3>1
    <2>4. P = Nat
        <3>1. P \in SUBSET Nat
            OBVIOUS
        <3> HIDE DEF P
        <3> QED
            BY <2>2, <2>3, <3>1, Induction
    <2> QED
        BY <2>4
<1> QED
    BY <1>1, <1>2, <1>5

\* The rows before the first turn.
LEMMA EchelonStart ==
    ASSUME NEW m \in Nat, NEW W \in Nat, NEW M \in [1..m -> FractionRow(W)]
    PROVE  Echelon([rows |-> M, pivots |-> <<>>], m, W, 0)
    BY DEF Echelon

SameSpaces(M, N, m, W) ==
    \A L : Space(L, W) => ((\A i \in 1..m : M[i] \in L) <=> (\A i \in 1..m : N[i] \in L))

LEMMA EliminatedIs ==
    ASSUME NEW m \in Nat, NEW W \in Nat, NEW n \in Nat, n <= W, NEW M \in [1..m -> FractionRow(W)]
    PROVE  Echelon(Eliminated(M, n), m, W, n) /\ SameSpaces(M, Eliminated(M, n).rows, m, W)
<1> DEFINE Good(e, c) == RunsTo(M, c, e) /\ Echelon(e, m, W, c) /\ SameSpaces(M, e.rows, m, W)
           P == {c \in Nat : c <= n => \E e : Good(e, c)}
<1>1. 0 \in P
    <2> DEFINE start == [rows |-> M, pivots |-> <<>>]
    <2>1. Good(start, 0)
        BY RunsToStart, EchelonStart DEF SameSpaces
    <2> HIDE DEF Good, start
    <2> QED
        BY <2>1
<1>2. ASSUME NEW c \in P PROVE c + 1 \in P
    <2>1. SUFFICES ASSUME c + 1 <= n PROVE \E e : Good(e, c + 1)
        OBVIOUS
    <2>2. c \in Nat /\ c < W /\ \E e : Good(e, c)
        <3> HIDE DEF Good
        <3> QED
            BY <2>1
    <2>3. PICK e : Good(e, c)
        BY <2>2
    <2> DEFINE f == Eliminate(e, c + 1)
    <2>4. RunsTo(M, c + 1, f)
        BY <2>2, <2>3, RunsToStep
    <2>5. Echelon(f, m, W, c + 1) /\ SameSpaces(e.rows, f.rows, m, W)
        BY <2>2, <2>3, EliminateKeeps DEF SameSpaces
    <2>6. SameSpaces(M, f.rows, m, W)
        BY <2>3, <2>5 DEF SameSpaces
    <2> HIDE DEF f
    <2> QED
        BY <2>4, <2>5, <2>6
<1>3. P = Nat
    <2>1. P \in SUBSET Nat
        OBVIOUS
    <2> HIDE DEF P
    <2> QED
        BY <1>1, <1>2, <2>1, Induction
<1>4. PICK e : Good(e, n)
    <2>1. n \in P
        <3> HIDE DEF P
        <3> QED
            BY <1>3
    <2> HIDE DEF Good
    <2> QED
        BY <2>1
<1> QED
    BY <1>4, RunsToEnd

\* The pivot of a column, if it has one, is one.
LEMMA PivotUnique ==
    ASSUME NEW m \in Nat, NEW W \in Nat, NEW n \in Nat, NEW e, Echelon(e, m, W, n),
           NEW i \in 1..Len(e.pivots), NEW j \in 1..Len(e.pivots), e.pivots[i] = e.pivots[j]
    PROVE  i = j
<1>1. e.pivots[i] \in Int /\ e.pivots[j] \in Int /\ Len(e.pivots) \in Nat
    BY DEF Echelon
<1>2. (i < j => e.pivots[i] < e.pivots[j]) /\ (j < i => e.pivots[j] < e.pivots[i])
    BY DEF Echelon
<1>3. i \in Int /\ j \in Int
    BY <1>1
<1> HIDE DEF Echelon
<1> QED
    BY <1>1, <1>2, <1>3

Contradictory(row, n) == (\A k \in 1..n : row[k] = Zero) /\ row[n + 1] # Zero

\* With no row that says 0 = c, c # 0, the right sides at the pivots solve the
\* reduced system.
LEMMA PivotsSolve ==
    ASSUME NEW m \in Nat, NEW W \in Nat, NEW n \in Nat, n < W, NEW e, Echelon(e, m, W, n),
           \A i \in 1..m : ~Contradictory(e.rows[i], n),
           NEW t, \A i \in 1..Len(e.pivots) : t[i] = e.rows[i][n + 1],
           NEW b, Spread(e, t, b, n)
    PROVE  \A i \in 1..m : e.rows[i] \in Satisfied(b, n, W)
<1> SUFFICES ASSUME NEW i \in 1..m PROVE e.rows[i] \in Satisfied(b, n, W)
    OBVIOUS
<1>1. e.rows[i] \in FractionRow(W) /\ Len(e.pivots) \in Nat
    BY DEF Echelon
<1>2. SumProducts(e.rows[i], b, n) = IF i <= Len(e.pivots) THEN t[i] ELSE Zero
    BY SpreadProducts
<1>3. CASE i <= Len(e.pivots)
    BY <1>1, <1>2, <1>3 DEF Satisfied
<1>4. CASE ~(i <= Len(e.pivots))
    <2>1. \A k \in 1..n : e.rows[i][k] = Zero
        BY <1>1, <1>4 DEF Echelon
    <2>2. e.rows[i][n + 1] = Zero
        BY <2>1 DEF Contradictory
    <2> QED
        BY <1>1, <1>2, <1>4, <2>2 DEF Satisfied
<1> QED
    BY <1>3, <1>4

\* Nothing satisfies a contradictory row.
LEMMA Unsatisfied ==
    ASSUME NEW W \in Nat, NEW n \in Nat, n < W, NEW x, Vector(x, n), NEW row \in Satisfied(x, n, W)
    PROVE  ~Contradictory(row, n)
<1> SUFFICES ASSUME Contradictory(row, n) PROVE FALSE
    OBVIOUS
<1>1. \A k \in 1..n : row[k] = Zero /\ x[k] \in Fractions
    BY DEF Contradictory, Vector
<1>2. SumProducts(row, x, n) = Zero
    BY <1>1, ProductsOfZero
<1> QED
    BY <1>2 DEF Contradictory, Satisfied

\* An equation and the row it is written as.
LEMMA AsRow ==
    ASSUME NEW W \in Nat, NEW n \in Nat, n < W, NEW u \in FractionRow(W),
           NEW row, \A k \in 1..n : u[k] = row[k], NEW x
    PROVE  u \in Satisfied(x, n, W) <=> SumProducts(row, x, n) = u[n + 1]
<1>1. SumProducts(u, x, n) = SumProducts(row, x, n)
    BY ProductsCongruent
<1> QED
    BY <1>1 DEF Satisfied

EchelonShape(e, m, W, n) ==
    /\ e.rows \in [1..m -> FractionRow(W)] /\ DOMAIN e.rows = 1..m /\ e.pivots \in Seq(1..n)
    /\ DOMAIN e.pivots = 1..Len(e.pivots) /\ Len(e.pivots) \in Nat /\ Len(e.pivots) <= m
    /\ \A i \in 1..Len(e.pivots) : e.pivots[i] \in 1..n

LEMMA EchelonParts ==
    ASSUME NEW m \in Nat, NEW W \in Nat, NEW n \in Nat, NEW e, Echelon(e, m, W, n)
    PROVE  EchelonShape(e, m, W, n)
    BY DEF Echelon, EchelonShape

LEMMA AppendRow ==
    ASSUME NEW v \in Seq(Fractions), NEW x \in Fractions
    PROVE  /\ Append(v, x) \in FractionRow(Len(v) + 1)
           /\ Append(v, x)[Len(v) + 1] = x
           /\ \A k \in 1..Len(v) : Append(v, x)[k] = v[k]
<1>1. Append(v, x) \in Seq(Fractions) /\ Len(Append(v, x)) = Len(v) + 1
    OBVIOUS
<1>2. Append(v, x) \in FractionRow(Len(v) + 1)
    <2> DEFINE s == Append(v, x)
    <2>1. s \in Seq(Fractions) /\ Len(s) = Len(v) + 1
        BY <1>1
    <2> HIDE DEF s
    <2>2. s \in [1..Len(s) -> Fractions]
        BY <2>1
    <2> QED
        BY <2>1, <2>2 DEF FractionRow, s
<1> QED
    BY <1>2

\* The equations M x = rhs, written as the rows A of a working matrix.
Writes(A, M, rhs, W) ==
    /\ Rectangular(M) /\ Len(rhs) = Len(M) /\ rhs \in Seq(Fractions)
    /\ W \in Nat /\ columns(M) < W /\ A \in [1..Len(M) -> FractionRow(W)]
    /\ \A i \in 1..Len(M) : /\ A[i][columns(M) + 1] = rhs[i]
                            /\ \A k \in 1..columns(M) : A[i][k] = M[i][k]

SatisfiesAll(b, R, m, n, W) == \A i \in 1..m : R[i] \in Satisfied(b, n, W)

\* What a vector solves is what the eliminated rows are satisfied by.
LEMMA SolutionsKept ==
    ASSUME NEW M, NEW rhs, NEW W, NEW A, Writes(A, M, rhs, W),
           NEW R, SameSpaces(A, R, Len(M), W), NEW b \in FractionRow(columns(M))
    PROVE  mat_vec(M, b) = rhs <=> SatisfiesAll(b, R, Len(M), columns(M), W)
<1>0. /\ Rectangular(M) /\ Len(rhs) = Len(M) /\ rhs \in Seq(Fractions)
      /\ W \in Nat /\ columns(M) < W /\ A \in [1..Len(M) -> FractionRow(W)]
      /\ \A i \in 1..Len(M) : /\ A[i][columns(M) + 1] = rhs[i]
                              /\ \A k \in 1..columns(M) : A[i][k] = M[i][k]
    BY DEF Writes
<1> DEFINE m == Len(M)
           n == columns(M)
<1>1. m \in Nat /\ n \in Nat
    BY <1>0, Shape
<1> HIDE DEF n
<1>2. Len(b) = n /\ Vector(b, n)
    BY <1>1, RowIsSeq DEF FractionRow, Vector, n
<1>3. mat_vec(M, b) = [i \in 1..m |-> SumProducts(M[i], b, n)]
    BY <1>2 DEF mat_vec
<1>4. rhs = [i \in 1..m |-> rhs[i]]
    BY <1>0
<1> HIDE DEF m
<1>5. mat_vec(M, b) = rhs <=> \A i \in 1..m : SumProducts(M[i], b, n) = rhs[i]
    BY <1>3, <1>4
<1>6. \A i \in 1..m : A[i] \in Satisfied(b, n, W) <=> SumProducts(M[i], b, n) = rhs[i]
    <2> SUFFICES ASSUME NEW i \in 1..m
                 PROVE  A[i] \in Satisfied(b, n, W) <=> SumProducts(M[i], b, n) = rhs[i]
        OBVIOUS
    <2> DEFINE u == A[i]
               row == M[i]
    <2>1. u \in FractionRow(W) /\ u[n + 1] = rhs[i] /\ \A k \in 1..n : u[k] = row[k]
        BY <1>0 DEF m, n
    <2> HIDE DEF u, row
    <2>2. n < W /\ W \in Nat
        BY <1>0 DEF n
    <2>3. u \in Satisfied(b, n, W) <=> SumProducts(row, b, n) = u[n + 1]
        BY ONLY <1>1, <2>1, <2>2, AsRow
    <2> QED
        BY <2>1, <2>3 DEF u, row
<1>7. Space(Satisfied(b, n, W), W)
    BY <1>0, <1>1, <1>2, SatisfiedSpace DEF n
<1>8. (\A i \in 1..m : A[i] \in Satisfied(b, n, W)) <=> (\A i \in 1..m : R[i] \in Satisfied(b, n, W))
    BY <1>7 DEF SameSpaces, m
<1> QED
    BY <1>5, <1>6, <1>8 DEF m, n, SatisfiesAll

\* A vector read off at the pivots: row j[c] is the one with its pivot in column c.
LEMMA ReadOff ==
    ASSUME NEW m \in Nat, NEW W \in Nat, NEW n \in Nat, n < W, NEW e, Echelon(e, m, W, n),
           NEW j, \A c \in 1..n : IsPivot(e, c) => j[c] \in 1..Len(e.pivots) /\ e.pivots[j[c]] = c,
           NEW b, b = [c \in 1..n |-> IF IsPivot(e, c) THEN e.rows[j[c]][n + 1] ELSE Zero]
    PROVE  /\ b \in FractionRow(n)
           /\ Spread(e, [i \in 1..Len(e.pivots) |-> e.rows[i][n + 1]], b, n)
<1> DEFINE t == [i \in 1..Len(e.pivots) |-> e.rows[i][n + 1]]
           q == Len(e.pivots)
<1>1. q \in Nat /\ q <= m /\ \A i \in 1..q : e.pivots[i] \in 1..n
    BY DEF Echelon
<1>2. \A i \in 1..m : e.rows[i][n + 1] \in Fractions
    BY DEF Echelon, FractionRow
<1>3. ASSUME NEW c \in 1..n PROVE b[c] \in Fractions
    <2>1. CASE IsPivot(e, c)
        BY <1>1, <1>2, <2>1
    <2>2. CASE ~IsPivot(e, c)
        BY <2>2, ZeroOne
    <2> QED
        BY <2>1, <2>2
<1>4. ASSUME NEW i \in 1..q PROVE b[e.pivots[i]] = t[i]
    <2> DEFINE c == e.pivots[i]
    <2>1. c \in 1..n /\ IsPivot(e, c)
        BY <1>1 DEF IsPivot
    <2>2. j[c] \in 1..q /\ e.pivots[j[c]] = e.pivots[i] /\ b[c] = e.rows[j[c]][n + 1]
        BY <2>1
    <2>3. j[c] = i
        <3> DEFINE k == j[c]
        <3>1. k \in 1..Len(e.pivots) /\ e.pivots[k] = e.pivots[i]
            BY <2>2
        <3> HIDE DEF k
        <3> QED
            BY <3>1, PivotUnique DEF k
    <2> QED
        BY <2>2, <2>3
<1>5. \A c \in 1..n : ~IsPivot(e, c) => b[c] = Zero
    OBVIOUS
<1>6. b \in FractionRow(n)
    BY <1>3 DEF FractionRow
<1> HIDE DEF t
<1>7. Spread(e, t, b, n)
    BY <1>3, <1>4, <1>5 DEF Spread, Vector
<1> QED
    BY <1>6, <1>7 DEF t

\* There is one such vector.
LEMMA SpreadUnique ==
    ASSUME NEW n \in Nat, NEW e, NEW f, e.pivots = f.pivots, NEW t,
           NEW a, Spread(e, t, a, n), NEW b, Spread(f, t, b, n)
    PROVE  \A c \in 1..n : a[c] = b[c]
<1> SUFFICES ASSUME NEW c \in 1..n PROVE a[c] = b[c]
    OBVIOUS
<1>1. CASE IsPivot(e, c)
    <2>1. PICK i \in 1..Len(e.pivots) : e.pivots[i] = c
        BY <1>1 DEF IsPivot
    <2>2. a[c] = t[i] /\ b[c] = t[i]
        BY <2>1 DEF Spread
    <2> QED
        BY <2>2
<1>2. CASE ~IsPivot(e, c)
    BY <1>2 DEF Spread, IsPivot
<1> QED
    BY <1>1, <1>2

\* The vector that Solution reads off.
Found(e, n) ==
    [c \in 1..n |-> IF IsPivot(e, c) THEN e.rows[CHOOSE i \in PivotRow(e, c) : TRUE][n + 1] ELSE Zero]

RightSides(e, n) == [i \in 1..Len(e.pivots) |-> e.rows[i][n + 1]]

LEMMA SolutionIs ==
    ASSUME NEW m \in Nat, NEW W \in Nat, NEW n \in Nat, n < W, NEW e, Echelon(e, m, W, n)
    PROVE  /\ Solution(e, n) = IF \E i \in 1..m : Contradictory(e.rows[i], n) THEN {} ELSE {Found(e, n)}
           /\ Found(e, n) \in FractionRow(n)
           /\ Spread(e, RightSides(e, n), Found(e, n), n)
<1> DEFINE j == [c \in 1..n |-> CHOOSE i \in PivotRow(e, c) : TRUE]
           found == [c \in 1..n |-> IF IsPivot(e, c) THEN e.rows[j[c]][n + 1] ELSE Zero]
<1>1. /\ e.rows \in [1..m -> FractionRow(W)] /\ DOMAIN e.rows = 1..m
      /\ DOMAIN e.pivots = 1..Len(e.pivots)
    BY EchelonParts DEF EchelonShape
<1>2. ASSUME NEW i \in 1..m
      PROVE  Contradictory(e.rows[i], n) <=> is_zero(SubSeq(e.rows[i], 1, n)) /\ e.rows[i][n + 1] # Zero
    <2> DEFINE row == e.rows[i]
    <2>1. row \in FractionRow(W)
        BY <1>1
    <2>2. row \in Seq(Fractions) /\ Len(row) = W
        BY <2>1, RowIsSeq
    <2> HIDE DEF row
    <2>3. Len(SubSeq(row, 1, n)) = n /\ \A k \in 1..n : SubSeq(row, 1, n)[k] = row[k]
        BY <2>2
    <2> QED
        BY <2>3 DEF is_zero, Contradictory, row
<1>3. \A c \in 1..n : IsPivot(e, c) <=> PivotRow(e, c) # {}
    BY <1>1 DEF IsPivot, PivotRow
<1>4. found = Found(e, n)
    BY DEF Found
<1>5. Solution(e, n) = IF \E i \in 1..m : Contradictory(e.rows[i], n) THEN {} ELSE {found}
    <2>1. found = [c \in 1..n |-> IF PivotRow(e, c) = {} THEN Zero
                                  ELSE e.rows[CHOOSE i \in PivotRow(e, c) : TRUE][n + 1]]
        BY <1>3
    <2> HIDE DEF found
    <2> QED
        BY <1>1, <1>2, <2>1 DEF Solution
<1>6. found \in FractionRow(n) /\ Spread(e, RightSides(e, n), found, n)
    <2>1. ASSUME NEW c \in 1..n, IsPivot(e, c)
          PROVE  j[c] \in 1..Len(e.pivots) /\ e.pivots[j[c]] = c
        <3>1. j[c] \in PivotRow(e, c)
            BY <1>3, <2>1
        <3> HIDE DEF j
        <3> QED
            BY <1>1, <3>1 DEF PivotRow
    <2> HIDE DEF j
    <2> QED
        BY <2>1, ReadOff DEF RightSides
<1> HIDE DEF found
<1> QED
    BY <1>4, <1>5, <1>6

(***************************************************************************)
(* solve_over_Q is right and complete: what it returns solves the system,  *)
(* and it returns something whenever any vector of fractions does.         *)
(***************************************************************************)
THEOREM SolvesExactly ==
    ASSUME NEW M, Rectangular(M), NEW rhs, Vector(rhs, Len(M)), Len(rhs) = Len(M),
           rhs \in Seq(Fractions)
    PROVE  /\ \A b \in solve_over_Q(M, rhs) : b \in FractionRow(columns(M)) /\ mat_vec(M, b) = rhs
           /\ \A b \in FractionRow(columns(M)) : mat_vec(M, b) = rhs => Solvable(M, rhs)
<1> DEFINE m == Len(M)
           n == columns(M)
           W == n + 1
           A == [i \in 1..m |-> Append(M[i], rhs[i])]
           e == Eliminated(A, n)
<1>1. m \in Nat /\ n \in Nat /\ W \in Nat /\ n < W /\ n <= W /\ Matrix(M, m, n)
    BY Shape
<1>2. \A i \in 1..m : M[i] \in Seq(Fractions) /\ Len(M[i]) = n /\ rhs[i] \in Fractions
    BY DEF Rectangular, Vector
<1>3. \A i \in 1..m : /\ A[i] \in FractionRow(W)
                      /\ A[i][n + 1] = rhs[i]
                      /\ \A k \in 1..n : A[i][k] = M[i][k]
    <2> SUFFICES ASSUME NEW i \in 1..m
                 PROVE  /\ A[i] \in FractionRow(W) /\ A[i][n + 1] = rhs[i]
                        /\ \A k \in 1..n : A[i][k] = M[i][k]
        OBVIOUS
    <2>1. A[i] = Append(M[i], rhs[i])
        OBVIOUS
    <2> HIDE DEF A, n
    <2> QED
        BY <1>2, <2>1, AppendRow
<1>4. A \in [1..m -> FractionRow(W)]
    BY <1>3
<1>5. solve_over_Q(M, rhs) = Solution(e, n)
    BY DEF solve_over_Q
<1> HIDE DEF A, n, m
<1>6. Echelon(e, m, W, n) /\ SameSpaces(A, e.rows, m, W)
    BY <1>1, <1>4, EliminatedIs
<1> HIDE DEF e
<1>7. e.rows \in [1..m -> FractionRow(W)] /\ DOMAIN e.rows = 1..m /\ e.pivots \in Seq(1..n)
      /\ DOMAIN e.pivots = 1..Len(e.pivots) /\ Len(e.pivots) \in Nat /\ Len(e.pivots) <= m
      /\ \A i \in 1..Len(e.pivots) : e.pivots[i] \in 1..n
    <2> HIDE DEF W
    <2>1. EchelonShape(e, m, W, n)
        BY <1>1, <1>6, EchelonParts
    <2> QED
        BY <2>1 DEF EchelonShape
<1>8. /\ Solution(e, n) = IF \E i \in 1..m : Contradictory(e.rows[i], n) THEN {} ELSE {Found(e, n)}
      /\ Found(e, n) \in FractionRow(n)
      /\ Spread(e, RightSides(e, n), Found(e, n), n)
    BY <1>1, <1>6, SolutionIs
<1>9. ASSUME NEW b \in FractionRow(n)
      PROVE  mat_vec(M, b) = rhs <=> \A i \in 1..m : e.rows[i] \in Satisfied(b, n, W)
    <2> DEFINE R == e.rows
    <2>1. Writes(A, M, rhs, W) /\ SameSpaces(A, R, Len(M), W) /\ b \in FractionRow(columns(M))
        BY <1>1, <1>3, <1>4, <1>6 DEF Writes, m, n
    <2> HIDE DEF W, R
    <2>2. mat_vec(M, b) = rhs <=> SatisfiesAll(b, R, Len(M), columns(M), W)
        BY <2>1, SolutionsKept
    <2> QED
        BY <2>2 DEF SatisfiesAll, m, n, R
<1>10. \A i \in 1..Len(e.pivots) : RightSides(e, n)[i] = e.rows[i][n + 1]
    BY DEF RightSides
<1>11. ASSUME NEW b \in solve_over_Q(M, rhs) PROVE b \in FractionRow(n) /\ mat_vec(M, b) = rhs
    <2>1. b = Found(e, n) /\ \A i \in 1..m : ~Contradictory(e.rows[i], n)
        BY <1>5, <1>8, <1>11
    <2>2. \A i \in 1..m : e.rows[i] \in Satisfied(b, n, W)
        BY <1>1, <1>6, <1>8, <1>10, <2>1, PivotsSolve
    <2> QED
        BY <1>8, <1>9, <2>1, <2>2
<1>12. ASSUME NEW b \in FractionRow(n), mat_vec(M, b) = rhs PROVE Solvable(M, rhs)
    <2>1. \A i \in 1..m : e.rows[i] \in Satisfied(b, n, W)
        BY <1>9, <1>12
    <2>2. Vector(b, n)
        BY DEF FractionRow, Vector
    <2>3. \A i \in 1..m : ~Contradictory(e.rows[i], n)
        BY <1>1, <2>1, <2>2, Unsatisfied
    <2> QED
        BY <1>5, <1>8, <2>3 DEF Solvable
<1> QED
    BY <1>11, <1>12 DEF n

----------------------------------------------------------------------------
\* What the turns keep.
LEMMA RunsKeep ==
    ASSUME NEW m \in Nat, NEW W \in Nat, NEW M \in [1..m -> FractionRow(W)],
           NEW n \in Nat, n <= W, NEW e, RunsTo(M, n, e)
    PROVE  Echelon(e, m, W, n) /\ SameSpaces(M, e.rows, m, W)
<1>1. PICK s : /\ s[0] = [rows |-> M, pivots |-> <<>>]
               /\ \A k \in 1..n : s[k] = Eliminate(s[k - 1], k)
               /\ s[n] = e
    BY DEF RunsTo
<1> DEFINE P == {c \in Nat : c <= n => Echelon(s[c], m, W, c) /\ SameSpaces(M, s[c].rows, m, W)}
<1>2. 0 \in P
    <2>1. Echelon(s[0], m, W, 0)
        BY <1>1, EchelonStart
    <2> QED
        BY <1>1, <2>1 DEF SameSpaces
<1>3. ASSUME NEW c \in P PROVE c + 1 \in P
    <2>1. SUFFICES ASSUME c + 1 <= n
                   PROVE  Echelon(s[c + 1], m, W, c + 1) /\ SameSpaces(M, s[c + 1].rows, m, W)
        OBVIOUS
    <2>2. c \in Nat /\ c < W /\ c + 1 \in 1..n /\ (c + 1) - 1 = c
        BY <2>1
    <2> DEFINE d == s[c]
    <2>3. Echelon(d, m, W, c) /\ SameSpaces(M, d.rows, m, W)
        BY <2>1
    <2>4. s[c + 1] = Eliminate(d, c + 1)
        BY <1>1, <2>2
    <2> HIDE DEF d, P
    <2>5. /\ Echelon(Eliminate(d, c + 1), m, W, c + 1)
          /\ SameSpaces(d.rows, Eliminate(d, c + 1).rows, m, W)
        BY <2>2, <2>3, EliminateKeeps DEF SameSpaces
    <2>6. SameSpaces(M, Eliminate(d, c + 1).rows, m, W)
        BY <2>3, <2>5 DEF SameSpaces
    <2> QED
        BY <2>4, <2>5, <2>6
<1>4. P = Nat
    <2>1. P \in SUBSET Nat
        OBVIOUS
    <2> HIDE DEF P
    <2> QED
        BY <1>2, <1>3, <2>1, Induction
<1> QED
    BY <1>1, <1>4

\* Once every row has a pivot no column is left to clear.
LEMMA EchelonDone ==
    ASSUME NEW m \in Nat, NEW W \in Nat, NEW c \in Nat, NEW n \in Nat, c <= n,
           NEW e, Echelon(e, m, W, c), Len(e.pivots) = m
    PROVE  Echelon(e, m, W, n) /\ \A k \in 1..n : k > c => Eliminate(e, k) = e
<1>1. e.rows \in [1..m -> FractionRow(W)] /\ Len(e.rows) = m /\ e.pivots \in Seq(1..c)
    BY DEF Echelon
<1>2. e.pivots \in Seq(1..n)
    <2>1. \A i \in 1..Len(e.pivots) : e.pivots[i] \in 1..n
        BY <1>1
    <2> DEFINE s == e.pivots
    <2>2. s \in Seq(1..c) /\ \A i \in 1..Len(s) : s[i] \in 1..n
        BY <1>1, <2>1
    <2> HIDE DEF s
    <2>3. s \in Seq(1..n)
        BY <2>2, Retyped
    <2> QED
        BY <2>3 DEF s
<1>3. Echelon(e, m, W, n)
    <2>1. \A d \in 1..n, j \in 1..m : ~(j > Len(e.pivots))
        OBVIOUS
    <2> QED
        BY <1>2, <2>1 DEF Echelon
<1>4. ASSUME NEW k \in 1..n, k > c PROVE Eliminate(e, k) = e
    <2>1. {i \in (Len(e.pivots) + 1)..Len(e.rows) : e.rows[i][k] # Zero} = {}
        BY <1>1
    <2> QED
        BY <2>1 DEF Eliminate
<1> QED
    BY <1>3, <1>4

----------------------------------------------------------------------------
(* Columns that no pivot is looked for in make no difference to the rest.  *)

Agrees(e, f, m, V) ==
    e.pivots = f.pivots /\ \A i \in 1..m : \A k \in 1..V : e.rows[i][k] = f.rows[i][k]

LEMMA EliminateCut ==
    ASSUME NEW m \in Nat, NEW W \in Nat, NEW V \in Nat, V <= W, NEW c \in Nat, c < V,
           NEW e, Echelon(e, m, W, c), NEW f, Echelon(f, m, V, c), Agrees(e, f, m, V)
    PROVE  Agrees(Eliminate(e, c + 1), Eliminate(f, c + 1), m, V)
<1> DEFINE d == c + 1
           top == Len(e.pivots) + 1
<1>1. /\ e.rows \in [1..m -> FractionRow(W)] /\ Len(e.rows) = m
      /\ f.rows \in [1..m -> FractionRow(V)] /\ Len(f.rows) = m
      /\ e.pivots = f.pivots /\ Len(e.pivots) \in Nat
      /\ d \in 1..V /\ d \in 1..W /\ c < W
    BY DEF Echelon, Agrees
<1>0. m \in Nat /\ W \in Nat /\ c \in Nat /\ c < W /\ Echelon(e, m, W, c)
    OBVIOUS
<1>2. Candidate(e, d) = Candidate(f, d)
    <2>1. \A i \in 1..m : e.rows[i][d] = f.rows[i][d]
        BY <1>1 DEF Agrees
    <2> QED
        BY <1>1, <2>1 DEF Candidate
<1>3. CASE Candidate(e, d) = {}
    <2>1. Eliminate(e, d) = e /\ Eliminate(f, d) = f
        BY <1>1, <1>2, <1>3, EliminateIs
    <2> QED
        BY <2>1
<1>4. CASE Candidate(e, d) # {}
    <2>0. PICK p \in 1..m :
            /\ p = CHOOSE i \in Candidate(e, d) : \A j \in Candidate(e, d) : i <= j
            /\ p > Len(e.pivots) /\ Len(e.pivots) + 1 \in 1..m /\ e.rows[p][d] # Zero
            /\ Eliminate(e, d).rows = Pivoted(e.rows, Len(e.pivots) + 1, p, d)
            /\ Eliminate(e, d).pivots = Append(e.pivots, d)
        <3>1. PICK p : TurnsOn(e, d, m, p)
            BY ONLY <1>0, <1>4, EliminateIs
        <3> QED
            BY <3>1 DEF TurnsOn
    <2>9. Candidate(f, d) # {}
        BY <1>2, <1>4
    <2>10. PICK l \in 1..m :
            /\ l = CHOOSE i \in Candidate(f, d) : \A j \in Candidate(f, d) : i <= j
            /\ l > Len(f.pivots) /\ Len(f.pivots) + 1 \in 1..m /\ f.rows[l][d] # Zero
            /\ Eliminate(f, d).rows = Pivoted(f.rows, Len(f.pivots) + 1, l, d)
            /\ Eliminate(f, d).pivots = Append(f.pivots, d)
        <3>1. PICK l : TurnsOn(f, d, m, l)
            BY <1>1, <2>9, EliminateIs
        <3> QED
            BY <3>1 DEF TurnsOn
    <2>11. l = p
        BY <1>2, <2>0, <2>10
    <2>1. /\ p \in 1..m /\ p > Len(e.pivots) /\ top \in 1..m /\ e.rows[p][d] # Zero
          /\ Eliminate(e, d).rows = Pivoted(e.rows, top, p, d)
          /\ Eliminate(e, d).pivots = Append(e.pivots, d)
        BY <2>0
    <2>2. /\ f.rows[p][d] # Zero
          /\ Eliminate(f, d).rows = Pivoted(f.rows, top, p, d)
          /\ Eliminate(f, d).pivots = Append(e.pivots, d)
        BY <1>1, <2>10, <2>11
    <2> HIDE DEF d
    <2> DEFINE olde == Swapped(e.rows, top, p)
               newe == Pivoted(e.rows, top, p, d)
               oldf == Swapped(f.rows, top, p)
               newf == Pivoted(f.rows, top, p, d)
    <2>3. Turned(e.rows, olde, newe, top, p, d, m, W) /\ Turned(f.rows, oldf, newf, top, p, d, m, V)
        <3> DEFINE re == e.rows
                   rf == f.rows
        <3>1. re \in [1..m -> FractionRow(W)] /\ rf \in [1..m -> FractionRow(V)]
              /\ re[p][d] # Zero /\ rf[p][d] # Zero
            BY <1>1, <2>1, <2>2
        <3> HIDE DEF re, rf, top
        <3>2. /\ Turned(re, Swapped(re, top, p), Pivoted(re, top, p, d), top, p, d, m, W)
              /\ Turned(rf, Swapped(rf, top, p), Pivoted(rf, top, p, d), top, p, d, m, V)
            BY <1>1, <2>1, <3>1, PivotedRows
        <3> QED
            BY <3>2 DEF re, rf
    <2> HIDE DEF olde, newe, oldf, newf
    <2>4. ASSUME NEW i \in 1..m, NEW k \in 1..V PROVE olde[i][k] = oldf[i][k]
        <3>1. \A h \in 1..m : e.rows[h][k] = f.rows[h][k]
            BY DEF Agrees
        <3>2. CASE i = top
            BY <2>1, <2>3, <3>1, <3>2 DEF Turned
        <3>3. CASE i = p
            BY <2>1, <2>3, <3>1, <3>3 DEF Turned
        <3>4. CASE i # top /\ i # p
            BY <2>3, <3>1, <3>4 DEF Turned
        <3> QED
            BY <3>2, <3>3, <3>4
    <2>5. ASSUME NEW k \in 1..V PROVE newe[top][k] = newf[top][k]
        <3>1. e.rows[p][k] = f.rows[p][k] /\ e.rows[p][d] = f.rows[p][d]
            BY <1>1, <2>1 DEF Agrees
        <3>2. k \in 1..W
            BY <1>1
        <3>3. newe[top][k] = Over(e.rows[p][k], e.rows[p][d])
              /\ newf[top][k] = Over(f.rows[p][k], f.rows[p][d])
            BY <2>3, <3>2 DEF Turned
        <3> QED
            BY <3>1, <3>3
    <2>6. ASSUME NEW i \in 1..m, NEW k \in 1..V, i # top PROVE newe[i][k] = newf[i][k]
        <3>1. olde[i][d] = oldf[i][d] /\ olde[i][k] = oldf[i][k] /\ newe[top][k] = newf[top][k]
            BY <1>1, <2>4, <2>5
        <3>2. /\ newe[i] = IF olde[i][d] = Zero THEN olde[i] ELSE Less(olde[i], olde[i][d], newe[top], W)
              /\ newf[i] = IF oldf[i][d] = Zero THEN oldf[i] ELSE Less(oldf[i], oldf[i][d], newf[top], V)
            BY <2>3, <2>6 DEF Turned
        <3>3. k \in 1..W
            BY <1>1
        <3> QED
            BY <3>1, <3>2, <3>3 DEF Less
    <2>7. \A i \in 1..m : \A k \in 1..V : newe[i][k] = newf[i][k]
        BY <2>5, <2>6
    <2> QED
        BY <2>1, <2>2, <2>7, ZenonT(40) DEF Agrees, newe, newf, d
<1> QED
    BY <1>3, <1>4

LEMMA EliminatedCut ==
    ASSUME NEW m \in Nat, NEW W \in Nat, NEW V \in Nat, V <= W, NEW n \in Nat, n <= V,
           NEW A \in [1..m -> FractionRow(W)], NEW B \in [1..m -> FractionRow(V)],
           \A i \in 1..m : \A k \in 1..V : A[i][k] = B[i][k]
    PROVE  Agrees(Eliminated(A, n), Eliminated(B, n), m, V)
<1> DEFINE Good(e, f, c) == RunsTo(A, c, e) /\ RunsTo(B, c, f) /\ Agrees(e, f, m, V)
           P == {c \in Nat : c <= n => \E e, f : Good(e, f, c)}
<1>1. 0 \in P
    <2> DEFINE e == [rows |-> A, pivots |-> <<>>]
               f == [rows |-> B, pivots |-> <<>>]
    <2>1. Good(e, f, 0)
        BY RunsToStart DEF Agrees
    <2> HIDE DEF Good, e, f
    <2> QED
        BY <2>1
<1>2. ASSUME NEW c \in P PROVE c + 1 \in P
    <2>1. SUFFICES ASSUME c + 1 <= n PROVE \E e, f : Good(e, f, c + 1)
        OBVIOUS
    <2>2. c \in Nat /\ c < V /\ c <= W /\ c <= V /\ \E e, f : Good(e, f, c)
        <3> HIDE DEF Good
        <3> QED
            BY <2>1
    <2>3. PICK e, f : Good(e, f, c)
        BY <2>2
    <2>4. Echelon(e, m, W, c) /\ Echelon(f, m, V, c)
        BY <2>2, <2>3, RunsKeep
    <2>5. Agrees(Eliminate(e, c + 1), Eliminate(f, c + 1), m, V)
        BY <2>2, <2>3, <2>4, EliminateCut
    <2>6. Good(Eliminate(e, c + 1), Eliminate(f, c + 1), c + 1)
        BY <2>2, <2>3, <2>5, RunsToStep
    <2> HIDE DEF Good
    <2> QED
        BY <2>6
<1>3. P = Nat
    <2>1. P \in SUBSET Nat
        OBVIOUS
    <2> HIDE DEF P
    <2> QED
        BY <1>1, <1>2, <2>1, Induction
<1>4. PICK e, f : Good(e, f, n)
    <2>1. n \in P
        <3> HIDE DEF P
        <3> QED
            BY <1>3
    <2> HIDE DEF Good
    <2> QED
        BY <2>1
<1>5. Eliminated(A, n) = e /\ Eliminated(B, n) = f
    BY <1>4, RunsToEnd
<1> QED
    BY <1>4, <1>5

----------------------------------------------------------------------------
(* The combinations of the rows A, and what a contradictory one proves.    *)

Column(A, k, m) == [i \in 1..m |-> A[i][k]]

Combination(y, A, u, m, W) == \A k \in 1..W : u[k] = SumProducts(y, Column(A, k, m), m)

Combinations(A, m, W) == {u \in FractionRow(W) : \E y \in FractionRow(m) : Combination(y, A, u, m, W)}

LEMMA CombinationsSpace ==
    ASSUME NEW m \in Nat, NEW W \in Nat, NEW A \in [1..m -> FractionRow(W)]
    PROVE  Space(Combinations(A, m, W), W) /\ \A i \in 1..m : A[i] \in Combinations(A, m, W)
<1> DEFINE L == Combinations(A, m, W)
<1>1. \A k \in 1..W : \A i \in 1..m : Column(A, k, m)[i] \in Fractions /\ Column(A, k, m)[i] = A[i][k]
    BY DEF Column, FractionRow
<1>2. ASSUME NEW u \in L
      PROVE  u \in FractionRow(W) /\ \E y \in FractionRow(m) : Combination(y, A, u, m, W)
    BY DEF Combinations
<1>3. ASSUME NEW u \in FractionRow(W), NEW y \in FractionRow(m), Combination(y, A, u, m, W)
      PROVE  u \in L
    BY <1>3 DEF Combinations
<1>4. \A y \in FractionRow(m) : \A i \in 1..m : y[i] \in Fractions
    BY DEF FractionRow
<1>5. L \subseteq FractionRow(W)
    BY <1>2
<1> HIDE DEF L
<1>6. ASSUME NEW c \in Fractions, NEW u \in L PROVE Scaled(c, u, W) \in L
    <2>1. PICK y \in FractionRow(m) : Combination(y, A, u, m, W)
        BY <1>2
    <2> DEFINE z == Scaled(c, y, m)
    <2>2. z \in FractionRow(m) /\ Scaled(c, u, W) \in FractionRow(W)
        BY <1>2, RowOps
    <2>3. \A i \in 1..m : z[i] = Times(c, y[i])
        BY DEF Scaled
    <2> HIDE DEF z
    <2>4. ASSUME NEW k \in 1..W
          PROVE  Scaled(c, u, W)[k] = SumProducts(z, Column(A, k, m), m)
        <3> DEFINE v == Column(A, k, m)
        <3>1. \A i \in 1..m : v[i] \in Fractions
            BY <1>1
        <3>2. u[k] = SumProducts(y, v, m)
            BY <2>1 DEF Combination
        <3> HIDE DEF v
        <3>3. SumProducts(z, v, m) = Times(c, SumProducts(y, v, m))
            BY <1>4, <2>3, <3>1, ProductsScale
        <3> QED
            BY <3>2, <3>3 DEF Scaled, v
    <2>5. Combination(z, A, Scaled(c, u, W), m, W)
        BY <2>4 DEF Combination
    <2> QED
        BY <1>3, <2>2, <2>5
<1>7. ASSUME NEW c \in Fractions, NEW u \in L, NEW w \in L
      PROVE  Added(u, c, w, W) \in L /\ Less(u, c, w, W) \in L
    <2>1. PICK y \in FractionRow(m) : Combination(y, A, u, m, W)
        BY <1>2
    <2>2. PICK x \in FractionRow(m) : Combination(x, A, w, m, W)
        BY <1>2
    <2> DEFINE z == Added(y, c, x, m)
               t == Less(y, c, x, m)
    <2>3. /\ z \in FractionRow(m) /\ t \in FractionRow(m)
          /\ Added(u, c, w, W) \in FractionRow(W) /\ Less(u, c, w, W) \in FractionRow(W)
        BY <1>2, RowOps
    <2>4. \A i \in 1..m : z[i] = Plus(y[i], Times(c, x[i])) /\ t[i] = Minus(y[i], Times(c, x[i]))
        BY DEF Added, Less
    <2> HIDE DEF z, t
    <2>5. ASSUME NEW k \in 1..W
          PROVE  /\ Added(u, c, w, W)[k] = SumProducts(z, Column(A, k, m), m)
                 /\ Less(u, c, w, W)[k] = SumProducts(t, Column(A, k, m), m)
        <3> DEFINE v == Column(A, k, m)
        <3>1. \A i \in 1..m : v[i] \in Fractions
            BY <1>1
        <3>2. u[k] = SumProducts(y, v, m) /\ w[k] = SumProducts(x, v, m)
            BY <2>1, <2>2 DEF Combination
        <3> HIDE DEF v
        <3>3. SumProducts(z, v, m) = Plus(SumProducts(y, v, m), Times(c, SumProducts(x, v, m)))
            BY <1>4, <2>4, <3>1, ProductsMore
        <3>4. SumProducts(t, v, m) = Minus(SumProducts(y, v, m), Times(c, SumProducts(x, v, m)))
            BY <1>4, <2>4, <3>1, ProductsLess
        <3> QED
            BY <3>2, <3>3, <3>4 DEF Added, Less, v
    <2>6. Combination(z, A, Added(u, c, w, W), m, W) /\ Combination(t, A, Less(u, c, w, W), m, W)
        BY <2>5 DEF Combination
    <2> QED
        BY <1>3, <2>3, <2>6
<1>8. ASSUME NEW i \in 1..m PROVE A[i] \in L
    <2> DEFINE y == Units(i, m)
    <2>1. y \in FractionRow(m)
        BY ZeroOne DEF Units, FractionRow
    <2>2. ASSUME NEW k \in 1..W PROVE A[i][k] = SumProducts(y, Column(A, k, m), m)
        <3> DEFINE v == Column(A, k, m)
        <3>1. Vector(v, m) /\ v[i] = A[i][k]
            BY <1>1 DEF Vector
        <3> HIDE DEF v
        <3> QED
            BY <3>1, UnitProducts DEF v
    <2>3. Combination(y, A, A[i], m, W)
        BY <2>2 DEF Combination
    <2> HIDE DEF y
    <2> QED
        BY <1>3, <2>1, <2>3
<1>9. Space(L, W)
    BY <1>5, <1>6, <1>7 DEF Space
<1> QED
    BY <1>8, <1>9 DEF L

\* y combines the equations to 0 = 1.
Refutes(y, M, rhs, m, n) ==
    /\ y \in FractionRow(m)
    /\ \A k \in 1..n : SumProducts(y, Column(M, k, m), m) = Zero
    /\ SumProducts(y, rhs, m) = One

\* Divided by its right side, a combination that says 0 = c says 0 = 1.
LEMMA RefutesScaled ==
    ASSUME NEW m \in Nat, NEW n \in Nat, NEW W \in Nat, n < W,
           NEW M, NEW rhs,
           \A i \in 1..m : rhs[i] \in Fractions /\ \A k \in 1..n : M[i][k] \in Fractions,
           NEW u \in FractionRow(W), Contradictory(u, n),
           NEW y \in FractionRow(m),
           \A k \in 1..n : u[k] = SumProducts(y, Column(M, k, m), m),
           u[n + 1] = SumProducts(y, rhs, m),
           NEW z, z = [i \in 1..m |-> Over(y[i], u[n + 1])]
    PROVE  Refutes(z, M, rhs, m, n)
<1> DEFINE c == u[n + 1]
           d == Over(One, c)
<1>1. c \in Fractions /\ c # Zero /\ \A k \in 1..n : u[k] = Zero
    BY DEF FractionRow, Contradictory
<1>2. d \in Fractions
    BY <1>1, ZeroOne, OverIs
<1>3. \A i \in 1..m : y[i] \in Fractions
    BY DEF FractionRow
<1>4. Times(d, c) = One
    <2>1. Times(c, d) = One
        BY <1>1, ZeroOne, OverIs
    <2> QED
        BY <1>1, <1>2, <2>1, TimesCommutes
<1>5. ASSUME NEW i \in 1..m PROVE z[i] = Times(d, y[i]) /\ z[i] \in Fractions
    <2>1. z[i] = Over(y[i], c)
        OBVIOUS
    <2> HIDE DEF c
    <2>2. Over(y[i], c) = Times(Over(One, c), y[i]) /\ Over(y[i], c) \in Fractions
        BY <1>1, <1>3, OverIs
    <2> QED
        BY <2>1, <2>2
<1>6. z \in FractionRow(m)
    BY <1>5 DEF FractionRow
<1> HIDE DEF c, d
<1>7. ASSUME NEW k \in 1..n PROVE SumProducts(z, Column(M, k, m), m) = Zero
    <2> DEFINE v == Column(M, k, m)
    <2>1. \A i \in 1..m : v[i] \in Fractions
        BY DEF Column
    <2>2. SumProducts(y, v, m) = Zero
        BY <1>1
    <2> HIDE DEF v
    <2>3. SumProducts(z, v, m) = Times(d, SumProducts(y, v, m))
        BY <1>2, <1>3, <1>5, <2>1, ProductsScale
    <2>4. Times(d, Zero) = Zero
        BY <1>2, TimesZero
    <2> QED
        BY <2>2, <2>3, <2>4 DEF v
<1>8. SumProducts(z, rhs, m) = Times(d, SumProducts(y, rhs, m))
    BY <1>2, <1>3, <1>5, ProductsScale
<1> QED
    BY <1>4, <1>6, <1>7, <1>8 DEF Refutes, c

\* A contradictory row of the eliminated matrix [D | r]: some combination of the
\* equations says so.
LEMMA Refutable ==
    ASSUME NEW m \in Nat, NEW n \in Nat, NEW W \in Nat, n < W,
           NEW M, NEW rhs, NEW A \in [1..m -> FractionRow(W)],
           \A i \in 1..m : A[i][n + 1] = rhs[i] /\ \A k \in 1..n : A[i][k] = M[i][k],
           NEW R, SameSpaces(A, R, m, W), NEW i \in 1..m, Contradictory(R[i], n)
    PROVE  \E y : Refutes(y, M, rhs, m, n)
<1> DEFINE u == R[i]
<1>1. \A j \in 1..m : R[j] \in Combinations(A, m, W)
    BY CombinationsSpace DEF SameSpaces
<1>2. u \in FractionRow(W) /\ \E y \in FractionRow(m) : Combination(y, A, u, m, W)
    BY <1>1 DEF Combinations
<1>3. PICK y \in FractionRow(m) : Combination(y, A, u, m, W)
    BY <1>2
<1>4. \A k \in 1..n : u[k] = SumProducts(y, Column(M, k, m), m)
    <2> SUFFICES ASSUME NEW k \in 1..n PROVE u[k] = SumProducts(y, Column(M, k, m), m)
        OBVIOUS
    <2>1. Column(A, k, m) = Column(M, k, m)
        BY DEF Column
    <2>2. k \in 1..W
        OBVIOUS
    <2> QED
        BY <1>3, <2>1, <2>2 DEF Combination
<1>5. u[n + 1] = SumProducts(y, rhs, m)
    <2> DEFINE v == Column(A, n + 1, m)
    <2>1. \A j \in 1..m : v[j] = rhs[j]
        BY DEF Column
    <2>2. u[n + 1] = SumProducts(y, v, m)
        BY <1>3 DEF Combination
    <2> HIDE DEF v, u
    <2>3. SumProducts(y, v, m) = SumProducts(y, rhs, m)
        BY <2>1, ProductsCongruent
    <2> QED
        BY <2>2, <2>3
<1>6. \A j \in 1..m : rhs[j] \in Fractions /\ \A k \in 1..n : M[j][k] \in Fractions
    <2> SUFFICES ASSUME NEW j \in 1..m PROVE rhs[j] \in Fractions /\ \A k \in 1..n : M[j][k] \in Fractions
        OBVIOUS
    <2>1. \A k \in 1..W : A[j][k] \in Fractions
        BY DEF FractionRow
    <2> QED
        BY <2>1
<1>7. Contradictory(u, n)
    OBVIOUS
<1> HIDE DEF u
<1>8. Refutes([j \in 1..m |-> Over(y[j], u[n + 1])], M, rhs, m, n)
    BY <1>2, <1>3, <1>4, <1>5, <1>6, <1>7, RefutesScaled
<1> QED
    BY <1>8

Records(row, y, M, rhs, m, n, W) ==
    /\ row \in FractionRow(W) /\ y \in FractionRow(m)
    /\ \A k \in 1..n : row[k] = SumProducts(y, Column(M, k, m), m)
    /\ row[n + 1] = SumProducts(y, rhs, m)

\* And the identity block says which: y is its row, over the right side.
LEMMA Recorded ==
    ASSUME NEW m \in Nat, NEW n \in Nat, NEW W, W = n + 1 + m,
           NEW M, NEW rhs, NEW A \in [1..m -> FractionRow(W)],
           \A i \in 1..m : A[i][n + 1] = rhs[i] /\ \A k \in 1..n : A[i][k] = M[i][k],
           \A i \in 1..m : \A k \in 1..m : A[i][n + 1 + k] = IF k = i THEN One ELSE Zero,
           NEW R, SameSpaces(A, R, m, W), NEW i \in 1..m
    PROVE  Records(R[i], [k \in 1..m |-> R[i][n + 1 + k]], M, rhs, m, n, W)
<1> DEFINE y == [k \in 1..m |-> R[i][n + 1 + k]]
           o == n + 1
<1>1. W \in Nat /\ o \in Nat /\ o + m <= W /\ n < W
    OBVIOUS
<1>2. R[i] \in FractionRow(W)
    <2>1. Space(Combinations(A, m, W), W) /\ \A j \in 1..m : A[j] \in Combinations(A, m, W)
        BY <1>1, CombinationsSpace
    <2>2. \A j \in 1..m : R[j] \in Combinations(A, m, W)
        BY <2>1 DEF SameSpaces
    <2> QED
        BY <2>2 DEF Combinations
<1>3. y \in FractionRow(m)
    BY <1>1, <1>2 DEF FractionRow
<1>4. ASSUME NEW j \in 1..W, NEW v, Vector(v, m), \A l \in 1..m : A[l][j] = v[l]
      PROVE  R[i][j] = SumProducts(y, v, m)
    <2>1. Space(Tracks(v, m, o, j, W), W)
        BY <1>1, <1>4, TracksSpace
    <2>2. ASSUME NEW l \in 1..m PROVE A[l] \in Tracks(v, m, o, j, W)
        <3> DEFINE b == [k \in 1..m |-> A[l][o + k]]
        <3>1. b = Units(l, m)
            BY DEF Units
        <3>2. SumProducts(Units(l, m), v, m) = v[l]
            BY <1>4, UnitProducts
        <3>3. A[l] \in FractionRow(W) /\ A[l][j] = v[l]
            BY <1>4
        <3> QED
            BY <3>1, <3>2, <3>3 DEF Tracks
    <2>3. \A l \in 1..m : R[l] \in Tracks(v, m, o, j, W)
        BY <2>1, <2>2 DEF SameSpaces
    <2> QED
        BY <2>3 DEF Tracks
<1>5. ASSUME NEW k \in 1..n PROVE R[i][k] = SumProducts(y, Column(M, k, m), m)
    <2> DEFINE v == Column(M, k, m)
    <2>1. k \in 1..W /\ \A l \in 1..m : A[l][k] = v[l] /\ A[l] \in FractionRow(W)
        BY <1>1 DEF Column
    <2>2. Vector(v, m)
        BY <2>1 DEF FractionRow, Vector
    <2> HIDE DEF v, y
    <2> QED
        BY <1>4, <2>1, <2>2 DEF v
<1>6. R[i][n + 1] = SumProducts(y, rhs, m)
    <2>1. n + 1 \in 1..W /\ \A l \in 1..m : A[l][n + 1] = rhs[l] /\ A[l] \in FractionRow(W)
        BY <1>1
    <2>2. Vector(rhs, m)
        <3>1. ASSUME NEW l \in 1..m PROVE rhs[l] \in Fractions
            <4>1. A[l] \in FractionRow(W) /\ A[l][n + 1] = rhs[l]
                BY <2>1
            <4>2. A[l][n + 1] \in Fractions
                BY <2>1, <4>1 DEF FractionRow
            <4> QED
                BY <4>1, <4>2
        <3> QED
            BY <3>1 DEF Vector
    <2> HIDE DEF y
    <2> QED
        BY <1>4, <2>1, <2>2
<1> HIDE DEF y
<1>7. Records(R[i], y, M, rhs, m, n, W)
    BY <1>2, <1>3, <1>5, <1>6 DEF Records
<1> QED
    BY <1>7 DEF y

----------------------------------------------------------------------------
(* The columns without a pivot, in order, and the vectors of the kernel.   *)

LEMMA FreeColumnsAre ==
    ASSUME NEW n \in Nat, NEW e
    PROVE  /\ FreeColumns(e, n) \in Seq(1..n)
           /\ \A c \in 1..n : PivotRow(e, c) = {} <=> \E k \in 1..Len(FreeColumns(e, n)) : FreeColumns(e, n)[k] = c
           /\ \A k, l \in 1..Len(FreeColumns(e, n)) : FreeColumns(e, n)[k] = FreeColumns(e, n)[l] => k = l
<1> DEFINE R(t) == t = [c \in 0..n |-> IF c = 0 THEN <<>>
                                       ELSE IF PivotRow(e, c) = {} THEN Append(t[c - 1], c) ELSE t[c - 1]]
           t == CHOOSE f : R(f)
           Starts(s, c) == /\ s[0] = <<>>
                           /\ \A k \in 1..c : s[k] = IF PivotRow(e, k) = {} THEN Append(s[k - 1], k)
                                                     ELSE s[k - 1]
           P == {c \in Nat : \E s : Starts(s, c)}
<1>1. FreeColumns(e, n) = t[n]
    BY Zenon DEF FreeColumns
<1>2. 0 \in P
    <2> DEFINE s == [k \in 0..0 |-> <<>>]
    <2>1. Starts(s, 0)
        OBVIOUS
    <2> HIDE DEF Starts, s
    <2> QED
        BY <2>1
<1>3. ASSUME NEW c \in P PROVE c + 1 \in P
    <2>1. c \in Nat /\ \E s : Starts(s, c)
        <3> HIDE DEF Starts
        <3> QED
            OBVIOUS
    <2>2. PICK s : Starts(s, c)
        BY <2>1
    <2> DEFINE d == IF PivotRow(e, c + 1) = {} THEN Append(s[c], c + 1) ELSE s[c]
               g == [k \in 0..(c + 1) |-> IF k = c + 1 THEN d ELSE s[k]]
    <2>3. g[0] = <<>> /\ g[c + 1] = d
        BY <2>1, <2>2
    <2>4. ASSUME NEW k \in 1..(c + 1)
          PROVE  g[k] = IF PivotRow(e, k) = {} THEN Append(g[k - 1], k) ELSE g[k - 1]
        <3>1. CASE k = c + 1
            <4>1. k - 1 = c /\ g[c] = s[c] /\ g[k] = d
                BY <2>1, <3>1
            <4> HIDE DEF g
            <4> QED
                BY <3>1, <4>1
        <3>2. CASE k # c + 1
            <4>1. k \in 1..c /\ g[k] = s[k] /\ g[k - 1] = s[k - 1]
                BY <2>1, <3>2
            <4> HIDE DEF g
            <4> QED
                BY <2>2, <4>1
        <3> QED
            BY <3>1, <3>2
    <2> HIDE DEF g, d
    <2>5. Starts(g, c + 1)
        BY <2>3, <2>4
    <2> HIDE DEF Starts
    <2> QED
        BY <2>1, <2>5
<1>4. P = Nat
    <2>1. P \in SUBSET Nat
        OBVIOUS
    <2> HIDE DEF P
    <2> QED
        BY <1>2, <1>3, <2>1, Induction
<1>5. PICK s : Starts(s, n)
    <2>1. n \in P
        <3> HIDE DEF P
        <3> QED
            BY <1>4
    <2> HIDE DEF Starts
    <2> QED
        BY <2>1
<1>6. R([c \in 0..n |-> s[c]])
    <2> DEFINE h == [c \in 0..n |-> s[c]]
    <2>1. \A c \in 0..n : h[c] = IF c = 0 THEN <<>>
                                 ELSE IF PivotRow(e, c) = {} THEN Append(h[c - 1], c) ELSE h[c - 1]
        <3>1. ASSUME NEW c \in 0..n, c # 0
              PROVE  h[c] = IF PivotRow(e, c) = {} THEN Append(h[c - 1], c) ELSE h[c - 1]
            <4>1. c - 1 \in 0..n /\ c \in 1..n
                BY <3>1
            <4>2. h[c] = s[c] /\ h[c - 1] = s[c - 1]
                BY <4>1
            <4> HIDE DEF h
            <4> QED
                BY <1>5, <4>1, <4>2
        <3>2. h[0] = <<>>
            BY <1>5
        <3> HIDE DEF h
        <3> QED
            BY <3>1, <3>2
    <2>2. h = [c \in 0..n |-> h[c]]
        OBVIOUS
    <2> HIDE DEF h
    <2>3. [c \in 0..n |-> h[c]]
            = [c \in 0..n |-> IF c = 0 THEN <<>>
                              ELSE IF PivotRow(e, c) = {} THEN Append(h[c - 1], c) ELSE h[c - 1]]
        BY <2>1, Zenon
    <2>4. R(h)
        BY <2>2, <2>3, Zenon
    <2> QED
        BY <2>4 DEF h
<1>7. R(t)
    <2> HIDE DEF R
    <2> QED
        BY <1>6
<1> DEFINE Right(v, c) == /\ v \in Seq(1..n)
                          /\ \A d \in 1..n : (d <= c /\ PivotRow(e, d) = {}) <=> \E k \in 1..Len(v) : v[k] = d
                          /\ \A k, l \in 1..Len(v) : v[k] = v[l] => k = l
           Q == {c \in Nat : c <= n => Right(t[c], c)}
<1>8. \A c \in 0..n : t[c] = IF c = 0 THEN <<>>
                             ELSE IF PivotRow(e, c) = {} THEN Append(t[c - 1], c) ELSE t[c - 1]
    <2> HIDE DEF t
    <2> QED
        BY <1>7
<1> HIDE DEF R, t
<1>9. 0 \in Q
    <2>1. t[0] = <<>>
        BY <1>8
    <2>2. Right(<<>>, 0)
        OBVIOUS
    <2> HIDE DEF Right
    <2> QED
        BY <2>1, <2>2
<1>10. ASSUME NEW c \in Q PROVE c + 1 \in Q
    <2>1. SUFFICES ASSUME c + 1 <= n PROVE Right(t[c + 1], c + 1)
        <3> HIDE DEF Right
        <3> QED
            OBVIOUS
    <2>2. c \in Nat /\ c + 1 \in 0..n /\ c + 1 # 0 /\ (c + 1) - 1 = c /\ Right(t[c], c)
        <3> HIDE DEF Right
        <3> QED
            BY <2>1
    <2> DEFINE v == t[c]
    <2>3. t[c + 1] = IF PivotRow(e, c + 1) = {} THEN Append(v, c + 1) ELSE v
        BY <1>8, <2>2
    <2>4. Right(v, c)
        BY <2>2
    <2> HIDE DEF v
    <2>5. CASE PivotRow(e, c + 1) = {}
        <3> DEFINE w == Append(v, c + 1)
        <3>1. w \in Seq(1..n) /\ Len(w) = Len(v) + 1 /\ w[Len(v) + 1] = c + 1
              /\ Len(v) \in Nat /\ \A k \in 1..Len(v) : w[k] = v[k]
            BY <2>1, <2>2, <2>4
        <3> HIDE DEF w
        <3>2. ASSUME NEW d \in 1..n
              PROVE  (d <= c + 1 /\ PivotRow(e, d) = {}) <=> \E k \in 1..Len(w) : w[k] = d
            <4>1. (\E k \in 1..Len(w) : w[k] = d) <=> (d = c + 1 \/ \E k \in 1..Len(v) : v[k] = d)
                <5>1. \A k \in 1..Len(w) : k \in 1..Len(v) \/ k = Len(v) + 1
                    BY <3>1
                <5>2. \A k \in 1..Len(v) : k \in 1..Len(w)
                    BY <3>1
                <5>3. Len(v) + 1 \in 1..Len(w)
                    BY <3>1
                <5> QED
                    BY <3>1, <5>1, <5>2, <5>3
            <4>2. d <= c + 1 <=> (d <= c \/ d = c + 1)
                BY <2>2
            <4> QED
                BY <2>4, <2>5, <4>1, <4>2
        <3>3. ASSUME NEW k \in 1..Len(w), NEW l \in 1..Len(w), w[k] = w[l] PROVE k = l
            <4>1. \A i \in 1..Len(v) : w[i] # c + 1
                <5> SUFFICES ASSUME NEW i \in 1..Len(v), v[i] = c + 1 PROVE FALSE
                    BY <3>1
                <5>1. c + 1 <= c
                    BY <2>1, <2>2, <2>4
                <5> QED
                    BY <2>2, <5>1
            <4>2. \A i \in 1..Len(w) : i \in 1..Len(v) \/ i = Len(v) + 1
                BY <3>1
            <4> QED
                BY <2>4, <3>1, <3>3, <4>1, <4>2
        <3> QED
            BY <2>3, <2>5, <3>1, <3>2, <3>3 DEF w
    <2>6. CASE PivotRow(e, c + 1) # {}
        <3>1. \A d \in 1..n : (d <= c + 1 /\ PivotRow(e, d) = {}) <=> (d <= c /\ PivotRow(e, d) = {})
            BY <2>2, <2>6
        <3> QED
            BY <2>3, <2>4, <2>6, <3>1
    <2> QED
        BY <2>5, <2>6
<1>11. Q = Nat
    <2>1. Q \in SUBSET Nat
        OBVIOUS
    <2> HIDE DEF Q
    <2> QED
        BY <1>9, <1>10, <2>1, Induction
<1>12. Right(t[n], n)
    <2>1. n \in Q
        <3> HIDE DEF Q
        <3> QED
            BY <1>11
    <2> HIDE DEF Right
    <2> QED
        BY <2>1
<1> QED
    BY <1>1, <1>12

\* The vectors of a basis, one for each free column, as they are read off.
BasisAt(e, B, n) ==
    \A f \in 1..n : ~IsPivot(e, f) =>
        /\ B[f] \in FractionRow(n) /\ B[f][f] = One
        /\ \A i \in 1..Len(e.pivots) : B[f][e.pivots[i]] = Times(MinusOne, e.rows[i][f])
        /\ \A c \in 1..n : ~IsPivot(e, c) /\ c # f => B[f][c] = Zero

\* Entry c of each of them.
EntriesAt(e, B, c, n) == [k \in 1..n |-> IF IsPivot(e, k) THEN Zero ELSE B[k][c]]

KilledBy(e, x, m, n) == \A i \in 1..m : SumProducts(e.rows[i], x, n) = Zero

LEMMA BasisKilled ==
    ASSUME NEW m \in Nat, NEW n \in Nat, NEW e, Echelon(e, m, n, n),
           NEW B, BasisAt(e, B, n), NEW f \in 1..n, ~IsPivot(e, f)
    PROVE  KilledBy(e, B[f], m, n)
<1> DEFINE b == B[f]
<1>1. /\ Vector(b, n) /\ b[f] = One
      /\ \A i \in 1..Len(e.pivots) : b[e.pivots[i]] = Times(MinusOne, e.rows[i][f])
      /\ \A c \in 1..n : ~IsPivot(e, c) /\ c # f => b[c] = Zero
    BY DEF BasisAt, FractionRow, Vector
<1> HIDE DEF b
<1>2. \A i \in 1..m : SumProducts(e.rows[i], b, n) = Zero
    BY <1>1, BasisVector
<1> QED
    BY <1>2 DEF KilledBy, b

LEMMA BasisCombines ==
    ASSUME NEW m \in Nat, NEW n \in Nat, NEW e, Echelon(e, m, n, n),
           NEW B, BasisAt(e, B, n), NEW x \in FractionRow(n)
    PROVE  KilledBy(e, x, m, n) <=> \A c \in 1..n : x[c] = SumProducts(x, EntriesAt(e, B, c, n), n)
<1>0. Vector(x, n) /\ \A k \in 1..n : x[k] \in Fractions
    BY DEF FractionRow, Vector
<1>1. ASSUME KilledBy(e, x, m, n), NEW c \in 1..n
      PROVE  x[c] = SumProducts(x, EntriesAt(e, B, c, n), n)
    <2> DEFINE g == EntriesAt(e, B, c, n)
    <2>1. \A k \in 1..n : g[k] = IF IsPivot(e, k) THEN Zero ELSE B[k][c]
        BY DEF EntriesAt
    <2> HIDE DEF g
    <2>2. ColumnOf(e, g, c, n)
        BY <2>1 DEF BasisAt, ColumnOf
    <2>3. \A i \in 1..m : SumProducts(e.rows[i], x, n) = Zero
        BY <1>1 DEF KilledBy
    <2>4. SumProducts(x, g, n) = x[c]
        BY <1>0, <2>2, <2>3, BasisSpans
    <2> QED
        BY <2>4 DEF g
<1>2. ASSUME \A c \in 1..n : x[c] = SumProducts(x, EntriesAt(e, B, c, n), n), NEW i \in 1..m
      PROVE  SumProducts(e.rows[i], x, n) = Zero
    <2> DEFINE row == e.rows[i]
               G == [c \in 1..n |-> EntriesAt(e, B, c, n)]
               z == [k \in 1..n |-> IF IsPivot(e, k) THEN Zero ELSE SumProducts(row, B[k], n)]
               C == [k \in 1..n |-> [c \in 1..n |-> G[c][k]]]
    <2>1. Vector(row, n)
        BY DEF Echelon, FractionRow, Vector
    <2>2. ASSUME NEW k \in 1..n, NEW c \in 1..n
          PROVE  G[c][k] = (IF IsPivot(e, k) THEN Zero ELSE B[k][c]) /\ G[c][k] \in Fractions
        <3>1. G[c][k] = IF IsPivot(e, k) THEN Zero ELSE B[k][c]
            BY DEF EntriesAt
        <3>2. ~IsPivot(e, k) => B[k][c] \in Fractions
            BY DEF BasisAt, FractionRow
        <3> HIDE DEF G
        <3> QED
            BY <3>1, <3>2, ZeroOne
    <2>3. ASSUME NEW k \in 1..n PROVE SumProducts(C[k], row, n) = Zero
        <3> DEFINE u == C[k]
        <3>1. \A c \in 1..n : u[c] = IF IsPivot(e, k) THEN Zero ELSE B[k][c]
            BY <2>2
        <3> HIDE DEF u
        <3>2. CASE IsPivot(e, k)
            <4>1. \A c \in 1..n : u[c] = Zero /\ row[c] \in Fractions
                BY <2>1, <3>1, <3>2 DEF Vector
            <4> HIDE DEF row
            <4>2. SumProducts(u, row, n) = Zero
                BY <4>1, ProductsOfZero
            <4> QED
                BY <4>2 DEF u
        <3>3. CASE ~IsPivot(e, k)
            <4> DEFINE b == B[k]
            <4>1. KilledBy(e, b, m, n)
                BY <3>3, BasisKilled
            <4>2. SumProducts(row, b, n) = Zero
                BY <4>1 DEF KilledBy
            <4>3. \A c \in 1..n : b[c] \in Fractions /\ row[c] \in Fractions /\ u[c] = b[c]
                BY <2>1, <3>1, <3>3 DEF BasisAt, FractionRow, Vector
            <4> HIDE DEF row, b
            <4>4. SumProducts(b, row, n) = Zero
                BY <4>2, <4>3, ProductsCommute
            <4>5. SumProducts(u, row, n) = SumProducts(b, row, n)
                BY <4>3, ProductsCongruent
            <4> QED
                BY <4>4, <4>5 DEF u
        <3> QED
            BY <3>2, <3>3
    <2>4. Matrix(G, n, n) /\ Transposes(C, G, n, n)
        BY <2>2 DEF Matrix, Vector, Transposes
    <2>5. Applies(x, G, x, n, n)
        <3>1. \A c \in 1..n : x[c] = SumProducts(G[c], x, n)
            <4> SUFFICES ASSUME NEW c \in 1..n PROVE x[c] = SumProducts(G[c], x, n)
                OBVIOUS
            <4> DEFINE g == G[c]
            <4>1. \A k \in 1..n : g[k] \in Fractions
                BY <2>2
            <4>2. x[c] = SumProducts(x, g, n)
                BY <1>2
            <4> HIDE DEF g
            <4>3. SumProducts(x, g, n) = SumProducts(g, x, n)
                BY <1>0, <4>1, ProductsCommute
            <4> QED
                BY <4>2, <4>3 DEF g
        <3> QED
            BY <3>1 DEF Applies
    <2> DEFINE o == [k \in 1..n |-> Zero]
    <2>6. Applies(o, C, row, n, n)
        BY <2>3 DEF Applies
    <2>7. \A k \in 1..n : o[k] = Zero
        OBVIOUS
    <2> HIDE DEF G, C, row, o
    <2>8. SumProducts(row, x, n) = SumProducts(o, x, n)
        BY <1>0, <2>1, <2>4, <2>5, <2>6, ProductsAssociate
    <2>9. SumProducts(o, x, n) = Zero
        BY <1>0, <2>7, ProductsOfZero
    <2> QED
        BY <2>8, <2>9 DEF row
<1> QED
    BY <1>1, <1>2 DEF KilledBy

\* What a vector is killed by, before and after.
LEMMA KernelKept ==
    ASSUME NEW M, Rectangular(M),
           NEW W \in Nat, columns(M) <= W, NEW A \in [1..Len(M) -> FractionRow(W)],
           \A i \in 1..Len(M) : \A k \in 1..columns(M) : A[i][k] = M[i][k],
           NEW e, e.rows \in [1..Len(M) -> FractionRow(W)], SameSpaces(A, e.rows, Len(M), W),
           NEW x \in FractionRow(columns(M))
    PROVE  is_zero(mat_vec(M, x)) <=> KilledBy(e, x, Len(M), columns(M))
<1> DEFINE m == Len(M)
           n == columns(M)
           R == e.rows
<1>1. m \in Nat /\ n \in Nat
    BY Shape
<1>2. n <= W /\ x \in FractionRow(n)
    OBVIOUS
<1>3. \A i \in 1..m : A[i] \in FractionRow(W) /\ \A k \in 1..n : A[i][k] = M[i][k]
    OBVIOUS
<1>4. SameSpaces(A, R, m, W) /\ \A i \in 1..m : R[i] \in FractionRow(W)
    OBVIOUS
<1> HIDE DEF n
<1>5. Len(x) = n /\ Vector(x, n)
    BY <1>1, <1>2, RowIsSeq DEF FractionRow, Vector
<1>6. mat_vec(M, x) = [i \in 1..m |-> SumProducts(M[i], x, n)]
    BY <1>5 DEF mat_vec
<1>7. is_zero(mat_vec(M, x)) <=> \A i \in 1..m : SumProducts(M[i], x, n) = Zero
    BY <1>1, <1>6 DEF is_zero
<1> HIDE DEF m, R
<1>8. \A i \in 1..m : A[i] \in Killed(x, n, W) <=> SumProducts(M[i], x, n) = Zero
    <2> SUFFICES ASSUME NEW i \in 1..m
                 PROVE  A[i] \in Killed(x, n, W) <=> SumProducts(M[i], x, n) = Zero
        OBVIOUS
    <2> DEFINE u == A[i]
               row == M[i]
    <2>1. u \in FractionRow(W) /\ \A k \in 1..n : u[k] = row[k]
        BY <1>3
    <2> HIDE DEF u, row
    <2>2. SumProducts(u, x, n) = SumProducts(row, x, n)
        BY <1>1, <2>1, ProductsCongruent
    <2> QED
        BY <2>1, <2>2 DEF Killed, u, row
<1>9. Space(Killed(x, n, W), W)
    BY <1>1, <1>2, <1>5, KilledSpace
<1>10. (\A i \in 1..m : A[i] \in Killed(x, n, W)) <=> (\A i \in 1..m : R[i] \in Killed(x, n, W))
    BY <1>4, <1>9 DEF SameSpaces
<1>11. (\A i \in 1..m : R[i] \in Killed(x, n, W)) <=> \A i \in 1..m : SumProducts(R[i], x, n) = Zero
    BY <1>4 DEF Killed
<1> QED
    BY <1>7, <1>8, <1>10, <1>11 DEF m, n, R, KilledBy

----------------------------------------------------------------------------
(* A turn that finds a pivot, row by row.                                  *)

RowByRow(e, c, m, W, p, top, old, pivot, new) ==
    /\ p = CHOOSE i \in Candidate(e, c + 1) : \A j \in Candidate(e, c + 1) : i <= j
    /\ top = Len(e.pivots) + 1
    /\ old = Swapped(e.rows, top, p)
    /\ pivot = [k \in 1..W |-> Over(e.rows[p][k], e.rows[p][c + 1])]
    /\ new = [i \in 1..m |-> IF i = top THEN pivot
                             ELSE IF old[i][c + 1] = Zero THEN old[i]
                             ELSE Less(old[i], old[i][c + 1], pivot, W)]

LEMMA TurnByRows ==
    ASSUME NEW m \in Nat, NEW W \in Nat, NEW c \in Nat, c < W, NEW e, Echelon(e, m, W, c),
           Candidate(e, c + 1) # {},
           NEW p, NEW top, NEW old, NEW pivot, NEW new, RowByRow(e, c, m, W, p, top, old, pivot, new)
    PROVE  /\ p \in 1..m /\ top \in 1..m
           /\ Eliminate(e, c + 1) = [rows |-> new, pivots |-> Append(e.pivots, c + 1)]
<1>0. /\ p = CHOOSE i \in Candidate(e, c + 1) : \A j \in Candidate(e, c + 1) : i <= j
      /\ top = Len(e.pivots) + 1
      /\ old = Swapped(e.rows, top, p)
      /\ pivot = [k \in 1..W |-> Over(e.rows[p][k], e.rows[p][c + 1])]
      /\ new = [i \in 1..m |-> IF i = top THEN pivot
                               ELSE IF old[i][c + 1] = Zero THEN old[i]
                               ELSE Less(old[i], old[i][c + 1], pivot, W)]
    BY DEF RowByRow
<1>a. PICK l \in 1..m :
        /\ l = CHOOSE i \in Candidate(e, c + 1) : \A j \in Candidate(e, c + 1) : i <= j
        /\ l > Len(e.pivots) /\ Len(e.pivots) + 1 \in 1..m
        /\ e.rows[l][c + 1] # Zero
        /\ Eliminate(e, c + 1).rows = Pivoted(e.rows, Len(e.pivots) + 1, l, c + 1)
        /\ Eliminate(e, c + 1).pivots = Append(e.pivots, c + 1)
    <2>1. PICK l : TurnsOn(e, c + 1, m, l)
        BY EliminateIs
    <2> QED
        BY <2>1 DEF TurnsOn
<1> DEFINE d == c + 1
           g == Pivoted(e.rows, top, p, d)
<1>1. /\ p \in 1..m /\ top \in 1..m /\ e.rows[p][d] # Zero
      /\ Eliminate(e, d).rows = g
      /\ Eliminate(e, d).pivots = Append(e.pivots, d)
    BY <1>0, <1>a
<1>2. e.rows \in [1..m -> FractionRow(W)] /\ d \in 1..W
    BY DEF Echelon
<1>3. Turned(e.rows, old, g, top, p, d, m, W)
    <2> DEFINE r == e.rows
    <2>1. r \in [1..m -> FractionRow(W)] /\ r[p][d] # Zero
        BY <1>1, <1>2
    <2> HIDE DEF r, d
    <2>2. Turned(r, Swapped(r, top, p), Pivoted(r, top, p, d), top, p, d, m, W)
        BY <1>1, <1>2, <2>1, PivotedRows
    <2> QED
        BY <1>0, <2>2 DEF r
<1> HIDE DEF g
<1>4. g[top] = pivot
    <2>1. g[top] \in FractionRow(W) /\ \A k \in 1..W : g[top][k] = Over(e.rows[p][k], e.rows[p][d])
        BY <1>1, <1>3 DEF Turned
    <2> DEFINE a == g[top]
    <2>2. a = [k \in 1..W |-> a[k]] /\ \A k \in 1..W : a[k] = Over(e.rows[p][k], e.rows[p][d])
        BY <2>1 DEF FractionRow
    <2> HIDE DEF a
    <2> QED
        BY <1>0, <2>2 DEF a
<1>5. \A i \in 1..m : g[i] = new[i]
    <2> SUFFICES ASSUME NEW i \in 1..m PROVE g[i] = new[i]
        OBVIOUS
    <2>1. CASE i = top
        BY <1>0, <1>4, <2>1
    <2>2. CASE i # top
        <3>1. g[i] = IF old[i][d] = Zero THEN old[i] ELSE Less(old[i], old[i][d], g[top], W)
            BY <1>3, <2>2 DEF Turned
        <3>2. new[i] = IF old[i][d] = Zero THEN old[i] ELSE Less(old[i], old[i][d], pivot, W)
            BY <1>0, <2>2
        <3> QED
            BY <1>4, <3>1, <3>2
    <2> QED
        BY <2>1, <2>2
<1>6. g = new
    <2>1. g = [i \in 1..m |-> g[i]] /\ new = [i \in 1..m |-> new[i]]
        BY <1>0, <1>3 DEF Turned
    <2> QED
        BY <1>5, <2>1
<1>7. Eliminate(e, d) = [rows |-> Eliminate(e, d).rows, pivots |-> Eliminate(e, d).pivots]
    <2> DEFINE at == {i \in (Len(e.pivots) + 1)..Len(e.rows) : e.rows[i][d] # Zero}
    <2>1. at # {}
        BY DEF Candidate
    <2> HIDE DEF d, at
    <2>2. Eliminate(e, d) = [rows |-> Pivoted(e.rows, Len(e.pivots) + 1, CHOOSE i \in at : \A j \in at : i <= j, d),
                             pivots |-> Append(e.pivots, d)]
        BY <2>1 DEF Eliminate, at
    <2> QED
        BY <2>2
<1> QED
    BY <1>1, <1>6, <1>7

\* The vectors that KernelBasis lists are the ones read off at the pivots.
LEMMA KernelBasisIs ==
    ASSUME NEW m \in Nat, NEW n \in Nat, NEW e, Echelon(e, m, n, n), NEW B, BasisAt(e, B, n)
    PROVE  /\ DOMAIN KernelBasis(e, n) = 1..Len(FreeColumns(e, n))
           /\ \A k \in 1..Len(FreeColumns(e, n)) : KernelBasis(e, n)[k] = B[FreeColumns(e, n)[k]]
<1> DEFINE free == FreeColumns(e, n)
           vector(f) == [c \in 1..n |->
                           IF c = f THEN One
                           ELSE IF PivotRow(e, c) = {} THEN Zero
                           ELSE Minus(Zero, e.rows[CHOOSE i \in PivotRow(e, c) : TRUE][f])]
           listed == [k \in 1..Len(free) |-> Computed(vector(free[k]))]
<1>1. /\ e.rows \in [1..m -> FractionRow(n)] /\ DOMAIN e.pivots = 1..Len(e.pivots)
      /\ Len(e.pivots) \in Nat /\ Len(e.pivots) <= m
    <2>1. EchelonShape(e, m, n, n)
        BY EchelonParts
    <2> QED
        BY <2>1 DEF EchelonShape
<1>2. \A c \in 1..n : IsPivot(e, c) <=> PivotRow(e, c) # {}
    BY <1>1 DEF IsPivot, PivotRow
<1>3. ASSUME NEW f \in 1..n, ~IsPivot(e, f) PROVE vector(f) = B[f]
    <2> DEFINE b == B[f]
    <2>1. /\ b \in FractionRow(n) /\ b[f] = One
          /\ \A i \in 1..Len(e.pivots) : b[e.pivots[i]] = Times(MinusOne, e.rows[i][f])
          /\ \A c \in 1..n : ~IsPivot(e, c) /\ c # f => b[c] = Zero
        BY <1>3 DEF BasisAt
    <2> HIDE DEF b
    <2>2. ASSUME NEW c \in 1..n PROVE b[c] = vector(f)[c]
        <3>1. CASE c = f
            BY <2>1, <3>1
        <3>2. CASE c # f /\ ~IsPivot(e, c)
            BY <1>2, <2>1, <3>2
        <3>3. CASE c # f /\ IsPivot(e, c)
            <4> DEFINE i == CHOOSE j \in PivotRow(e, c) : TRUE
            <4>1. i \in PivotRow(e, c)
                BY <1>2, <3>3
            <4>2. vector(f)[c] = Minus(Zero, e.rows[i][f])
                BY <1>2, <3>3
            <4> HIDE DEF i
            <4>3. i \in 1..Len(e.pivots) /\ i \in 1..m /\ e.pivots[i] = c
                BY <1>1, <4>1 DEF PivotRow
            <4>4. e.rows[i][f] \in Fractions
                BY <1>1, <4>3 DEF FractionRow
            <4>5. b[c] = Times(MinusOne, e.rows[i][f])
                BY <2>1, <4>3
            <4>6. Minus(Zero, e.rows[i][f]) = Times(MinusOne, e.rows[i][f])
                BY <4>4, MinusOneIs
            <4> QED
                BY <4>2, <4>5, <4>6
        <3> QED
            BY <3>1, <3>2, <3>3
    <2>3. b = [c \in 1..n |-> b[c]]
        BY <2>1 DEF FractionRow
    <2> QED
        BY <2>2, <2>3 DEF b
<1>4. KernelBasis(e, n) = Computed(listed)
    BY DEF KernelBasis
<1>5. free \in Seq(1..n) /\ \A c \in 1..n : PivotRow(e, c) = {} <=> \E k \in 1..Len(free) : free[k] = c
    BY FreeColumnsAre
<1> HIDE DEF free, vector
<1>6. ASSUME NEW k \in 1..Len(free)
      PROVE  Computed(vector(free[k])) = B[free[k]] /\ B[free[k]] \in FractionRow(n)
    <2>1. free[k] \in 1..n
        BY <1>5
    <2>2. ~IsPivot(e, free[k])
        BY <1>2, <1>5, <2>1
    <2>3. vector(free[k]) = B[free[k]] /\ B[free[k]] \in FractionRow(n)
        BY <1>3, <2>1, <2>2 DEF BasisAt
    <2>4. B[free[k]] \in Seq(Fractions)
        BY <2>3, RowIsSeq
    <2> QED
        BY <2>3, <2>4, ComputedIs
<1>7. listed = [k \in 1..Len(free) |-> B[free[k]]]
    BY <1>6
<1>8. Len(free) \in Nat
    BY <1>5
<1>9. listed \in Seq(FractionRow(n))
    <2> HIDE DEF listed
    <2> QED
        BY <1>6, <1>7, <1>8
<1> HIDE DEF listed
<1>10. KernelBasis(e, n) = listed
    BY <1>4, <1>9, ComputedIs
<1> QED
    BY <1>7, <1>10 DEF free

----------------------------------------------------------------------------
(* Products of matrices, and spans.                                        *)

Rows(m, n) == [1..m -> FractionRow(n)]

LEMMA RectangularRows ==
    ASSUME NEW M, Rectangular(M)
    PROVE  /\ Len(M) \in Nat /\ columns(M) \in Nat /\ M \in Rows(Len(M), columns(M))
           /\ M = <<>> <=> Len(M) = 0
<1>1. Len(M) \in Nat /\ columns(M) \in Nat /\ M \in Seq(Seq(Fractions))
    BY Shape DEF Rectangular
<1>2. ASSUME NEW i \in 1..Len(M) PROVE M[i] \in FractionRow(columns(M))
    <2>1. M[i] \in Seq(Fractions) /\ Len(M[i]) = columns(M)
        BY <1>1 DEF Rectangular
    <2> QED
        BY <2>1 DEF FractionRow
<1>3. M = [i \in 1..Len(M) |-> M[i]]
    BY <1>1
<1> QED
    BY <1>1, <1>2, <1>3 DEF Rows

LEMMA RowsRectangular ==
    ASSUME NEW m \in Nat, NEW n \in Nat, NEW M \in Rows(m, n)
    PROVE  /\ Rectangular(M) /\ Len(M) = m /\ DOMAIN M = 1..m
           /\ m > 0 => columns(M) = n /\ M # <<>>
           /\ m = 0 => M = <<>>
<1>1. M \in Seq(FractionRow(n)) /\ Len(M) = m /\ DOMAIN M = 1..m
    BY DEF Rows
<1>2. \A i \in 1..m : M[i] \in FractionRow(n)
    BY <1>1 DEF Rows
<1>3. \A i \in 1..m : M[i] \in Seq(Fractions) /\ Len(M[i]) = n
    BY <1>2, RowIsSeq
<1>4. m > 0 => columns(M) = n /\ M # <<>>
    BY <1>1, <1>3 DEF columns
<1>5. m = 0 => M = <<>>
    BY <1>1
<1>6. M \in Seq(Seq(Fractions))
    BY <1>1, <1>3, Retyped
<1> QED
    BY <1>1, <1>3, <1>4, <1>5, <1>6 DEF Rectangular

LEMMA ApplyIs ==
    ASSUME NEW m \in Nat, NEW n \in Nat, NEW M \in Rows(m, n), NEW v \in FractionRow(n)
    PROVE  /\ mat_vec(M, v) \in FractionRow(m)
           /\ \A i \in 1..m : mat_vec(M, v)[i] = SumProducts(M[i], v, n)
<1>1. Len(M) = m /\ Len(v) = n
    BY RowsRectangular, RowIsSeq
<1>2. mat_vec(M, v) = [i \in 1..m |-> SumProducts(M[i], v, n)]
    BY <1>1 DEF mat_vec
<1>3. ASSUME NEW i \in 1..m PROVE SumProducts(M[i], v, n) \in Fractions
    <2>1. \A k \in 1..n : M[i][k] \in Fractions /\ v[k] \in Fractions
        BY DEF Rows, FractionRow
    <2> QED
        BY <2>1, ProductsType
<1> QED
    BY <1>2, <1>3 DEF FractionRow

LEMMA ProductIs ==
    ASSUME NEW m \in Nat, NEW n \in Nat, NEW p \in Nat, m > 0, n > 0,
           NEW A \in Rows(m, n), NEW B \in Rows(n, p)
    PROVE  /\ mat_mat(A, B) \in Rows(m, p)
           /\ \A i \in 1..m, j \in 1..p : mat_mat(A, B)[i][j] = SumProducts(A[i], Column(B, j, n), n)
<1>1. /\ Len(A) = m /\ Len(B) = n /\ A # <<>> /\ B # <<>> /\ columns(B) = p
    BY RowsRectangular
<1> DEFINE row(i) == [j \in 1..p |-> SumProducts(A[i], Column(B, j, n), n)]
           P == [i \in 1..m |-> row(i)]
<1>2. ASSUME NEW i \in 1..m PROVE row(i) \in FractionRow(p)
    <2>1. ASSUME NEW j \in 1..p PROVE SumProducts(A[i], Column(B, j, n), n) \in Fractions
        <3>1. \A k \in 1..n : A[i][k] \in Fractions /\ Column(B, j, n)[k] \in Fractions
            BY DEF Rows, FractionRow, Column
        <3> QED
            BY <3>1, ProductsType
    <2> QED
        BY <2>1 DEF FractionRow
<1>3. mat_mat(A, B) = P
    <2>1. \A j \in 1..p : transpose(B)[j] = Column(B, j, n)
        BY <1>1 DEF transpose, Column
    <2>2. \A i \in 1..m : Computed([j \in 1..p |-> SumProducts(A[i], transpose(B)[j], n)]) = row(i)
        <3> SUFFICES ASSUME NEW i \in 1..m
                     PROVE  Computed([j \in 1..p |-> SumProducts(A[i], transpose(B)[j], n)]) = row(i)
            OBVIOUS
        <3>1. [j \in 1..p |-> SumProducts(A[i], transpose(B)[j], n)] = row(i)
            BY <2>1
        <3>2. row(i) \in Seq(Fractions)
            BY <1>2, RowIsSeq
        <3> HIDE DEF row
        <3> QED
            BY <3>1, <3>2, ComputedIs
    <2> HIDE DEF row
    <2>3. P \in Seq(FractionRow(p))
        BY <1>2
    <2>4. mat_mat(A, B) = Computed([i \in 1..m |-> Computed([j \in 1..p |-> SumProducts(A[i], transpose(B)[j], n)])])
        BY <1>1 DEF mat_mat
    <2>5. [i \in 1..m |-> Computed([j \in 1..p |-> SumProducts(A[i], transpose(B)[j], n)])] = P
        BY <2>2
    <2> QED
        BY <2>3, <2>4, <2>5, ComputedIs
<1>4. P \in Rows(m, p)
    <2> HIDE DEF row
    <2> QED
        BY <1>2 DEF Rows
<1> QED
    BY <1>3, <1>4

LEMMA EmptyProduct == ASSUME NEW A, NEW B, A = <<>> \/ B = <<>> PROVE mat_mat(A, B) = <<>>
    BY DEF mat_mat

\* (A B) v = A (B v).
LEMMA ApplyProduct ==
    ASSUME NEW m \in Nat, NEW n \in Nat, NEW p \in Nat, m > 0, n > 0,
           NEW A \in Rows(m, n), NEW B \in Rows(n, p), NEW v \in FractionRow(p)
    PROVE  mat_vec(mat_mat(A, B), v) = mat_vec(A, mat_vec(B, v))
<1> DEFINE P == mat_mat(A, B)
           w == mat_vec(B, v)
           C == [j \in 1..p |-> Column(B, j, n)]
<1>1. P \in Rows(m, p) /\ \A i \in 1..m, j \in 1..p : P[i][j] = SumProducts(A[i], Column(B, j, n), n)
    BY ProductIs
<1>2. w \in FractionRow(n) /\ \A k \in 1..n : w[k] = SumProducts(B[k], v, p)
    BY ApplyIs
<1> HIDE DEF P, w
<1>3. ASSUME NEW i \in 1..m PROVE SumProducts(P[i], v, p) = SumProducts(A[i], w, n)
    <2>1. Matrix(B, n, p) /\ Transposes(C, B, n, p) /\ Vector(v, p) /\ Vector(A[i], n)
        BY DEF Matrix, Vector, Transposes, Rows, FractionRow, Column
    <2>2. Applies(w, B, v, n, p)
        BY <1>2 DEF Applies
    <2>3. Applies(P[i], C, A[i], p, n)
        <3> SUFFICES ASSUME NEW j \in 1..p PROVE P[i][j] = SumProducts(C[j], A[i], n)
            BY DEF Applies
        <3>1. P[i][j] = SumProducts(A[i], Column(B, j, n), n) /\ C[j] = Column(B, j, n)
            BY <1>1
        <3>2. \A k \in 1..n : A[i][k] \in Fractions /\ Column(B, j, n)[k] \in Fractions
            BY DEF Rows, FractionRow, Column
        <3> HIDE DEF C
        <3> QED
            BY <3>1, <3>2, ProductsCommute
    <2> HIDE DEF C
    <2> QED
        BY <2>1, <2>2, <2>3, ProductsAssociate
<1>4. /\ mat_vec(P, v) \in FractionRow(m) /\ \A i \in 1..m : mat_vec(P, v)[i] = SumProducts(P[i], v, p)
      /\ mat_vec(A, w) \in FractionRow(m) /\ \A i \in 1..m : mat_vec(A, w)[i] = SumProducts(A[i], w, n)
    BY <1>1, <1>2, ApplyIs
<1>5. mat_vec(P, v) = mat_vec(A, w)
    BY <1>3, <1>4 DEF FractionRow
<1> QED
    BY <1>5 DEF P, w

\* (A B) C = A (B C), whatever is empty.
LEMMA ProductAssociates ==
    ASSUME NEW m \in Nat, NEW n \in Nat, NEW p \in Nat, NEW q \in Nat,
           NEW A \in Rows(m, n), NEW B \in Rows(n, p), NEW C \in Rows(p, q)
    PROVE  mat_mat(mat_mat(A, B), C) = mat_mat(A, mat_mat(B, C))
<1>1. CASE m = 0 \/ n = 0 \/ p = 0
    <2>1. A = <<>> \/ B = <<>> \/ C = <<>>
        BY <1>1, RowsRectangular
    <2> QED
        BY <2>1, EmptyProduct
<1>2. CASE m > 0 /\ n > 0 /\ p > 0
    <2> DEFINE AB == mat_mat(A, B)
               BC == mat_mat(B, C)
    <2>1. /\ AB \in Rows(m, p) /\ BC \in Rows(n, q)
          /\ \A k \in 1..n, j \in 1..q : BC[k][j] = SumProducts(B[k], Column(C, j, p), p)
          /\ \A i \in 1..m, k \in 1..p : AB[i][k] = SumProducts(A[i], Column(B, k, n), n)
        BY <1>2, ProductIs
    <2> HIDE DEF AB, BC
    <2> DEFINE L == mat_mat(AB, C)
               R == mat_mat(A, BC)
    <2>2. L \in Rows(m, q) /\ \A i \in 1..m, j \in 1..q : L[i][j] = SumProducts(AB[i], Column(C, j, p), p)
        BY <1>2, <2>1, ProductIs
    <2>2b. R \in Rows(m, q) /\ \A i \in 1..m, j \in 1..q : R[i][j] = SumProducts(A[i], Column(BC, j, n), n)
        BY <1>2, <2>1, ProductIs
    <2> HIDE DEF L, R
    <2>3. ASSUME NEW i \in 1..m, NEW j \in 1..q PROVE L[i][j] = R[i][j]
        <3>0. \A k \in 1..p : AB[i][k] = SumProducts(A[i], Column(B, k, n), n)
            BY <2>1
        <3> DEFINE c == Column(C, j, p)
                   d == Column(BC, j, n)
        <3>1. c \in FractionRow(p)
            BY DEF Column, Rows, FractionRow
        <3> DEFINE X == [k \in 1..p |-> Column(B, k, n)]
        <3>2. Matrix(B, n, p) /\ Transposes(X, B, n, p) /\ Vector(c, p) /\ Vector(A[i], n)
            BY <3>1 DEF Matrix, Vector, Transposes, Rows, FractionRow, Column
        <3>3. Applies(d, B, c, n, p)
            <4>1. \A k \in 1..n : d[k] = BC[k][j]
                BY DEF Column
            <4> HIDE DEF d
            <4> QED
                BY <2>1, <4>1 DEF Applies
        <3>4. Applies(AB[i], X, A[i], p, n)
            <4> SUFFICES ASSUME NEW k \in 1..p PROVE AB[i][k] = SumProducts(X[k], A[i], n)
                BY DEF Applies
            <4>0. X[k] = Column(B, k, n)
                OBVIOUS
            <4>1. AB[i][k] = SumProducts(A[i], Column(B, k, n), n)
                BY <3>0
            <4>2. \A l \in 1..n : A[i][l] \in Fractions /\ Column(B, k, n)[l] \in Fractions
                BY DEF Rows, FractionRow, Column
            <4> HIDE DEF X
            <4> QED
                BY <4>0, <4>1, <4>2, ProductsCommute
        <3> HIDE DEF X, c, d
        <3>5. SumProducts(A[i], d, n) = SumProducts(AB[i], c, p)
            BY <3>2, <3>3, <3>4, ProductsAssociate
        <3> QED
            BY <2>2, <2>2b, <3>5 DEF c, d
    <2>4. L = R
        <3>1. \A i \in 1..m : L[i] = R[i]
            BY <2>2, <2>2b, <2>3 DEF Rows, FractionRow
        <3> QED
            BY <2>2, <2>2b, <3>1 DEF Rows
    <2> QED
        BY <2>4 DEF L, R, AB, BC
<1> QED
    BY <1>1, <1>2

LEMMA TransposeIs ==
    ASSUME NEW m \in Nat, NEW n \in Nat, m > 0, NEW M \in Rows(m, n)
    PROVE  /\ transpose(M) = [j \in 1..n |-> Column(M, j, m)]
           /\ transpose(M) \in Rows(n, m)
           /\ \A j \in 1..n : Column(M, j, m) \in FractionRow(m)
<1>1. Len(M) = m /\ columns(M) = n
    BY RowsRectangular
<1>2. transpose(M) = [j \in 1..n |-> Column(M, j, m)]
    BY <1>1 DEF transpose, Column
<1>3. \A j \in 1..n : Column(M, j, m) \in FractionRow(m)
    BY DEF Column, Rows, FractionRow
<1> QED
    BY <1>2, <1>3 DEF Rows

\* v is a combination of the k rows of L.
InSpan(L, k, n, v) ==
    \E a \in FractionRow(k) : \A c \in 1..n : v[c] = SumProducts(Column(L, c, k), a, k)

LEMMA SpanDecided ==
    ASSUME NEW k \in Nat, NEW n \in Nat, NEW L \in Rows(k, n), NEW v \in FractionRow(n)
    PROVE  in_span_over_Q(L, v) <=> InSpan(L, k, n, v)
<1>1. v \in Seq(Fractions) /\ Len(v) = n /\ DOMAIN v = 1..n
    BY RowIsSeq
<1>2. CASE k = 0
    <2>1. L = <<>>
        BY <1>2, RowsRectangular
    <2>2. in_span_over_Q(L, v) <=> \A c \in 1..n : v[c] = Zero
        BY <1>1, <2>1 DEF in_span_over_Q, is_zero
    <2>3. \A a : \A c \in 1..n : SumProducts(Column(L, c, k), a, k) = Zero
        BY <1>2, ProductsStart
    <2>4. [i \in 1..0 |-> Zero] \in FractionRow(k)
        BY <1>2 DEF FractionRow
    <2> QED
        BY <2>2, <2>3, <2>4 DEF InSpan
<1>3. CASE k > 0
    <2> DEFINE T == transpose(L)
    <2>1. T \in Rows(n, k) /\ T = [c \in 1..n |-> Column(L, c, k)] /\ L # <<>>
        BY <1>3, TransposeIs, RowsRectangular
    <2>2. in_span_over_Q(L, v) <=> Solvable(T, v)
        BY <2>1 DEF in_span_over_Q
    <2>3. Rectangular(T) /\ Len(T) = n /\ Vector(v, n)
        BY <1>1, <2>1, RowsRectangular DEF Vector
    <2>4. \A a \in FractionRow(k) : mat_vec(T, a) = v <=> \A c \in 1..n : v[c] = SumProducts(Column(L, c, k), a, k)
        <3> SUFFICES ASSUME NEW a \in FractionRow(k)
                     PROVE  mat_vec(T, a) = v <=> \A c \in 1..n : v[c] = SumProducts(Column(L, c, k), a, k)
            OBVIOUS
        <3>1. mat_vec(T, a) \in FractionRow(n) /\ \A c \in 1..n : mat_vec(T, a)[c] = SumProducts(T[c], a, k)
            BY <2>1, ApplyIs
        <3>2. \A c \in 1..n : T[c] = Column(L, c, k)
            BY <2>1
        <3> QED
            BY <3>1, <3>2 DEF FractionRow
    <2>5. CASE n = 0
        <3>1. T = <<>> /\ columns(T) = 0
            BY <2>1, <2>5, RowsRectangular DEF columns
        <3>2. [i \in 1..0 |-> Zero] \in FractionRow(0) /\ [i \in 1..k |-> Zero] \in FractionRow(k)
            BY ZeroOne DEF FractionRow
        <3>3. mat_vec(T, [i \in 1..0 |-> Zero]) = v
            BY <1>1, <2>5, <3>1 DEF mat_vec
        <3>4. Solvable(T, v)
            BY <1>1, <2>3, <3>1, <3>2, <3>3, SolvesExactly
        <3> QED
            BY <2>2, <2>5, <3>2, <3>4 DEF InSpan
    <2>6. CASE n > 0
        <3>1. columns(T) = k
            BY <2>1, <2>6, RowsRectangular
        <3> HIDE DEF T
        <3>2. Solvable(T, v) <=> \E a \in FractionRow(k) : mat_vec(T, a) = v
            <4>1. /\ \A b \in solve_over_Q(T, v) : b \in FractionRow(k) /\ mat_vec(T, b) = v
                  /\ \A b \in FractionRow(k) : mat_vec(T, b) = v => Solvable(T, v)
                BY <1>1, <2>3, <3>1, SolvesExactly
            <4> QED
                BY <4>1 DEF Solvable
        <3> QED
            BY <2>2, <2>4, <3>2 DEF InSpan
    <2> QED
        BY <2>5, <2>6
<1> QED
    BY <1>2, <1>3

\* The vectors of a list, taken back along a map.
PushedBack(rho, L) == [k \in DOMAIN L |-> mat_vec(transpose(rho), L[k])]

LEMMA PushedIs ==
    ASSUME NEW m \in Nat, NEW n \in Nat, m > 0, NEW rho \in Rows(m, n), NEW k \in Nat, NEW L \in Rows(k, m)
    PROVE  /\ PushedBack(rho, L) \in Rows(k, n)
           /\ \A j \in 1..k, c \in 1..n : PushedBack(rho, L)[j][c] = SumProducts(Column(rho, c, m), L[j], m)
<1> DEFINE T == transpose(rho)
<1>1. T \in Rows(n, m) /\ \A c \in 1..n : T[c] = Column(rho, c, m)
    BY TransposeIs
<1> HIDE DEF T
<1>2. ASSUME NEW j \in 1..k
      PROVE  /\ mat_vec(T, L[j]) \in FractionRow(n)
             /\ \A c \in 1..n : mat_vec(T, L[j])[c] = SumProducts(Column(rho, c, m), L[j], m)
    <2>1. L[j] \in FractionRow(m)
        BY DEF Rows
    <2> QED
        BY <1>1, <2>1, ApplyIs
<1>3. PushedBack(rho, L) = [j \in 1..k |-> mat_vec(T, L[j])]
    BY DEF PushedBack, Rows, T
<1> QED
    BY <1>2, <1>3 DEF Rows

\* Taking back a combination is combining what was taken back.
LEMMA PushedCombines ==
    ASSUME NEW m \in Nat, NEW n \in Nat, m > 0, NEW rho \in Rows(m, n), NEW k \in Nat, NEW L \in Rows(k, m),
           NEW a \in FractionRow(k), NEW u \in FractionRow(m),
           \A l \in 1..m : u[l] = SumProducts(Column(L, l, k), a, k), NEW c \in 1..n
    PROVE  SumProducts(Column(rho, c, m), u, m) = SumProducts(Column(PushedBack(rho, L), c, k), a, k)
<1> DEFINE X == [l \in 1..m |-> Column(L, l, k)]
           y == Column(rho, c, m)
           w == Column(PushedBack(rho, L), c, k)
<1>1. y \in FractionRow(m)
    BY DEF Column, Rows, FractionRow
<1>2. Matrix(X, m, k) /\ Transposes(L, X, m, k) /\ Vector(y, m) /\ Vector(a, k)
    BY <1>1 DEF Matrix, Vector, Transposes, Rows, FractionRow, Column
<1>3. Applies(u, X, a, m, k)
    BY DEF Applies
<1>4. Applies(w, L, y, k, m)
    <2> SUFFICES ASSUME NEW j \in 1..k PROVE w[j] = SumProducts(L[j], y, m)
        BY DEF Applies
    <2>1. w[j] = PushedBack(rho, L)[j][c]
        BY DEF Column
    <2>2. PushedBack(rho, L)[j][c] = SumProducts(Column(rho, c, m), L[j], m)
        BY PushedIs
    <2>3. \A l \in 1..m : y[l] \in Fractions /\ L[j][l] \in Fractions
        BY <1>1 DEF Rows, FractionRow
    <2> HIDE DEF w, y
    <2>4. SumProducts(y, L[j], m) = SumProducts(L[j], y, m)
        BY <2>3, ProductsCommute
    <2> QED
        BY <2>1, <2>2, <2>4 DEF y
<1> HIDE DEF X, y, w
<1>5. SumProducts(y, u, m) = SumProducts(w, a, k)
    BY <1>2, <1>3, <1>4, ProductsAssociate
<1> QED
    BY <1>5 DEF y, w

\* A combination of vectors that are combinations is one.
LEMMA SpanOfSpan ==
    ASSUME NEW k \in Nat, NEW h \in Nat, NEW n \in Nat, NEW L \in Rows(k, n), NEW P \in Rows(h, n),
           \A j \in 1..k : InSpan(P, h, n, L[j]),
           NEW u, InSpan(L, k, n, u)
    PROVE  InSpan(P, h, n, u)
<1>1. PICK a \in FractionRow(k) : \A c \in 1..n : u[c] = SumProducts(Column(L, c, k), a, k)
    BY DEF InSpan
<1> DEFINE d == [j \in 1..k |-> CHOOSE b \in FractionRow(h) :
                                  \A c \in 1..n : L[j][c] = SumProducts(Column(P, c, h), b, h)]
           X == [i \in 1..h |-> [j \in 1..k |-> d[j][i]]]
           g == [i \in 1..h |-> SumProducts(X[i], a, k)]
<1>2. \A j \in 1..k : /\ d[j] \in FractionRow(h)
                      /\ \A c \in 1..n : L[j][c] = SumProducts(Column(P, c, h), d[j], h)
    BY DEF InSpan
<1> HIDE DEF d
<1>3. /\ \A i \in 1..h, j \in 1..k : X[i][j] = d[j][i] /\ d[j][i] \in Fractions
      /\ \A j \in 1..k : a[j] \in Fractions
    BY <1>2 DEF FractionRow
<1>4. Matrix(X, h, k) /\ Transposes(d, X, h, k) /\ Vector(a, k) /\ Applies(g, X, a, h, k)
    BY <1>3 DEF Matrix, Vector, Transposes, Applies
<1>5. g \in FractionRow(h)
    <2>1. ASSUME NEW i \in 1..h PROVE SumProducts(X[i], a, k) \in Fractions
        <3>1. \A j \in 1..k : X[i][j] \in Fractions /\ a[j] \in Fractions
            BY <1>3
        <3> HIDE DEF X
        <3> QED
            BY <3>1, ProductsType
    <2> HIDE DEF X
    <2> QED
        BY <2>1 DEF FractionRow
<1> HIDE DEF X, g
<1>6. ASSUME NEW c \in 1..n PROVE u[c] = SumProducts(Column(P, c, h), g, h)
    <2> DEFINE y == Column(P, c, h)
               w == Column(L, c, k)
    <2>1. y \in FractionRow(h)
        BY DEF Column, Rows, FractionRow
    <2>2. Applies(w, d, y, k, h)
        <3> SUFFICES ASSUME NEW j \in 1..k PROVE w[j] = SumProducts(d[j], y, h)
            BY DEF Applies
        <3>1. w[j] = L[j][c]
            BY DEF Column
        <3>2. L[j][c] = SumProducts(y, d[j], h)
            BY <1>2
        <3>3. \A i \in 1..h : y[i] \in Fractions /\ d[j][i] \in Fractions
            BY <1>2, <2>1 DEF FractionRow
        <3> HIDE DEF y, w
        <3> QED
            BY <3>1, <3>2, <3>3, ProductsCommute
    <2>3. Vector(y, h)
        BY <2>1 DEF Vector, FractionRow
    <2> HIDE DEF y, w
    <2>4. SumProducts(y, g, h) = SumProducts(w, a, k)
        BY <1>4, <2>2, <2>3, ProductsAssociate
    <2> QED
        BY <1>1, <2>4 DEF y, w
<1> QED
    BY <1>5, <1>6 DEF InSpan

LEMMA PushedTwice ==
    ASSUME NEW p \in Nat, NEW m \in Nat, NEW n \in Nat, p > 0, m > 0,
           NEW A \in Rows(p, m), NEW B \in Rows(m, n), NEW k \in Nat, NEW L \in Rows(k, p)
    PROVE  PushedBack(B, PushedBack(A, L)) = PushedBack(mat_mat(A, B), L)
<1> DEFINE P == PushedBack(A, L)
           AB == mat_mat(A, B)
           Q == PushedBack(B, P)
           R == PushedBack(AB, L)
           X == [l \in 1..m |-> Column(A, l, p)]
<1>1. P \in Rows(k, m) /\ \A j \in 1..k, l \in 1..m : P[j][l] = SumProducts(Column(A, l, p), L[j], p)
    BY PushedIs
<1>2. AB \in Rows(p, n) /\ \A i \in 1..p, c \in 1..n : AB[i][c] = SumProducts(A[i], Column(B, c, m), m)
    BY ProductIs
<1> HIDE DEF P, AB
<1>3. Q \in Rows(k, n) /\ \A j \in 1..k, c \in 1..n : Q[j][c] = SumProducts(Column(B, c, m), P[j], m)
    BY <1>1, PushedIs
<1>4. R \in Rows(k, n) /\ \A j \in 1..k, c \in 1..n : R[j][c] = SumProducts(Column(AB, c, p), L[j], p)
    BY <1>2, PushedIs
<1> HIDE DEF Q, R
<1>5. ASSUME NEW j \in 1..k, NEW c \in 1..n PROVE Q[j][c] = R[j][c]
    <2> DEFINE y == Column(B, c, m)
               w == Column(AB, c, p)
    <2>1. y \in FractionRow(m) /\ L[j] \in FractionRow(p)
        BY DEF Column, Rows, FractionRow
    <2>2. Matrix(X, m, p) /\ Transposes(A, X, m, p) /\ Vector(y, m) /\ Vector(L[j], p)
        BY <2>1 DEF Matrix, Vector, Transposes, Rows, FractionRow, Column
    <2>3. Applies(P[j], X, L[j], m, p)
        BY <1>1 DEF Applies
    <2>4. Applies(w, A, y, p, m)
        <3>1. \A i \in 1..p : w[i] = AB[i][c]
            BY DEF Column
        <3> HIDE DEF w, y
        <3> QED
            BY <1>2, <3>1 DEF Applies, y
    <2> HIDE DEF X, y, w
    <2>5. SumProducts(y, P[j], m) = SumProducts(w, L[j], p)
        BY <2>2, <2>3, <2>4, ProductsAssociate
    <2> QED
        BY <1>3, <1>4, <2>5 DEF y, w
<1>6. Q = R
    <2>1. \A j \in 1..k : Q[j] = R[j]
        BY <1>3, <1>4, <1>5 DEF Rows, FractionRow
    <2> QED
        BY <1>3, <1>4, <2>1 DEF Rows
<1> QED
    BY <1>6 DEF Q, R, P, AB

(***************************************************************************)
(* If every vector of C comes from the span of Q, and every vector of Q    *)
(* from the span of S, each along a map, then every vector of C comes from *)
(* the span of S along the composite.                                      *)
(***************************************************************************)
LEMMA ReflectionComposes ==
    ASSUME NEW p \in Nat, NEW m \in Nat, NEW n \in Nat, p > 0, m > 0,
           NEW A \in Rows(p, m), NEW B \in Rows(m, n),
           NEW k \in Nat, NEW Q \in Rows(k, m), NEW h \in Nat, NEW S \in Rows(h, p),
           \A j \in 1..k : InSpan(PushedBack(A, S), h, m, Q[j]),
           NEW v, InSpan(PushedBack(B, Q), k, n, v)
    PROVE  InSpan(PushedBack(mat_mat(A, B), S), h, n, v)
<1>1. PICK a \in FractionRow(k) : \A c \in 1..n : v[c] = SumProducts(Column(PushedBack(B, Q), c, k), a, k)
    BY DEF InSpan
<1> DEFINE P == PushedBack(A, S)
           u == [l \in 1..m |-> SumProducts(Column(Q, l, k), a, k)]
<1>2. P \in Rows(h, m)
    BY PushedIs
<1>3. u \in FractionRow(m)
    <2>1. ASSUME NEW l \in 1..m PROVE SumProducts(Column(Q, l, k), a, k) \in Fractions
        <3>1. \A j \in 1..k : Column(Q, l, k)[j] \in Fractions /\ a[j] \in Fractions
            BY DEF Column, Rows, FractionRow
        <3> QED
            BY <3>1, ProductsType
    <2> QED
        BY <2>1 DEF FractionRow
<1>4. \A l \in 1..m : u[l] = SumProducts(Column(Q, l, k), a, k)
    OBVIOUS
<1> HIDE DEF u
<1>5. \A c \in 1..n : v[c] = SumProducts(Column(B, c, m), u, m)
    BY <1>1, <1>3, <1>4, PushedCombines
<1>6. InSpan(Q, k, m, u)
    BY <1>4 DEF InSpan
<1>7. InSpan(P, h, m, u)
    <2> HIDE DEF P
    <2>1. \A j \in 1..k : InSpan(P, h, m, Q[j])
        BY DEF P
    <2> QED
        BY <1>2, <1>6, <2>1, SpanOfSpan
<1>8. PICK b \in FractionRow(h) : \A l \in 1..m : u[l] = SumProducts(Column(P, l, h), b, h)
    BY <1>7 DEF InSpan
<1> HIDE DEF P
<1>9. \A c \in 1..n : SumProducts(Column(B, c, m), u, m) = SumProducts(Column(PushedBack(B, P), c, h), b, h)
    BY <1>2, <1>3, <1>8, PushedCombines
<1>10. PushedBack(B, P) = PushedBack(mat_mat(A, B), S)
    BY PushedTwice DEF P
<1> QED
    BY <1>5, <1>9, <1>10 DEF InSpan

----------------------------------------------------------------------------
(* The list that nullspace_over_Q returns.                                 *)

LEMMA SpanZero ==
    ASSUME NEW k \in Nat, NEW n \in Nat, NEW L \in Rows(k, n), NEW v, \A c \in 1..n : v[c] = Zero
    PROVE  InSpan(L, k, n, v)
<1> DEFINE a == [i \in 1..k |-> Zero]
<1>1. a \in FractionRow(k) /\ \A i \in 1..k : a[i] = Zero
    BY ZeroOne DEF FractionRow
<1> HIDE DEF a
<1>2. ASSUME NEW c \in 1..n PROVE SumProducts(Column(L, c, k), a, k) = Zero
    <2>1. \A i \in 1..k : Column(L, c, k)[i] \in Fractions /\ a[i] \in Fractions
        BY <1>1, ZeroOne DEF Column, Rows, FractionRow
    <2>2. SumProducts(Column(L, c, k), a, k) = SumProducts(a, Column(L, c, k), k)
        BY <2>1, ProductsCommute
    <2> QED
        BY <1>1, <2>1, <2>2, ProductsOfZero
<1> QED
    BY <1>1, <1>2 DEF InSpan

LEMMA SpanMember ==
    ASSUME NEW k \in Nat, NEW n \in Nat, NEW L \in Rows(k, n), NEW j \in 1..k
    PROVE  InSpan(L, k, n, L[j])
<1> DEFINE a == Units(j, k)
<1>1. a \in FractionRow(k)
    BY ZeroOne DEF Units, FractionRow
<1> HIDE DEF a
<1>2. ASSUME NEW c \in 1..n PROVE L[j][c] = SumProducts(Column(L, c, k), a, k)
    <2> DEFINE y == Column(L, c, k)
    <2>1. y[j] = L[j][c] /\ \A i \in 1..k : y[i] \in Fractions /\ a[i] \in Fractions
        BY <1>1 DEF Column, Rows, FractionRow
    <2> HIDE DEF y
    <2>2. SumProducts(y, a, k) = SumProducts(a, y, k)
        BY <2>1, ProductsCommute
    <2>3. SumProducts(a, y, k) = y[j]
        BY <2>1, UnitProducts DEF Vector, a
    <2> QED
        BY <2>1, <2>2, <2>3 DEF y
<1> QED
    BY <1>1, <1>2 DEF InSpan

LEMMA SpanAdds ==
    ASSUME NEW k \in Nat, NEW n \in Nat, NEW L \in Rows(k, n), NEW t \in Fractions,
           NEW u, InSpan(L, k, n, u), NEW w, InSpan(L, k, n, w)
    PROVE  InSpan(L, k, n, Added(u, t, w, n))
<1>1. PICK a \in FractionRow(k) : \A c \in 1..n : u[c] = SumProducts(Column(L, c, k), a, k)
    BY DEF InSpan
<1>2. PICK b \in FractionRow(k) : \A c \in 1..n : w[c] = SumProducts(Column(L, c, k), b, k)
    BY DEF InSpan
<1> DEFINE g == Added(a, t, b, k)
<1>3. g \in FractionRow(k) /\ \A i \in 1..k : g[i] = Plus(a[i], Times(t, b[i]))
    BY RowOps DEF Added
<1> HIDE DEF g
<1>4. ASSUME NEW c \in 1..n PROVE Added(u, t, w, n)[c] = SumProducts(Column(L, c, k), g, k)
    <2> DEFINE y == Column(L, c, k)
    <2>1. \A i \in 1..k : y[i] \in Fractions /\ a[i] \in Fractions /\ b[i] \in Fractions /\ g[i] \in Fractions
        BY <1>3 DEF Column, Rows, FractionRow
    <2> HIDE DEF y
    <2>2. SumProducts(g, y, k) = Plus(SumProducts(a, y, k), Times(t, SumProducts(b, y, k)))
        BY <1>3, <2>1, ProductsMore
    <2>3. /\ SumProducts(g, y, k) = SumProducts(y, g, k)
          /\ SumProducts(a, y, k) = SumProducts(y, a, k)
          /\ SumProducts(b, y, k) = SumProducts(y, b, k)
        BY <2>1, ProductsCommute
    <2>4. u[c] = SumProducts(y, a, k) /\ w[c] = SumProducts(y, b, k)
        BY <1>1, <1>2 DEF y
    <2>5. Added(u, t, w, n)[c] = Plus(u[c], Times(t, w[c]))
        BY DEF Added
    <2> QED
        BY <2>2, <2>3, <2>4, <2>5 DEF y
<1> QED
    BY <1>3, <1>4 DEF InSpan

\* Each free column has its vector.
LEMMA BasisExists ==
    ASSUME NEW m \in Nat, NEW n \in Nat, NEW e, Echelon(e, m, n, n)
    PROVE  \E B : BasisAt(e, B, n)
<1> DEFINE at(c) == CHOOSE i \in 1..Len(e.pivots) : e.pivots[i] = c
           entry(f, c) == IF c = f THEN One ELSE IF IsPivot(e, c) THEN Times(MinusOne, e.rows[at(c)][f]) ELSE Zero
           b(f) == [c \in 1..n |-> entry(f, c)]
           B == [f \in 1..n |-> b(f)]
<1>1. /\ e.rows \in [1..m -> FractionRow(n)]
      /\ Len(e.pivots) \in Nat /\ Len(e.pivots) <= m
      /\ \A i \in 1..Len(e.pivots) : e.pivots[i] \in 1..n
    <2>1. EchelonShape(e, m, n, n)
        BY EchelonParts
    <2> QED
        BY <2>1 DEF EchelonShape
<1>2. ASSUME NEW i \in 1..Len(e.pivots) PROVE at(e.pivots[i]) = i
    <2> DEFINE j == at(e.pivots[i])
    <2>1. j \in 1..Len(e.pivots) /\ e.pivots[j] = e.pivots[i]
        OBVIOUS
    <2> HIDE DEF j
    <2>2. j = i
        BY <1>1, <2>1, PivotUnique
    <2> QED
        BY <2>2 DEF j
<1>3. \A c \in 1..n : IsPivot(e, c) => at(c) \in 1..Len(e.pivots) /\ e.pivots[at(c)] = c
    BY DEF IsPivot
<1> HIDE DEF at
<1>4. ASSUME NEW f \in 1..n, ~IsPivot(e, f)
      PROVE  /\ b(f) \in FractionRow(n) /\ b(f)[f] = One
             /\ \A i \in 1..Len(e.pivots) : b(f)[e.pivots[i]] = Times(MinusOne, e.rows[i][f])
             /\ \A c \in 1..n : ~IsPivot(e, c) /\ c # f => b(f)[c] = Zero
    <2>1. ASSUME NEW c \in 1..n PROVE entry(f, c) \in Fractions
        <3>1. CASE IsPivot(e, c)
            <4>1. at(c) \in 1..m
                BY <1>1, <1>3, <3>1
            <4>2. e.rows[at(c)][f] \in Fractions
                BY <1>1, <4>1 DEF FractionRow
            <4> QED
                BY <4>2, FractionsClosed, MinusOneIs, ZeroOne
        <3>2. CASE ~IsPivot(e, c)
            BY <3>2, ZeroOne
        <3> QED
            BY <3>1, <3>2
    <2>2. ASSUME NEW i \in 1..Len(e.pivots) PROVE b(f)[e.pivots[i]] = Times(MinusOne, e.rows[i][f])
        <3> DEFINE c == e.pivots[i]
        <3>1. c \in 1..n /\ IsPivot(e, c) /\ at(c) = i /\ c # f
            BY <1>1, <1>2, <1>4 DEF IsPivot
        <3> HIDE DEF c
        <3>2. b(f)[c] = Times(MinusOne, e.rows[at(c)][f])
            BY <3>1
        <3> QED
            BY <3>1, <3>2 DEF c
    <2>3. b(f) \in FractionRow(n)
        <3> HIDE DEF entry
        <3> QED
            BY <2>1 DEF FractionRow
    <2> QED
        BY <2>2, <2>3
<1>5. \A f \in 1..n : B[f] = b(f)
    OBVIOUS
<1> HIDE DEF b, B
<1>6. BasisAt(e, B, n)
    BY <1>4, <1>5 DEF BasisAt
<1> QED
    BY <1>6

\* L lists a basis of what M kills.
KernelList(M, n, k, L) ==
    /\ k \in Nat /\ L \in Rows(k, n)
    /\ \A j \in 1..k : is_zero(mat_vec(M, L[j]))
    /\ \A x \in FractionRow(n) : is_zero(mat_vec(M, x)) => InSpan(L, k, n, x)

LEMMA NullspaceIs ==
    ASSUME NEW M, Rectangular(M)
    PROVE  KernelList(M, columns(M), Len(nullspace_over_Q(M)), nullspace_over_Q(M))
<1> DEFINE m == Len(M)
           n == columns(M)
           e == Eliminated(M, n)
           free == FreeColumns(e, n)
           k == Len(free)
           L == nullspace_over_Q(M)
<1>1. m \in Nat /\ n \in Nat /\ M \in [1..m -> FractionRow(n)]
    BY RectangularRows DEF Rows
<1>2. Echelon(e, m, n, n) /\ SameSpaces(M, e.rows, m, n)
    <2> HIDE DEF m, n
    <2>1. n <= n
        BY <1>1
    <2> QED
        BY <1>1, <2>1, EliminatedIs
<1>3. PICK B : BasisAt(e, B, n)
    <2> HIDE DEF e, m, n
    <2> QED
        BY <1>1, <1>2, BasisExists
<1>4. L = KernelBasis(e, n)
    BY DEF nullspace_over_Q
<1>5. /\ e.rows \in [1..m -> FractionRow(n)] /\ DOMAIN e.pivots = 1..Len(e.pivots)
      /\ \A i \in 1..Len(e.pivots) : e.pivots[i] \in 1..n
    <2> HIDE DEF e, m, n
    <2>1. EchelonShape(e, m, n, n)
        BY <1>1, <1>2, EchelonParts
    <2> QED
        BY <2>1 DEF EchelonShape
<1>6. /\ free \in Seq(1..n)
      /\ \A c \in 1..n : PivotRow(e, c) = {} <=> \E j \in 1..k : free[j] = c
    <2> HIDE DEF e, n
    <2> QED
        BY <1>1, FreeColumnsAre
<1>7. \A c \in 1..n : IsPivot(e, c) <=> PivotRow(e, c) # {}
    BY <1>5 DEF IsPivot, PivotRow
<1>8. DOMAIN L = 1..k /\ \A j \in 1..k : L[j] = B[free[j]]
    <2> HIDE DEF e, m, n, L
    <2> QED
        BY <1>1, <1>2, <1>3, <1>4, KernelBasisIs
<1>9. L = [j \in 1..k |-> L[j]]
    <2>1. L = [j \in DOMAIN L |-> L[j]]
        BY <1>4 DEF KernelBasis, Computed
    <2> HIDE DEF L, k
    <2> QED
        BY <1>8, <2>1
<1>10. \A x \in FractionRow(n) : is_zero(mat_vec(M, x)) <=> KilledBy(e, x, m, n)
    BY <1>1, <1>2, <1>5, KernelKept
<1> HIDE DEF m, n, e, free, L
<1>11. k \in Nat /\ \A j \in 1..k : free[j] \in 1..n
    <2> DEFINE S == 1..n
    <2> HIDE DEF S
    <2>1. free \in Seq(S)
        BY <1>6 DEF S
    <2>2. Len(free) \in Nat /\ \A j \in 1..Len(free) : free[j] \in S
        BY <2>1
    <2> QED
        BY <2>2 DEF S
<1>12. ASSUME NEW j \in 1..k
       PROVE  L[j] \in FractionRow(n) /\ is_zero(mat_vec(M, L[j]))
    <2>1. free[j] \in 1..n /\ ~IsPivot(e, free[j])
        BY <1>6, <1>7, <1>11
    <2>2. B[free[j]] \in FractionRow(n) /\ KilledBy(e, B[free[j]], m, n)
        BY <1>1, <1>2, <1>3, <2>1, BasisKilled DEF BasisAt
    <2> QED
        BY <1>8, <1>10, <2>2
<1>13. L \in Rows(k, n) /\ Len(L) = k
    BY <1>9, <1>11, <1>12 DEF Rows
<1>14. ASSUME NEW x \in FractionRow(n), is_zero(mat_vec(M, x)) PROVE InSpan(L, k, n, x)
    <2>1. \A c \in 1..n : x[c] = SumProducts(x, EntriesAt(e, B, c, n), n)
        BY <1>1, <1>2, <1>3, <1>10, <1>14, BasisCombines
    <2> DEFINE part(d) == [c \in 1..n |-> SumProducts(x, EntriesAt(e, B, c, n), d)]
               P == {d \in Nat : d <= n => InSpan(L, k, n, part(d))}
    <2>2. 0 \in P
        <3>1. \A c \in 1..n : part(0)[c] = Zero
            BY ProductsStart
        <3> HIDE DEF part
        <3> QED
            BY <1>1, <1>11, <1>13, <3>1, SpanZero
    <2>3. ASSUME NEW d \in P PROVE d + 1 \in P
        <3> SUFFICES ASSUME d + 1 <= n PROVE InSpan(L, k, n, part(d + 1))
            OBVIOUS
        <3> DEFINE f == d + 1
        <3>1. d \in Nat /\ f \in 1..n /\ InSpan(L, k, n, part(d))
            BY <1>1
        <3>2. x[f] \in Fractions
            BY <3>1 DEF FractionRow
        <3>3. \A c \in 1..n : part(f)[c] = Plus(part(d)[c], Times(x[f], EntriesAt(e, B, c, n)[f]))
            BY <3>1, ProductsStep
        <3> HIDE DEF f
        <3>4. \A c \in 1..n : EntriesAt(e, B, c, n)[f] = IF IsPivot(e, f) THEN Zero ELSE B[f][c]
            BY <3>1 DEF EntriesAt
        <3>5. CASE IsPivot(e, f)
            <4>1. InSpan(L, k, n, [c \in 1..n |-> Zero])
                BY <1>1, <1>11, <1>13, SpanZero
            <4>2. InSpan(L, k, n, Added(part(d), x[f], [c \in 1..n |-> Zero], n))
                <5> HIDE DEF part
                <5> QED
                    BY <1>1, <1>11, <1>13, <3>1, <3>2, <4>1, SpanAdds
            <4>3. part(f) = Added(part(d), x[f], [c \in 1..n |-> Zero], n)
                BY <3>3, <3>4, <3>5 DEF Added
            <4> QED
                BY <4>2, <4>3 DEF f
        <3>6. CASE ~IsPivot(e, f)
            <4>1. PICK j \in 1..k : free[j] = f
                BY <1>6, <1>7, <3>1, <3>6
            <4>2. L[j] = B[f]
                BY <1>8, <4>1
            <4>3. InSpan(L, k, n, B[f])
                BY <1>1, <1>11, <1>13, <4>2, SpanMember
            <4>4. InSpan(L, k, n, Added(part(d), x[f], B[f], n))
                <5> HIDE DEF part
                <5> QED
                    BY <1>1, <1>11, <1>13, <3>1, <3>2, <4>3, SpanAdds
            <4>5. part(f) = Added(part(d), x[f], B[f], n)
                BY <3>3, <3>4, <3>6 DEF Added
            <4> QED
                BY <4>4, <4>5 DEF f
        <3> QED
            BY <3>5, <3>6
    <2>4. P = Nat
        <3>1. P \in SUBSET Nat
            OBVIOUS
        <3> HIDE DEF P
        <3> QED
            BY <2>2, <2>3, <3>1, Induction
    <2>5. InSpan(L, k, n, part(n))
        <3>1. n \in P
            <4> HIDE DEF P
            <4> QED
                BY <1>1, <2>4
        <3> HIDE DEF part
        <3> QED
            BY <1>1, <3>1
    <2>6. \A c \in 1..n : part(n)[c] = x[c]
        BY <2>1
    <2> HIDE DEF part
    <2> QED
        BY <2>5, <2>6 DEF InSpan
<1> QED
    BY <1>11, <1>12, <1>13, <1>14 DEF KernelList, n, L

----------------------------------------------------------------------------
(* Products over lists put together, or with one place left out.           *)

\* x and y are u and v, and after them p and q.
Splits(x, y, u, v, p, q, m, n) ==
    /\ m \in Nat /\ n \in Nat
    /\ \A k \in 1..(m + n) : x[k] \in Fractions /\ y[k] \in Fractions
    /\ \A k \in 1..m : x[k] = u[k] /\ y[k] = v[k]
    /\ \A k \in 1..n : x[m + k] = p[k] /\ y[m + k] = q[k]

LEMMA ProductsSplit ==
    ASSUME NEW m, NEW n, NEW x, NEW y, NEW u, NEW v, NEW p, NEW q, Splits(x, y, u, v, p, q, m, n)
    PROVE  SumProducts(x, y, m + n) = Plus(SumProducts(u, v, m), SumProducts(p, q, n))
<1>20. /\ m \in Nat /\ n \in Nat
       /\ \A k \in 1..(m + n) : x[k] \in Fractions /\ y[k] \in Fractions
       /\ \A k \in 1..m : x[k] = u[k] /\ y[k] = v[k]
       /\ \A k \in 1..n : x[m + k] = p[k] /\ y[m + k] = q[k]
    BY DEF Splits
<1> DEFINE P == {c \in Nat : c <= n => SumProducts(x, y, m + c) = Plus(SumProducts(u, v, m), SumProducts(p, q, c))}
<1>1. SumProducts(x, y, m) = SumProducts(u, v, m) /\ SumProducts(u, v, m) \in Fractions
    <2>1. \A k \in 1..m : k \in 1..(m + n)
        BY <1>20
    <2>2. \A k \in 1..m : Times(x[k], y[k]) = Times(u[k], v[k])
        BY <1>20
    <2>3. SumProducts(x, y, m) = SumProducts(u, v, m)
        BY <1>20, <2>2, ProductsCongruent
    <2>4. \A k \in 1..m : u[k] \in Fractions /\ v[k] \in Fractions
        BY <1>20, <2>1
    <2> QED
        BY <1>20, <2>3, <2>4, ProductsType
<1>2. 0 \in P
    <2>1. m + 0 = m /\ SumProducts(p, q, 0) = Zero
        BY <1>20, ProductsStart
    <2> QED
        BY <1>20, <1>1, <2>1, PlusZero
<1>3. ASSUME NEW c \in P PROVE c + 1 \in P
    <2>1. c \in Nat /\ m + c \in Nat /\ m + (c + 1) = (m + c) + 1
        BY <1>20
    <2>2. SUFFICES ASSUME c + 1 <= n
                   PROVE  SumProducts(x, y, m + (c + 1)) = Plus(SumProducts(u, v, m), SumProducts(p, q, c + 1))
        BY <1>20, <2>1
    <2>3. SumProducts(x, y, m + c) = Plus(SumProducts(u, v, m), SumProducts(p, q, c))
        BY <1>20, <2>1, <2>2
    <2>4. c + 1 \in 1..n /\ (m + c) + 1 \in 1..(m + n) /\ \A k \in 1..c : k \in 1..n /\ m + k \in 1..(m + n)
        BY <1>20, <2>1, <2>2
    <2>5. x[(m + c) + 1] = p[c + 1] /\ y[(m + c) + 1] = q[c + 1]
        BY <1>20, <2>1, <2>4
    <2> DEFINE t == Times(p[c + 1], q[c + 1])
    <2>6. t \in Fractions
        BY <1>20, <2>4, <2>5, FractionsClosed
    <2>7. SumProducts(x, y, (m + c) + 1) = Plus(SumProducts(x, y, m + c), t)
        BY <1>20, <2>1, <2>5, ProductsStep
    <2>8. SumProducts(p, q, c + 1) = Plus(SumProducts(p, q, c), t)
        BY <1>20, <2>1, ProductsStep
    <2>9. \A k \in 1..c : p[k] \in Fractions /\ q[k] \in Fractions
        BY <1>20, <2>4
    <2>10. SumProducts(p, q, c) \in Fractions
        BY <1>20, <2>1, <2>9, ProductsType
    <2> HIDE DEF t
    <2> QED
        BY <1>20, <1>1, <2>1, <2>3, <2>6, <2>7, <2>8, <2>10, PlusAssociates
<1>4. P = Nat
    <2>1. P \in SUBSET Nat
        BY <1>20
    <2> HIDE DEF P
    <2> QED
        BY <1>20, <1>2, <1>3, <2>1, Induction
<1> QED
    BY <1>20, <1>4

\* All places of 1..n but the k-th, in order.
Skip(k) == [i \in Nat |-> IF i < k THEN i ELSE i + 1]

\* A sum in which one place is left out.
LEMMA ProductsSkip ==
    ASSUME NEW n \in Nat, NEW k \in 1..n, NEW x \in FractionRow(n), NEW y \in FractionRow(n), NEW u, NEW v,
           \A i \in 1..(n - 1) : u[i] = x[Skip(k)[i]] /\ v[i] = y[Skip(k)[i]]
    PROVE  Plus(SumProducts(u, v, n - 1), Times(x[k], y[k])) = SumProducts(x, y, n)
<1> DEFINE h == k - 1
           l == n - k
           xs == [i \in 1..l |-> x[k + i]]
           ys == [i \in 1..l |-> y[k + i]]
           s == SumProducts(x, y, h)
           t == SumProducts(xs, ys, l)
           e == Times(x[k], y[k])
<1>1. h \in Nat /\ l \in Nat /\ h + l = n - 1 /\ h + 1 = k /\ k + l = n /\ k \in Nat /\ k \in 1..n
    OBVIOUS
<1>2. \A i \in 1..n : x[i] \in Fractions /\ y[i] \in Fractions
    BY DEF FractionRow
<1>3. \A i \in 1..l : xs[i] = x[k + i] /\ ys[i] = y[k + i] /\ k + i \in 1..n
    BY <1>1
<1> HIDE DEF xs, ys
<1>4. SumProducts(u, v, h + l) = Plus(s, t)
    <2>1. \A i \in 1..(h + l) : Skip(k)[i] \in 1..n
        BY <1>1 DEF Skip
    <2>2. \A i \in 1..(h + l) : u[i] \in Fractions /\ v[i] \in Fractions
        BY <1>1, <1>2, <2>1
    <2>3. \A i \in 1..h : u[i] = x[i] /\ v[i] = y[i]
        <3> SUFFICES ASSUME NEW i \in 1..h PROVE u[i] = x[i] /\ v[i] = y[i]
            OBVIOUS
        <3>1. i \in 1..(n - 1) /\ i \in Nat /\ i < k
            BY <1>1
        <3>2. Skip(k)[i] = i
            BY <3>1 DEF Skip
        <3> QED
            BY <3>1, <3>2
    <2>4. \A i \in 1..l : u[h + i] = xs[i] /\ v[h + i] = ys[i]
        <3> SUFFICES ASSUME NEW i \in 1..l PROVE u[h + i] = xs[i] /\ v[h + i] = ys[i]
            OBVIOUS
        <3>1. h + i \in 1..(n - 1) /\ h + i \in Nat /\ ~(h + i < k) /\ (h + i) + 1 = k + i
            BY <1>1
        <3>2. Skip(k)[h + i] = k + i
            BY <3>1 DEF Skip
        <3> QED
            BY <1>3, <3>1, <3>2
    <2> HIDE DEF h, l
    <2>5. Splits(u, v, x, y, xs, ys, h, l)
        BY <1>2, <1>1, <2>2, <2>3, <2>4 DEF Splits
    <2> QED
        BY <1>1, <2>5, ProductsSplit DEF s, t
<1>5. SumProducts(x, y, k + l) = Plus(SumProducts(x, y, k), t)
    <2>1. \A i \in 1..(k + l) : x[i] \in Fractions /\ y[i] \in Fractions
        BY <1>1, <1>2
    <2>2. \A i \in 1..k : x[i] = x[i] /\ y[i] = y[i]
        OBVIOUS
    <2>3. \A i \in 1..l : x[k + i] = xs[i] /\ y[k + i] = ys[i]
        BY <1>3
    <2> HIDE DEF h, l
    <2>4. Splits(x, y, x, y, xs, ys, k, l)
        BY <1>1, <2>1, <2>2, <2>3 DEF Splits
    <2> QED
        BY <1>1, <2>4, ProductsSplit DEF t
<1>6. SumProducts(x, y, k) = Plus(s, e)
    <2> HIDE DEF h
    <2> QED
        BY <1>1, ProductsStep DEF s, e
<1>7. s \in Fractions /\ t \in Fractions /\ e \in Fractions
    <2>1. \A i \in 1..h : i \in 1..n
        BY <1>1
    <2>2. \A i \in 1..l : xs[i] \in Fractions /\ ys[i] \in Fractions
        BY <1>2, <1>3
    <2> HIDE DEF h, l
    <2> QED
        BY <1>1, <1>2, <2>1, <2>2, ProductsType, FractionsClosed
<1> HIDE DEF h, l, s, t, e
<1>8. Plus(Plus(s, t), e) = Plus(Plus(s, e), t)
    BY <1>7, PlusAssociates, PlusCommutes
<1> QED
    BY <1>1, <1>4, <1>5, <1>6, <1>8 DEF e

\* Matrices are equal when their entries are.
LEMMA RowsEqual ==
    ASSUME NEW m \in Nat, NEW n \in Nat, NEW A \in Rows(m, n), NEW B \in Rows(m, n)
    PROVE  A = B <=> \A i \in 1..m, j \in 1..n : A[i][j] = B[i][j]
<1> SUFFICES ASSUME \A i \in 1..m, j \in 1..n : A[i][j] = B[i][j] PROVE A = B
    OBVIOUS
<1>1. ASSUME NEW i \in 1..m PROVE A[i] = B[i]
    <2>1. A[i] \in [1..n -> Fractions] /\ B[i] \in [1..n -> Fractions]
        BY DEF Rows, FractionRow
    <2>2. \A j \in 1..n : A[i][j] = B[i][j]
        OBVIOUS
    <2>3. A[i] = [j \in 1..n |-> A[i][j]] /\ B[i] = [j \in 1..n |-> B[i][j]]
        BY <2>1
    <2> QED
        BY <2>2, <2>3
<1>2. A = [i \in 1..m |-> A[i]] /\ B = [i \in 1..m |-> B[i]]
    BY DEF Rows
<1> QED
    BY <1>1, <1>2

SpanOfBoth(L, k, M, l, n, v) ==
    \E u \in FractionRow(n), w \in FractionRow(n) :
        InSpan(L, k, n, u) /\ InSpan(M, l, n, w) /\ \A c \in 1..n : v[c] = Plus(u[c], w[c])

\* A combination of two lists one after the other is one of each added up.
LEMMA SpanJoined ==
    ASSUME NEW k \in Nat, NEW l \in Nat, NEW n \in Nat, NEW L \in Rows(k, n), NEW M \in Rows(l, n),
           NEW J \in Rows(k + l, n), \A i \in 1..k : J[i] = L[i], \A i \in 1..l : J[k + i] = M[i],
           NEW v
    PROVE  InSpan(J, k + l, n, v) <=> SpanOfBoth(L, k, M, l, n, v)
<1>0. ASSUME NEW a \in FractionRow(k), NEW b \in FractionRow(l), NEW d \in FractionRow(k + l),
             \A i \in 1..k : d[i] = a[i], \A i \in 1..l : d[k + i] = b[i], NEW c \in 1..n
      PROVE  /\ SumProducts(Column(J, c, k + l), d, k + l)
                  = Plus(SumProducts(Column(L, c, k), a, k), SumProducts(Column(M, c, l), b, l))
             /\ SumProducts(Column(L, c, k), a, k) \in Fractions
             /\ SumProducts(Column(M, c, l), b, l) \in Fractions
    <2>1. \A i \in 1..(k + l) : Column(J, c, k + l)[i] \in Fractions /\ d[i] \in Fractions
        BY DEF Column, Rows, FractionRow
    <2>2. \A i \in 1..k : Column(J, c, k + l)[i] = Column(L, c, k)[i] /\ Column(L, c, k)[i] \in Fractions /\ a[i] \in Fractions
        BY DEF Column, Rows, FractionRow
    <2>3. \A i \in 1..l : Column(J, c, k + l)[k + i] = Column(M, c, l)[i] /\ Column(M, c, l)[i] \in Fractions /\ b[i] \in Fractions
        BY DEF Column, Rows, FractionRow
    <2>4. Splits(Column(J, c, k + l), d, Column(L, c, k), a, Column(M, c, l), b, k, l)
        BY <1>0, <2>1, <2>2, <2>3 DEF Splits
    <2>5. SumProducts(Column(J, c, k + l), d, k + l)
             = Plus(SumProducts(Column(L, c, k), a, k), SumProducts(Column(M, c, l), b, l))
        BY <2>4, ProductsSplit
    <2> QED
        BY <2>2, <2>3, <2>5, ProductsType
<1>1. ASSUME InSpan(J, k + l, n, v)
      PROVE  SpanOfBoth(L, k, M, l, n, v)
    <2>1. PICK d \in FractionRow(k + l) : \A c \in 1..n : v[c] = SumProducts(Column(J, c, k + l), d, k + l)
        BY <1>1 DEF InSpan
    <2> DEFINE a == [i \in 1..k |-> d[i]]
               b == [i \in 1..l |-> d[k + i]]
               u == [c \in 1..n |-> SumProducts(Column(L, c, k), a, k)]
               w == [c \in 1..n |-> SumProducts(Column(M, c, l), b, l)]
    <2>2. /\ a \in FractionRow(k) /\ b \in FractionRow(l)
          /\ \A i \in 1..k : d[i] = a[i]
          /\ \A i \in 1..l : d[k + i] = b[i]
        BY DEF FractionRow
    <2> HIDE DEF a, b
    <2>3. \A c \in 1..n : v[c] = Plus(u[c], w[c]) /\ u[c] \in Fractions /\ w[c] \in Fractions
        BY <1>0, <2>1, <2>2
    <2>4. u \in FractionRow(n) /\ w \in FractionRow(n)
        BY <2>3 DEF FractionRow
    <2>5. InSpan(L, k, n, u) /\ InSpan(M, l, n, w)
        BY <2>2 DEF InSpan
    <2> HIDE DEF u, w
    <2> QED
        BY <2>3, <2>4, <2>5 DEF SpanOfBoth
<1>2. ASSUME NEW u \in FractionRow(n), NEW w \in FractionRow(n), InSpan(L, k, n, u), InSpan(M, l, n, w),
             \A c \in 1..n : v[c] = Plus(u[c], w[c])
      PROVE  InSpan(J, k + l, n, v)
    <2>1. PICK a \in FractionRow(k) : \A c \in 1..n : u[c] = SumProducts(Column(L, c, k), a, k)
        BY <1>2 DEF InSpan
    <2>2. PICK b \in FractionRow(l) : \A c \in 1..n : w[c] = SumProducts(Column(M, c, l), b, l)
        BY <1>2 DEF InSpan
    <2> DEFINE d == [i \in 1..(k + l) |-> IF i <= k THEN a[i] ELSE b[i - k]]
    <2>3. /\ d \in FractionRow(k + l)
          /\ \A i \in 1..k : d[i] = a[i]
          /\ \A i \in 1..l : d[k + i] = b[i]
        BY DEF FractionRow
    <2> HIDE DEF d
    <2>4. \A c \in 1..n : v[c] = SumProducts(Column(J, c, k + l), d, k + l)
        BY <1>0, <1>2, <2>1, <2>2, <2>3
    <2> QED
        BY <2>3, <2>4 DEF InSpan
<1> QED
    BY <1>1, <1>2 DEF SpanOfBoth
----------------------------------------------------------------------------
(* Exact data as lists of fractions.                                        *)

LEMMA IntegerIs == ASSUME NEW v \in Int PROVE <<v, 1>> \in Fractions
<1> DEFINE a == Magnitude(v)
<1>1. a \in Nat /\ a % 1 = 0
    <2>1. a \in Nat
        BY DEF Magnitude
    <2> HIDE DEF a
    <2> QED
        BY <2>1
<1> HIDE DEF a
<1>2. gcd[<<a, 1>>] = 1
    <2>1. gcd[<<1, 0>>] = 1
        BY GcdRec
    <2>2. gcd[<<a, 1>>] = gcd[<<1, a % 1>>]
        BY <1>1, GcdRec
    <2> QED
        BY <1>1, <2>1, <2>2
<1> QED
    BY <1>2 DEF a, Fractions, IsFraction

LEMMA ExactVectorIs ==
    ASSUME NEW v, ExactVector(v)
    PROVE  v \in Seq(Fractions) /\ Len(v) \in Nat /\ Vector(v, Len(v))
<1>1. v \in Seq(Int \X Nat) /\ Len(v) \in Nat
    BY DEF ExactVector
<1>2. \A k \in 1..Len(v) : v[k] \in Fractions
    BY <1>1 DEF ExactVector, IsFraction, Fractions
<1> QED
    BY <1>1, <1>2, Retyped DEF Vector

LEMMA ExactMatrixIs == ASSUME NEW M, ExactMatrix(M) PROVE Rectangular(M)
<1>1. M \in Seq(Seq(Int \X Nat))
    BY DEF ExactMatrix
<1>2. \A i \in 1..Len(M) : M[i] \in Seq(Fractions) /\ Len(M[i]) = columns(M)
    BY ExactVectorIs DEF ExactMatrix
<1> QED
    BY <1>1, <1>2, Retyped DEF Rectangular

\* Parsed fractions are exact: an exact vector is a vector of fractions.
LEMMA FractionsExact == ASSUME NEW v \in Seq(Fractions) PROVE ExactVector(v)
<1>1. \A k \in 1..Len(v) : v[k] \in Fractions
    OBVIOUS
<1>2. \A x \in Fractions : x \in Int \X Nat /\ IsFraction(x)
    BY DEF Fractions
<1> QED
    BY <1>1, <1>2, Retyped DEF ExactVector

----------------------------------------------------------------------------
(* Sums that stop early, vectors left out or changed in places.             *)

\* Entries past the end of one of the vectors, filled up with zeros, add
\* nothing to a sum of products.
LEMMA ProductsStop ==
    ASSUME NEW n \in Nat, NEW k \in Nat, k <= n, NEW u, NEW v,
           \A i \in 1..n : u[i] \in Fractions /\ v[i] \in Fractions,
           \A i \in 1..n : i > k => Times(u[i], v[i]) = Zero
    PROVE  SumProducts(u, v, n) = SumProducts(u, v, k)
<1> DEFINE P == {m \in Nat : m >= k /\ m <= n => SumProducts(u, v, m) = SumProducts(u, v, k)}
<1>1. 0 \in P
    OBVIOUS
<1>2. ASSUME NEW m \in P PROVE m + 1 \in P
    <2>1. SUFFICES ASSUME m + 1 >= k, m + 1 <= n PROVE SumProducts(u, v, m + 1) = SumProducts(u, v, k)
        OBVIOUS
    <2>2. CASE m + 1 = k
        BY <2>2
    <2>3. CASE m + 1 > k
        <3>1. m >= k /\ m <= n /\ m + 1 \in 1..n
            BY <2>1, <2>3
        <3>2. SumProducts(u, v, m) = SumProducts(u, v, k)
            BY <3>1
        <3>3. Times(u[m + 1], v[m + 1]) = Zero
            BY <3>1, <2>3
        <3>4. SumProducts(u, v, m + 1) = Plus(SumProducts(u, v, m), Times(u[m + 1], v[m + 1]))
            BY ProductsStep
        <3>5. SumProducts(u, v, k) \in Fractions
            BY ProductsType
        <3> QED
            BY <3>2, <3>3, <3>4, <3>5, PlusZero
    <2> QED
        BY <2>1, <2>2, <2>3
<1>3. P = Nat
    <2>1. P \in SUBSET Nat OBVIOUS
    <2> HIDE DEF P
    <2> QED BY <1>1, <1>2, <2>1, Induction
<1> QED
    BY <1>3

\* What a vector of fractions that a row is as long as makes of it is made of
\* the vector filled up with zeros as well.
LEMMA Padded ==
    ASSUME NEW M, Rectangular(M), NEW b, b \in Seq(Fractions), NEW n \in Nat, Len(b) <= n, n = columns(M),
           NEW x, x = [k \in 1..n |-> IF k <= Len(b) THEN b[k] ELSE Zero]
    PROVE  x \in FractionRow(n) /\ mat_vec(M, x) = mat_vec(M, b)
<1> DEFINE h == Len(b)
<1>1. h \in Nat /\ Vector(b, h)
    BY DEF Vector
<1>2. x \in FractionRow(n) /\ Len(x) = n
    BY <1>1, ZeroOne DEF FractionRow, Vector
<1>3. \A i \in 1..Len(M) : SumProducts(M[i], x, n) = SumProducts(M[i], b, h)
    <2> SUFFICES ASSUME NEW i \in 1..Len(M) PROVE SumProducts(M[i], x, n) = SumProducts(M[i], b, h)
        OBVIOUS
    <2> DEFINE u == M[i]
    <2>1. \A k \in 1..n : u[k] \in Fractions /\ x[k] \in Fractions
        BY <1>2, Shape DEF Matrix, Vector, FractionRow
    <2>2. \A k \in 1..n : k > h => Times(u[k], x[k]) = Zero
        BY <2>1, TimesZero
    <2>3. \A k \in 1..h : Times(u[k], x[k]) = Times(u[k], b[k])
        BY <1>1
    <2> HIDE DEF u, h
    <2>4. SumProducts(u, x, n) = SumProducts(u, x, h)
        <3>1. h <= n
            BY DEF h
        <3> QED
            BY <1>1, <2>1, <2>2, <3>1, ProductsStop
    <2>5. SumProducts(u, x, h) = SumProducts(u, b, h)
        <3>1. h \in Nat
            BY <1>1
        <3> QED
            BY ONLY <3>1, <2>3, ProductsCongruent
    <2> QED
        BY <2>4, <2>5 DEF u
<1> QED
    BY <1>2, <1>3 DEF mat_vec

\* A set of numbers up to n that is not empty has a greatest.
LEMMA GreatestOf ==
    ASSUME NEW n \in Nat, NEW S \in SUBSET (1..n), S # {}
    PROVE  \E l \in S : \A j \in S : j <= l
<1> DEFINE P == {m \in Nat : \E j \in S : j = n - m}
<1>1. P \in SUBSET Nat /\ P # {}
    <2>1. PICK j \in S : TRUE
        OBVIOUS
    <2>2. n - j \in Nat /\ j = n - (n - j)
        BY <2>1
    <2> QED
        BY <2>2
<1> HIDE DEF P
<1>2. PICK m \in P : \A k \in P : m <= k
    BY <1>1, Least
<1>3. m \in Nat /\ n - m \in S
    BY DEF P
<1>4. ASSUME NEW j \in S PROVE j <= n - m
    <2>1. j \in 1..n /\ n - j \in Nat /\ j = n - (n - j)
        OBVIOUS
    <2>2. n - j \in P
        BY <2>1 DEF P
    <2>3. m <= n - j
        BY <1>2, <2>2
    <2> QED
        BY <1>3, <2>1, <2>3
<1> QED
    BY <1>3, <1>4

\* A row that is one row and then another.
Parts(x, a, m, b, n) ==
    /\ x \in FractionRow(m + n) /\ a \in FractionRow(m) /\ b \in FractionRow(n)
    /\ \A i \in 1..m : x[i] = a[i]
    /\ \A i \in 1..n : x[m + i] = b[i]

LEMMA PartsExist ==
    ASSUME NEW m \in Nat, NEW n \in Nat
    PROVE  /\ \A x \in FractionRow(m + n) : \E a, b : Parts(x, a, m, b, n)
           /\ \A a \in FractionRow(m), b \in FractionRow(n) : \E x : Parts(x, a, m, b, n)
<1>1. ASSUME NEW x \in FractionRow(m + n) PROVE \E a, b : Parts(x, a, m, b, n)
    <2> DEFINE a == [i \in 1..m |-> x[i]]
               b == [i \in 1..n |-> x[m + i]]
    <2>1. a \in FractionRow(m) /\ b \in FractionRow(n)
        BY DEF FractionRow
    <2>2. (\A i \in 1..m : x[i] = a[i]) /\ (\A i \in 1..n : x[m + i] = b[i])
        OBVIOUS
    <2> HIDE DEF a, b
    <2>3. Parts(x, a, m, b, n)
        BY <2>1, <2>2 DEF Parts
    <2> QED
        BY <2>3
<1>2. ASSUME NEW a \in FractionRow(m), NEW b \in FractionRow(n) PROVE \E x : Parts(x, a, m, b, n)
    <2> DEFINE x == [i \in 1..(m + n) |-> IF i <= m THEN a[i] ELSE b[i - m]]
    <2>1. x \in FractionRow(m + n)
        BY DEF FractionRow
    <2>2. (\A i \in 1..m : x[i] = a[i]) /\ (\A i \in 1..n : x[m + i] = b[i])
        OBVIOUS
    <2> HIDE DEF x
    <2>3. Parts(x, a, m, b, n)
        BY <2>1, <2>2 DEF Parts
    <2> QED
        BY <2>3
<1> QED
    BY <1>1, <1>2

LEMMA PartsSum ==
    ASSUME NEW m \in Nat, NEW n \in Nat, NEW x, NEW a, NEW b, Parts(x, a, m, b, n),
           NEW y, NEW p, NEW q,
           \A i \in 1..m : y[i] = p[i] /\ p[i] \in Fractions,
           \A i \in 1..n : y[m + i] = q[i] /\ q[i] \in Fractions
    PROVE  SumProducts(x, y, m + n) = Plus(SumProducts(a, p, m), SumProducts(b, q, n))
<1>1. \A i \in 1..m : a[i] \in Fractions /\ x[i] = a[i]
    BY DEF Parts, FractionRow
<1>2. \A i \in 1..n : b[i] \in Fractions /\ x[m + i] = b[i]
    BY DEF Parts, FractionRow
<1>3. \A i \in 1..(m + n) : x[i] \in Fractions /\ y[i] \in Fractions
    <2> SUFFICES ASSUME NEW i \in 1..(m + n) PROVE x[i] \in Fractions /\ y[i] \in Fractions
        OBVIOUS
    <2>1. CASE i \in 1..m
        BY <1>1, <2>1
    <2>2. CASE i \notin 1..m
        <3>1. i - m \in 1..n /\ m + (i - m) = i
            BY <2>2
        <3> HIDE DEF Parts
        <3> QED
            BY <1>2, <3>1
    <2> QED
        BY <2>1, <2>2
<1>4. Splits(x, y, a, p, b, q, m, n)
    BY <1>1, <1>2, <1>3 DEF Splits
<1> QED
    BY <1>4, ProductsSplit

LEMMA ZeroSum ==
    ASSUME NEW n \in Nat, NEW u, NEW v, \A k \in 1..n : u[k] \in Fractions /\ v[k] = Zero
    PROVE  SumProducts(u, v, n) = Zero
<1>1. SumProducts(v, u, n) = Zero
    BY ProductsOfZero
<1> QED
    BY <1>1, ZeroOne, ProductsCommute

LEMMA RowsJoin ==
    ASSUME NEW m \in Nat, NEW n \in Nat, NEW u \in FractionRow(m), NEW v \in FractionRow(n)
    PROVE  Parts(u \o v, u, m, v, n)
<1>1. u \in Seq(Fractions) /\ v \in Seq(Fractions) /\ Len(u) = m /\ Len(v) = n
    BY RowIsSeq
<1>2. u \o v \in Seq(Fractions) /\ Len(u \o v) = m + n
    BY <1>1
<1>3. (\A i \in 1..m : (u \o v)[i] = u[i]) /\ (\A i \in 1..n : (u \o v)[m + i] = v[i])
    BY <1>1
<1>4. u \o v \in FractionRow(m + n)
    <2> DEFINE s == u \o v
    <2>1. s \in Seq(Fractions) /\ Len(s) = m + n
        BY <1>2
    <2> HIDE DEF s
    <2>2. s \in FractionRow(m + n)
        BY <2>1 DEF FractionRow
    <2> QED
        BY <2>2 DEF s
<1> QED
    BY <1>3, <1>4 DEF Parts

\* One place left out of a vector and of what it is paired with.
Skipped(u, x, k, n) == \A i \in 1..(n - 1) : u[i] = x[Skip(k)[i]]

LEMMA SkippedSum ==
    ASSUME NEW n \in Nat, NEW k \in 1..n, NEW x \in FractionRow(n), NEW y \in FractionRow(n),
           NEW u, Skipped(u, x, k, n), NEW v, Skipped(v, y, k, n)
    PROVE  /\ Plus(SumProducts(u, v, n - 1), Times(x[k], y[k])) = SumProducts(x, y, n)
           /\ \A i \in 1..(n - 1) : u[i] \in Fractions /\ v[i] \in Fractions
           /\ SumProducts(u, v, n - 1) \in Fractions /\ SumProducts(x, y, n) \in Fractions
           /\ Times(x[k], y[k]) \in Fractions
<1>8. \A i \in 1..(n - 1) : Skip(k)[i] \in 1..n
    BY DEF Skip
<1>9. \A i \in 1..(n - 1) : u[i] = x[Skip(k)[i]] /\ v[i] = y[Skip(k)[i]]
    BY DEF Skipped
<1>1. \A i \in 1..(n - 1) : u[i] = x[Skip(k)[i]] /\ v[i] = y[Skip(k)[i]] /\ Skip(k)[i] \in 1..n
    BY <1>8, <1>9
<1>2. \A i \in 1..(n - 1) : u[i] \in Fractions /\ v[i] \in Fractions
    BY <1>1 DEF FractionRow
<1>3. n - 1 \in Nat
    OBVIOUS
<1>4. SumProducts(u, v, n - 1) \in Fractions
    BY <1>2, <1>3, ProductsType
<1>5. \A i \in 1..n : x[i] \in Fractions /\ y[i] \in Fractions
    BY DEF FractionRow
<1>6. SumProducts(x, y, n) \in Fractions /\ Times(x[k], y[k]) \in Fractions
    BY <1>5, ProductsType, FractionsClosed
<1>7. Plus(SumProducts(u, v, n - 1), Times(x[k], y[k])) = SumProducts(x, y, n)
    BY <1>9, ProductsSkip
<1> QED
    BY <1>2, <1>4, <1>6, <1>7

\* A vector changed in one place.
Bumped(u, k, t) == [i \in DOMAIN u |-> IF i = k THEN Plus(u[i], t) ELSE u[i]]

LEMMA BumpedSum ==
    ASSUME NEW n \in Nat, NEW k \in 1..n, NEW x \in FractionRow(n), NEW y \in FractionRow(n), NEW t \in Fractions
    PROVE  /\ Bumped(x, k, t) \in FractionRow(n)
           /\ Bumped(x, k, t)[k] = Plus(x[k], t)
           /\ \A i \in 1..n : i # k => Bumped(x, k, t)[i] = x[i]
           /\ SumProducts(Bumped(x, k, t), y, n) = Plus(SumProducts(x, y, n), Times(t, y[k]))
<1> DEFINE b == Bumped(x, k, t)
           e == [i \in 1..n |-> IF i = k THEN One ELSE Zero]
<1>1. DOMAIN x = 1..n /\ \A i \in 1..n : x[i] \in Fractions /\ y[i] \in Fractions
    BY DEF FractionRow
<1>2. b \in FractionRow(n) /\ b[k] = Plus(x[k], t) /\ \A i \in 1..n : i # k => b[i] = x[i]
    BY <1>1, FractionsClosed DEF FractionRow, Bumped
<1>3. \A i \in 1..n : e[i] \in Fractions /\ (i = k => e[i] = One) /\ (i # k => e[i] = Zero)
    BY ZeroOne
<1> HIDE DEF e
<1>4. \A i \in 1..n : b[i] = Plus(x[i], Times(t, e[i]))
    BY <1>1, <1>2, <1>3, TimesOne, TimesZero, PlusZero
<1> HIDE DEF b
<1>5. SumProducts(b, y, n) = Plus(SumProducts(x, y, n), Times(t, SumProducts(e, y, n)))
    BY <1>1, <1>3, <1>4, ProductsMore
<1>6. \A i \in 1..n : i # k => Times(e[i], y[i]) = Zero
    BY <1>1, <1>3, ZeroOne, TimesCommutes, TimesZero
<1>7. SumProducts(e, y, n) = Times(e[k], y[k])
    BY <1>1, <1>3, <1>6, ProductsSingle
<1>8. Times(e[k], y[k]) = y[k]
    BY <1>1, <1>3, ZeroOne, TimesCommutes, TimesOne
<1> QED
    BY <1>2, <1>5, <1>7, <1>8 DEF b

\* A row that is zero but in two places, and adds up to zero.
LEMMA TwoPlaces ==
    ASSUME NEW n \in Nat, NEW w \in FractionRow(n), NEW p \in 1..n, NEW q \in 1..n,
           \A j \in 1..n : j # p /\ j # q => w[j] = Zero,
           NEW ones, ones = [j \in 1..n |-> One], SumProducts(w, ones, n) = Zero
    PROVE  /\ p = q => w[p] = Zero
           /\ p # q => w[q] = Times(w[p], MinusOne)
<1>1. ones \in FractionRow(n) /\ \A j \in 1..n : ones[j] = One /\ w[j] \in Fractions
    BY ZeroOne DEF FractionRow
<1>2. \A x \in Fractions : Times(x, One) = x
    BY TimesOne
<1>3. CASE p = q
    <2>1. \A j \in 1..n : j # p => Times(w[j], ones[j]) = Zero
        BY <1>1, <1>2, <1>3, ZeroOne
    <2>3. w[p] \in Fractions /\ ones[p] \in Fractions
        BY <1>1, ZeroOne
    <2>2. SumProducts(w, ones, n) = Times(w[p], ones[p])
        BY ONLY <2>1, <2>3, n \in Nat, p \in 1..n, ProductsSingle
    <2> QED
        BY <1>1, <1>2, <1>3, <2>2
<1>4. CASE p # q
    <2> DEFINE z == [j \in 1..n |-> IF j = p THEN w[p] ELSE Zero]
               b == Bumped(z, q, w[q])
    <2>1. z \in FractionRow(n) /\ \A j \in 1..n : z[j] = IF j = p THEN w[p] ELSE Zero
        BY <1>1, ZeroOne DEF FractionRow
    <2> HIDE DEF z
    <2>2. /\ b \in FractionRow(n) /\ b[q] = Plus(z[q], w[q])
          /\ \A i \in 1..n : i # q => b[i] = z[i]
          /\ SumProducts(b, ones, n) = Plus(SumProducts(z, ones, n), Times(w[q], ones[q]))
        BY <1>1, <2>1, BumpedSum
    <2> HIDE DEF b
    <2>3. \A i \in 1..n : b[i] = w[i] /\ ones[i] = ones[i]
        BY <1>1, <1>4, <2>1, <2>2, ZeroOne, PlusCommutes, PlusZero
    <2>4. SumProducts(b, ones, n) = SumProducts(w, ones, n)
        <3>1. \A i \in 1..n : Times(b[i], ones[i]) = Times(w[i], ones[i])
            BY <2>3
        <3> QED
            BY <3>1, ProductsCongruent
    <2>5. SumProducts(z, ones, n) = w[p]
        <3>1. \A j \in 1..n : j # p => Times(z[j], ones[j]) = Zero
            BY <1>1, <1>2, <2>1, ZeroOne
        <3>3. z[p] \in Fractions /\ ones[p] \in Fractions
            BY <1>1, <2>1, ZeroOne
        <3>2. SumProducts(z, ones, n) = Times(z[p], ones[p])
            BY ONLY <3>1, <3>3, n \in Nat, p \in 1..n, ProductsSingle
        <3> QED
            BY <1>1, <1>2, <2>1, <3>2
    <2>6. Plus(w[p], w[q]) = Zero
        BY <1>1, <1>2, <2>2, <2>4, <2>5
    <2>7. Plus(Times(MinusOne, w[p]), w[p]) = Zero /\ Times(MinusOne, w[p]) \in Fractions
        BY <1>1, MinusOneIs, FractionsClosed
    <2>8. Plus(w[q], w[p]) = Zero
        BY <1>1, <2>6, PlusCommutes
    <2>9. w[q] = Times(MinusOne, w[p])
        BY <1>1, <2>7, <2>8, MinusPlus
    <2> QED
        BY <1>1, <1>4, <2>9, MinusOneIs, TimesCommutes
<1> QED
    BY <1>3, <1>4

\* The place left out can be filled with anything.
LEMMA Unskipped ==
    ASSUME NEW n \in Nat, NEW k \in 1..n, NEW ws \in FractionRow(n - 1), NEW t \in Fractions
    PROVE  \E w \in FractionRow(n) : Skipped(ws, w, k, n) /\ w[k] = t
<1> DEFINE w == [i \in 1..n |-> IF i = k THEN t ELSE IF i < k THEN ws[i] ELSE ws[i - 1]]
<1>1. \A i \in 1..n : /\ i < k => i \in 1..(n - 1)
                      /\ i > k => i - 1 \in 1..(n - 1)
    OBVIOUS
<1>2. \A i \in 1..(n - 1) : ws[i] \in Fractions
    BY DEF FractionRow
<1>3. ASSUME NEW i \in 1..n PROVE w[i] \in Fractions
    <2>1. i = k \/ i < k \/ i > k
        OBVIOUS
    <2> QED
        BY <1>1, <1>2, <2>1
<1>4. w \in FractionRow(n)
    BY <1>3 DEF FractionRow
<1>5. ASSUME NEW i \in 1..(n - 1) PROVE ws[i] = w[Skip(k)[i]]
    BY DEF Skip
<1>6. Skipped(ws, w, k, n) /\ w[k] = t
    BY <1>5 DEF Skipped
<1> QED
    BY <1>4, <1>6

LEMMA SkippedExists ==
    ASSUME NEW n \in Nat, NEW k \in 1..n, NEW w \in FractionRow(n)
    PROVE  \E ws \in FractionRow(n - 1) : Skipped(ws, w, k, n)
<1> DEFINE ws == [i \in 1..(n - 1) |-> w[Skip(k)[i]]]
<1>1. \A i \in 1..(n - 1) : Skip(k)[i] \in 1..n
    BY DEF Skip
<1>2. ws \in FractionRow(n - 1) /\ Skipped(ws, w, k, n)
    BY <1>1 DEF Skipped, FractionRow
<1> QED
    BY <1>2

\* What is on both sides can be left out.
LEMMA LeftOut ==
    ASSUME NEW g \in Fractions, NEW p \in Fractions, NEW q \in Fractions, NEW t \in Fractions,
           Plus(g, t) = Plus(Plus(p, t), q)
    PROVE  g = Plus(p, q)
<1>1. Plus(Plus(p, t), q) = Plus(Plus(p, q), t)
    <2>1. Plus(Plus(p, t), q) = Plus(p, Plus(t, q))
        BY PlusAssociates
    <2>2. Plus(t, q) = Plus(q, t)
        BY PlusCommutes
    <2>3. Plus(p, Plus(q, t)) = Plus(Plus(p, q), t)
        BY PlusAssociates
    <2> QED
        BY <2>1, <2>2, <2>3
<1>2. Plus(p, q) \in Fractions
    BY FractionsClosed
<1>3. g = Minus(Plus(g, t), t) /\ Plus(p, q) = Minus(Plus(Plus(p, q), t), t)
    BY <1>2, MinusPlus
<1> QED
    BY <1>1, <1>3

LEMMA PlacesSkip ==
    ASSUME NEW n \in Nat, NEW k \in 1..n
    PROVE  /\ \A i \in 1..(n - 1) : Skip(k)[i] \in 1..n
           /\ \A j \in 1..n : j = k \/ \E i \in 1..(n - 1) : j = Skip(k)[i]
<1>1. \A i \in 1..(n - 1) : Skip(k)[i] \in 1..n
    BY DEF Skip
<1>2. ASSUME NEW j \in 1..n PROVE j = k \/ \E i \in 1..(n - 1) : j = Skip(k)[i]
    <2>1. CASE j < k
        <3>1. j \in 1..(n - 1) /\ Skip(k)[j] = j
            BY <2>1 DEF Skip
        <3> QED
            BY <3>1
    <2>2. CASE j > k
        <3>1. j - 1 \in 1..(n - 1) /\ Skip(k)[j - 1] = j
            BY <2>2 DEF Skip
        <3> QED
            BY <3>1
    <2> QED
        BY <2>1, <2>2
<1> QED
    BY <1>1, <1>2

LEMMA PlacesJoin ==
    ASSUME NEW m \in Nat, NEW l \in Nat
    PROVE  /\ \A i \in 1..m : i \in 1..(m + l)
           /\ \A i \in 1..l : m + i \in 1..(m + l)
           /\ \A i \in 1..(m + l) : i \in 1..m \/ \E j \in 1..l : i = m + j
<1>1. /\ \A i \in 1..m : i \in 1..(m + l)
      /\ \A i \in 1..l : m + i \in 1..(m + l)
    OBVIOUS
<1>2. ASSUME NEW i \in 1..(m + l), i \notin 1..m PROVE \E j \in 1..l : i = m + j
    <2>1. i - m \in 1..l /\ i = m + (i - m)
        BY <1>2
    <2> QED
        BY <2>1
<1> QED
    BY <1>1, <1>2

----------------------------------------------------------------------------
(* Kernels and spans as certificates: what refutes a system, and how a      *)
(* vector outside a span is told apart.                                     *)

LEMMA CycleRefutes ==
    ASSUME NEW m \in Nat, NEW n \in Nat, NEW D \in Rows(m, n), NEW r \in FractionRow(m), NEW z \in FractionRow(m),
           is_zero(row_vec_mat(z, D)), dot(z, r) # Zero
    PROVE  ~Solvable(D, r)
<1>1. Rectangular(D) /\ Len(D) = m
    BY RowsRectangular
<1>2. /\ z \in Seq(Fractions) /\ Len(z) = m /\ r \in Seq(Fractions) /\ Len(r) = m
      /\ Vector(z, m) /\ Vector(r, m)
    BY RowIsSeq DEF Vector, FractionRow
<1> SUFFICES ASSUME NEW b \in solve_over_Q(D, r) PROVE FALSE
    BY DEF Solvable
<1>3. b \in FractionRow(columns(D)) /\ mat_vec(D, b) = r
    BY <1>1, <1>2, SolvesExactly
<1>4. columns(D) \in Nat
    BY <1>1, Shape
<1>5. Vector(b, columns(D)) /\ Len(b) = columns(D)
    BY <1>3, <1>4, RowIsSeq DEF Vector, FractionRow
<1> QED
    BY <1>1, <1>2, <1>3, <1>5, SeparatorRefutes

LEMMA FreeColumnExists ==
    ASSUME NEW m \in Nat, NEW n \in Nat, m < n, NEW M \in [1..m -> FractionRow(n)]
    PROVE  Len(FreeColumns(Eliminated(M, n), n)) > 0
<1> DEFINE e == Eliminated(M, n)
           free == FreeColumns(e, n)
<1>1. Echelon(e, m, n, n)
    <2>1. n <= n
        OBVIOUS
    <2> QED
        BY <2>1, EliminatedIs
<1>2. /\ DOMAIN e.pivots = 1..Len(e.pivots) /\ Len(e.pivots) \in Nat /\ Len(e.pivots) <= m
    <2> HIDE DEF e
    <2>1. EchelonShape(e, m, n, n)
        BY <1>1, EchelonParts
    <2> QED
        BY <2>1 DEF EchelonShape
<1> HIDE DEF e
<1>3. free \in Seq(1..n)
    BY FreeColumnsAre
<1>4. \A c \in 1..n : PivotRow(e, c) = {} <=> \E k \in 1..Len(free) : free[k] = c
    BY FreeColumnsAre
<1>5. \E c \in 1..n : PivotRow(e, c) = {}
    <2> SUFFICES ASSUME \A c \in 1..n : PivotRow(e, c) # {} PROVE FALSE
        OBVIOUS
    <2> DEFINE S == 1..n
               T == 1..Len(e.pivots)
               f == [c \in S |-> CHOOSE i \in PivotRow(e, c) : TRUE]
    <2>1. \A c \in S : f[c] \in PivotRow(e, c)
        OBVIOUS
    <2>2. \A c \in S : f[c] \in T /\ e.pivots[f[c]] = c
        BY <1>2, <2>1 DEF PivotRow
    <2>3. f \in [S -> T]
        BY <2>2
    <2>4. \A j \in Nat : IsFiniteSet(1..j) /\ Cardinality(1..j) = j
        <3> SUFFICES ASSUME NEW j \in Nat PROVE IsFiniteSet(1..j) /\ Cardinality(1..j) = j
            OBVIOUS
        <3>1. IsFiniteSet(1..j) /\ Cardinality(1..j) = IF 1 > j THEN 0 ELSE j - 1 + 1
            BY FS_Interval
        <3> QED
            BY <3>1
    <2>5. IsFiniteSet(S) /\ IsFiniteSet(T) /\ Cardinality(S) = n /\ Cardinality(T) = Len(e.pivots)
        BY <1>2, <2>4
    <2>6. Cardinality(T) < Cardinality(S)
        BY <1>2, <2>5
    <2> HIDE DEF S, T, f
    <2>7. \E x, y \in S : x # y /\ f[x] = f[y]
        BY <2>3, <2>5, <2>6, FS_PigeonHole
    <2> QED
        BY <2>2, <2>7
<1> HIDE DEF free
<1>6. Len(free) \in Nat
    BY <1>3
<1>7. \E k \in 1..Len(free) : TRUE
    BY <1>4, <1>5
<1>8. Len(free) > 0
    BY <1>6, <1>7
<1> QED
    BY <1>8 DEF free, e

\* A correction, as solve_over_Q finds it.
LEMMA SolvableIs ==
    ASSUME NEW m \in Nat, NEW n \in Nat, m > 0, NEW D \in Rows(m, n), NEW r \in FractionRow(m)
    PROVE  Solvable(D, r) <=> \E b \in FractionRow(n) : mat_vec(D, b) = r
<1>1. Rectangular(D) /\ Len(D) = m /\ columns(D) = n
    BY RowsRectangular
<1>2. r \in Seq(Fractions) /\ Len(r) = m /\ Vector(r, m)
    BY RowIsSeq DEF Vector, FractionRow
<1>3. \A b \in solve_over_Q(D, r) : b \in FractionRow(n) /\ mat_vec(D, b) = r
    BY <1>1, <1>2, SolvesExactly
<1>4. \A b \in FractionRow(n) : mat_vec(D, b) = r => Solvable(D, r)
    BY <1>1, <1>2, SolvesExactly
<1> QED
    BY <1>3, <1>4 DEF Solvable

\* A correction is carried along a map to the product.
LEMMA ProductCarries ==
    ASSUME NEW q \in Nat, NEW p \in Nat, NEW n \in Nat, q > 0, p > 0,
           NEW A \in Rows(q, p), NEW D \in Rows(p, n), NEW r \in FractionRow(p), Solvable(D, r)
    PROVE  Solvable(mat_mat(A, D), mat_vec(A, r))
<1>1. PICK b \in FractionRow(n) : mat_vec(D, b) = r
    BY SolvableIs
<1>2. mat_mat(A, D) \in Rows(q, n) /\ mat_vec(A, r) \in FractionRow(q)
    BY ProductIs, ApplyIs
<1>3. mat_vec(mat_mat(A, D), b) = mat_vec(A, r)
    BY <1>1, ApplyProduct
<1> QED
    BY <1>2, <1>3, SolvableIs

\* No row and no column: nothing is listed.
LEMMA EmptyHasNoKernel == DOMAIN nullspace_over_Q(<<>>) = {}
<1>1. columns(<<>>) = 0
    BY DEF columns
<1> DEFINE e == Eliminated(<<>>, 0)
<1> HIDE DEF e
<1>2. FreeColumns(e, 0) \in Seq(1..0)
    BY FreeColumnsAre
<1>3. Len(FreeColumns(e, 0)) = 0
    <2> DEFINE S == 1..0
               f == FreeColumns(e, 0)
    <2>1. S = {}
        OBVIOUS
    <2> HIDE DEF f, S
    <2>2. f \in Seq(S)
        BY <1>2 DEF f, S
    <2>3. Len(f) = 0
        BY <2>1, <2>2
    <2> QED
        BY <2>3 DEF f
<1>4. nullspace_over_Q(<<>>) = KernelBasis(e, 0)
    BY <1>1 DEF nullspace_over_Q, e
<1>5. DOMAIN KernelBasis(e, 0) = 1..Len(FreeColumns(e, 0))
    BY DEF KernelBasis, Computed
<1> QED
    BY <1>3, <1>4, <1>5

\* A system without a solution has a combination of its rows that says so.
LEMMA Obstructed ==
    ASSUME NEW m \in Nat, NEW n \in Nat, m > 0, NEW D \in Rows(m, n), NEW r \in FractionRow(m), ~Solvable(D, r)
    PROVE  \E y \in FractionRow(m) :
             /\ \A k \in 1..n : SumProducts(y, Column(D, k, m), m) = Zero
             /\ SumProducts(y, r, m) # Zero
<1> DEFINE W == n + 1
           A == [i \in 1..m |-> Append(D[i], r[i])]
           e == Eliminated(A, n)
<1>1. W \in Nat /\ n < W /\ n <= W /\ Rectangular(D) /\ Len(D) = m /\ columns(D) = n
    BY RowsRectangular
<1>2. \A i \in 1..m : D[i] \in Seq(Fractions) /\ Len(D[i]) = n /\ r[i] \in Fractions
    <2>1. \A i \in 1..m : D[i] \in FractionRow(n) /\ r[i] \in Fractions
        BY DEF Rows, FractionRow
    <2> QED
        BY <2>1, RowIsSeq
<1>3. \A i \in 1..m : /\ A[i] \in FractionRow(W)
                      /\ A[i][n + 1] = r[i]
                      /\ \A k \in 1..n : A[i][k] = D[i][k]
    <2> SUFFICES ASSUME NEW i \in 1..m
                 PROVE  /\ A[i] \in FractionRow(W) /\ A[i][n + 1] = r[i]
                        /\ \A k \in 1..n : A[i][k] = D[i][k]
        OBVIOUS
    <2>1. A[i] = Append(D[i], r[i])
        OBVIOUS
    <2> HIDE DEF A
    <2> QED
        BY <1>2, <2>1, AppendRow
<1>4. A \in [1..m -> FractionRow(W)]
    BY <1>3
<1>5. solve_over_Q(D, r) = Solution(e, n)
    BY <1>1 DEF solve_over_Q
<1> HIDE DEF A
<1>6. Echelon(e, m, W, n) /\ SameSpaces(A, e.rows, m, W)
    BY <1>1, <1>4, EliminatedIs
<1> HIDE DEF e, W
<1>7. Solution(e, n) = IF \E i \in 1..m : Contradictory(e.rows[i], n) THEN {} ELSE {Found(e, n)}
    BY <1>1, <1>6, SolutionIs
<1>8. PICK i \in 1..m : Contradictory(e.rows[i], n)
    BY <1>5, <1>7 DEF Solvable
<1> DEFINE R == e.rows
<1> HIDE DEF R
<1>9. SameSpaces(A, R, m, W) /\ Contradictory(R[i], n)
    BY <1>6, <1>8 DEF R
<1>10. \A j \in 1..m : A[j][n + 1] = r[j] /\ \A k \in 1..n : A[j][k] = D[j][k]
    BY <1>3
<1>11. \E y : Refutes(y, D, r, m, n)
    BY <1>1, <1>4, <1>9, <1>10, Refutable
<1> QED
    BY <1>11, ZeroOne DEF Refutes

\* What pairs to zero with every row of a list pairs to zero with their combinations.
LEMMA SpanPairs ==
    ASSUME NEW k \in Nat, NEW n \in Nat, NEW L \in Rows(k, n), NEW v \in FractionRow(n), InSpan(L, k, n, v),
           NEW r \in FractionRow(n), \A j \in 1..k : SumProducts(L[j], r, n) = Zero
    PROVE  SumProducts(v, r, n) = Zero
<1>1. PICK a \in FractionRow(k) : \A c \in 1..n : v[c] = SumProducts(Column(L, c, k), a, k)
    BY DEF InSpan
<1> DEFINE X == [c \in 1..n |-> Column(L, c, k)]
           w == [j \in 1..k |-> Zero]
<1>2. Matrix(X, n, k) /\ Transposes(L, X, n, k) /\ Vector(r, n) /\ Vector(a, k)
    BY DEF Matrix, Vector, Transposes, Rows, FractionRow, Column
<1>3. Applies(v, X, a, n, k)
    BY <1>1 DEF Applies
<1>4. Applies(w, L, r, k, n)
    BY DEF Applies
<1>5. \A j \in 1..k : w[j] = Zero
    OBVIOUS
<1> HIDE DEF X, w
<1>6. SumProducts(r, v, n) = SumProducts(w, a, k)
    BY <1>2, <1>3, <1>4, ProductsAssociate
<1>7. SumProducts(w, a, k) = Zero
    BY <1>2, <1>5, ProductsOfZero DEF Vector
<1>8. SumProducts(v, r, n) = SumProducts(r, v, n)
    BY ProductsCommute DEF FractionRow
<1> QED
    BY <1>6, <1>7, <1>8

\* Taking a cycle back along a map pairs it with what the map carries.
LEMMA PushedPairs ==
    ASSUME NEW m \in Nat, NEW n \in Nat, m > 0, NEW rho \in Rows(m, n), NEW k \in Nat, NEW L \in Rows(k, m),
           NEW r \in FractionRow(n), NEW j \in 1..k
    PROVE  SumProducts(PushedBack(rho, L)[j], r, n) = SumProducts(L[j], mat_vec(rho, r), m)
<1> DEFINE C == [c \in 1..n |-> Column(rho, c, m)]
           w == PushedBack(rho, L)[j]
           v == mat_vec(rho, r)
           y == L[j]
<1>1. y \in FractionRow(m) /\ \A c \in 1..n : w[c] = SumProducts(Column(rho, c, m), y, m)
    BY PushedIs DEF Rows
<1>2. Matrix(rho, m, n) /\ Transposes(C, rho, m, n) /\ Vector(y, m) /\ Vector(r, n)
    BY <1>1 DEF Matrix, Vector, Transposes, Rows, FractionRow, Column
<1>3. Applies(v, rho, r, m, n)
    BY ApplyIs DEF Applies
<1>4. Applies(w, C, y, n, m)
    BY <1>1 DEF Applies
<1> HIDE DEF C, w, v, y
<1>5. SumProducts(y, v, m) = SumProducts(w, r, n)
    BY <1>2, <1>3, <1>4, ProductsAssociate
<1> QED
    BY <1>5 DEF w, v, y

(***************************************************************************)
(* A vector outside a span is told apart from it: some residue pairs to    *)
(* zero with every row and not with the vector. A single entry will do if  *)
(* there is no row, and otherwise one that nullspace_over_Q lists.         *)
(***************************************************************************)
LEMMA Separated ==
    ASSUME NEW k \in Nat, NEW n \in Nat, NEW L \in Rows(k, n), NEW v \in FractionRow(n), ~InSpan(L, k, n, v)
    PROVE  \E r \in FractionRow(n) :
             /\ (\E j \in 1..n : r = Units(j, n))
                  \/ (\E i \in DOMAIN nullspace_over_Q(L) : r = nullspace_over_Q(L)[i])
             /\ \A j \in 1..k : SumProducts(L[j], r, n) = Zero
             /\ SumProducts(v, r, n) # Zero
<1>1. CASE k = 0
    <2>1. PICK j \in 1..n : v[j] # Zero
        <3>1. ASSUME \A c \in 1..n : v[c] = Zero PROVE FALSE
            <4>1. \A a : \A c \in 1..n : SumProducts(Column(L, c, k), a, k) = Zero
                BY <1>1, ProductsStart
            <4>2. [i \in 1..0 |-> Zero] \in FractionRow(k)
                BY <1>1 DEF FractionRow
            <4> QED
                BY <3>1, <4>1, <4>2 DEF InSpan
        <3> QED
            BY <3>1
    <2> DEFINE r == Units(j, n)
    <2>2. Vector(v, n)
        BY DEF Vector, FractionRow
    <2>3. SumProducts(r, v, n) = v[j] /\ Vector(r, n)
        BY <2>2, UnitProducts
    <2>4. r \in FractionRow(n)
        BY ZeroOne DEF Units, FractionRow
    <2> HIDE DEF r
    <2>5. SumProducts(v, r, n) = SumProducts(r, v, n)
        BY <2>2, <2>3, ProductsCommute DEF Vector
    <2>6. \E c \in 1..n : r = Units(c, n)
        BY DEF r
    <2> QED
        BY <1>1, <2>1, <2>3, <2>4, <2>5, <2>6
<1>2. CASE k > 0
    <2> DEFINE T == transpose(L)
               N == nullspace_over_Q(L)
               h == Len(N)
    <2>1. T \in Rows(n, k) /\ T = [c \in 1..n |-> Column(L, c, k)] /\ L # <<>>
          /\ Rectangular(L) /\ columns(L) = n /\ Len(L) = k
        BY <1>2, TransposeIs, RowsRectangular
    <2>2. ~Solvable(T, v)
        BY <2>1, SpanDecided DEF in_span_over_Q
    <2>3. KernelList(L, n, h, N)
        BY <2>1, NullspaceIs
    <2>4. h \in Nat /\ N \in Rows(h, n) /\ DOMAIN N = 1..h
        BY <2>3 DEF KernelList, Rows
    <2>5. n > 0
        <3> SUFFICES ASSUME n = 0 PROVE FALSE
            OBVIOUS
        <3>1. [i \in 1..k |-> Zero] \in FractionRow(k)
            BY ZeroOne DEF FractionRow
        <3> QED
            BY <3>1 DEF InSpan
    <2> HIDE DEF T, N, h
    <2>6. PICK x \in FractionRow(n) :
             /\ \A c \in 1..k : SumProducts(x, Column(T, c, n), n) = Zero
             /\ SumProducts(x, v, n) # Zero
        BY <2>1, <2>2, <2>5, Obstructed
    <2>7. ASSUME NEW u \in FractionRow(n)
          PROVE  is_zero(mat_vec(L, u)) <=> \A c \in 1..k : SumProducts(L[c], u, n) = Zero
        <3>1. mat_vec(L, u) \in FractionRow(k) /\ \A c \in 1..k : mat_vec(L, u)[c] = SumProducts(L[c], u, n)
            BY ApplyIs
        <3> QED
            BY <3>1 DEF FractionRow, is_zero
    <2>8. \A c \in 1..k : SumProducts(L[c], x, n) = Zero
        <3> SUFFICES ASSUME NEW c \in 1..k PROVE SumProducts(L[c], x, n) = Zero
            OBVIOUS
        <3>1. \A l \in 1..n : L[c][l] \in Fractions /\ x[l] \in Fractions
            BY DEF Rows, FractionRow
        <3>2. \A l \in 1..n : Column(T, c, n)[l] = L[c][l]
            BY <2>1 DEF Column
        <3>3. SumProducts(L[c], x, n) = SumProducts(x, L[c], n)
            BY <3>1, ProductsCommute
        <3>4. SumProducts(x, L[c], n) = SumProducts(x, Column(T, c, n), n)
            BY <3>2, ProductsCongruent
        <3> QED
            BY <2>6, <3>3, <3>4
    <2>9. InSpan(N, h, n, x)
        BY <2>3, <2>7, <2>8 DEF KernelList
    <2>10. \E i \in 1..h : SumProducts(N[i], v, n) # Zero
        <3> SUFFICES ASSUME \A i \in 1..h : SumProducts(N[i], v, n) = Zero PROVE FALSE
            OBVIOUS
        <3> QED
            BY <2>4, <2>6, <2>9, SpanPairs
    <2>11. PICK i \in 1..h : SumProducts(N[i], v, n) # Zero
        BY <2>10
    <2> DEFINE r == N[i]
    <2>12. r \in FractionRow(n) /\ is_zero(mat_vec(L, r))
        BY <2>3, <2>4 DEF KernelList, Rows
    <2>13. \E c \in DOMAIN nullspace_over_Q(L) : r = nullspace_over_Q(L)[c]
        BY <2>4 DEF N
    <2>14. SumProducts(r, v, n) # Zero
        BY <2>11
    <2> HIDE DEF r
    <2>15. SumProducts(v, r, n) = SumProducts(r, v, n)
        BY <2>12, ProductsCommute DEF FractionRow
    <2> QED
        BY <2>7, <2>12, <2>13, <2>14, <2>15
<1> QED
    BY <1>1, <1>2

(***************************************************************************)
(* A residue can be corrected exactly when it pairs to zero with every     *)
(* listed cycle.                                                           *)
(***************************************************************************)
LEMMA CyclesDecide ==
    ASSUME NEW m \in Nat, NEW n \in Nat, m > 0, n > 0, NEW D \in Rows(m, n), NEW r \in FractionRow(m),
           NEW h, NEW S, KernelList(transpose(D), m, h, S)
    PROVE  Solvable(D, r) <=> \A j \in 1..h : SumProducts(S[j], r, m) = Zero
<1>1. h \in Nat /\ S \in Rows(h, m)
    BY DEF KernelList
<1>2. Rectangular(D) /\ Len(D) = m /\ columns(D) = n
    BY RowsRectangular
<1>3. transpose(D) \in Rows(n, m) /\ \A c \in 1..n : transpose(D)[c] = Column(D, c, m)
    BY TransposeIs
<1>4. ASSUME Solvable(D, r), NEW j \in 1..h PROVE SumProducts(S[j], r, m) = Zero
    <2> DEFINE z == S[j]
    <2>1. z \in FractionRow(m) /\ is_zero(mat_vec(transpose(D), z))
        BY <1>1 DEF KernelList, Rows
    <2>2. Vector(z, m) /\ Len(z) = m /\ Len(r) = m
        BY <2>1, RowIsSeq DEF Vector, FractionRow
    <2> HIDE DEF z
    <2>3. is_zero(row_vec_mat(z, D))
        BY <1>2, <2>1, <2>2, SeparatorForms
    <2>4. dot(z, r) = Zero
        BY <1>4, <2>1, <2>3, CycleRefutes
    <2>5. dot(z, r) = SumProducts(z, r, m)
        BY <2>2 DEF dot
    <2> QED
        BY <2>4, <2>5 DEF z
<1>5. ASSUME ~Solvable(D, r), \A j \in 1..h : SumProducts(S[j], r, m) = Zero PROVE FALSE
    <2>1. PICK y \in FractionRow(m) :
             /\ \A k \in 1..n : SumProducts(y, Column(D, k, m), m) = Zero
             /\ SumProducts(y, r, m) # Zero
        BY <1>5, Obstructed
    <2> DEFINE T == transpose(D)
    <2>2. mat_vec(T, y) \in FractionRow(n) /\ \A c \in 1..n : mat_vec(T, y)[c] = SumProducts(T[c], y, m)
        BY <1>3, ApplyIs
    <2>3. ASSUME NEW c \in 1..n PROVE mat_vec(T, y)[c] = Zero
        <3>1. \A l \in 1..m : Column(D, c, m)[l] \in Fractions /\ y[l] \in Fractions
            BY DEF Rows, FractionRow, Column
        <3>2. SumProducts(Column(D, c, m), y, m) = SumProducts(y, Column(D, c, m), m)
            BY <3>1, ProductsCommute
        <3>3. SumProducts(y, Column(D, c, m), m) = Zero
            BY <2>1
        <3>4. T[c] = Column(D, c, m)
            BY <1>3
        <3> HIDE DEF T
        <3> QED
            BY <2>2, <3>2, <3>3, <3>4
    <2> HIDE DEF T
    <2>4. is_zero(mat_vec(T, y))
        BY <2>2, <2>3 DEF is_zero, FractionRow
    <2>5. InSpan(S, h, m, y)
        BY <2>4 DEF KernelList, T
    <2>6. SumProducts(y, r, m) = Zero
        BY <1>1, <1>5, <2>5, SpanPairs
    <2> QED
        BY <2>1, <2>6
<1> QED
    BY <1>4, <1>5

----------------------------------------------------------------------------
(* Dimension: a list of vectors that are independent and have a span that  *)
(* is given has one length only, which elimination counts.                 *)

\* Places in order, as the pivots of an echelon form are.
Ascending(p, r, n) == p \in [1..r -> 1..n] /\ \A i, j \in 1..r : i < j => p[i] < p[j]

At(u, p, r) == [i \in 1..r |-> u[p[i]]]

LEMMA ListedProducts ==
    ASSUME NEW n \in Nat, NEW r \in Nat, NEW p, Ascending(p, r, n),
           NEW u, Vector(u, n), NEW y, Vector(y, n),
           \A k \in 1..n : (\A i \in 1..r : p[i] # k) => y[k] = Zero
    PROVE  SumProducts(u, y, n) = SumProducts(At(u, p, r), At(y, p, r), r)
<1> DEFINE us == At(u, p, r)
           ys == At(y, p, r)
           Upto(c, q) == /\ q \in 0..r
                         /\ \A i \in 1..r : p[i] <= c <=> i <= q
                         /\ SumProducts(u, y, c) = SumProducts(us, ys, q)
           P == {c \in Nat : c <= n => \E q : Upto(c, q)}
<1>1. \A i \in 1..r : us[i] = u[p[i]] /\ ys[i] = y[p[i]] /\ p[i] \in 1..n
    BY DEF At, Ascending
<1>2. \A k \in 1..n : u[k] \in Fractions /\ y[k] \in Fractions
    BY DEF Vector
<1> HIDE DEF us, ys
<1>3. 0 \in P
    <2>1. \A i \in 1..r : p[i] <= 0 <=> i <= 0
        BY <1>1
    <2>2. SumProducts(u, y, 0) = SumProducts(us, ys, 0)
        BY ProductsStart
    <2>3. Upto(0, 0)
        BY <2>1, <2>2
    <2> HIDE DEF Upto
    <2> QED
        BY <2>3
<1>4. ASSUME NEW c \in P PROVE c + 1 \in P
    <2> SUFFICES ASSUME c + 1 <= n PROVE \E q : Upto(c + 1, q)
        <3> HIDE DEF Upto
        <3> QED
            OBVIOUS
    <2>1. c \in Nat /\ \E q : Upto(c, q)
        <3> HIDE DEF Upto
        <3> QED
            OBVIOUS
    <2>2. PICK q : Upto(c, q)
        BY <2>1
    <2>3. SumProducts(u, y, c + 1) = Plus(SumProducts(u, y, c), Times(u[c + 1], y[c + 1]))
        BY <2>1, ProductsStep
    <2>4. c + 1 \in 1..n /\ q \in Nat /\ q <= r
        BY <2>1, <2>2
    <2>5. CASE q < r /\ p[q + 1] = c + 1
        <3>1. SumProducts(us, ys, q + 1) = Plus(SumProducts(us, ys, q), Times(us[q + 1], ys[q + 1]))
            BY <2>4, ProductsStep
        <3>2. q + 1 \in 1..r /\ us[q + 1] = u[c + 1] /\ ys[q + 1] = y[c + 1]
            BY <1>1, <2>4, <2>5
        <3>3. SumProducts(u, y, c + 1) = SumProducts(us, ys, q + 1)
            BY <2>2, <2>3, <3>1, <3>2
        <3>4. ASSUME NEW i \in 1..r PROVE p[i] <= c + 1 <=> i <= q + 1
            <4>1. CASE i > q + 1
                <5>1. p[q + 1] < p[i] /\ p[i] \in 1..n
                    BY <1>1, <3>2, <4>1 DEF Ascending
                <5> QED
                    BY <2>1, <2>4, <2>5, <4>1, <5>1
            <4>2. CASE i = q + 1
                BY <2>1, <2>5, <4>2
            <4>3. CASE i <= q
                BY <1>1, <2>1, <2>2, <2>4, <4>3
            <4> QED
                BY <2>4, <4>1, <4>2, <4>3
        <3>5. Upto(c + 1, q + 1)
            BY <3>2, <3>3, <3>4
        <3> HIDE DEF Upto
        <3> QED
            BY <3>5
    <2>6. CASE ~(q < r /\ p[q + 1] = c + 1)
        <3>1. ASSUME NEW i \in 1..r PROVE p[i] # c + 1
            <4> SUFFICES ASSUME p[i] = c + 1 PROVE FALSE
                OBVIOUS
            <4>1. ~(i <= q) /\ q < r /\ q + 1 \in 1..r
                BY <2>1, <2>2, <2>4
            <4>2. p[q + 1] > c /\ p[q + 1] \in 1..n
                <5>1. ~(p[q + 1] <= c)
                    BY <2>2, <2>4, <4>1
                <5> QED
                    BY <1>1, <2>1, <4>1, <5>1
            <4>3. p[q + 1] <= p[i]
                <5>1. CASE i = q + 1
                    BY <4>2, <5>1
                <5>2. CASE i > q + 1
                    BY <1>1, <4>1, <5>2 DEF Ascending
                <5> QED
                    BY <2>4, <4>1, <5>1, <5>2
            <4> QED
                BY <2>1, <2>6, <4>1, <4>2, <4>3
        <3>2. y[c + 1] = Zero /\ u[c + 1] \in Fractions
            BY <1>2, <2>4, <3>1
        <3>3. SumProducts(u, y, c) \in Fractions
            <4>1. \A k \in 1..c : u[k] \in Fractions /\ y[k] \in Fractions
                BY <1>2, <2>1
            <4> QED
                BY <2>1, <4>1, ProductsType
        <3>4. SumProducts(u, y, c + 1) = SumProducts(us, ys, q)
            BY <2>2, <2>3, <3>2, <3>3, TimesZero, PlusZero
        <3>5. \A i \in 1..r : p[i] <= c + 1 <=> i <= q
            BY <1>1, <2>1, <2>2, <3>1
        <3>6. Upto(c + 1, q)
            BY <2>2, <3>4, <3>5
        <3> HIDE DEF Upto
        <3> QED
            BY <3>6
    <2> QED
        BY <2>5, <2>6
<1>5. P = Nat
    <2>1. P \in SUBSET Nat
        OBVIOUS
    <2> HIDE DEF P
    <2> QED
        BY <1>3, <1>4, <2>1, Induction
<1>6. PICK q : Upto(n, q)
    <2>1. n \in P
        <3> HIDE DEF P
        <3> QED
            BY <1>5
    <2> HIDE DEF Upto
    <2> QED
        BY <2>1
<1>7. q = r
    <2>1. \A i \in 1..r : i <= q
        BY <1>1, <1>6
    <2>2. r = 0 \/ r \in 1..r
        OBVIOUS
    <2> QED
        BY <1>6, <2>1, <2>2
<1> QED
    BY <1>6, <1>7 DEF us, ys

\* The pivots and the free columns share the columns out.
LEMMA Counted ==
    ASSUME NEW m \in Nat, NEW n \in Nat, NEW e, Echelon(e, m, n, n)
    PROVE  Len(e.pivots) + Len(FreeColumns(e, n)) = n
<1> DEFINE free == FreeColumns(e, n)
           r == Len(e.pivots)
           f == Len(free)
           S == {c \in 1..n : PivotRow(e, c) # {}}
           T == {c \in 1..n : PivotRow(e, c) = {}}
<1>1. /\ e.pivots \in Seq(1..n)
      /\ \A i \in 1..r, j \in 1..r : i < j => e.pivots[i] < e.pivots[j]
    BY DEF Echelon
<1>2. r \in Nat /\ DOMAIN e.pivots = 1..r /\ \A i \in 1..r : e.pivots[i] \in 1..n
    BY <1>1
<1>3. /\ free \in Seq(1..n)
      /\ \A c \in 1..n : PivotRow(e, c) = {} <=> \E k \in 1..f : free[k] = c
      /\ \A k, l \in 1..f : free[k] = free[l] => k = l
    BY FreeColumnsAre
<1> HIDE DEF free
<1>4. f \in Nat /\ DOMAIN free = 1..f /\ \A i \in 1..f : free[i] \in 1..n
    BY <1>3
<1>5. \A j \in Nat : IsFiniteSet(1..j) /\ Cardinality(1..j) = j
    <2> SUFFICES ASSUME NEW j \in Nat PROVE IsFiniteSet(1..j) /\ Cardinality(1..j) = j
        OBVIOUS
    <2>1. IsFiniteSet(1..j) /\ Cardinality(1..j) = IF 1 > j THEN 0 ELSE j - 1 + 1
        BY FS_Interval
    <2> QED
        BY <2>1
<1>6. Cardinality(S) = r /\ IsFiniteSet(S)
    <2> DEFINE g == [i \in 1..r |-> e.pivots[i]]
    <2>1. \A i \in 1..r : g[i] \in S
        BY <1>2 DEF PivotRow
    <2>2. \A c \in S : \E i \in 1..r : g[i] = c
        BY <1>2 DEF PivotRow
    <2>3. \A i, j \in 1..r : g[i] = g[j] => i = j
        BY <1>1, <1>2
    <2>4. g \in [1..r -> S]
        BY <2>1
    <2> HIDE DEF g, S
    <2>5. g \in Bijection(1..r, S)
        BY <2>2, <2>3, <2>4 DEF Bijection, Injection, Surjection, IsInjective
    <2>6. ExistsBijection(1..r, S)
        BY <2>5 DEF ExistsBijection
    <2> QED
        BY <1>2, <1>5, <2>6, FS_Bijection
<1>7. Cardinality(T) = f /\ IsFiniteSet(T)
    <2> DEFINE g == [i \in 1..f |-> free[i]]
    <2>1. \A i \in 1..f : g[i] \in T
        BY <1>3, <1>4
    <2>2. \A c \in T : \E i \in 1..f : g[i] = c
        BY <1>3
    <2>3. \A i, j \in 1..f : g[i] = g[j] => i = j
        BY <1>3
    <2>4. g \in [1..f -> T]
        BY <2>1
    <2> HIDE DEF g, T
    <2>5. g \in Bijection(1..f, T)
        BY <2>2, <2>3, <2>4 DEF Bijection, Injection, Surjection, IsInjective
    <2>6. ExistsBijection(1..f, T)
        BY <2>5 DEF ExistsBijection
    <2> QED
        BY <1>4, <1>5, <2>6, FS_Bijection
<1>8. S \cup T = 1..n /\ S \cap T = {}
    OBVIOUS
<1> HIDE DEF S, T
<1>9. Cardinality(1..n) = n /\ Cardinality({}) = 0
    BY <1>5, FS_EmptySet
<1>10. Cardinality(S \cup T) = Cardinality(S) + Cardinality(T) - Cardinality(S \cap T)
    BY <1>6, <1>7, FS_Union
<1>11. n = r + f - 0
    BY <1>6, <1>7, <1>8, <1>9, <1>10
<1> HIDE DEF r, f
<1>12. r + f = n
    BY <1>2, <1>4, <1>11
<1> QED
    BY <1>12 DEF r, f, free

\* No combination of the vectors is zero but the one that takes none of them.
LinearlyIndependent(L, k, n) ==
    \A x \in FractionRow(k) :
        (\A c \in 1..n : SumProducts(Column(L, c, k), x, k) = Zero) => \A i \in 1..k : x[i] = Zero

\* More unknowns than equations leave a solution besides zero.
LEMMA MoreUnknowns ==
    ASSUME NEW m \in Nat, NEW n \in Nat, m < n, NEW M \in Rows(m, n)
    PROVE  \E x \in FractionRow(n) : /\ \E k \in 1..n : x[k] # Zero
                                     /\ \A i \in 1..m : SumProducts(M[i], x, n) = Zero
<1> DEFINE e == Eliminated(M, n)
<1>1. CASE m = 0
    <2> DEFINE x == [k \in 1..n |-> One]
    <2>1. x \in FractionRow(n) /\ 1 \in 1..n /\ x[1] # Zero
        BY ZeroOne DEF FractionRow
    <2> HIDE DEF x
    <2> QED
        BY <1>1, <2>1
<1>2. CASE m > 0
    <2>1. M \in [1..m -> FractionRow(n)] /\ Rectangular(M) /\ Len(M) = m /\ columns(M) = n
        BY <1>2, RowsRectangular DEF Rows
    <2>2. Echelon(e, m, n, n) /\ SameSpaces(M, e.rows, m, n)
        <3>1. n <= n
            OBVIOUS
        <3> QED
            BY <2>1, <3>1, EliminatedIs
    <2>3. Len(FreeColumns(e, n)) > 0
        BY <2>1, FreeColumnExists
    <2>4. /\ e.rows \in [1..m -> FractionRow(n)] /\ DOMAIN e.pivots = 1..Len(e.pivots)
        <3> HIDE DEF e
        <3>1. EchelonShape(e, m, n, n)
            BY <2>2, EchelonParts
        <3> QED
            BY <3>1 DEF EchelonShape
    <2> HIDE DEF e
    <2>5. /\ FreeColumns(e, n) \in Seq(1..n)
          /\ \A c \in 1..n : PivotRow(e, c) = {} <=> \E k \in 1..Len(FreeColumns(e, n)) : FreeColumns(e, n)[k] = c
        BY FreeColumnsAre
    <2>6. \E f \in 1..n : PivotRow(e, f) = {}
        <3>1. 1 \in 1..Len(FreeColumns(e, n)) /\ FreeColumns(e, n)[1] \in 1..n
            BY <2>3, <2>5
        <3> QED
            BY <2>5, <3>1
    <2>7. PICK f \in 1..n : ~IsPivot(e, f)
        BY <2>4, <2>6 DEF IsPivot, PivotRow
    <2>8. PICK B : BasisAt(e, B, n)
        BY <2>2, BasisExists
    <2>9. B[f] \in FractionRow(n) /\ B[f][f] = One /\ KilledBy(e, B[f], m, n)
        BY <2>2, <2>7, <2>8, BasisKilled DEF BasisAt
    <2>10. is_zero(mat_vec(M, B[f]))
        <3>1. n <= n /\ \A i \in 1..Len(M) : \A k \in 1..columns(M) : M[i][k] = M[i][k]
            OBVIOUS
        <3> QED
            BY <2>1, <2>2, <2>4, <2>9, <3>1, KernelKept
    <2>11. \A i \in 1..m : SumProducts(M[i], B[f], n) = Zero
        <3>1. mat_vec(M, B[f]) \in FractionRow(m)
              /\ \A i \in 1..m : mat_vec(M, B[f])[i] = SumProducts(M[i], B[f], n)
            BY <2>9, ApplyIs
        <3>2. Len(mat_vec(M, B[f])) = m
            BY <3>1, RowIsSeq
        <3> QED
            BY <2>10, <3>1, <3>2 DEF is_zero
    <2> QED
        BY <2>7, <2>9, <2>11, ZeroOne
<1> QED
    BY <1>1, <1>2

\* Independent vectors are no more than those that reach them.
LEMMA Exchange ==
    ASSUME NEW k \in Nat, NEW l \in Nat, NEW n \in Nat, NEW B \in Rows(k, n), NEW L \in Rows(l, n),
           LinearlyIndependent(B, k, n), \A i \in 1..k : InSpan(L, l, n, B[i])
    PROVE  k <= l
<1> SUFFICES ASSUME l < k PROVE FALSE
    OBVIOUS
<1> DEFINE C == [i \in 1..k |-> CHOOSE a \in FractionRow(l) :
                    \A c \in 1..n : B[i][c] = SumProducts(Column(L, c, l), a, l)]
           T == [j \in 1..l |-> Column(C, j, k)]
<1>1. \A i \in 1..k : /\ C[i] \in FractionRow(l)
                      /\ \A c \in 1..n : B[i][c] = SumProducts(Column(L, c, l), C[i], l)
    BY DEF InSpan
<1> HIDE DEF C
<1>2. T \in Rows(l, k)
    <2>1. \A j \in 1..l : Column(C, j, k) \in FractionRow(k)
        BY <1>1 DEF Column, FractionRow
    <2> QED
        BY <2>1 DEF Rows
<1>3. \A i \in 1..k, j \in 1..l : T[j][i] = C[i][j]
    BY DEF Column
<1> HIDE DEF T
<1>4. PICK x \in FractionRow(k) : /\ \E i \in 1..k : x[i] # Zero
                                  /\ \A j \in 1..l : SumProducts(T[j], x, k) = Zero
    BY <1>2, MoreUnknowns
<1>5. ASSUME NEW c \in 1..n PROVE SumProducts(Column(B, c, k), x, k) = Zero
    <2> DEFINE v == Column(B, c, k)
               b == Column(L, c, l)
               w == [j \in 1..l |-> Zero]
    <2>1. /\ Vector(b, l) /\ Vector(x, k) /\ Vector(v, k)
        BY DEF Rows, FractionRow, Vector, Column
    <2>2. Matrix(C, k, l) /\ Transposes(T, C, k, l)
        BY <1>1, <1>3 DEF Matrix, Vector, FractionRow, Transposes
    <2>3. Applies(v, C, b, k, l)
        <3>1. ASSUME NEW i \in 1..k PROVE v[i] = SumProducts(C[i], b, l)
            <4>1. v[i] = SumProducts(b, C[i], l)
                BY <1>1 DEF Column
            <4>2. \A j \in 1..l : b[j] \in Fractions /\ C[i][j] \in Fractions
                BY <1>1, <2>1 DEF Vector, FractionRow
            <4> HIDE DEF v, b
            <4> QED
                BY <4>1, <4>2, ProductsCommute
        <3> QED
            BY <3>1 DEF Applies
    <2>4. Applies(w, T, x, l, k)
        BY <1>4 DEF Applies
    <2>5. SumProducts(w, b, l) = Zero
        <3>1. \A j \in 1..l : w[j] = Zero /\ b[j] \in Fractions
            BY <2>1 DEF Vector
        <3> HIDE DEF w, b
        <3> QED
            BY <3>1, ProductsOfZero
    <2> HIDE DEF v, b, w
    <2>6. SumProducts(x, v, k) = Zero
        BY <2>1, <2>2, <2>3, <2>4, <2>5, ProductsAssociate
    <2>7. SumProducts(v, x, k) = SumProducts(x, v, k)
        <3>1. \A i \in 1..k : v[i] \in Fractions /\ x[i] \in Fractions
            BY <2>1 DEF Vector
        <3> QED
            BY <3>1, ProductsCommute
    <2> QED
        BY <2>6, <2>7 DEF v
<1> QED
    BY <1>4, <1>5 DEF LinearlyIndependent

\* One more that they do not reach, and they are still independent.
LEMMA IndependentGrows ==
    ASSUME NEW k \in Nat, NEW n \in Nat, NEW B \in Rows(k, n), LinearlyIndependent(B, k, n),
           NEW v \in FractionRow(n), ~InSpan(B, k, n, v),
           NEW D, D = [i \in 1..(k + 1) |-> IF i = k + 1 THEN v ELSE B[i]]
    PROVE  D \in Rows(k + 1, n) /\ LinearlyIndependent(D, k + 1, n)
<1>1. \A i \in 1..k : D[i] = B[i] /\ i \in 1..(k + 1)
    OBVIOUS
<1>2. D[k + 1] = v /\ k + 1 \in 1..(k + 1) /\ k + 1 \in Nat
    OBVIOUS
<1>3. D \in Rows(k + 1, n)
    <2>1. ASSUME NEW i \in 1..(k + 1) PROVE (IF i = k + 1 THEN v ELSE B[i]) \in FractionRow(n)
        <3>1. i = k + 1 \/ i \in 1..k
            OBVIOUS
        <3> QED
            BY <3>1 DEF Rows
    <2> QED
        BY <2>1 DEF Rows
<1>4. ASSUME NEW x \in FractionRow(k + 1),
             \A c \in 1..n : SumProducts(Column(D, c, k + 1), x, k + 1) = Zero
      PROVE  \A i \in 1..(k + 1) : x[i] = Zero
    <2> DEFINE a == [i \in 1..k |-> x[i]]
               t == x[k + 1]
    <2>1. a \in FractionRow(k) /\ t \in Fractions
        BY <1>1, <1>2 DEF FractionRow
    <2>2. ASSUME NEW c \in 1..n
          PROVE  /\ SumProducts(Column(B, c, k), a, k) \in Fractions /\ v[c] \in Fractions
                 /\ Plus(SumProducts(Column(B, c, k), a, k), Times(v[c], t)) = Zero
        <3>1. SumProducts(Column(D, c, k + 1), x, k + 1)
                = Plus(SumProducts(Column(D, c, k + 1), x, k), Times(Column(D, c, k + 1)[k + 1], x[k + 1]))
            BY ProductsStep
        <3>2. Column(D, c, k + 1)[k + 1] = v[c] /\ \A i \in 1..k : Column(D, c, k + 1)[i] = B[i][c]
            BY <1>1, <1>2 DEF Column
        <3>3. \A i \in 1..k : Times(Column(D, c, k + 1)[i], x[i]) = Times(Column(B, c, k)[i], a[i])
            BY <3>2 DEF Column
        <3>4. SumProducts(Column(D, c, k + 1), x, k) = SumProducts(Column(B, c, k), a, k)
            <4> HIDE DEF a
            <4> QED
                BY <3>3, ProductsCongruent
        <3>5. \A i \in 1..k : Column(B, c, k)[i] \in Fractions /\ a[i] \in Fractions
            BY <2>1 DEF Column, Rows, FractionRow
        <3>6. SumProducts(Column(B, c, k), a, k) \in Fractions
            <4> HIDE DEF a
            <4> QED
                BY <3>5, ProductsType
        <3>7. v[c] \in Fractions
            BY DEF FractionRow
        <3> QED
            BY <1>4, <3>1, <3>2, <3>4, <3>6, <3>7
    <2> HIDE DEF a, t
    <2>3. t = Zero
        <3> SUFFICES ASSUME t # Zero PROVE FALSE
            OBVIOUS
        <3> DEFINE s == Times(MinusOne, Over(One, t))
                   b == Scaled(s, a, k)
        <3>1. Over(One, t) \in Fractions /\ Times(t, Over(One, t)) = One /\ s \in Fractions
            BY <2>1, ZeroOne, OverIs, MinusOneIs, FractionsClosed
        <3>2. b \in FractionRow(k) /\ \A i \in 1..k : b[i] = Times(s, a[i])
            BY <2>1, <3>1, RowOps DEF Scaled
        <3>3. ASSUME NEW c \in 1..n PROVE v[c] = SumProducts(Column(B, c, k), b, k)
            <4> DEFINE g == Column(B, c, k)
                       p == SumProducts(g, a, k)
            <4>1. p \in Fractions /\ v[c] \in Fractions /\ Plus(p, Times(v[c], t)) = Zero
                BY <2>2
            <4>2. \A i \in 1..k : a[i] \in Fractions /\ g[i] \in Fractions /\ b[i] \in Fractions /\ b[i] = Times(s, a[i])
                BY <2>1, <3>2 DEF Column, Rows, FractionRow
            <4> HIDE DEF g, b, s
            <4>3. SumProducts(b, g, k) = Times(s, SumProducts(a, g, k))
                BY <3>1, <4>2, ProductsScale
            <4>4. SumProducts(g, a, k) = SumProducts(a, g, k) /\ SumProducts(g, b, k) = SumProducts(b, g, k)
                BY <4>2, ProductsCommute
            <4>5. SumProducts(g, b, k) = Times(s, p)
                BY <4>3, <4>4
            <4> HIDE DEF p
            <4> DEFINE q == Times(v[c], t)
                       o == Over(One, t)
            <4>6. q \in Fractions /\ o \in Fractions /\ Times(t, o) = One
                BY <2>1, <3>1, <4>1, FractionsClosed
            <4>7. q = Times(MinusOne, p)
                <5> HIDE DEF q
                <5>1. Plus(Times(MinusOne, p), p) = Zero /\ Times(MinusOne, p) \in Fractions
                    BY <4>1, MinusOneIs, FractionsClosed
                <5>2. Plus(q, p) = Zero
                    BY <4>1, <4>6, PlusCommutes DEF q
                <5>3. Minus(Plus(q, p), p) = q /\ Minus(Plus(Times(MinusOne, p), p), p) = Times(MinusOne, p)
                    BY <4>1, <4>6, <5>1, MinusPlus
                <5> QED
                    BY <5>1, <5>2, <5>3
            <4>8. v[c] = Times(q, o)
                BY <2>1, <4>1, <4>6, TimesAssociates, TimesOne
            <4>9. Times(Times(MinusOne, p), o) = Times(Times(MinusOne, o), p)
                <5> HIDE DEF q, o
                <5> QED
                    BY <4>1, <4>6, MinusOneIs, TimesAssociates, TimesCommutes
            <4> QED
                BY <4>5, <4>7, <4>8, <4>9 DEF s, g
        <3>4. InSpan(B, k, n, v)
            <4> HIDE DEF b
            <4> QED
                BY <3>2, <3>3 DEF InSpan
        <3> QED
            BY <3>4
    <2>4. \A c \in 1..n : SumProducts(Column(B, c, k), a, k) = Zero
        BY <2>2, <2>3, TimesZero, PlusZero
    <2>5. \A i \in 1..k : a[i] = Zero
        BY <2>1, <2>4 DEF LinearlyIndependent
    <2> QED
        BY <2>3, <2>5 DEF a, t
<1> QED
    BY <1>3, <1>4 DEF LinearlyIndependent

\* Independent vectors with the span of the list V.
BasisOf(B, r, V, k, n) ==
    /\ r \in Nat /\ B \in Rows(r, n) /\ LinearlyIndependent(B, r, n)
    /\ \A i \in 1..r : InSpan(V, k, n, B[i])
    /\ \A j \in 1..k : InSpan(B, r, n, V[j])

\* What elimination takes the rank to be.
RankOf(V) == IF V = <<>> THEN 0 ELSE Len(V) - Len(nullspace_over_Q(transpose(V)))

\* The vectors at the pivots are independent,
LEMMA PivotsIndependent ==
    ASSUME NEW k \in Nat, NEW n \in Nat, NEW V \in Rows(k, n),
           NEW M \in Rows(n, k), \A c \in 1..n : M[c] = Column(V, c, k),
           NEW e, Echelon(e, n, k, k), \A x \in FractionRow(k) : is_zero(mat_vec(M, x)) => KilledBy(e, x, n, k),
           NEW p, NEW r, r = Len(e.pivots), Ascending(p, r, k), \A i \in 1..r : p[i] = e.pivots[i],
           NEW B, B = At(V, p, r)
    PROVE  B \in Rows(r, n) /\ LinearlyIndependent(B, r, n)
<1>1. r \in Nat /\ r <= n
    BY DEF Echelon
<1>2. \A i \in 1..r : p[i] \in 1..k /\ B[i] = V[p[i]] /\ V[p[i]] \in FractionRow(n)
    BY DEF Ascending, At, Rows
<1>3. B \in Rows(r, n)
    BY <1>2 DEF At, Rows
<1>4. ASSUME NEW x \in FractionRow(r), \A c \in 1..n : SumProducts(Column(B, c, r), x, r) = Zero
      PROVE  \A i \in 1..r : x[i] = Zero
    <2> DEFINE y == [c \in 1..k |-> IF IsPivot(e, c) THEN x[CHOOSE i \in 1..r : p[i] = c] ELSE Zero]
    <2>1. ASSUME NEW c \in 1..k, IsPivot(e, c)
          PROVE  \E i \in 1..r : p[i] = c /\ y[c] = x[i]
        <3>1. \E i \in 1..r : p[i] = c
            BY <2>1 DEF IsPivot
        <3> DEFINE i == CHOOSE i \in 1..r : p[i] = c
        <3>2. i \in 1..r /\ p[i] = c
            BY <3>1
        <3>3. y[c] = x[i]
            BY <2>1
        <3> HIDE DEF i, y
        <3> QED
            BY <3>2, <3>3
    <2>2. \A c \in 1..k : ~IsPivot(e, c) => y[c] = Zero
        OBVIOUS
    <2>3. \A c \in 1..k : y[c] \in Fractions
        BY <2>1, <2>2, ZeroOne DEF FractionRow
    <2>4. y \in FractionRow(k) /\ Vector(y, k)
        BY <2>3 DEF FractionRow, Vector
    <2> HIDE DEF y
    <2>5. \A i, j \in 1..r : p[i] = p[j] => i = j
        <3>1. \A i, j \in 1..r : i < j => p[i] < p[j]
            BY DEF Ascending
        <3> QED
            BY <1>1, <1>2, <3>1
    <2>6. \A i \in 1..r : y[p[i]] = x[i]
        <3> SUFFICES ASSUME NEW i \in 1..r PROVE y[p[i]] = x[i]
            OBVIOUS
        <3>1. p[i] \in 1..k /\ IsPivot(e, p[i])
            BY <1>2 DEF IsPivot
        <3> QED
            BY <2>1, <2>5, <3>1
    <2>7. Spread(e, x, y, k)
        BY <2>2, <2>4, <2>6 DEF Spread
    <2>8. ASSUME NEW c \in 1..n PROVE SumProducts(M[c], y, k) = Zero
        <3> DEFINE u == Column(V, c, k)
        <3>1. Vector(u, k)
            BY DEF Vector, Column, Rows, FractionRow
        <3>2. \A d \in 1..k : (\A i \in 1..r : p[i] # d) => y[d] = Zero
            BY <2>2 DEF IsPivot
        <3>3. SumProducts(u, y, k) = SumProducts(At(u, p, r), At(y, p, r), r)
            <4> HIDE DEF u
            <4> QED
                BY <1>1, <2>4, <3>1, <3>2, ListedProducts
        <3>4. \A i \in 1..r : At(u, p, r)[i] = Column(B, c, r)[i] /\ At(y, p, r)[i] = x[i]
            BY <1>2, <2>6 DEF At, Column
        <3>5. SumProducts(At(u, p, r), At(y, p, r), r) = SumProducts(Column(B, c, r), x, r)
            <4>1. \A i \in 1..r : Times(At(u, p, r)[i], At(y, p, r)[i]) = Times(Column(B, c, r)[i], x[i])
                BY <3>4
            <4> HIDE DEF u
            <4> QED
                BY <1>1, <4>1, ProductsCongruent
        <3> QED
            BY <1>4, <3>3, <3>5
    <2>9. KilledBy(e, y, n, k)
        <3>1. mat_vec(M, y) \in FractionRow(n) /\ \A i \in 1..n : mat_vec(M, y)[i] = SumProducts(M[i], y, k)
            BY <2>4, ApplyIs
        <3>2. Len(mat_vec(M, y)) = n
            BY <3>1, RowIsSeq
        <3>3. is_zero(mat_vec(M, y))
            BY <2>8, <3>1, <3>2 DEF is_zero
        <3> QED
            BY <2>4, <3>3
    <2>10. ASSUME NEW i \in 1..r PROVE x[i] = Zero
        <3>1. i \in 1..n /\ k <= k
            BY <1>1
        <3>2. SumProducts(e.rows[i], y, k) = IF i <= r THEN x[i] ELSE Zero
            BY <2>7, <3>1, SpreadProducts
        <3> QED
            BY <1>1, <2>9, <3>1, <3>2 DEF KilledBy
    <2> QED
        BY <2>10
<1> QED
    BY <1>3, <1>4 DEF LinearlyIndependent

\* and reach the others.
LEMMA PivotsReach ==
    ASSUME NEW k \in Nat, NEW n \in Nat, NEW V \in Rows(k, n),
           NEW M \in Rows(n, k), \A c \in 1..n : M[c] = Column(V, c, k),
           NEW e, Echelon(e, n, k, k), \A x \in FractionRow(k) : KilledBy(e, x, n, k) => is_zero(mat_vec(M, x)),
           NEW p, NEW r, r = Len(e.pivots), Ascending(p, r, k), \A i \in 1..r : p[i] = e.pivots[i],
           NEW B, B = At(V, p, r), NEW j \in 1..k
    PROVE  InSpan(B, r, n, V[j])
<1>1. r \in Nat /\ r <= n
    BY DEF Echelon
<1>2. \A i \in 1..r : p[i] \in 1..k /\ B[i] = V[p[i]] /\ V[p[i]] \in FractionRow(n)
    BY DEF Ascending, At, Rows
<1>3. B \in Rows(r, n)
    BY <1>2 DEF At, Rows
<1>4. CASE IsPivot(e, j)
    <2>1. PICK i \in 1..r : p[i] = j
        BY <1>4 DEF IsPivot
    <2>2. InSpan(B, r, n, B[i])
        BY <1>1, <1>3, SpanMember
    <2> QED
        BY <1>2, <2>1, <2>2
<1>5. CASE ~IsPivot(e, j)
    <2>1. PICK F : BasisAt(e, F, k)
        BY BasisExists
    <2> DEFINE w == F[j]
               y == Bumped(w, j, MinusOne)
               a == Scaled(MinusOne, At(y, p, r), r)
    <2>2. /\ w \in FractionRow(k) /\ w[j] = One /\ KilledBy(e, w, n, k)
          /\ \A c \in 1..k : ~IsPivot(e, c) /\ c # j => w[c] = Zero
        BY <1>5, <2>1, BasisKilled DEF BasisAt
    <2> HIDE DEF w
    <2>3. \A c \in 1..n : SumProducts(M[c], w, k) = Zero
        <3>1. mat_vec(M, w) \in FractionRow(n) /\ \A i \in 1..n : mat_vec(M, w)[i] = SumProducts(M[i], w, k)
            BY <2>2, ApplyIs
        <3>2. Len(mat_vec(M, w)) = n
            BY <3>1, RowIsSeq
        <3> QED
            BY <2>2, <3>1, <3>2 DEF is_zero
    <2>4. /\ y \in FractionRow(k) /\ y[j] = Plus(w[j], MinusOne)
          /\ \A i \in 1..k : i # j => y[i] = w[i]
        BY <2>2, MinusOneIs, BumpedSum
    <2>5. \A u \in FractionRow(k) : SumProducts(y, u, k) = Plus(SumProducts(w, u, k), Times(MinusOne, u[j]))
        BY <2>2, MinusOneIs, BumpedSum
    <2>6. y[j] = Zero
        <3>1. Plus(Times(MinusOne, One), One) = Zero /\ Times(MinusOne, One) = MinusOne
            BY ZeroOne, MinusOneIs, TimesOne
        <3> QED
            BY <2>2, <2>4, <3>1, ZeroOne, MinusOneIs, PlusCommutes
    <2> HIDE DEF y
    <2>7. Vector(y, k) /\ \A c \in 1..k : (\A i \in 1..r : p[i] # c) => y[c] = Zero
        BY <2>2, <2>4, <2>6 DEF Vector, FractionRow, IsPivot
    <2>8. At(y, p, r) \in FractionRow(r)
        BY <1>2, <2>4 DEF At, FractionRow
    <2>9. a \in FractionRow(r) /\ \A i \in 1..r : a[i] = Times(MinusOne, At(y, p, r)[i])
        BY <1>1, <2>8, MinusOneIs, RowOps DEF Scaled
    <2> HIDE DEF a
    <2>10. ASSUME NEW c \in 1..n PROVE V[j][c] = SumProducts(Column(B, c, r), a, r)
        <3> DEFINE u == Column(V, c, k)
                   g == Column(B, c, r)
                   h == At(y, p, r)
                   v == V[j][c]
        <3>1. u \in FractionRow(k) /\ Vector(u, k) /\ u[j] = v /\ v \in Fractions
            BY DEF Vector, Column, Rows, FractionRow
        <3>2. \A i \in 1..r : g[i] = At(u, p, r)[i] /\ g[i] \in Fractions /\ h[i] \in Fractions /\ a[i] \in Fractions
            BY <1>2, <2>8, <2>9 DEF At, Column, FractionRow
        <3>3. M[c] = u
            OBVIOUS
        <3> HIDE DEF u, v
        <3>4. SumProducts(w, u, k) = Zero
            <4>1. SumProducts(u, w, k) = Zero
                BY <2>3, <3>3
            <4>2. \A i \in 1..k : u[i] \in Fractions /\ w[i] \in Fractions
                BY <2>2, <3>1 DEF FractionRow
            <4> QED
                BY <4>1, <4>2, ProductsCommute
        <3>5. SumProducts(y, u, k) = Times(MinusOne, v)
            <4>1. Times(MinusOne, v) \in Fractions
                BY <3>1, MinusOneIs, FractionsClosed
            <4>2. SumProducts(y, u, k) = Plus(Zero, Times(MinusOne, v))
                BY <2>5, <3>1, <3>4
            <4> QED
                BY <4>1, <4>2, ZeroOne, PlusCommutes, PlusZero
        <3>6. SumProducts(u, y, k) = SumProducts(y, u, k)
            <4>1. \A i \in 1..k : u[i] \in Fractions /\ y[i] \in Fractions
                BY <2>4, <3>1 DEF FractionRow
            <4> QED
                BY <4>1, ProductsCommute
        <3>7. SumProducts(u, y, k) = SumProducts(At(u, p, r), h, r)
            BY <1>1, <2>7, <3>1, ListedProducts
        <3> HIDE DEF g, h
        <3>8. SumProducts(At(u, p, r), h, r) = SumProducts(g, h, r)
            <4>1. \A i \in 1..r : Times(At(u, p, r)[i], h[i]) = Times(g[i], h[i])
                BY <3>2
            <4> QED
                BY <1>1, <4>1, ProductsCongruent
        <3>9. SumProducts(a, g, r) = Times(MinusOne, SumProducts(h, g, r))
            <4>1. \A i \in 1..r : h[i] \in Fractions /\ g[i] \in Fractions /\ a[i] = Times(MinusOne, h[i])
                BY <2>9, <3>2 DEF h
            <4> QED
                BY <1>1, <4>1, MinusOneIs, ProductsScale
        <3>10. SumProducts(g, a, r) = SumProducts(a, g, r) /\ SumProducts(h, g, r) = SumProducts(g, h, r)
            BY <1>1, <3>2, ProductsCommute
        <3>11. SumProducts(g, a, r) = Times(MinusOne, Times(MinusOne, v))
            BY <3>5, <3>6, <3>7, <3>8, <3>9, <3>10
        <3>12. Times(MinusOne, Times(MinusOne, v)) = v
            <4> DEFINE q == Times(MinusOne, v)
            <4>1. q \in Fractions /\ Plus(q, v) = Zero /\ Times(MinusOne, q) \in Fractions /\ Plus(Times(MinusOne, q), q) = Zero
                BY <3>1, MinusOneIs, FractionsClosed
            <4> HIDE DEF q
            <4>2. Minus(Plus(v, q), q) = v /\ Minus(Plus(Times(MinusOne, q), q), q) = Times(MinusOne, q)
                BY <3>1, <4>1, MinusPlus
            <4>3. Plus(v, q) = Zero
                BY <3>1, <4>1, PlusCommutes
            <4> QED
                BY <4>1, <4>2, <4>3 DEF q
        <3> QED
            BY <3>11, <3>12 DEF g, v
    <2> QED
        BY <2>9, <2>10 DEF InSpan
<1> QED
    BY <1>4, <1>5

LEMMA RankBasis ==
    ASSUME NEW k \in Nat, NEW n \in Nat, n > 0, NEW V \in Rows(k, n)
    PROVE  RankOf(V) \in Nat /\ \E B : BasisOf(B, RankOf(V), V, k, n)
<1>1. CASE k = 0
    <2>1. V = <<>> /\ RankOf(V) = 0
        BY <1>1, RowsRectangular DEF RankOf
    <2>2. BasisOf(V, 0, V, k, n)
        BY <1>1 DEF BasisOf, LinearlyIndependent
    <2> QED
        BY <2>1, <2>2
<1>2. CASE k > 0
    <2> DEFINE M == transpose(V)
               e == Eliminated(M, k)
               L == nullspace_over_Q(M)
               free == FreeColumns(e, k)
               r == Len(e.pivots)
               p == [i \in 1..r |-> e.pivots[i]]
    <2>1. V # <<>> /\ Len(V) = k
        BY <1>2, RowsRectangular
    <2>2. M \in Rows(n, k) /\ \A c \in 1..n : M[c] = Column(V, c, k)
        <3>1. M = [j \in 1..n |-> Column(V, j, k)] /\ M \in Rows(n, k)
            BY <1>2, TransposeIs
        <3> HIDE DEF M
        <3> QED
            BY <3>1
    <2> HIDE DEF M
    <2>3. M \in [1..n -> FractionRow(k)] /\ Rectangular(M) /\ Len(M) = n /\ columns(M) = k
        BY <2>2, RowsRectangular DEF Rows
    <2>4. Echelon(e, n, k, k) /\ SameSpaces(M, e.rows, n, k)
        <3>1. k <= k
            OBVIOUS
        <3> QED
            BY <2>3, <3>1, EliminatedIs
    <2>5. L = KernelBasis(e, k)
        BY <2>3 DEF nullspace_over_Q
    <2>6. Len(L) \in Nat /\ DOMAIN L = 1..Len(L)
        <3>1. KernelList(M, k, Len(L), L)
            BY <2>3, NullspaceIs
        <3> HIDE DEF L
        <3> QED
            BY <3>1 DEF KernelList, Rows
    <2> HIDE DEF e
    <2>7. /\ e.rows \in [1..n -> FractionRow(k)] /\ DOMAIN e.pivots = 1..r /\ r \in Nat
          /\ \A i \in 1..r : e.pivots[i] \in 1..k
        <3>1. EchelonShape(e, n, k, k)
            BY <2>4, EchelonParts
        <3> QED
            BY <3>1 DEF EchelonShape
    <2>8. PICK F : BasisAt(e, F, k)
        BY <2>4, BasisExists
    <2>9. DOMAIN L = 1..Len(free)
        <3>1. DOMAIN KernelBasis(e, k) = 1..Len(free)
            BY <2>4, <2>8, KernelBasisIs
        <3> HIDE DEF L, free
        <3> QED
            BY <2>5, <3>1
    <2>10. Len(free) \in Nat
        <3>1. free \in Seq(1..k)
            BY FreeColumnsAre
        <3> HIDE DEF free
        <3> QED
            BY <3>1
    <2>11. r + Len(free) = k
        BY <2>4, Counted
    <2> HIDE DEF L, free
    <2>12. Len(L) = Len(free)
        BY <2>6, <2>9, <2>10
    <2>13. RankOf(V) = r
        <3>1. RankOf(V) = k - Len(L)
            BY <2>1 DEF RankOf, L, M
        <3> HIDE DEF r
        <3> QED
            BY <2>7, <2>10, <2>11, <2>12, <3>1
    <2>14. \A x \in FractionRow(k) : is_zero(mat_vec(M, x)) <=> KilledBy(e, x, n, k)
        <3>1. k <= k /\ \A i \in 1..Len(M) : \A c \in 1..columns(M) : M[i][c] = M[i][c]
            OBVIOUS
        <3> QED
            BY <2>3, <2>4, <2>7, <3>1, KernelKept
    <2>15. Ascending(p, r, k) /\ \A i \in 1..r : p[i] = e.pivots[i]
        <3>1. \A i, j \in 1..r : i < j => e.pivots[i] < e.pivots[j]
            BY <2>4 DEF Echelon
        <3> QED
            BY <2>7, <3>1 DEF Ascending
    <2> DEFINE B == At(V, p, r)
    <2> HIDE DEF p
    <2>16. B \in Rows(r, n) /\ LinearlyIndependent(B, r, n)
        BY <2>2, <2>4, <2>14, <2>15, PivotsIndependent
    <2>17. \A j \in 1..k : InSpan(B, r, n, V[j])
        BY <2>2, <2>4, <2>14, <2>15, PivotsReach
    <2>18. ASSUME NEW i \in 1..r PROVE InSpan(V, k, n, B[i])
        <3>1. B[i] = V[p[i]] /\ p[i] \in 1..k
            BY <2>15 DEF At, Ascending
        <3> QED
            BY <3>1, SpanMember
    <2> HIDE DEF B, r
    <2>19. BasisOf(B, r, V, k, n)
        BY <2>7, <2>16, <2>17, <2>18 DEF BasisOf
    <2> QED
        BY <2>7, <2>13, <2>19
<1> QED
    BY <1>1, <1>2

LEMMA RankOfIndependent ==
    ASSUME NEW k \in Nat, NEW n \in Nat, n > 0, NEW V \in Rows(k, n), NEW B, NEW r, BasisOf(B, r, V, k, n)
    PROVE  RankOf(V) = r
<1>1. RankOf(V) \in Nat /\ r \in Nat
    BY RankBasis DEF BasisOf
<1>2. PICK A : BasisOf(A, RankOf(V), V, k, n)
    BY RankBasis
<1> DEFINE q == RankOf(V)
<1> HIDE DEF q
<1>3. BasisOf(A, q, V, k, n) /\ q \in Nat /\ r \in Nat
    BY <1>1, <1>2 DEF q
<1>4. ASSUME NEW C, NEW D, NEW c \in Nat, NEW d \in Nat, BasisOf(C, c, V, k, n), BasisOf(D, d, V, k, n)
      PROVE  c <= d
    <2>1. C \in Rows(c, n) /\ D \in Rows(d, n) /\ LinearlyIndependent(C, c, n)
        BY <1>4 DEF BasisOf
    <2>2. \A i \in 1..c : InSpan(D, d, n, C[i])
        <3> SUFFICES ASSUME NEW i \in 1..c PROVE InSpan(D, d, n, C[i])
            OBVIOUS
        <3>1. InSpan(V, k, n, C[i]) /\ \A j \in 1..k : InSpan(D, d, n, V[j])
            BY <1>4 DEF BasisOf
        <3> QED
            BY <2>1, <3>1, SpanOfSpan
    <2> QED
        BY <2>1, <2>2, Exchange
<1>5. q <= r /\ r <= q
    BY <1>3, <1>4
<1>6. q = r
    BY <1>3, <1>5
<1> QED
    BY <1>6 DEF q

LEMMA UnitsReach ==
    ASSUME NEW n \in Nat, NEW U, U = [i \in 1..n |-> Units(i, n)]
    PROVE  /\ U \in Rows(n, n) /\ LinearlyIndependent(U, n, n)
           /\ \A v \in FractionRow(n) : InSpan(U, n, n, v)
<1>1. \A i \in 1..n : Units(i, n) \in FractionRow(n)
    BY ZeroOne DEF Units, FractionRow
<1>2. U \in Rows(n, n)
    BY <1>1 DEF Rows
<1>3. ASSUME NEW x \in FractionRow(n), NEW c \in 1..n
      PROVE  SumProducts(Column(U, c, n), x, n) = x[c]
    <2>1. \A i \in 1..n : Column(U, c, n)[i] = Units(c, n)[i]
        BY DEF Column, Units
    <2>2. \A i \in 1..n : Times(Column(U, c, n)[i], x[i]) = Times(Units(c, n)[i], x[i])
        BY <2>1
    <2>3. SumProducts(Column(U, c, n), x, n) = SumProducts(Units(c, n), x, n)
        BY <2>2, ProductsCongruent
    <2>4. Vector(x, n)
        BY DEF Vector, FractionRow
    <2> QED
        BY <2>3, <2>4, UnitProducts
<1>4. LinearlyIndependent(U, n, n)
    BY <1>3 DEF LinearlyIndependent
<1>5. \A v \in FractionRow(n) : InSpan(U, n, n, v)
    BY <1>3 DEF InSpan
<1> QED
    BY <1>2, <1>4, <1>5

\* Full rank is every vector,
LEMMA RankFull ==
    ASSUME NEW k \in Nat, NEW n \in Nat, n > 0, NEW V \in Rows(k, n)
    PROVE  RankOf(V) = n <=> \A i \in 1..n : InSpan(V, k, n, Units(i, n))
<1> DEFINE U == [i \in 1..n |-> Units(i, n)]
<1>1. /\ U \in Rows(n, n) /\ LinearlyIndependent(U, n, n)
      /\ \A v \in FractionRow(n) : InSpan(U, n, n, v)
    BY UnitsReach
<1>2. \A i \in 1..n : U[i] = Units(i, n)
    OBVIOUS
<1> HIDE DEF U
<1>3. ASSUME \A i \in 1..n : InSpan(V, k, n, Units(i, n)) PROVE RankOf(V) = n
    <2>1. \A j \in 1..k : V[j] \in FractionRow(n)
        BY DEF Rows
    <2>2. BasisOf(U, n, V, k, n)
        BY <1>1, <1>2, <1>3, <2>1 DEF BasisOf
    <2> QED
        BY <2>2, RankOfIndependent
<1>4. ASSUME RankOf(V) = n, NEW i \in 1..n PROVE InSpan(V, k, n, Units(i, n))
    <2>1. PICK B : BasisOf(B, n, V, k, n)
        BY <1>4, RankBasis
    <2>2. B \in Rows(n, n) /\ LinearlyIndependent(B, n, n) /\ \A j \in 1..n : InSpan(V, k, n, B[j])
        BY <2>1 DEF BasisOf
    <2>3. SUFFICES ASSUME ~InSpan(B, n, n, U[i]) PROVE FALSE
        BY <1>2, <2>2, SpanOfSpan
    <2> DEFINE D == [j \in 1..(n + 1) |-> IF j = n + 1 THEN U[i] ELSE B[j]]
    <2>4. U[i] \in FractionRow(n)
        BY <1>1 DEF Rows
    <2>5. D \in Rows(n + 1, n) /\ LinearlyIndependent(D, n + 1, n)
        BY <2>2, <2>3, <2>4, IndependentGrows
    <2> HIDE DEF D
    <2>6. \A j \in 1..(n + 1) : InSpan(U, n, n, D[j])
        BY <1>1, <2>5 DEF Rows
    <2>7. n + 1 <= n
        BY <1>1, <2>5, <2>6, Exchange
    <2> QED
        BY <2>7
<1> QED
    BY <1>3, <1>4

\* and vectors add nothing to the rank when they are reached without.
LEMMA RankMore ==
    ASSUME NEW k \in Nat, NEW l \in Nat, NEW n \in Nat, n > 0, NEW V \in Rows(k, n), NEW D \in Rows(l, n),
           NEW J \in Rows(k + l, n), \A i \in 1..k : J[i] = V[i], \A i \in 1..l : J[k + i] = D[i]
    PROVE  RankOf(J) = RankOf(D) <=> \A j \in 1..k : InSpan(D, l, n, V[j])
<1> DEFINE r == RankOf(D)
           g == k + l
<1>1. r \in Nat /\ g \in Nat /\ \E B : BasisOf(B, r, D, l, n)
    BY RankBasis
<1>2. PICK B : BasisOf(B, r, D, l, n)
    BY <1>1
<1>3. /\ B \in Rows(r, n) /\ LinearlyIndependent(B, r, n) /\ \A i \in 1..r : InSpan(D, l, n, B[i])
      /\ \A j \in 1..l : InSpan(B, r, n, D[j])
    BY <1>2 DEF BasisOf
<1>4. \A i \in 1..k : i \in 1..g
    OBVIOUS
<1>5. \A i \in 1..l : k + i \in 1..g
    OBVIOUS
<1>6. \A i \in 1..g : i \in 1..k \/ \E j \in 1..l : i = k + j
    BY PlacesJoin
<1>7. J \in Rows(g, n) /\ (\A i \in 1..k : J[i] = V[i]) /\ \A i \in 1..l : J[k + i] = D[i]
    OBVIOUS
<1>8. SUFFICES RankOf(J) = r <=> \A j \in 1..k : InSpan(D, l, n, V[j])
    OBVIOUS
<1> HIDE DEF r, g
<1>9. \A j \in 1..l : InSpan(J, g, n, D[j])
    <2> SUFFICES ASSUME NEW j \in 1..l PROVE InSpan(J, g, n, D[j])
        OBVIOUS
    <2>1. InSpan(J, g, n, J[k + j])
        BY <1>1, <1>5, <1>7, SpanMember
    <2> QED
        BY <1>7, <2>1
<1>10. ASSUME \A j \in 1..k : InSpan(D, l, n, V[j]) PROVE RankOf(J) = r
    <2>1. \A i \in 1..r : InSpan(J, g, n, B[i])
        BY <1>1, <1>3, <1>7, <1>9, SpanOfSpan
    <2>2. ASSUME NEW j \in 1..g PROVE InSpan(B, r, n, J[j])
        <3>1. CASE j \in 1..k
            <4>1. InSpan(D, l, n, V[j])
                BY <1>10, <3>1
            <4>2. InSpan(B, r, n, V[j])
                BY <1>1, <1>3, <4>1, SpanOfSpan
            <4> QED
                BY <1>7, <3>1, <4>2
        <3>2. CASE \E i \in 1..l : j = k + i
            BY <1>3, <1>7, <3>2
        <3> QED
            BY <1>6, <3>1, <3>2
    <2>3. BasisOf(B, r, J, g, n)
        BY <1>1, <1>3, <2>1, <2>2 DEF BasisOf
    <2> QED
        BY <1>1, <1>7, <2>3, RankOfIndependent
<1>11. ASSUME RankOf(J) = r, NEW j \in 1..k PROVE InSpan(D, l, n, V[j])
    <2>1. SUFFICES ASSUME ~InSpan(B, r, n, V[j]) PROVE FALSE
        BY <1>1, <1>3, SpanOfSpan
    <2> DEFINE A == [i \in 1..(r + 1) |-> IF i = r + 1 THEN V[j] ELSE B[i]]
    <2>2. V[j] \in FractionRow(n)
        BY DEF Rows
    <2>3. A \in Rows(r + 1, n) /\ LinearlyIndependent(A, r + 1, n)
        BY <1>1, <1>3, <2>1, <2>2, IndependentGrows
    <2>4. \A i \in 1..(r + 1) : i \in 1..r \/ i = r + 1
        BY <1>1
    <2>5. \A i \in 1..(r + 1) : A[i] = V[j] \/ \E h \in 1..r : A[i] = B[h]
        BY <1>1, <2>4
    <2> HIDE DEF A
    <2>6. PICK C : BasisOf(C, r, J, g, n)
        BY <1>1, <1>7, <1>11, RankBasis
    <2>7. C \in Rows(r, n) /\ \A i \in 1..g : InSpan(C, r, n, J[i])
        BY <2>6 DEF BasisOf
    <2>8. \A u : InSpan(J, g, n, u) => InSpan(C, r, n, u)
        BY <1>1, <1>7, <2>7, SpanOfSpan
    <2>9. InSpan(C, r, n, V[j])
        BY <1>4, <1>7, <2>7
    <2>10. \A h \in 1..r : InSpan(C, r, n, B[h])
        <3>1. \A h \in 1..r : InSpan(J, g, n, B[h])
            BY <1>1, <1>3, <1>7, <1>9, SpanOfSpan
        <3> QED
            BY <2>8, <3>1
    <2>11. \A i \in 1..(r + 1) : InSpan(C, r, n, A[i])
        BY <2>5, <2>9, <2>10
    <2>12. r + 1 \in Nat
        BY <1>1
    <2>13. r + 1 <= r
        BY <1>1, <2>3, <2>7, <2>11, <2>12, Exchange
    <2> QED
        BY <1>1, <2>13
<1> QED
    BY <1>10, <1>11

\* Each of the first vectors is the only one with its entry.
LEMMA StaircaseIndependent ==
    ASSUME NEW l \in Nat, NEW n \in Nat, l <= n, NEW L \in Rows(l, n),
           \A i, j \in 1..l : L[j][i] = IF i = j THEN One ELSE Zero
    PROVE  LinearlyIndependent(L, l, n)
<1>1. ASSUME NEW x \in FractionRow(l), \A c \in 1..n : SumProducts(Column(L, c, l), x, l) = Zero,
             NEW i \in 1..l
      PROVE  x[i] = Zero
    <2>1. i \in 1..n
        OBVIOUS
    <2>2. \A j \in 1..l : Times(Column(L, i, l)[j], x[j]) = Times(Units(i, l)[j], x[j])
        BY DEF Column, Units
    <2>3. SumProducts(Column(L, i, l), x, l) = SumProducts(Units(i, l), x, l)
        BY <2>2, ProductsCongruent
    <2>4. Vector(x, l)
        BY DEF Vector, FractionRow
    <2>5. SumProducts(Units(i, l), x, l) = x[i]
        BY <2>4, UnitProducts
    <2> QED
        BY <1>1, <2>1, <2>3, <2>5
<1> QED
    BY <1>1 DEF LinearlyIndependent

----------------------------------------------------------------------------
(* A finite set written down as a list, one element after another.         *)

SomeMember(T) == CHOOSE v \in T : TRUE

ListedAt(g, T) == g[T] = IF T = {} THEN <<>> ELSE Append(g[T \ {SomeMember(T)}], SomeMember(T))

AtMost(T, n) == Cardinality(T) <= n

LEMMA OneTaken ==
    ASSUME NEW S, IsFiniteSet(S), NEW T \in SUBSET S
    PROVE  /\ T = {} <=> AtMost(T, 0)
           /\ \A n \in Nat : T = {} => AtMost(T, n)
           /\ Cardinality(S) \in Nat /\ AtMost(T, Cardinality(S))
           /\ T # {} => /\ SomeMember(T) \in T /\ T \ {SomeMember(T)} \in SUBSET S
                        /\ \A n \in Nat : AtMost(T, n + 1) => AtMost(T \ {SomeMember(T)}, n)
<1> DEFINE c == Cardinality(T)
           d == Cardinality(T \ {SomeMember(T)})
<1>1. IsFiniteSet(T) /\ c <= Cardinality(S)
    BY FS_Subset
<1>2. c \in Nat /\ (c = 0 <=> T = {}) /\ Cardinality(S) \in Nat
    BY <1>1, FS_CardinalityType, FS_EmptySet
<1>3. ASSUME T # {} PROVE SomeMember(T) \in T
    BY <1>3 DEF SomeMember
<1>4. ASSUME T # {} PROVE d = c - 1
    BY <1>1, <1>3, <1>4, FS_RemoveElement
<1>5. \A n \in Nat : (AtMost(T, n) <=> c <= n) /\ (AtMost(T \ {SomeMember(T)}, n) <=> d <= n)
    BY DEF AtMost
<1>6. AtMost(T, Cardinality(S))
    BY <1>1 DEF AtMost
<1> HIDE DEF c, d
<1>7. T = {} <=> AtMost(T, 0)
    BY <1>2, <1>5
<1>8. \A n \in Nat : T = {} => AtMost(T, n)
    BY <1>2, <1>5
<1>9. ASSUME T # {}, NEW n \in Nat, AtMost(T, n + 1) PROVE AtMost(T \ {SomeMember(T)}, n)
    <2>1. n + 1 \in Nat
        OBVIOUS
    <2>2. c <= n + 1 /\ d = c - 1
        BY <1>4, <1>5, <1>9, <2>1
    <2>3. d <= n
        BY <1>2, <2>2
    <2>4. n \in Nat
        OBVIOUS
    <2> QED
        BY <1>5, <2>3, <2>4
<1> QED
    BY <1>2, <1>3, <1>6, <1>7, <1>8, <1>9

LEMMA ListingExists ==
    ASSUME NEW S, IsFiniteSet(S)
    PROVE  \E g : g = [T \in SUBSET S |-> IF T = {} THEN <<>> ELSE Append(g[T \ {SomeMember(T)}], SomeMember(T))]
<1> DEFINE P == {n \in Nat : \E g : \A T \in SUBSET S : AtMost(T, n) => ListedAt(g, T)}
<1>1. \A T \in SUBSET S :
        /\ T = {} <=> AtMost(T, 0)
        /\ \A n \in Nat : T = {} => AtMost(T, n)
        /\ Cardinality(S) \in Nat /\ AtMost(T, Cardinality(S))
        /\ T # {} => /\ T \ {SomeMember(T)} \in SUBSET S
                     /\ \A n \in Nat : AtMost(T, n + 1) => AtMost(T \ {SomeMember(T)}, n)
    BY OneTaken
<1>2. 0 \in P
    <2> DEFINE g == [T \in SUBSET S |-> <<>>]
    <2>1. ASSUME NEW T \in SUBSET S, AtMost(T, 0) PROVE ListedAt(g, T)
        <3>1. T = {}
            BY <1>1, <2>1
        <3> QED
            BY <3>1 DEF ListedAt
    <2> HIDE DEF g
    <2> QED
        BY <2>1
<1>3. ASSUME NEW n \in P PROVE n + 1 \in P
    <2>1. PICK g : \A T \in SUBSET S : AtMost(T, n) => ListedAt(g, T)
        OBVIOUS
    <2> DEFINE h == [T \in SUBSET S |-> IF AtMost(T, n) THEN g[T]
                                        ELSE Append(g[T \ {SomeMember(T)}], SomeMember(T))]
    <2>2. \A T \in SUBSET S : h[T] = IF AtMost(T, n) THEN g[T] ELSE Append(g[T \ {SomeMember(T)}], SomeMember(T))
        OBVIOUS
    <2> HIDE DEF h
    <2>3. ASSUME NEW T \in SUBSET S, AtMost(T, n + 1) PROVE ListedAt(h, T)
        <3>1. CASE T = {}
            <4>1. AtMost(T, n)
                BY <1>1, <3>1
            <4> QED
                BY <2>1, <2>2, <3>1, <4>1 DEF ListedAt
        <3>2. CASE T # {}
            <4> DEFINE U == T \ {SomeMember(T)}
            <4>1. U \in SUBSET S /\ AtMost(U, n)
                BY <1>1, <2>3, <3>2
            <4>2. h[U] = g[U]
                BY <2>2, <4>1
            <4>3. AtMost(T, n) => g[T] = Append(g[U], SomeMember(T))
                BY <2>1, <3>2 DEF ListedAt
            <4>4. h[T] = Append(g[U], SomeMember(T))
                BY <2>2, <4>3
            <4> QED
                BY <3>2, <4>2, <4>4 DEF ListedAt
        <3> QED
            BY <3>1, <3>2
    <2> QED
        BY <2>3
<1>4. P = Nat
    <2>1. P \in SUBSET Nat
        OBVIOUS
    <2> HIDE DEF P
    <2> QED
        BY <1>2, <1>3, <2>1, Induction
<1>5. Cardinality(S) \in P
    <2> HIDE DEF P
    <2> QED
        BY <1>1, <1>4
<1>6. PICK g : \A T \in SUBSET S : AtMost(T, Cardinality(S)) => ListedAt(g, T)
    BY <1>5
<1>7. \A T \in SUBSET S : AtMost(T, Cardinality(S))
    BY <1>1
<1> DEFINE h == [T \in SUBSET S |-> g[T]]
           step(T) == IF T = {} THEN <<>> ELSE Append(h[T \ {SomeMember(T)}], SomeMember(T))
<1>8. ASSUME NEW T \in SUBSET S PROVE h[T] = step(T)
    <2>1. ListedAt(g, T) /\ h[T] = g[T]
        BY <1>6, <1>7
    <2>2. T # {} => h[T \ {SomeMember(T)}] = g[T \ {SomeMember(T)}]
        BY <1>1
    <2> HIDE DEF h
    <2> QED
        BY <2>1, <2>2 DEF ListedAt
<1>9. h = [T \in SUBSET S |-> h[T]]
    OBVIOUS
<1>10. h = [T \in SUBSET S |-> step(T)]
    <2> HIDE DEF h, step
    <2>1. [T \in SUBSET S |-> h[T]] = [T \in SUBSET S |-> step(T)]
        BY <1>8, Zenon
    <2> QED
        BY <1>9, <2>1
<1> HIDE DEF h
<1> QED
    BY <1>10

LEMMA ListingIs ==
    ASSUME NEW S, IsFiniteSet(S), NEW f, \A T \in SUBSET S : ListedAt(f, T)
    PROVE  f[S] \in Seq(S) /\ \A x \in S : \E i \in 1..Len(f[S]) : f[S][i] = x
<1> DEFINE Right(T) == f[T] \in Seq(S) /\ \A x \in T : \E i \in 1..Len(f[T]) : f[T][i] = x
           P == {n \in Nat : \A T \in SUBSET S : AtMost(T, n) => Right(T)}
<1>1. \A T \in SUBSET S :
        /\ T = {} <=> AtMost(T, 0)
        /\ Cardinality(S) \in Nat /\ AtMost(T, Cardinality(S))
        /\ T # {} => /\ SomeMember(T) \in T /\ T \ {SomeMember(T)} \in SUBSET S
                     /\ \A n \in Nat : AtMost(T, n + 1) => AtMost(T \ {SomeMember(T)}, n)
    BY OneTaken
<1>2. ASSUME NEW T \in SUBSET S, T = {} PROVE Right(T)
    <2>1. f[T] = <<>>
        BY <1>2 DEF ListedAt
    <2> QED
        BY <1>2, <2>1
<1>3. 0 \in P
    <2> HIDE DEF Right
    <2> QED
        BY <1>1, <1>2
<1>4. ASSUME NEW n \in P PROVE n + 1 \in P
    <2>1. n \in Nat /\ \A T \in SUBSET S : AtMost(T, n) => Right(T)
        <3> HIDE DEF Right
        <3> QED
            OBVIOUS
    <2>2. ASSUME NEW T \in SUBSET S, AtMost(T, n + 1), T # {} PROVE Right(T)
        <3> DEFINE U == T \ {SomeMember(T)}
                   v == SomeMember(T)
                   s == f[U]
        <3>1. v \in T /\ U \in SUBSET S /\ AtMost(U, n)
            BY <1>1, <2>1, <2>2
        <3>2. Right(U)
            <4> HIDE DEF Right, U, v
            <4> QED
                BY <2>1, <3>1
        <3>3. f[T] = Append(s, v)
            BY <2>2 DEF ListedAt
        <3>4. \A x \in T : x \in U \/ x = v
            OBVIOUS
        <3>5. s \in Seq(S) /\ v \in S /\ \A x \in U : \E i \in 1..Len(s) : s[i] = x
            BY <3>1, <3>2
        <3> HIDE DEF s, v, U
        <3>6. /\ Append(s, v) \in Seq(S) /\ Len(Append(s, v)) = Len(s) + 1 /\ Len(s) \in Nat
              /\ Append(s, v)[Len(s) + 1] = v /\ \A i \in 1..Len(s) : Append(s, v)[i] = s[i]
            BY <3>5
        <3>7. ASSUME NEW x \in T PROVE \E i \in 1..Len(f[T]) : f[T][i] = x
            <4>1. CASE x \in U
                <5>1. PICK i \in 1..Len(s) : s[i] = x
                    BY <3>5, <4>1
                <5>2. i \in 1..Len(Append(s, v)) /\ Append(s, v)[i] = x
                    BY <3>6, <5>1
                <5> QED
                    BY <3>3, <5>2
            <4>2. CASE x = v
                <5>1. Len(s) + 1 \in 1..Len(Append(s, v))
                    BY <3>6
                <5> QED
                    BY <3>3, <3>6, <4>2, <5>1
            <4> QED
                BY <3>4, <4>1, <4>2
        <3> QED
            BY <3>3, <3>6, <3>7
    <2> HIDE DEF Right
    <2> QED
        BY <1>2, <2>1, <2>2
<1>5. P = Nat
    <2>1. P \in SUBSET Nat
        OBVIOUS
    <2> HIDE DEF P
    <2> QED
        BY <1>3, <1>4, <2>1, Induction
<1>6. Right(S)
    <2>1. Cardinality(S) \in P /\ S \in SUBSET S
        <3> HIDE DEF P
        <3> QED
            BY <1>1, <1>5
    <2>2. AtMost(S, Cardinality(S))
        BY <1>1
    <2> HIDE DEF Right
    <2> QED
        BY <2>1, <2>2
<1> QED
    BY <1>6

----------------------------------------------------------------------------
(* Vectors of integers.                                                    *)

LEMMA WholeIs ==
    ASSUME NEW a \in Int, NEW b \in Int
    PROVE  /\ <<a, 1>> \in Fractions /\ <<b, 1>> \in Fractions
           /\ Plus(<<a, 1>>, <<b, 1>>) = <<a + b, 1>>
           /\ Minus(<<a, 1>>, <<b, 1>>) = <<a - b, 1>>
           /\ Times(<<a, 1>>, <<b, 1>>) = <<a * b, 1>>
<1> DEFINE c == a * b
<1>1. c \in Int
    OBVIOUS
<1>2. \A v \in Int : <<v, 1>> \in Fractions
    BY IntegerIs
<1>3. ASSUME NEW v \in Int PROVE Fraction(v, 1 * 1) = <<v, 1>>
    <2>1. Fraction(v, 1) \in Fractions /\ Represents(Fraction(v, 1), v, 1)
        BY FractionIs
    <2>2. Represents(<<v, 1>>, v, 1)
        BY DEF Represents
    <2> QED
        BY <1>2, <2>1, <2>2, RepEqual
<1>4. a * 1 + b * 1 = a + b /\ a * 1 - b * 1 = a - b
    OBVIOUS
<1> HIDE DEF c
<1>5. Plus(<<a, 1>>, <<b, 1>>) = <<a + b, 1>>
    BY <1>3, <1>4 DEF Plus
<1>6. Minus(<<a, 1>>, <<b, 1>>) = <<a - b, 1>>
    BY <1>3, <1>4 DEF Minus
<1>7. Times(<<a, 1>>, <<b, 1>>) = <<c, 1>>
    BY <1>1, <1>3 DEF Times, c
<1> QED
    BY <1>2, <1>5, <1>6, <1>7 DEF c

Whole(v, a) == \A k \in 1..4 : a[k] \in Int /\ v[k] = <<a[k], 1>>

LEMMA FourProducts ==
    ASSUME NEW u, NEW a, NEW v, NEW b, Whole(u, a), Whole(v, b)
    PROVE  SumProducts(u, v, 4) = <<a[1] * b[1] + a[2] * b[2] + a[3] * b[3] + a[4] * b[4], 1>>
<1>1. a[1] \in Int /\ a[2] \in Int /\ a[3] \in Int /\ a[4] \in Int
    BY DEF Whole
<1>2. b[1] \in Int /\ b[2] \in Int /\ b[3] \in Int /\ b[4] \in Int
    BY DEF Whole
<1> DEFINE c1 == a[1] * b[1]
           c2 == a[2] * b[2]
           c3 == a[3] * b[3]
           c4 == a[4] * b[4]
<1>3. c1 \in Int /\ c2 \in Int /\ c3 \in Int /\ c4 \in Int
    BY <1>1, <1>2
<1>4. /\ Times(u[1], v[1]) = <<c1, 1>> /\ Times(u[2], v[2]) = <<c2, 1>>
      /\ Times(u[3], v[3]) = <<c3, 1>> /\ Times(u[4], v[4]) = <<c4, 1>>
    <2>1. ASSUME NEW k \in 1..4 PROVE Times(u[k], v[k]) = <<a[k] * b[k], 1>>
        BY WholeIs DEF Whole
    <2> QED
        BY <2>1
<1> HIDE DEF c1, c2, c3, c4
<1>5. /\ SumProducts(u, v, 0 + 1) = Plus(SumProducts(u, v, 0), Times(u[0 + 1], v[0 + 1]))
      /\ SumProducts(u, v, 1 + 1) = Plus(SumProducts(u, v, 1), Times(u[1 + 1], v[1 + 1]))
      /\ SumProducts(u, v, 2 + 1) = Plus(SumProducts(u, v, 2), Times(u[2 + 1], v[2 + 1]))
      /\ SumProducts(u, v, 3 + 1) = Plus(SumProducts(u, v, 3), Times(u[3 + 1], v[3 + 1]))
    BY ProductsStep
<1>6. SumProducts(u, v, 0) = <<0, 1>>
    BY ProductsStart DEF Zero
<1>7. SumProducts(u, v, 1) = <<c1, 1>>
    BY <1>3, <1>4, <1>5, <1>6, WholeIs
<1>8. SumProducts(u, v, 2) = <<c1 + c2, 1>>
    BY <1>3, <1>4, <1>5, <1>7, WholeIs
<1>9. SumProducts(u, v, 3) = <<c1 + c2 + c3, 1>>
    BY <1>3, <1>4, <1>5, <1>8, WholeIs
<1>10. SumProducts(u, v, 4) = <<c1 + c2 + c3 + c4, 1>>
    BY <1>3, <1>4, <1>5, <1>9, WholeIs
<1> QED
    BY <1>10 DEF c1, c2, c3, c4
=============================================================================
