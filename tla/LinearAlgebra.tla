--------------------------- MODULE LinearAlgebra ---------------------------
(***************************************************************************)
(* The vector and matrix operations of rational_linear_algebra.py. Vectors *)
(* are sequences of rationals, matrices sequences of rows; a rational is   *)
(* kept as fractions.Fraction keeps it: <<numerator, denominator>> in      *)
(* lowest terms with a positive denominator.                               *)
(***************************************************************************)
EXTENDS Integers, Sequences

gcd[x \in Nat \X Nat] == IF x[2] = 0 THEN x[1] ELSE gcd[<<x[2], x[1] % x[2]>>]

Magnitude(i) == IF i < 0 THEN -i ELSE i

\* Fraction(n, d), for d # 0.
Fraction(n, d) ==
    LET g == gcd[<<Magnitude(n), Magnitude(d)>>]
        s == IF d < 0 THEN -1 ELSE 1
    IN <<(s * n) \div g, Magnitude(d) \div g>>

IsFraction(x) ==
    /\ x \in Int \X (Nat \ {0})
    /\ gcd[<<Magnitude(x[1]), x[2]>>] = 1

Zero == <<0, 1>>
One  == <<1, 1>>

Plus(x, y)  == Fraction(x[1] * y[2] + y[1] * x[2], x[2] * y[2])
Minus(x, y) == Fraction(x[1] * y[2] - y[1] * x[2], x[2] * y[2])
Times(x, y) == Fraction(x[1] * y[1], x[2] * y[2])
Over(x, y)  == Fraction(x[1] * y[2], x[2] * y[1])     \* for y # Zero

----------------------------------------------------------------------------

Sum(v) ==
    LET s[k \in 0..Len(v)] == IF k = 0 THEN Zero ELSE Plus(s[k - 1], v[k]) IN s[Len(v)]

\* sum(u[k] * v[k] for k in range(upto)): the callers' ranges differ.
SumProducts(u, v, upto) == Sum([k \in 1..upto |-> Times(u[k], v[k])])

\* zip stops at the shorter vector.
dot(u, v) == SumProducts(u, v, IF Len(u) < Len(v) THEN Len(u) ELSE Len(v))

mat_vec(M, v) == [i \in 1..Len(M) |-> SumProducts(M[i], v, Len(v))]

columns(M) == IF M = <<>> THEN 0 ELSE Len(M[1])

transpose(M) == [j \in 1..columns(M) |-> [i \in 1..Len(M) |-> M[i][j]]]

row_vec_mat(v, M) == [j \in 1..columns(M) |-> SumProducts(v, transpose(M)[j], Len(v))]

is_zero(v) == \A k \in 1..Len(v) : v[k] = Zero

\* Lists of Fractions, and rows of one length, without which a list of rows
\* is no matrix.
ExactVector(v) == v \in Seq(Int \X Nat) /\ \A k \in 1..Len(v) : IsFraction(v[k])
ExactMatrix(M) ==
    /\ M \in Seq(Seq(Int \X Nat))
    /\ \A i \in 1..Len(M) : Len(M[i]) = columns(M) /\ ExactVector(M[i])

----------------------------------------------------------------------------
(* What the solving routines return, as functions of their arguments, for  *)
(* the modules that call them. The loop itself, one column at a time, is   *)
(* Elimination, whose run compares its results with these.                 *)

\* The same sequence. (TLC computes the entries of a function constructor at
\* each use of them, and those of a concatenation once.)
Computed(s) == s \o <<>>

mat_mat(a, b) ==
    IF a = <<>> \/ b = <<>> THEN <<>>
    ELSE Computed([i \in 1..Len(a) |->
           Computed([j \in 1..columns(b) |-> SumProducts(a[i], transpose(b)[j], Len(b))])])

\* All rows but the top one, reduced by it.
Cleared(rows, top, c, pivot) ==
    Computed([i \in DOMAIN rows |->
        IF i = top THEN pivot
        ELSE IF rows[i][c] = Zero THEN rows[i]
        ELSE Computed([k \in DOMAIN pivot |-> Minus(rows[i][k], Times(rows[i][c], pivot[k]))])])

Normalised(row, c) == Computed([k \in DOMAIN row |-> Over(row[k], row[c])])

\* Row p goes to the top.
Pivoted(rows, top, p, c) ==
    Cleared([rows EXCEPT ![top] = rows[p], ![p] = rows[top]], top, c, Normalised(rows[p], c))

\* One turn of the loop over the columns, at column c: e is [rows, pivots].
Eliminate(e, c) ==
    LET top == Len(e.pivots) + 1
        at  == {i \in top..Len(e.rows) : e.rows[i][c] # Zero}
    IN IF at = {} THEN e
       ELSE [rows |-> Pivoted(e.rows, top, CHOOSE i \in at : \A j \in at : i <= j, c),
             pivots |-> Append(e.pivots, c)]

\* The working matrix after the columns 1..n.
Eliminated(M, n) ==
    LET after[c \in 0..n] == IF c = 0 THEN [rows |-> M, pivots |-> <<>>]
                                      ELSE Eliminate(after[c - 1], c)
    IN after[n]

\* The row of the pivot in column c, in a set: empty for a free column.
PivotRow(e, c) == {i \in DOMAIN e.pivots : e.pivots[i] = c}

\* {b}, or {} when the system is inconsistent, read off the reduced matrix.
Solution(e, n) ==
    IF \E i \in DOMAIN e.rows : is_zero(SubSeq(e.rows[i], 1, n)) /\ e.rows[i][n + 1] # Zero
      THEN {}
      ELSE {[c \in 1..n |-> IF PivotRow(e, c) = {} THEN Zero
                            ELSE e.rows[CHOOSE i \in PivotRow(e, c) : TRUE][n + 1]]}

solve_over_Q(M, rhs) ==
    Solution(Eliminated([i \in 1..Len(M) |-> Append(M[i], rhs[i])], columns(M)), columns(M))

Solvable(M, rhs) == solve_over_Q(M, rhs) # {}

\* The columns without a pivot, in order.
FreeColumns(e, n) ==
    LET upto[c \in 0..n] == IF c = 0 THEN <<>>
                            ELSE IF PivotRow(e, c) = {} THEN Append(upto[c - 1], c) ELSE upto[c - 1]
    IN upto[n]

\* A vector for each free column.
KernelBasis(e, n) ==
    LET vector(f) == [c \in 1..n |->
                        IF c = f THEN One
                        ELSE IF PivotRow(e, c) = {} THEN Zero
                        ELSE Minus(Zero, e.rows[CHOOSE i \in PivotRow(e, c) : TRUE][f])]
        free == FreeColumns(e, n)
    IN Computed([k \in 1..Len(free) |-> Computed(vector(free[k]))])

nullspace_over_Q(M) == KernelBasis(Eliminated(M, columns(M)), columns(M))

in_span_over_Q(basis, v) == IF basis = <<>> THEN is_zero(v) ELSE Solvable(transpose(basis), v)
=============================================================================
