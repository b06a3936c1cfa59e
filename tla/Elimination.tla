---------------------------- MODULE Elimination ----------------------------
(***************************************************************************)
(* Exact Gauss-Jordan elimination, which the repository has three times:   *)
(* solve_over_Q and nullspace_over_Q (rational_linear_algebra.py) and      *)
(* repair_or_separate (r21_repair_or_separator.py). The loop over the      *)
(* columns is the same text in each; what differs is how wide the working  *)
(* matrix is and what is read off it in the end.                           *)
(*                                                                         *)
(*   "nullspace"  [ D ]          basis of the x with D x = 0               *)
(*   "solve"      [ D | r ]      some b with D b = r, or none              *)
(*   "decide"     [ D | r | I ]  such a b, or a y with y D = 0, y . r = 1  *)
(***************************************************************************)
EXTENDS LinearAlgebra, FiniteSets

CONSTANTS
    Problems    \* the inputs: records [task, D, r], D rectangular

Tasks == {"nullspace", "solve", "decide"}

\* D is a rectangle of exact fractions and r has one for each of its rows, which
\* repair_or_separate refuses to run without.
Legal(p) ==
    /\ p.task \in Tasks
    /\ p.D \in Seq(Seq(Int \X Nat))
    /\ \A i \in 1..Len(p.D) : /\ Len(p.D[i]) = columns(p.D)
                              /\ \A k \in 1..columns(p.D) : IsFraction(p.D[i][k])
    /\ p.task # "nullspace" => /\ p.r \in Seq(Int \X Nat) /\ Len(p.r) = Len(p.D)
                               /\ \A i \in 1..Len(p.r) : IsFraction(p.r[i])

ASSUME ProblemAssumption == \A p \in Problems : Legal(p)

VARIABLES
    problem,      \* the arguments; nothing assigns them
    aug,          \* the working matrix
    col,          \* the column the loop is at
    pivot_cols,   \* the columns that got a pivot, in order
    result        \* [kind |-> "pending"] until the function returns

vars == <<problem, aug, col, pivot_cols, result>>

m == Len(problem.D)
n == columns(problem.D)
pivot_row == Len(pivot_cols)     \* rows before this one (counted from 0) are done

Unit(i, size) == [k \in 1..size |-> IF k = i THEN One ELSE Zero]

Augmented(p) ==
    [i \in 1..Len(p.D) |->
        p.D[i] \o (IF p.task = "nullspace" THEN <<>> ELSE <<p.r[i]>>)
               \o (IF p.task = "decide" THEN Unit(i, Len(p.D)) ELSE <<>>)]

Init ==
    /\ problem \in Problems
    /\ aug = Augmented(problem)
    /\ col = 1
    /\ pivot_cols = <<>>
    /\ result = [kind |-> "pending"]

\* The loop is left when the columns or the rows are used up (`break`).
Eliminating == result.kind = "pending" /\ col <= n /\ pivot_row < m
Reading     == result.kind = "pending" /\ ~Eliminating

Candidates == {i \in (pivot_row + 1)..m : aug[i][col] # Zero}
First(S)   == CHOOSE i \in S : \A j \in S : i <= j

\* No row from pivot_row on has a non-zero entry here: `continue`.
SkipColumn ==
    /\ Eliminating
    /\ Candidates = {}
    /\ col' = col + 1
    /\ UNCHANGED <<problem, aug, pivot_cols, result>>

\* One pass that finds a pivot: swap it up, scale its row to one, clear the
\* column in the rows `others`, over the entries up to `upto`.
Pivot(others, upto) ==
    /\ Eliminating
    /\ Candidates # {}
    /\ LET top     == pivot_row + 1
           at      == First(Candidates)
           swapped == [aug EXCEPT ![top] = aug[at], ![at] = aug[top]]
           cleared(row, by) ==
             [k \in 1..Len(row) |->
                IF k <= upto THEN Minus(row[k], Times(row[col], by[k])) ELSE row[k]]
       IN \E scaled \in {[k \in 1..Len(aug[at]) |-> Over(aug[at][k], aug[at][col])]} :
            aug' = [i \in 1..m |->
                      IF i = top THEN scaled
                      ELSE IF i \notin others \/ swapped[i][col] = Zero THEN swapped[i]
                      ELSE cleared(swapped[i], scaled)]
    /\ pivot_cols' = Append(pivot_cols, col)
    /\ col' = col + 1
    /\ UNCHANGED <<problem, result>>

\* (slip) The identity block is left out of the clearing, as it would be with
\* the range of solve_over_Q.
PivotNarrow == Pivot(1..m, n + 1)

PivotColumn == Pivot(1..m, Len(aug[1]))

\* `row` says 0 = c with c # 0.
Contradiction(row) == (\A k \in 1..n : row[k] = Zero) /\ row[n + 1] # Zero
\* (slip) Only the rows with a pivot are looked at.
ContradictionsAbove == {i \in 1..pivot_row : Contradiction(aug[i])}

Contradictions == {i \in 1..m : Contradiction(aug[i])}

PivotOf(c) == CHOOSE i \in 1..pivot_row : pivot_cols[i] = c
Pivots     == {pivot_cols[i] : i \in 1..pivot_row}

ReturnSolution ==
    /\ Reading
    /\ problem.task # "nullspace"
    /\ Contradictions = {}
    /\ result' = [kind    |-> "repair",
                  witness |-> [c \in 1..n |-> IF c \in Pivots THEN aug[PivotOf(c)][n + 1] ELSE Zero]]
    /\ UNCHANGED <<problem, aug, col, pivot_cols>>

ReturnSeparator ==
    /\ Reading
    /\ problem.task = "decide"
    /\ Contradictions # {}
    /\ LET row == aug[First(Contradictions)] IN
         result' = [kind    |-> "separator",
                    witness |-> [i \in 1..m |-> Over(row[n + 1 + i], row[n + 1])]]
    /\ UNCHANGED <<problem, aug, col, pivot_cols>>

ReturnNoSolution ==
    /\ Reading
    /\ problem.task = "solve"
    /\ Contradictions # {}
    /\ result' = [kind |-> "none"]
    /\ UNCHANGED <<problem, aug, col, pivot_cols>>

\* One basis vector for each free column, with the entries of that column, times
\* `sign`, at the pivot columns.
ReadBasis(sign) ==
    /\ Reading
    /\ problem.task = "nullspace"
    /\ LET vector(f) == [c \in 1..n |-> IF c = f THEN One
                                        ELSE IF c \in Pivots THEN Times(sign, aug[PivotOf(c)][f])
                                        ELSE Zero]
       IN result' = [kind |-> "basis", witness |-> [f \in 1..n \ Pivots |-> vector(f)]]
    /\ UNCHANGED <<problem, aug, col, pivot_cols>>

\* (slip) The sign is forgotten.
ReturnBasisUnsigned == ReadBasis(One)

ReturnBasis == ReadBasis(<<-1, 1>>)

Step ==
    \/ SkipColumn \/ PivotColumn
    \/ ReturnSolution \/ ReturnSeparator \/ ReturnNoSolution \/ ReturnBasis
Terminated == result.kind # "pending" /\ UNCHANGED vars
Next == Step \/ Terminated

Spec == Init /\ [][Next]_vars

----------------------------------------------------------------------------
Kinds == {"pending", "repair", "separator", "none", "basis"}

\* The entries stay exact fractions in lowest terms, and the pivots ascend.
TypeOK ==
    /\ problem \in Problems
    /\ Len(aug) = m
    /\ \A i \in 1..m : /\ Len(aug[i]) = Len(Augmented(problem)[i])
                      /\ \A k \in 1..Len(aug[i]) : IsFraction(aug[i][k])
    /\ col \in 1..(n + 1)
    /\ pivot_cols \in Seq(1..n)
    /\ \A i, j \in 1..pivot_row : i < j => pivot_cols[i] < pivot_cols[j]
    /\ result.kind \in Kinds

(***************************************************************************)
(* Behind `col`, a pivot column is a unit vector and no other column has   *)
(* an entry at or below the next pivot row.                                *)
(***************************************************************************)
Reduced ==
    \A c \in 1..(col - 1) :
        IF c \in Pivots
          THEN \A i \in 1..m : aug[i][c] = IF i = PivotOf(c) THEN One ELSE Zero
          ELSE \A i \in (pivot_row + 1)..m : aug[i][c] = Zero

(***************************************************************************)
(* The identity block of repair_or_separate records the row operations:    *)
(* at every step row i of [D' | r'] is y [D | r], y being row i's block.   *)
(***************************************************************************)
RowTracking ==
    problem.task = "decide" =>
        \A i \in 1..m :
            LET y == SubSeq(aug[i], n + 2, n + 1 + m) IN
              /\ SubSeq(aug[i], 1, n) = row_vec_mat(y, problem.D)
              /\ aug[i][n + 1] = dot(y, problem.r)

(***************************************************************************)
(* The loop invariant of the elimination. Every answer is read off under   *)
(* it, and a separator read off the identity block is genuine only because *)
(* the block has followed every operation on the rows.                     *)
(***************************************************************************)
LoopInvariant == TypeOK /\ Reduced /\ RowTracking

(***************************************************************************)
(* What a caller and a checker rely on: a repair solves D b = r, and a     *)
(* separator kills D while pairing with r to exactly one (the "result of   *)
(* repair_or_separate is always certified by one of the two").             *)
(***************************************************************************)
WitnessRight ==
    /\ result.kind = "repair" =>
         /\ Len(result.witness) = n
         /\ m > 0 => mat_vec(problem.D, result.witness) = problem.r
    /\ result.kind = "separator" =>
         /\ Len(result.witness) = m
         /\ is_zero(row_vec_mat(result.witness, problem.D))
         /\ dot(result.witness, problem.r) = One

(***************************************************************************)
(* solve_over_Q returns (False, None) without a proof. It is right to: a   *)
(* combination of the equations that says 0 = 1 exists whenever it does    *)
(* ("provably inconsistent"). It is a solution y of the system D^T y = 0,  *)
(* r . y = 1, and repair_or_separate finds one beside its matrix.          *)
(***************************************************************************)
NoFalseRefusal ==
    result.kind = "none" =>
        \E y \in solve_over_Q(transpose(Augmented(problem)), Unit(n + 1, n + 1)) :
            is_zero(row_vec_mat(y, problem.D)) /\ dot(y, problem.r) = One

\* What the loop ends with is what its callers are told (LinearAlgebra).
AsDefined ==
    LET b == solve_over_Q(problem.D, problem.r) IN
    /\ result.kind = "repair" => b = {result.witness}
    /\ result.kind \in {"none", "separator"} => b = {}

(***************************************************************************)
(* No call of the solving routines ends in a wrong answer, every repair    *)
(* and separator is its own proof, and the functions that stand for these  *)
(* routines in the modules of their callers return the same.               *)
(***************************************************************************)
AnswerRight == WitnessRight /\ NoFalseRefusal /\ AsDefined

\* The integer vectors that the kernel is looked at on. On matrices of rank at
\* most two with entries in -1..1, Cramer's rule puts a basis of every kernel in
\* -2..2.
Small(size) == {[k \in 1..size |-> <<v[k], 1>>] : v \in [1..size -> -2..2]}

(***************************************************************************)
(* nullspace_over_Q returns a basis of the whole kernel: its vectors are   *)
(* in it, and each small integer vector of the kernel is their combination *)
(* with its own free entries as coefficients. They are the vectors that    *)
(* LinearAlgebra's function lists.                                         *)
(***************************************************************************)
BasisSpansKernel ==
    result.kind = "basis" =>
        LET B == result.witness
            b == nullspace_over_Q(problem.D)
            Kernel(x) == is_zero(mat_vec(problem.D, x))
            Combination(x) ==
                [c \in 1..n |-> Sum([k \in 1..n |-> IF k \in DOMAIN B THEN Times(x[k], B[k][c]) ELSE Zero])]
        IN /\ \A f \in DOMAIN B : Kernel(B[f])
           /\ \A x \in Small(n) : Kernel(x) <=> x = Combination(x)
           /\ {B[f] : f \in DOMAIN B} = {b[k] : k \in DOMAIN b}
=============================================================================
