------------------------- MODULE EliminationProofs -------------------------
(***************************************************************************)
(* Gauss-Jordan elimination, column by column, for every set of problems   *)
(* with rectangular matrices of exact fractions, of any shape: its loop    *)
(* invariant, the witnesses that are read off under it, and that nothing   *)
(* is refused which has a solution.                                        *)
(***************************************************************************)
EXTENDS Elimination, LinearAlgebraProofs

Width(p) ==
    columns(p.D) + (IF p.task = "nullspace" THEN 0 ELSE 1)
                 + (IF p.task = "decide" THEN Len(p.D) ELSE 0)

LEMMA ProblemShape ==
    ASSUME NEW p \in Problems
    PROVE  /\ p.task \in Tasks
           /\ Rectangular(p.D) /\ p.D \in Seq(Seq(Fractions))
           /\ Len(p.D) \in Nat /\ columns(p.D) \in Nat /\ Width(p) \in Nat
           /\ p.task # "nullspace" => p.r \in Seq(Fractions) /\ Len(p.r) = Len(p.D)
<1>1. Legal(p)
    BY ProblemAssumption
<1>2. p.D \in Seq(Seq(Int \X Nat)) /\ \A i \in 1..Len(p.D) : Len(p.D[i]) = columns(p.D)
    BY <1>1 DEF Legal
<1>3. \A i \in 1..Len(p.D) : p.D[i] \in Seq(Fractions)
    <2> SUFFICES ASSUME NEW i \in 1..Len(p.D) PROVE p.D[i] \in Seq(Fractions)
        OBVIOUS
    <2> DEFINE v == p.D[i]
    <2>1. v \in Seq(Int \X Nat) /\ \A k \in 1..Len(v) : IsFraction(v[k])
        BY <1>1, <1>2 DEF Legal
    <2> HIDE DEF v
    <2>2. \A k \in 1..Len(v) : v[k] \in Fractions
        BY <2>1 DEF Fractions, IsFraction
    <2>3. v \in Seq(Fractions)
        BY <2>1, <2>2, Retyped
    <2> QED
        BY <2>3 DEF v
<1>4. p.D \in Seq(Seq(Fractions))
    BY <1>2, <1>3, Retyped
<1>5. Rectangular(p.D)
    BY <1>2, <1>4 DEF Rectangular
<1>6. Len(p.D) \in Nat /\ columns(p.D) \in Nat
    BY <1>5, Shape
<1>7. p.task # "nullspace" => p.r \in Seq(Fractions) /\ Len(p.r) = Len(p.D)
    <2> SUFFICES ASSUME p.task # "nullspace" PROVE p.r \in Seq(Fractions) /\ Len(p.r) = Len(p.D)
        OBVIOUS
    <2> DEFINE v == p.r
    <2>1. v \in Seq(Int \X Nat) /\ Len(v) = Len(p.D) /\ \A k \in 1..Len(v) : IsFraction(v[k])
        BY <1>1 DEF Legal
    <2> HIDE DEF v
    <2>2. \A k \in 1..Len(v) : v[k] \in Fractions
        BY <2>1 DEF Fractions, IsFraction
    <2>3. v \in Seq(Fractions)
        BY <2>1, <2>2, Retyped
    <2> QED
        BY <2>1, <2>3 DEF v
<1> QED
    BY <1>1, <1>4, <1>5, <1>6, <1>7 DEF Legal, Width

LEMMA Joined ==
    ASSUME NEW a \in Seq(Fractions), NEW b \in Seq(Fractions)
    PROVE  /\ a \o b \in Seq(Fractions) /\ Len(a \o b) = Len(a) + Len(b)
           /\ Len(a) \in Nat /\ Len(b) \in Nat
           /\ \A k \in 1..Len(a) : (a \o b)[k] = a[k]
           /\ \A k \in 1..Len(b) : (a \o b)[Len(a) + k] = b[k]
    OBVIOUS

\* A row of the working matrix: the equation, and the block behind it.
LEMMA AugmentedRow ==
    ASSUME NEW p \in Problems, NEW i \in 1..Len(p.D)
    PROVE  /\ Augmented(p)[i] \in FractionRow(Width(p))
           /\ \A k \in 1..columns(p.D) : Augmented(p)[i][k] = p.D[i][k]
           /\ p.task # "nullspace" => Augmented(p)[i][columns(p.D) + 1] = p.r[i]
           /\ p.task = "decide" =>
                \A k \in 1..Len(p.D) : Augmented(p)[i][columns(p.D) + 1 + k] = IF k = i THEN One ELSE Zero
<1> DEFINE w == columns(p.D)
           h == Len(p.D)
           a == p.D[i]
           b == IF p.task = "nullspace" THEN <<>> ELSE <<p.r[i]>>
           c == IF p.task = "decide" THEN Unit(i, h) ELSE <<>>
           row == (a \o b) \o c
<1>1. /\ w \in Nat /\ h \in Nat /\ a \in Seq(Fractions) /\ Len(a) = w
      /\ p.task # "nullspace" => p.r[i] \in Fractions
    <2>1. /\ p.D \in Seq(Seq(Fractions)) /\ Len(p.D) \in Nat /\ columns(p.D) \in Nat
          /\ \A k \in 1..Len(p.D) : Len(p.D[k]) = columns(p.D)
        BY ProblemShape DEF Rectangular
    <2>2. a \in Seq(Fractions) /\ Len(a) = w
        BY <2>1
    <2>3. p.task # "nullspace" => p.r \in Seq(Fractions) /\ Len(p.r) = Len(p.D)
        BY ProblemShape
    <2>4. p.task # "nullspace" => p.r[i] \in Fractions
        BY <2>3
    <2> QED
        BY <2>1, <2>2, <2>4
<1>2. b \in Seq(Fractions) /\ Len(b) = (IF p.task = "nullspace" THEN 0 ELSE 1)
      /\ (p.task # "nullspace" => b[1] = p.r[i])
    BY <1>1
<1>3. c \in Seq(Fractions) /\ Len(c) = (IF p.task = "decide" THEN h ELSE 0)
      /\ (p.task = "decide" => \A k \in 1..h : c[k] = IF k = i THEN One ELSE Zero)
    <2>1. CASE p.task = "decide"
        <3> DEFINE u == Unit(i, h)
        <3>1. u \in [1..h -> Fractions] /\ \A k \in 1..h : u[k] = IF k = i THEN One ELSE Zero
            BY <1>1, ZeroOne DEF Unit
        <3> HIDE DEF u
        <3>2. u \in Seq(Fractions) /\ Len(u) = h
            BY <1>1, <3>1
        <3> QED
            BY <2>1, <3>1, <3>2 DEF u
    <2>2. CASE p.task # "decide"
        BY <2>2
    <2> QED
        BY <2>1, <2>2
<1>4. Augmented(p)[i] = row
    BY DEF Augmented
<1> HIDE DEF a, b, c
<1>5. /\ row \in Seq(Fractions) /\ Len(row) = Len(a) + Len(b) + Len(c)
      /\ \A k \in 1..Len(a) : row[k] = a[k]
      /\ \A k \in 1..Len(b) : row[Len(a) + k] = b[k]
      /\ \A k \in 1..Len(c) : row[Len(a) + Len(b) + k] = c[k]
    <2> DEFINE ab == a \o b
    <2>1. /\ ab \in Seq(Fractions) /\ Len(ab) = Len(a) + Len(b)
          /\ \A k \in 1..Len(a) : ab[k] = a[k]
          /\ \A k \in 1..Len(b) : ab[Len(a) + k] = b[k]
        BY <1>1, <1>2, Joined
    <2> HIDE DEF ab
    <2>2. /\ ab \o c \in Seq(Fractions) /\ Len(ab \o c) = Len(ab) + Len(c)
          /\ \A k \in 1..Len(ab) : (ab \o c)[k] = ab[k]
          /\ \A k \in 1..Len(c) : (ab \o c)[Len(ab) + k] = c[k]
        BY <1>3, <2>1, Joined
    <2>3. Len(a) \in Nat /\ Len(b) \in Nat /\ Len(c) \in Nat
        BY <1>1, <1>2, <1>3
    <2>4. \A k \in 1..Len(a) : k \in 1..Len(ab)
        BY <2>1, <2>3
    <2>5. \A k \in 1..Len(b) : Len(a) + k \in 1..Len(ab)
        BY <2>1, <2>3
    <2> QED
        BY <2>1, <2>2, <2>3, <2>4, <2>5 DEF ab
<1> HIDE DEF row
<1>6. Len(row) = Width(p)
    BY <1>1, <1>2, <1>3, <1>5 DEF Width
<1>7. row \in FractionRow(Width(p))
    <2>1. row \in [1..Len(row) -> Fractions]
        BY <1>5
    <2> QED
        BY <1>6, <2>1 DEF FractionRow
<1>8. \A k \in 1..w : row[k] = a[k]
    BY <1>1, <1>5
<1>9. ASSUME p.task # "nullspace" PROVE row[w + 1] = p.r[i]
    <2>1. 1 \in 1..Len(b)
        BY <1>2, <1>9
    <2> QED
        BY <1>1, <1>2, <1>5, <1>9, <2>1
<1>10. ASSUME p.task = "decide", NEW k \in 1..h PROVE row[w + 1 + k] = IF k = i THEN One ELSE Zero
    <2>1. Len(b) = 1 /\ k \in 1..Len(c) /\ c[k] = IF k = i THEN One ELSE Zero
        BY <1>2, <1>3, <1>10
    <2> QED
        BY <1>1, <1>5, <2>1
<1> QED
    BY <1>4, <1>7, <1>8, <1>9, <1>10 DEF a

LEMMA AugmentedIs ==
    ASSUME NEW p \in Problems
    PROVE  Augmented(p) \in [1..Len(p.D) -> FractionRow(Width(p))]
<1> DEFINE A == Augmented(p)
<1>1. A = [i \in 1..Len(p.D) |-> A[i]]
    BY DEF Augmented
<1>2. \A i \in 1..Len(p.D) : A[i] \in FractionRow(Width(p))
    BY AugmentedRow
<1> HIDE DEF A
<1> QED
    BY <1>1, <1>2 DEF A

----------------------------------------------------------------------------
(* The inductive invariant: the columns before col have had their turns,   *)
(* and the answer, once there is one, was read off after the last.         *)

State == [rows |-> aug, pivots |-> pivot_cols]

\* The witnesses that are read off.
Repair == [c \in 1..n |-> IF c \in Pivots THEN aug[PivotOf(c)][n + 1] ELSE Zero]

Separator == [i \in 1..m |-> Over(aug[First(Contradictions)][n + 1 + i], aug[First(Contradictions)][n + 1])]

Basis == [f \in 1..n \ Pivots |->
            [c \in 1..n |-> IF c = f THEN One
                            ELSE IF c \in Pivots THEN Times(MinusOne, aug[PivotOf(c)][f])
                            ELSE Zero]]

Answered ==
    /\ ~(col <= n /\ pivot_row < m)
    /\ \/ /\ problem.task # "nullspace" /\ Contradictions = {}
          /\ result = [kind |-> "repair", witness |-> Repair]
       \/ /\ problem.task = "decide" /\ Contradictions # {}
          /\ result = [kind |-> "separator", witness |-> Separator]
       \/ /\ problem.task = "solve" /\ Contradictions # {}
          /\ result = [kind |-> "none"]
       \/ /\ problem.task = "nullspace"
          /\ result = [kind |-> "basis", witness |-> Basis]

IndInv ==
    /\ problem \in Problems
    /\ col \in 1..(n + 1)
    /\ RunsTo(Augmented(problem), col - 1, State)
    /\ result.kind = "pending" \/ Answered

\* What the invariant says of the working matrix.
LEMMA StateIs ==
    ASSUME IndInv
    PROVE  /\ m \in Nat /\ n \in Nat /\ Width(problem) \in Nat /\ n <= Width(problem)
           /\ problem.task # "nullspace" => n < Width(problem)
           /\ col - 1 \in Nat /\ col - 1 <= n
           /\ Echelon(State, m, Width(problem), col - 1)
           /\ SameSpaces(Augmented(problem), aug, m, Width(problem))
<1>1. /\ problem \in Problems /\ m \in Nat /\ n \in Nat /\ Width(problem) \in Nat
      /\ Augmented(problem) \in [1..m -> FractionRow(Width(problem))]
    BY ProblemShape, AugmentedIs DEF IndInv, m, n
<1>2. n <= Width(problem) /\ (problem.task # "nullspace" => n < Width(problem))
    BY <1>1 DEF Width, m, n
<1>3. col - 1 \in Nat /\ col - 1 <= n /\ col - 1 <= Width(problem)
    BY <1>1, <1>2 DEF IndInv
<1>4. State.rows = aug
    BY DEF State
<1>5. Echelon(State, m, Width(problem), col - 1)
      /\ SameSpaces(Augmented(problem), State.rows, m, Width(problem))
    BY <1>1, <1>3, RunsKeep DEF IndInv
<1> QED
    BY <1>1, <1>2, <1>3, <1>4, <1>5

LEMMA InitEstablishes == Init => IndInv
<1> SUFFICES ASSUME Init PROVE IndInv
    OBVIOUS
<1>1. problem \in Problems /\ n \in Nat
    BY ProblemShape DEF Init, n
<1>2. State = [rows |-> Augmented(problem), pivots |-> <<>>] /\ col - 1 = 0 /\ col = 1
    BY DEF Init, State
<1>3. RunsTo(Augmented(problem), col - 1, State)
    BY <1>2, RunsToStart
<1> QED
    BY <1>1, <1>2, <1>3 DEF Init, IndInv

LEMMA SkipKeeps == IndInv /\ SkipColumn => IndInv'
<1> SUFFICES ASSUME IndInv, SkipColumn PROVE IndInv'
    OBVIOUS
<1> USE DEF SkipColumn
<1>1. /\ m \in Nat /\ n \in Nat /\ Width(problem) \in Nat /\ n <= Width(problem)
      /\ col - 1 \in Nat /\ col \in Int /\ col <= n /\ (col - 1) + 1 = col /\ (col + 1) - 1 = col
      /\ Echelon(State, m, Width(problem), col - 1)
    BY StateIs DEF Eliminating, IndInv
<1>2. Candidate(State, (col - 1) + 1) = {}
    <2>1. Len(aug) = m
        BY <1>1 DEF Echelon, State
    <2> QED
        BY <1>1, <2>1 DEF Candidate, Candidates, State, pivot_row
<1>3. Eliminate(State, (col - 1) + 1) = State
    <2> DEFINE c == col - 1
               w == Width(problem)
    <2>1. c \in Nat /\ c < w /\ w \in Nat /\ Echelon(State, m, w, c) /\ Candidate(State, c + 1) = {}
        BY <1>1, <1>2
    <2> HIDE DEF c, w
    <2>2. Eliminate(State, c + 1) = State
        BY <1>1, <2>1, EliminateIs
    <2> QED
        BY <2>2 DEF c
<1>4. RunsTo(Augmented(problem), (col - 1) + 1, State)
    BY <1>1, <1>3, RunsToStep DEF IndInv
<1>5. State' = State /\ problem' = problem /\ n' = n /\ col' = col + 1 /\ result.kind = "pending"
    BY DEF State, n, Eliminating
<1>6. RunsTo(Augmented(problem), col' - 1, State)
    BY <1>1, <1>4, <1>5
<1> QED
    BY <1>1, <1>5, <1>6 DEF IndInv

LEMMA PivotKeeps == IndInv /\ PivotColumn => IndInv'
<1> SUFFICES ASSUME IndInv, PivotColumn PROVE IndInv'
    OBVIOUS
<1> DEFINE w == Width(problem)
           top == pivot_row + 1
           at == First(Candidates)
           old == [aug EXCEPT ![top] = aug[at], ![at] = aug[top]]
           pivot == [k \in 1..w |-> Over(aug[at][k], aug[at][col])]
           new == [i \in 1..m |-> IF i = top THEN pivot
                                  ELSE IF old[i][col] = Zero THEN old[i]
                                  ELSE Less(old[i], old[i][col], pivot, w)]
<1>1. /\ m \in Nat /\ n \in Nat /\ w \in Nat /\ n <= w
      /\ col - 1 \in Nat /\ col \in Int /\ col <= n /\ (col - 1) + 1 = col /\ (col + 1) - 1 = col
      /\ Echelon(State, m, w, col - 1)
    BY StateIs DEF Eliminating, IndInv, PivotColumn, Pivot
<1>2. aug \in [1..m -> FractionRow(w)] /\ Len(aug) = m /\ pivot_row \in Nat /\ pivot_row < m
    BY <1>1 DEF Echelon, State, PivotColumn, Pivot, Eliminating, pivot_row
<1>3. Candidate(State, col) = Candidates /\ Candidates # {}
    BY <1>2 DEF Candidate, Candidates, State, pivot_row, PivotColumn, Pivot
<1>4. /\ at \in 1..m /\ top \in 1..m
      /\ Eliminate(State, col) = [rows |-> new, pivots |-> Append(pivot_cols, col)]
    <2> DEFINE c == col - 1
    <2>1. c \in Nat /\ c < w /\ Echelon(State, m, w, c) /\ Candidate(State, c + 1) # {} /\ c + 1 = col
        BY <1>1, <1>3
    <2>2. at = CHOOSE i \in Candidate(State, c + 1) : \A j \in Candidate(State, c + 1) : i <= j
        BY <1>3, <2>1 DEF First
    <2>3. top = Len(State.pivots) + 1 /\ old = Swapped(State.rows, top, at)
          /\ State.rows = aug /\ State.pivots = pivot_cols
        BY DEF State, Swapped, pivot_row
    <2>4. pivot = [k \in 1..w |-> Over(State.rows[at][k], State.rows[at][c + 1])]
        BY <2>1, <2>3
    <2>5. new = [i \in 1..m |-> IF i = top THEN pivot
                                ELSE IF old[i][c + 1] = Zero THEN old[i]
                                ELSE Less(old[i], old[i][c + 1], pivot, w)]
        BY <2>1
    <2> HIDE DEF c, w, top, at, old, pivot, new
    <2>6. /\ at \in 1..m /\ top \in 1..m
          /\ Eliminate(State, c + 1) = [rows |-> new, pivots |-> Append(State.pivots, c + 1)]
        <3> DEFINE e == State
        <3>1. /\ Echelon(e, m, w, c) /\ Candidate(e, c + 1) # {}
              /\ at = CHOOSE i \in Candidate(e, c + 1) : \A j \in Candidate(e, c + 1) : i <= j
              /\ top = Len(e.pivots) + 1 /\ old = Swapped(e.rows, top, at)
              /\ pivot = [k \in 1..w |-> Over(e.rows[at][k], e.rows[at][c + 1])]
            BY <2>1, <2>2, <2>3, <2>4
        <3>2. m \in Nat /\ w \in Nat /\ c \in Nat /\ c < w
            BY <1>1, <2>1
        <3> HIDE DEF e
        <3>3. RowByRow(e, c, m, w, at, top, old, pivot, new)
            BY <2>5, <3>1 DEF RowByRow
        <3> QED
            BY ONLY <3>1, <3>2, <3>3, TurnByRows DEF e
    <2> QED
        BY <2>1, <2>3, <2>6
<1>5. \A i \in 1..m : old[i] \in FractionRow(w) /\ Len(old[i]) = w
    <2>1. \A i \in 1..m : old[i] \in FractionRow(w)
        BY <1>2, <1>4
    <2> QED
        BY <1>1, <2>1, RowIsSeq
<1>6. Len(aug[1]) = w /\ Len(aug[at]) = w
    BY <1>1, <1>2, <1>4, RowIsSeq
<1>7. aug' = new
    <2> DEFINE cleared(row, by) ==
                 [k \in 1..Len(row) |->
                    IF k <= Len(aug[1]) THEN Minus(row[k], Times(row[col], by[k])) ELSE row[k]]
               scaled == [k \in 1..Len(aug[at]) |-> Over(aug[at][k], aug[at][col])]
    <2>1. aug' = [i \in 1..m |->
                    IF i = top THEN scaled
                    ELSE IF i \notin 1..m \/ old[i][col] = Zero THEN old[i]
                    ELSE cleared(old[i], scaled)]
        <3> DEFINE rows(s) == [i \in 1..m |->
                                IF i = top THEN s
                                ELSE IF i \notin 1..m \/ old[i][col] = Zero THEN old[i]
                                ELSE cleared(old[i], s)]
        <3>1. \E s \in {scaled} : aug' = rows(s)
            BY Zenon DEF PivotColumn, Pivot
        <3> HIDE DEF rows
        <3>2. aug' = rows(scaled)
            BY <3>1
        <3> QED
            BY <3>2 DEF rows
    <2>2. scaled = pivot
        BY <1>6
    <2>3. \A i \in 1..m : cleared(old[i], pivot) = Less(old[i], old[i][col], pivot, w)
        <3> SUFFICES ASSUME NEW i \in 1..m
                     PROVE  cleared(old[i], pivot) = Less(old[i], old[i][col], pivot, w)
            OBVIOUS
        <3>1. Len(old[i]) = w
            BY <1>5
        <3> HIDE DEF old, pivot
        <3> QED
            BY <1>1, <1>6, <3>1 DEF Less
    <2> HIDE DEF scaled, pivot, old, cleared
    <2> QED
        BY <2>1, <2>2, <2>3
<1>8. State' = Eliminate(State, (col - 1) + 1) /\ problem' = problem /\ n' = n /\ col' = col + 1
      /\ result' = result /\ result.kind = "pending"
    <2>1. pivot_cols' = Append(pivot_cols, col) /\ problem' = problem /\ col' = col + 1
          /\ result' = result /\ result.kind = "pending"
        BY DEF PivotColumn, Pivot, Eliminating
    <2> HIDE DEF new
    <2> QED
        BY <1>1, <1>4, <1>7, <2>1 DEF State, n
<1>9. RunsTo(Augmented(problem), (col - 1) + 1, Eliminate(State, (col - 1) + 1))
    BY <1>1, RunsToStep DEF IndInv
<1>10. RunsTo(Augmented(problem'), col' - 1, State')
    BY <1>1, <1>8, <1>9
<1> QED
    BY <1>1, <1>8, <1>10 DEF IndInv

\* All of this is read from the matrix and the problem.
ReadsSame ==
    /\ n' = n /\ m' = m /\ pivot_row' = pivot_row /\ State' = State
    /\ Contradictions' = Contradictions
    /\ Repair' = Repair /\ Separator' = Separator /\ Basis' = Basis

LEMMA ReadFromMatrix == UNCHANGED <<problem, aug, col, pivot_cols>> => ReadsSame
<1> SUFFICES ASSUME UNCHANGED <<problem, aug, col, pivot_cols>> PROVE ReadsSame
    OBVIOUS
<1>1. n' = n /\ m' = m /\ pivot_row' = pivot_row /\ State' = State /\ aug' = aug
    BY DEF n, m, pivot_row, State
<1>2. Pivots' = Pivots /\ Contradictions' = Contradictions
    BY <1>1 DEF Pivots, Contradictions, Contradiction, pivot_row
<1>3. \A c : PivotOf(c)' = PivotOf(c)
    BY <1>1 DEF PivotOf
<1>4. Repair' = Repair /\ Separator' = Separator /\ Basis' = Basis
    BY <1>1, <1>2, <1>3 DEF Repair, Separator, Basis
<1> QED
    BY <1>1, <1>2, <1>4 DEF ReadsSame

LEMMA ReadingKeeps ==
    IndInv /\ (ReturnSolution \/ ReturnSeparator \/ ReturnNoSolution \/ ReturnBasis) => IndInv'
<1> SUFFICES ASSUME IndInv, ReturnSolution \/ ReturnSeparator \/ ReturnNoSolution \/ ReturnBasis
             PROVE  IndInv'
    OBVIOUS
<1>1. UNCHANGED <<problem, aug, col, pivot_cols>> /\ ~(col <= n /\ pivot_row < m)
    BY DEF ReturnSolution, ReturnSeparator, ReturnNoSolution, ReturnBasis, ReadBasis, Reading, Eliminating
<1>2. ReadsSame
    BY <1>1, ReadFromMatrix
<1>3. Answered'
    <2>0. ~(col' <= n' /\ pivot_row' < m')
        BY <1>1, <1>2 DEF ReadsSame
    <2>1. CASE ReturnSolution
        <3>1. /\ problem.task # "nullspace" /\ Contradictions = {}
              /\ result' = [kind |-> "repair", witness |-> Repair]
            BY <2>1 DEF ReturnSolution, Repair
        <3> QED
            BY <1>1, <1>2, <2>0, <3>1 DEF Answered, ReadsSame
    <2>2. CASE ReturnSeparator
        <3>1. /\ problem.task = "decide" /\ Contradictions # {}
              /\ result' = [kind |-> "separator", witness |-> Separator]
            BY <2>2 DEF ReturnSeparator, Separator
        <3> QED
            BY <1>1, <1>2, <2>0, <3>1 DEF Answered, ReadsSame
    <2>3. CASE ReturnNoSolution
        <3>1. problem.task = "solve" /\ Contradictions # {} /\ result' = [kind |-> "none"]
            BY <2>3 DEF ReturnNoSolution
        <3> QED
            BY <1>1, <1>2, <2>0, <3>1 DEF Answered, ReadsSame
    <2>4. CASE ReturnBasis
        <3>1. problem.task = "nullspace" /\ result' = [kind |-> "basis", witness |-> Basis]
            BY <2>4 DEF ReturnBasis, ReadBasis, Basis, MinusOne
        <3> QED
            BY <1>1, <1>2, <2>0, <3>1 DEF Answered, ReadsSame
    <2> QED
        BY <2>1, <2>2, <2>3, <2>4
<1> QED
    BY <1>1, <1>2, <1>3 DEF IndInv, ReadsSame

LEMMA NextKeeps == IndInv /\ [Next]_vars => IndInv'
<1> SUFFICES ASSUME IndInv, [Next]_vars PROVE IndInv'
    OBVIOUS
<1>1. CASE UNCHANGED vars
    <2>1. UNCHANGED <<problem, aug, col, pivot_cols>> /\ result' = result
        BY <1>1 DEF vars
    <2>2. ReadsSame
        BY <2>1, ReadFromMatrix
    <2>3. Answered => Answered'
        BY <2>1, <2>2 DEF Answered, ReadsSame
    <2> QED
        BY <2>1, <2>2, <2>3 DEF IndInv, ReadsSame
<1> QED
    BY <1>1, SkipKeeps, PivotKeeps, ReadingKeeps DEF Next, Step, Terminated

(***************************************************************************)
(* The invariant holds throughout: the loop has done with the columns      *)
(* before col what LinearAlgebra's function does.                          *)
(***************************************************************************)
THEOREM Inductive == Spec => []IndInv
    BY InitEstablishes, NextKeeps, PTL DEF Spec

----------------------------------------------------------------------------
(* What is read off the working matrix.                                    *)

LEMMA StateFields ==
    /\ State.rows = aug /\ State.pivots = pivot_cols /\ Len(State.pivots) = pivot_row
    BY DEF State, pivot_row

LEMMA PivotsAre ==
    ASSUME IndInv, NEW c \in 1..n
    PROVE  /\ IsPivot(State, c) <=> c \in Pivots
           /\ c \in Pivots => PivotOf(c) \in 1..pivot_row /\ pivot_cols[PivotOf(c)] = c
<1>1. IsPivot(State, c) <=> c \in Pivots
    BY StateFields DEF IsPivot, Pivots
<1>2. ASSUME c \in Pivots PROVE PivotOf(c) \in 1..pivot_row /\ pivot_cols[PivotOf(c)] = c
    <2>1. \E i \in 1..pivot_row : pivot_cols[i] = c
        BY <1>2 DEF Pivots
    <2> QED
        BY <2>1 DEF PivotOf
<1> QED
    BY <1>1, <1>2

LEMMA InvImpliesType == IndInv => TypeOK
<1> SUFFICES ASSUME IndInv PROVE TypeOK
    OBVIOUS
<1> DEFINE w == Width(problem)
<1>1. /\ m \in Nat /\ n \in Nat /\ w \in Nat /\ col - 1 <= n
      /\ Echelon(State, m, w, col - 1)
    BY StateIs
<1>2. problem \in Problems /\ col \in 1..(n + 1)
    BY DEF IndInv
<1>3. /\ aug \in [1..m -> FractionRow(w)] /\ pivot_cols \in Seq(1..(col - 1)) /\ pivot_row \in Nat
      /\ \A i \in 1..pivot_row, j \in 1..pivot_row : i < j => pivot_cols[i] < pivot_cols[j]
    BY <1>1, StateFields DEF Echelon
<1>4. Augmented(problem) \in [1..m -> FractionRow(w)]
    BY <1>2, AugmentedIs DEF m
<1>5. ASSUME NEW i \in 1..m
      PROVE  Len(aug[i]) = Len(Augmented(problem)[i]) /\ \A k \in 1..Len(aug[i]) : IsFraction(aug[i][k])
    <2>1. aug[i] \in FractionRow(w) /\ Augmented(problem)[i] \in FractionRow(w)
        BY <1>3, <1>4
    <2>2. Len(aug[i]) = w /\ Len(Augmented(problem)[i]) = w
        BY <1>1, <2>1, RowIsSeq
    <2>3. \A k \in 1..w : aug[i][k] \in Fractions
        BY <2>1 DEF FractionRow
    <2> QED
        BY <2>2, <2>3 DEF Fractions
<1>6. pivot_cols \in Seq(1..n)
    <2>1. \A i \in 1..Len(pivot_cols) : pivot_cols[i] \in 1..n
        BY <1>1, <1>2, <1>3
    <2> QED
        BY <1>3, <2>1, Retyped
<1>7. Len(aug) = m
    BY <1>1, <1>3
<1>8. result.kind \in Kinds
    BY DEF IndInv, Answered, Kinds
<1> QED
    BY <1>2, <1>3, <1>5, <1>6, <1>7, <1>8 DEF TypeOK

LEMMA InvImpliesReduced == IndInv => Reduced
<1> SUFFICES ASSUME IndInv, NEW c \in 1..(col - 1)
             PROVE  IF c \in Pivots
                      THEN \A i \in 1..m : aug[i][c] = IF i = PivotOf(c) THEN One ELSE Zero
                      ELSE \A i \in (pivot_row + 1)..m : aug[i][c] = Zero
    BY DEF Reduced
<1>1. /\ m \in Nat /\ n \in Nat /\ col - 1 <= n /\ col \in Int
      /\ Echelon(State, m, Width(problem), col - 1)
    BY StateIs DEF IndInv
<1>2. c \in 1..n
    BY <1>1
<1>3. CASE c \in Pivots
    <2>1. PivotOf(c) \in 1..pivot_row /\ pivot_cols[PivotOf(c)] = c
        BY <1>2, <1>3, PivotsAre
    <2>2. \A i \in 1..pivot_row, j \in 1..m : aug[j][pivot_cols[i]] = IF i = j THEN One ELSE Zero
        BY <1>1, StateFields DEF Echelon
    <2> QED
        BY <1>3, <2>1, <2>2
<1>4. CASE c \notin Pivots
    <2>1. \A d \in 1..(col - 1), j \in 1..m : j > pivot_row => aug[j][d] = Zero
        BY <1>1, StateFields DEF Echelon
    <2>2. pivot_row \in Nat
        BY <1>1, StateFields DEF Echelon
    <2> QED
        BY <1>1, <1>4, <2>1, <2>2
<1> QED
    BY <1>3, <1>4

\* The blocks of a row of [D' | r' | Y], with what Y records.
LEMMA Blocks ==
    ASSUME IndInv, problem.task = "decide", NEW i \in 1..m
    PROVE  LET y == [k \in 1..m |-> aug[i][n + 1 + k]]
           IN /\ aug[i] \in FractionRow(Width(problem)) /\ y \in FractionRow(m)
              /\ Width(problem) = n + 1 + m
              /\ \A k \in 1..n : aug[i][k] = SumProducts(y, Column(problem.D, k, m), m)
              /\ aug[i][n + 1] = SumProducts(y, problem.r, m)
<1> DEFINE w == Width(problem)
           A == Augmented(problem)
<1>1. m \in Nat /\ n \in Nat /\ w = n + 1 + m /\ problem \in Problems
    BY StateIs DEF Width, IndInv, m, n
<1>2. A \in [1..m -> FractionRow(w)] /\ SameSpaces(A, aug, m, w)
    BY <1>1, StateIs, AugmentedIs DEF m
<1>3. /\ \A l \in 1..m : A[l][n + 1] = problem.r[l] /\ \A k \in 1..n : A[l][k] = problem.D[l][k]
      /\ \A l \in 1..m : \A k \in 1..m : A[l][n + 1 + k] = IF k = l THEN One ELSE Zero
    BY <1>1, AugmentedRow DEF m, n
<1> DEFINE D == problem.D
           r == problem.r
           y == [k \in 1..m |-> aug[i][n + 1 + k]]
<1> HIDE DEF w, A, D, r
<1>4. /\ aug[i] \in FractionRow(w) /\ y \in FractionRow(m)
      /\ \A k \in 1..n : aug[i][k] = SumProducts(y, Column(D, k, m), m)
      /\ aug[i][n + 1] = SumProducts(y, r, m)
    <2>1. Records(aug[i], y, D, r, m, n, w)
        BY <1>1, <1>2, <1>3, Recorded DEF D, r
    <2> QED
        BY <2>1 DEF Records
<1> QED
    BY <1>1, <1>4 DEF w, D, r

\* The products of LinearAlgebra, for a vector of the right length.
LEMMA ProductsOf ==
    ASSUME NEW p \in Problems, NEW y \in FractionRow(Len(p.D))
    PROVE  /\ row_vec_mat(y, p.D)
                = [k \in 1..columns(p.D) |-> SumProducts(y, Column(p.D, k, Len(p.D)), Len(p.D))]
           /\ p.task # "nullspace" => dot(y, p.r) = SumProducts(y, p.r, Len(p.D))
<1>1. Len(p.D) \in Nat /\ columns(p.D) \in Nat /\ (p.task # "nullspace" => Len(p.r) = Len(p.D))
    BY ProblemShape
<1>2. Len(y) = Len(p.D)
    BY <1>1, RowIsSeq
<1>3. \A k \in 1..columns(p.D) : transpose(p.D)[k] = Column(p.D, k, Len(p.D))
    BY DEF transpose, Column
<1> QED
    BY <1>1, <1>2, <1>3 DEF row_vec_mat, dot

LEMMA InvImpliesTracking == IndInv => RowTracking
<1> SUFFICES ASSUME IndInv, problem.task = "decide", NEW i \in 1..m
             PROVE  LET y == SubSeq(aug[i], n + 2, n + 1 + m) IN
                      /\ SubSeq(aug[i], 1, n) = row_vec_mat(y, problem.D)
                      /\ aug[i][n + 1] = dot(y, problem.r)
    BY DEF RowTracking
<1> DEFINE y == [k \in 1..m |-> aug[i][n + 1 + k]]
           row == aug[i]
           w == Width(problem)
<1>1. m \in Nat /\ n \in Nat /\ w = n + 1 + m /\ problem \in Problems
    BY StateIs DEF Width, IndInv, m, n
<1>2. /\ row \in FractionRow(w) /\ y \in FractionRow(m)
      /\ \A k \in 1..n : row[k] = SumProducts(y, Column(problem.D, k, m), m)
      /\ row[n + 1] = SumProducts(y, problem.r, m)
    BY Blocks
<1>3. \A k \in 1..m : y[k] = row[n + 1 + k]
    OBVIOUS
<1> HIDE DEF y, row, w
<1>4. row \in Seq(Fractions) /\ Len(row) = w
    BY <1>1, <1>2, RowIsSeq
<1>5. SubSeq(row, n + 2, n + 1 + m) = y
    <2> DEFINE s == SubSeq(row, n + 2, n + 1 + m)
    <2>1. s = [k \in 1..m |-> row[n + 1 + k]]
        BY <1>1, <1>4
    <2>2. y = [k \in 1..m |-> y[k]]
        BY <1>2 DEF FractionRow
    <2> QED
        BY <1>3, <2>1, <2>2
<1>6. SubSeq(row, 1, n) = [k \in 1..n |-> row[k]]
    BY <1>1, <1>4
<1>7. /\ row_vec_mat(y, problem.D) = [k \in 1..n |-> SumProducts(y, Column(problem.D, k, m), m)]
      /\ dot(y, problem.r) = SumProducts(y, problem.r, m)
    BY <1>1, <1>2, ProductsOf DEF m, n
<1>8. SubSeq(row, 1, n) = row_vec_mat(y, problem.D)
    BY <1>2, <1>6, <1>7
<1> QED
    BY <1>2, <1>5, <1>7, <1>8 DEF row

(***************************************************************************)
(* The loop invariant of the elimination, for matrices of every shape: the *)
(* matrix behind col is reduced, and the identity block of                 *)
(* repair_or_separate has followed every operation on the rows.            *)
(***************************************************************************)
THEOREM LoopInvariantHolds == Spec => []LoopInvariant
<1>1. IndInv => LoopInvariant
    BY InvImpliesType, InvImpliesReduced, InvImpliesTracking DEF LoopInvariant
<1> QED
    BY <1>1, Inductive, PTL

----------------------------------------------------------------------------
(* The answers.                                                            *)

LEMMA Finished ==
    ASSUME IndInv, ~(col <= n /\ pivot_row < m)
    PROVE  /\ Echelon(State, m, Width(problem), n)
           /\ Eliminated(Augmented(problem), n) = State
<1> DEFINE w == Width(problem)
           A == Augmented(problem)
<1>1. /\ m \in Nat /\ n \in Nat /\ w \in Nat /\ n <= w
      /\ col - 1 \in Nat /\ col - 1 <= n /\ col \in Int
      /\ Echelon(State, m, w, col - 1)
    BY StateIs DEF IndInv
<1>2. RunsTo(A, col - 1, State)
    BY DEF IndInv
<1>3. CASE col > n
    <2>1. col - 1 = n
        BY <1>1, <1>3
    <2> QED
        BY <1>1, <1>2, <2>1, RunsToEnd
<1>4. CASE ~(col > n)
    <2> DEFINE c == col - 1
    <2>1. Len(State.pivots) = m
        <3>1. pivot_row \in Nat /\ pivot_row <= m
            BY <1>1, StateFields DEF Echelon
        <3>2. ~(pivot_row < m)
            BY <1>1, <1>4
        <3> QED
            BY <1>1, <3>1, <3>2, StateFields
    <2>2. c \in Nat /\ c <= n /\ c \in 0..n /\ Echelon(State, m, w, c) /\ RunsTo(A, c, State)
        BY <1>1, <1>2
    <2> HIDE DEF c, w, A
    <2>3. Echelon(State, m, w, n) /\ \A k \in 1..n : k > c => Eliminate(State, k) = State
        BY <1>1, <2>1, <2>2, EchelonDone
    <2>4. RunsTo(A, n, State)
        BY <1>1, <2>2, <2>3, RunsToRest
    <2>5. Eliminated(A, n) = State
        BY <1>1, <2>4, RunsToEnd
    <2> QED
        BY <2>3, <2>5 DEF w, A
<1> QED
    BY <1>3, <1>4

LEMMA ContradictionsAre ==
    /\ Contradictions = {} <=> \A i \in 1..m : ~Contradictory(aug[i], n)
    /\ Contradictions # {} => \E i \in 1..m : Contradictory(aug[i], n)
    /\ Contradictions \subseteq 1..m
    /\ \A i \in Contradictions : Contradictory(aug[i], n)
    BY DEF Contradictions, Contradiction, Contradictory

\* The equations, behind the identity block if there is one.
LEMMA EquationsAre ==
    ASSUME NEW p \in Problems, p.task # "nullspace"
    PROVE  /\ Rectangular(p.D) /\ Vector(p.r, Len(p.D)) /\ Len(p.r) = Len(p.D) /\ p.r \in Seq(Fractions)
           /\ Augmented(p) \in [1..Len(p.D) -> FractionRow(Width(p))]
           /\ \A i \in 1..Len(p.D) : /\ Augmented(p)[i][columns(p.D) + 1] = p.r[i]
                                     /\ \A k \in 1..columns(p.D) : Augmented(p)[i][k] = p.D[i][k]
<1>1. Rectangular(p.D) /\ Len(p.r) = Len(p.D) /\ p.r \in Seq(Fractions)
    BY ProblemShape
<1>2. Vector(p.r, Len(p.D))
    BY <1>1 DEF Vector
<1> QED
    BY <1>1, <1>2, AugmentedIs, AugmentedRow

LEMMA RepairReadOff ==
    ASSUME IndInv, ~(col <= n /\ pivot_row < m), problem.task # "nullspace"
    PROVE  Repair \in FractionRow(n) /\ Spread(State, RightSides(State, n), Repair, n)
<1> DEFINE w == Width(problem)
           e == State
           j == [c \in 1..n |-> PivotOf(c)]
           b == Repair
<1>1. m \in Nat /\ n \in Nat /\ w \in Nat /\ n < w /\ Echelon(e, m, w, n)
    BY StateIs, Finished
<1>2. \A c \in 1..n : IsPivot(e, c) => j[c] \in 1..Len(e.pivots) /\ e.pivots[j[c]] = c
    <2> SUFFICES ASSUME NEW c \in 1..n, IsPivot(e, c)
                 PROVE  j[c] \in 1..Len(e.pivots) /\ e.pivots[j[c]] = c
        OBVIOUS
    <2>1. PivotOf(c) \in 1..pivot_row /\ pivot_cols[PivotOf(c)] = c
        BY PivotsAre
    <2> QED
        BY <2>1, StateFields
<1>3. b = [c \in 1..n |-> IF IsPivot(e, c) THEN e.rows[j[c]][n + 1] ELSE Zero]
    <2>1. \A c \in 1..n : IsPivot(e, c) <=> c \in Pivots
        BY PivotsAre
    <2>2. \A c \in 1..n : e.rows[j[c]] = aug[PivotOf(c)]
        BY StateFields
    <2> HIDE DEF e, j
    <2> QED
        BY <2>1, <2>2 DEF Repair
<1> HIDE DEF e, j, w, b
<1>4. b \in FractionRow(n) /\ Spread(e, [i \in 1..Len(e.pivots) |-> e.rows[i][n + 1]], b, n)
    BY <1>1, <1>2, <1>3, ReadOff
<1> QED
    BY <1>4 DEF RightSides, e, b

LEMMA RepairSolves ==
    ASSUME IndInv, ~(col <= n /\ pivot_row < m), problem.task # "nullspace", Contradictions = {}
    PROVE  Repair \in FractionRow(n) /\ mat_vec(problem.D, Repair) = problem.r
<1> DEFINE w == Width(problem)
           A == Augmented(problem)
           e == State
           b == Repair
           M == problem.D
           rhs == problem.r
<1>1. m \in Nat /\ n \in Nat /\ w \in Nat /\ n < w /\ Echelon(e, m, w, n) /\ SameSpaces(A, e.rows, m, w)
    BY StateIs, Finished, StateFields
<1>2. b \in FractionRow(n) /\ Spread(e, RightSides(e, n), b, n)
    BY RepairReadOff
<1>3. \A i \in 1..m : ~Contradictory(e.rows[i], n)
    BY ContradictionsAre, StateFields
<1>4. \A i \in 1..Len(e.pivots) : RightSides(e, n)[i] = e.rows[i][n + 1]
    BY DEF RightSides
<1>5. /\ Rectangular(M) /\ Len(rhs) = Len(M) /\ rhs \in Seq(Fractions)
      /\ A \in [1..Len(M) -> FractionRow(w)]
      /\ \A i \in 1..Len(M) : /\ A[i][columns(M) + 1] = rhs[i]
                              /\ \A k \in 1..columns(M) : A[i][k] = M[i][k]
    BY EquationsAre DEF IndInv
<1>6. m = Len(M) /\ n = columns(M)
    BY DEF m, n
<1> HIDE DEF w, A, e, b, M, rhs
<1>7. \A i \in 1..m : e.rows[i] \in Satisfied(b, n, w)
    BY <1>1, <1>2, <1>3, <1>4, PivotsSolve
<1> DEFINE R == e.rows
<1>8. Writes(A, M, rhs, w) /\ SameSpaces(A, R, Len(M), w) /\ b \in FractionRow(columns(M))
    BY <1>1, <1>2, <1>5, <1>6 DEF Writes
<1>9. SatisfiesAll(b, R, Len(M), columns(M), w)
    BY <1>6, <1>7 DEF SatisfiesAll
<1> HIDE DEF R
<1>10. mat_vec(M, b) = rhs
    BY <1>8, <1>9, SolutionsKept
<1> QED
    BY <1>2, <1>10 DEF b, M, rhs

LEMMA FirstIn ==
    ASSUME NEW S \in SUBSET Nat, S # {}
    PROVE  First(S) \in S
    BY LeastOf DEF First

LEMMA SeparatorRefutesAll ==
    ASSUME IndInv, problem.task = "decide", Contradictions # {}
    PROVE  Refutes(Separator, problem.D, problem.r, m, n)
<1> DEFINE i == First(Contradictions)
           u == aug[i]
           y == [k \in 1..m |-> u[n + 1 + k]]
           M == problem.D
           rhs == problem.r
           w == Width(problem)
<1>1. m \in Nat /\ n \in Nat /\ w = n + 1 + m /\ problem \in Problems /\ n < w /\ w \in Nat
    BY StateIs DEF Width, IndInv, m, n
<1>2. i \in 1..m /\ Contradictory(u, n)
    <2>1. Contradictions \in SUBSET Nat
        BY <1>1, ContradictionsAre
    <2>2. i \in Contradictions
        BY <2>1, FirstIn
    <2> QED
        BY <2>2, ContradictionsAre
<1>3. /\ u \in FractionRow(w) /\ y \in FractionRow(m)
      /\ \A k \in 1..n : u[k] = SumProducts(y, Column(M, k, m), m)
      /\ u[n + 1] = SumProducts(y, rhs, m)
    <2> HIDE DEF i
    <2> QED
        BY <1>2, Blocks
<1>4. Separator = [k \in 1..m |-> Over(y[k], u[n + 1])]
    BY DEF Separator
<1>5. \A l \in 1..m : rhs[l] \in Fractions /\ \A k \in 1..n : M[l][k] \in Fractions
    <2>1. Rectangular(M) /\ Vector(rhs, m) /\ m = Len(M) /\ n = columns(M)
        BY <1>1, EquationsAre DEF m, n
    <2>2. Matrix(M, m, n)
        BY <2>1, Shape
    <2> QED
        BY <2>1, <2>2 DEF Matrix, Vector
<1> HIDE DEF i, u, y, M, rhs, w
<1>6. Refutes(Separator, M, rhs, m, n)
    BY <1>1, <1>2, <1>3, <1>4, <1>5, RefutesScaled
<1> QED
    BY <1>6 DEF M, rhs

\* What refutes a problem, in the code's terms.
LEMMA RefutesIs ==
    ASSUME NEW p \in Problems, p.task # "nullspace",
           NEW y, Refutes(y, p.D, p.r, Len(p.D), columns(p.D))
    PROVE  Len(y) = Len(p.D) /\ is_zero(row_vec_mat(y, p.D)) /\ dot(y, p.r) = One
<1>1. Len(p.D) \in Nat /\ columns(p.D) \in Nat /\ y \in FractionRow(Len(p.D))
    BY ProblemShape DEF Refutes
<1>2. Len(y) = Len(p.D)
    BY <1>1, RowIsSeq
<1>3. /\ row_vec_mat(y, p.D)
           = [k \in 1..columns(p.D) |-> SumProducts(y, Column(p.D, k, Len(p.D)), Len(p.D))]
      /\ dot(y, p.r) = SumProducts(y, p.r, Len(p.D))
    BY <1>1, ProductsOf
<1>4. is_zero(row_vec_mat(y, p.D))
    BY <1>1, <1>3 DEF is_zero, Refutes
<1> QED
    BY <1>2, <1>3, <1>4 DEF Refutes

LEMMA InvImpliesWitness == IndInv => WitnessRight
<1> SUFFICES ASSUME IndInv PROVE WitnessRight
    OBVIOUS
<1>0. m \in Nat /\ n \in Nat
    BY StateIs
<1>1. ASSUME result.kind = "repair"
      PROVE  Len(result.witness) = n /\ mat_vec(problem.D, result.witness) = problem.r
    <2>1. /\ ~(col <= n /\ pivot_row < m) /\ problem.task # "nullspace" /\ Contradictions = {}
          /\ result.witness = Repair
        BY <1>1 DEF IndInv, Answered
    <2>2. Repair \in FractionRow(n) /\ mat_vec(problem.D, Repair) = problem.r
        BY <2>1, RepairSolves
    <2> QED
        BY <1>0, <2>1, <2>2, RowIsSeq
<1>2. ASSUME result.kind = "separator"
      PROVE  /\ Len(result.witness) = m
             /\ is_zero(row_vec_mat(result.witness, problem.D))
             /\ dot(result.witness, problem.r) = One
    <2>1. problem.task = "decide" /\ Contradictions # {} /\ result.witness = Separator
        BY <1>2 DEF IndInv, Answered
    <2>2. Refutes(Separator, problem.D, problem.r, Len(problem.D), columns(problem.D))
        BY <2>1, SeparatorRefutesAll DEF m, n
    <2> QED
        BY <2>1, <2>2, RefutesIs DEF IndInv, m
<1> QED
    BY <1>1, <1>2 DEF WitnessRight

\* A refusal of solve_over_Q: some combination of the equations says 0 = 1.
LEMMA RefusalRefuted ==
    ASSUME IndInv, problem.task # "nullspace", Contradictions # {}
    PROVE  \E y : Refutes(y, problem.D, problem.r, m, n)
<1> DEFINE w == Width(problem)
           A == Augmented(problem)
           M == problem.D
           rhs == problem.r
           R == aug
<1>1. m \in Nat /\ n \in Nat /\ w \in Nat /\ n < w /\ problem \in Problems /\ SameSpaces(A, R, m, w)
    BY StateIs DEF IndInv
<1>2. PICK i \in 1..m : Contradictory(R[i], n)
    BY ContradictionsAre
<1>3. /\ A \in [1..m -> FractionRow(w)]
      /\ \A l \in 1..m : A[l][n + 1] = rhs[l] /\ \A k \in 1..n : A[l][k] = M[l][k]
    BY <1>1, EquationsAre DEF m, n
<1> HIDE DEF w, A, M, rhs
<1>4. \E y : Refutes(y, M, rhs, m, n)
    BY <1>1, <1>2, <1>3, Refutable
<1> QED
    BY <1>4 DEF M, rhs

\* The separators of a problem are the solutions of the transposed system.
LEMMA RefutesAsSolution ==
    ASSUME NEW p \in Problems, p.task = "solve", Len(p.D) # 0
    PROVE  LET T == transpose(Augmented(p))
               u == Unit(columns(p.D) + 1, columns(p.D) + 1)
           IN /\ Rectangular(T) /\ columns(T) = Len(p.D)
              /\ u \in Seq(Fractions) /\ Len(u) = Len(T) /\ Vector(u, Len(T))
              /\ \A y \in FractionRow(Len(p.D)) :
                    mat_vec(T, y) = u <=> Refutes(y, p.D, p.r, Len(p.D), columns(p.D))
<1> DEFINE mm == Len(p.D)
           nn == columns(p.D)
           w == nn + 1
           A == Augmented(p)
           T == transpose(A)
           u == Unit(w, w)
<1>1. /\ mm \in Nat /\ nn \in Nat /\ w \in Nat /\ mm # 0 /\ A \in [1..mm -> FractionRow(w)]
      /\ \A i \in 1..mm : A[i][w] = p.r[i] /\ \A k \in 1..nn : A[i][k] = p.D[i][k]
    <2>1. Width(p) = w
        BY ProblemShape DEF Width
    <2> QED
        BY <2>1, ProblemShape, EquationsAre
<1>2. A = [i \in 1..mm |-> A[i]] /\ Len(A) = mm
    <2>1. A = [i \in 1..mm |-> A[i]]
        BY DEF Augmented
    <2> HIDE DEF A, mm
    <2> QED
        BY <1>1, <2>1
<1> HIDE DEF A, mm, nn
<1>3. columns(A) = w
    <2>1. A # <<>> /\ A[1] \in FractionRow(w)
        BY <1>1, <1>2
    <2> HIDE DEF w
    <2>2. Len(A[1]) = w
        BY <1>1, <2>1, RowIsSeq
    <2> QED
        BY <2>1, <2>2 DEF columns
<1>4. T = [j \in 1..w |-> Column(A, j, mm)]
    BY <1>2, <1>3 DEF transpose, Column
<1>5. \A j \in 1..w : Column(A, j, mm) \in FractionRow(mm)
    BY <1>1 DEF Column, FractionRow
<1>6. \A j \in 1..w : T[j] \in Seq(Fractions) /\ Len(T[j]) = mm
    BY <1>1, <1>4, <1>5, RowIsSeq
<1>7. Len(T) = w /\ T \in Seq(Seq(Fractions)) /\ T # <<>>
    <2> HIDE DEF T
    <2>1. T = [j \in 1..w |-> T[j]]
        BY <1>4
    <2>2. w \in Nat /\ w # 0
        BY <1>1
    <2> HIDE DEF w
    <2>3. T \in [1..w -> Seq(Fractions)]
        BY <1>6, <2>1
    <2> QED
        BY <2>2, <2>3
<1>8. columns(T) = mm /\ Rectangular(T)
    <2> HIDE DEF T
    <2>1. columns(T) = mm
        BY <1>1, <1>6, <1>7 DEF columns
    <2> QED
        BY <1>6, <1>7, <2>1 DEF Rectangular
<1>9. u \in FractionRow(w) /\ u = [j \in 1..w |-> IF j = w THEN One ELSE Zero]
    BY ZeroOne DEF Unit, FractionRow
<1>10. u \in Seq(Fractions) /\ Len(u) = Len(T) /\ Vector(u, Len(T))
    <2> HIDE DEF u, T, w
    <2> QED
        BY <1>1, <1>7, <1>9, RowIsSeq DEF Vector, FractionRow
<1>11. ASSUME NEW y \in FractionRow(mm)
       PROVE  mat_vec(T, y) = u <=> Refutes(y, p.D, p.r, mm, nn)
    <2>1. Len(y) = mm /\ \A k \in 1..mm : y[k] \in Fractions
        BY <1>1, RowIsSeq DEF FractionRow
    <2>2. mat_vec(T, y) = [j \in 1..w |-> SumProducts(T[j], y, mm)]
        BY <1>7, <2>1 DEF mat_vec
    <2>3. \A j \in 1..w : SumProducts(T[j], y, mm) = SumProducts(y, Column(A, j, mm), mm)
        <3> SUFFICES ASSUME NEW j \in 1..w
                     PROVE  SumProducts(T[j], y, mm) = SumProducts(y, Column(A, j, mm), mm)
            OBVIOUS
        <3> DEFINE v == Column(A, j, mm)
        <3>1. T[j] = v /\ \A k \in 1..mm : v[k] \in Fractions
            BY <1>4, <1>5 DEF FractionRow
        <3> HIDE DEF v, T
        <3> QED
            BY <1>1, <2>1, <3>1, ProductsCommute DEF v
    <2>4. \A j \in 1..nn : Column(A, j, mm) = Column(p.D, j, mm)
        BY <1>1 DEF Column
    <2>5. SumProducts(y, Column(A, w, mm), mm) = SumProducts(y, p.r, mm)
        <3> DEFINE v == Column(A, w, mm)
        <3> DEFINE rhs == p.r
        <3>1. \A k \in 1..mm : v[k] = rhs[k]
            BY <1>1 DEF Column
        <3> HIDE DEF v, rhs
        <3>2. SumProducts(y, v, mm) = SumProducts(y, rhs, mm)
            BY <1>1, <3>1, ProductsCongruent
        <3> QED
            BY <3>2 DEF v, rhs
    <2>6. mat_vec(T, y) = u <=> \A j \in 1..w : SumProducts(y, Column(A, j, mm), mm) = IF j = w THEN One ELSE Zero
        BY <1>9, <2>2, <2>3
    <2>7. mat_vec(T, y) = u <=> /\ \A j \in 1..nn : SumProducts(y, Column(A, j, mm), mm) = Zero
                                /\ SumProducts(y, Column(A, w, mm), mm) = One
        BY <1>1, <2>6
    <2> QED
        BY <2>4, <2>5, <2>7 DEF Refutes
<1> HIDE DEF T, u
<1> QED
    BY <1>8, <1>10, <1>11 DEF T, u, mm, nn, A, w

LEMMA InvImpliesRefusal == IndInv => NoFalseRefusal
<1> SUFFICES ASSUME IndInv, result.kind = "none"
             PROVE  \E y \in solve_over_Q(transpose(Augmented(problem)), Unit(n + 1, n + 1)) :
                       is_zero(row_vec_mat(y, problem.D)) /\ dot(y, problem.r) = One
    BY DEF NoFalseRefusal
<1> DEFINE T == transpose(Augmented(problem))
           u == Unit(n + 1, n + 1)
<1>1. problem.task = "solve" /\ Contradictions # {} /\ problem \in Problems
    BY DEF IndInv, Answered
<1>2. m \in Nat /\ m # 0
    BY <1>1, StateIs, ContradictionsAre
<1>3. PICK z : Refutes(z, problem.D, problem.r, m, n)
    BY <1>1, RefusalRefuted
<1>4. /\ Rectangular(T) /\ columns(T) = m
      /\ u \in Seq(Fractions) /\ Len(u) = Len(T) /\ Vector(u, Len(T))
      /\ \A y \in FractionRow(m) : mat_vec(T, y) = u <=> Refutes(y, problem.D, problem.r, m, n)
    BY <1>1, <1>2, RefutesAsSolution DEF m, n
<1> HIDE DEF T, u
<1>5. z \in FractionRow(columns(T)) /\ mat_vec(T, z) = u
    BY <1>3, <1>4 DEF Refutes
<1>6. Solvable(T, u)
    BY <1>4, <1>5, SolvesExactly
<1>7. PICK y \in solve_over_Q(T, u) : TRUE
    BY <1>6 DEF Solvable
<1>8. y \in FractionRow(m) /\ mat_vec(T, y) = u
    BY <1>4, <1>7, SolvesExactly
<1>9. Refutes(y, problem.D, problem.r, Len(problem.D), columns(problem.D))
    BY <1>4, <1>8 DEF m, n
<1>10. is_zero(row_vec_mat(y, problem.D)) /\ dot(y, problem.r) = One
    BY <1>1, <1>9, RefutesIs
<1> QED
    BY <1>7, <1>10 DEF T, u

\* The narrow matrix of solve_over_Q and the wide one of repair_or_separate.
LEMMA Same ==
    ASSUME IndInv, ~(col <= n /\ pivot_row < m), problem.task # "nullspace"
    PROVE  solve_over_Q(problem.D, problem.r) = IF Contradictions = {} THEN {Repair} ELSE {}
<1> DEFINE w == Width(problem)
           V == n + 1
           A == Augmented(problem)
           M == problem.D
           rhs == problem.r
           B == [i \in 1..m |-> Append(M[i], rhs[i])]
           e == State
           f == Eliminated(B, n)
<1>1. /\ m \in Nat /\ n \in Nat /\ w \in Nat /\ V \in Nat /\ n < V /\ n <= V /\ V <= w
      /\ problem \in Problems /\ Echelon(e, m, w, n) /\ Eliminated(A, n) = e
    BY StateIs, Finished DEF IndInv
<1>2. Rectangular(M) /\ Len(rhs) = m /\ rhs \in Seq(Fractions) /\ m = Len(M) /\ n = columns(M)
    BY <1>1, EquationsAre DEF m, n
<1>3. \A i \in 1..m : M[i] \in Seq(Fractions) /\ Len(M[i]) = n /\ rhs[i] \in Fractions
    BY <1>2 DEF Rectangular
<1>4. /\ A \in [1..m -> FractionRow(w)]
      /\ \A i \in 1..m : A[i][n + 1] = rhs[i] /\ \A k \in 1..n : A[i][k] = M[i][k]
    BY <1>1, EquationsAre DEF m, n
<1>5. solve_over_Q(M, rhs) = Solution(f, n)
    BY <1>2 DEF solve_over_Q
<1> HIDE DEF w, A, M, rhs
<1>6. \A i \in 1..m : /\ B[i] \in FractionRow(V) /\ B[i][n + 1] = rhs[i]
                      /\ \A k \in 1..n : B[i][k] = M[i][k]
    <2> SUFFICES ASSUME NEW i \in 1..m
                 PROVE  /\ B[i] \in FractionRow(V) /\ B[i][n + 1] = rhs[i]
                        /\ \A k \in 1..n : B[i][k] = M[i][k]
        OBVIOUS
    <2>1. B[i] = Append(M[i], rhs[i])
        OBVIOUS
    <2> HIDE DEF B
    <2> QED
        BY <1>1, <1>3, <2>1, AppendRow
<1>7. B \in [1..m -> FractionRow(V)]
    BY <1>6
<1> HIDE DEF B
<1>8. \A i \in 1..m : \A k \in 1..V : A[i][k] = B[i][k]
    <2>1. \A k \in 1..V : k \in 1..n \/ k = n + 1
        BY <1>1
    <2> QED
        BY <1>4, <1>6, <2>1
<1> HIDE DEF V
<1>9. Agrees(e, f, m, V)
    BY <1>1, <1>4, <1>7, <1>8, EliminatedCut
<1>10. Echelon(f, m, V, n)
    BY <1>1, <1>7, EliminatedIs
<1> HIDE DEF e, f
<1>11. /\ Solution(f, n) = IF \E i \in 1..m : Contradictory(f.rows[i], n) THEN {} ELSE {Found(f, n)}
       /\ Found(f, n) \in FractionRow(n)
       /\ Spread(f, RightSides(f, n), Found(f, n), n)
    BY <1>1, <1>10, SolutionIs
<1>12. \A i \in 1..m : Contradictory(f.rows[i], n) <=> Contradictory(aug[i], n)
    <2>1. \A i \in 1..m : \A k \in 1..(n + 1) : aug[i][k] = f.rows[i][k]
        BY <1>9, StateFields DEF Agrees, V, e
    <2> QED
        BY <1>1, <2>1 DEF Contradictory
<1>13. (\E i \in 1..m : Contradictory(f.rows[i], n)) <=> Contradictions # {}
    BY <1>12, ContradictionsAre
<1>14. Repair \in FractionRow(n) /\ Spread(e, RightSides(e, n), Repair, n)
    BY RepairReadOff DEF e
<1>15. e.pivots = f.pivots
    BY <1>9 DEF Agrees
<1>16. RightSides(e, n) = RightSides(f, n)
    <2>1. EchelonShape(e, m, w, n)
        BY <1>1, EchelonParts
    <2>2. \A i \in 1..Len(e.pivots) : i \in 1..m
        BY <1>1, <2>1 DEF EchelonShape
    <2>3. n + 1 \in 1..V
        BY <1>1 DEF V
    <2> QED
        BY <1>9, <1>15, <2>2, <2>3 DEF RightSides, Agrees
<1>17. \A c \in 1..n : Repair[c] = Found(f, n)[c]
    <2> DEFINE t == RightSides(f, n)
               a == Repair
               b == Found(f, n)
    <2>1. Spread(e, t, a, n) /\ Spread(f, t, b, n)
        BY <1>11, <1>14, <1>16
    <2> HIDE DEF t, a, b
    <2> QED
        BY <1>1, <1>15, <2>1, SpreadUnique DEF a, b
<1>18. Repair = Found(f, n)
    <2>1. Repair = [c \in 1..n |-> Repair[c]]
        BY <1>14 DEF FractionRow
    <2>2. Found(f, n) = [c \in 1..n |-> Found(f, n)[c]]
        BY <1>11 DEF FractionRow
    <2> QED
        BY <1>17, <2>1, <2>2
<1> QED
    BY <1>5, <1>11, <1>13, <1>18 DEF M, rhs

LEMMA InvImpliesDefined == IndInv => AsDefined
<1> SUFFICES ASSUME IndInv PROVE AsDefined
    OBVIOUS
<1>1. ASSUME result.kind = "repair" PROVE solve_over_Q(problem.D, problem.r) = {result.witness}
    <2>1. /\ ~(col <= n /\ pivot_row < m) /\ problem.task # "nullspace" /\ Contradictions = {}
          /\ result.witness = Repair
        BY <1>1 DEF IndInv, Answered
    <2> QED
        BY <2>1, Same
<1>2. ASSUME result.kind \in {"none", "separator"} PROVE solve_over_Q(problem.D, problem.r) = {}
    <2>1. ~(col <= n /\ pivot_row < m) /\ problem.task # "nullspace" /\ Contradictions # {}
        BY <1>2 DEF IndInv, Answered
    <2> QED
        BY <2>1, Same
<1> QED
    BY <1>1, <1>2 DEF AsDefined

(***************************************************************************)
(* Every answer of the solving routines, for every problem: a repair       *)
(* solves the equations, a separator refutes them, a refusal hides a       *)
(* separator, and the loop that carries the identity block and the one     *)
(* that does not agree.                                                    *)
(***************************************************************************)
THEOREM AnswerRightHolds == Spec => []AnswerRight
<1>1. IndInv => AnswerRight
    BY InvImpliesWitness, InvImpliesRefusal, InvImpliesDefined DEF AnswerRight
<1> QED
    BY <1>1, Inductive, PTL

----------------------------------------------------------------------------
(* The kernel.                                                             *)

LEMMA NarrowMatrix ==
    ASSUME NEW p \in Problems, p.task = "nullspace"
    PROVE  Augmented(p) = p.D /\ Width(p) = columns(p.D)
<1>1. Augmented(p) = [i \in 1..Len(p.D) |-> (p.D[i] \o <<>>) \o <<>>]
    BY DEF Augmented
<1>2. \A i \in 1..Len(p.D) : p.D[i] \in Seq(Fractions)
    BY ProblemShape
<1>3. \A i \in 1..Len(p.D) : (p.D[i] \o <<>>) \o <<>> = p.D[i]
    <2> SUFFICES ASSUME NEW i \in 1..Len(p.D) PROVE (p.D[i] \o <<>>) \o <<>> = p.D[i]
        OBVIOUS
    <2> DEFINE v == p.D[i]
    <2>1. v \in Seq(Fractions)
        BY <1>2
    <2> HIDE DEF v
    <2>2. (v \o <<>>) \o <<>> = v
        BY <2>1
    <2> QED
        BY <2>2 DEF v
<1>4. p.D = [i \in 1..Len(p.D) |-> p.D[i]]
    BY ProblemShape
<1>5. Width(p) = columns(p.D)
    BY ProblemShape DEF Width
<1> QED
    BY <1>1, <1>3, <1>4, <1>5

LEMMA BasisReadOff ==
    ASSUME IndInv, ~(col <= n /\ pivot_row < m), problem.task = "nullspace"
    PROVE  BasisAt(State, Basis, n) /\ \A f \in 1..n : f \in DOMAIN Basis <=> ~IsPivot(State, f)
<1> DEFINE e == State
<1>1. m \in Nat /\ n \in Nat /\ Width(problem) = n /\ Echelon(e, m, n, n) /\ problem \in Problems
    BY StateIs, Finished, NarrowMatrix DEF IndInv, n
<1>2. \A f \in 1..n : f \in DOMAIN Basis <=> ~IsPivot(State, f)
    BY PivotsAre DEF Basis
<1>3. /\ e.rows \in [1..m -> FractionRow(n)] /\ Len(e.pivots) \in Nat /\ Len(e.pivots) <= m
      /\ \A i \in 1..Len(e.pivots) : e.pivots[i] \in 1..n
    <2> HIDE DEF e
    <2>1. EchelonShape(e, m, n, n)
        BY <1>1, EchelonParts
    <2> QED
        BY <2>1 DEF EchelonShape
<1>4. ASSUME NEW f \in 1..n, ~IsPivot(e, f)
      PROVE  /\ Basis[f] \in FractionRow(n) /\ Basis[f][f] = One
             /\ \A i \in 1..Len(e.pivots) : Basis[f][e.pivots[i]] = Times(MinusOne, e.rows[i][f])
             /\ \A c \in 1..n : ~IsPivot(e, c) /\ c # f => Basis[f][c] = Zero
    <2> DEFINE b == Basis[f]
    <2>1. b = [c \in 1..n |-> IF c = f THEN One
                              ELSE IF c \in Pivots THEN Times(MinusOne, aug[PivotOf(c)][f])
                              ELSE Zero]
        BY <1>4, PivotsAre DEF Basis
    <2> HIDE DEF b
    <2>2. \A c \in 1..n : c \in Pivots => /\ IsPivot(e, c) /\ c # f
                                          /\ PivotOf(c) \in 1..Len(e.pivots) /\ e.pivots[PivotOf(c)] = c
        BY <1>4, PivotsAre, StateFields
    <2>3. ASSUME NEW c \in 1..n, c \in Pivots
          PROVE  b[c] = Times(MinusOne, e.rows[PivotOf(c)][f]) /\ b[c] \in Fractions
        <3>1. b[c] = Times(MinusOne, aug[PivotOf(c)][f])
            BY <2>1, <2>2, <2>3
        <3>2. e.rows[PivotOf(c)] \in FractionRow(n) /\ e.rows[PivotOf(c)] = aug[PivotOf(c)]
            <4>1. PivotOf(c) \in 1..m
                BY <1>1, <1>3, <2>2, <2>3
            <4> QED
                BY <1>3, <4>1, StateFields
        <3>3. e.rows[PivotOf(c)][f] \in Fractions
            BY <3>2 DEF FractionRow
        <3> QED
            BY <3>1, <3>2, <3>3, FractionsClosed, MinusOneIs
    <2>4. ASSUME NEW i \in 1..Len(e.pivots) PROVE b[e.pivots[i]] = Times(MinusOne, e.rows[i][f])
        <3> DEFINE c == e.pivots[i]
        <3>1. c \in 1..n /\ IsPivot(e, c)
            BY <1>3 DEF IsPivot
        <3>2. c \in Pivots
            BY <3>1, PivotsAre
        <3>3. PivotOf(c) = i
            <4> DEFINE j == PivotOf(c)
            <4>1. j \in 1..Len(e.pivots) /\ e.pivots[j] = e.pivots[i]
                BY <2>2, <3>1, <3>2
            <4> HIDE DEF j, e
            <4> QED
                BY <1>1, <4>1, PivotUnique DEF j
        <3> QED
            BY <2>3, <3>1, <3>2, <3>3
    <2>5. \A c \in 1..n : b[c] \in Fractions
        BY <2>1, <2>3, ZeroOne
    <2>6. b \in FractionRow(n)
        BY <2>1, <2>5 DEF FractionRow
    <2>7. \A c \in 1..n : ~IsPivot(e, c) /\ c # f => b[c] = Zero
        BY <2>1, PivotsAre
    <2> QED
        BY <2>1, <2>4, <2>6, <2>7 DEF b
<1> QED
    BY <1>2, <1>4 DEF BasisAt

\* For every vector of fractions, not only the small ones.
LEMMA BasisOfKernel ==
    ASSUME IndInv, ~(col <= n /\ pivot_row < m), problem.task = "nullspace"
    PROVE  /\ \A f \in DOMAIN Basis : is_zero(mat_vec(problem.D, Basis[f]))
           /\ \A x \in FractionRow(n) :
                 is_zero(mat_vec(problem.D, x))
                   <=> \A c \in 1..n : x[c] = SumProducts(x, EntriesAt(State, Basis, c, n), n)
           /\ {Basis[f] : f \in DOMAIN Basis}
                = {nullspace_over_Q(problem.D)[k] : k \in DOMAIN nullspace_over_Q(problem.D)}
<1> DEFINE e == State
           A == Augmented(problem)
           M == problem.D
           B == Basis
<1>1. /\ m \in Nat /\ n \in Nat /\ Echelon(e, m, n, n) /\ problem \in Problems
      /\ A = M /\ Eliminated(A, n) = e /\ SameSpaces(A, e.rows, m, n)
    BY StateIs, Finished, NarrowMatrix, StateFields DEF IndInv, n
<1>2. BasisAt(e, B, n) /\ \A f \in 1..n : f \in DOMAIN B <=> ~IsPivot(e, f)
    BY BasisReadOff
<1>3. DOMAIN B \subseteq 1..n
    BY DEF Basis
<1>4. /\ Rectangular(M) /\ m = Len(M) /\ n = columns(M)
      /\ A \in [1..Len(M) -> FractionRow(columns(M))]
    <2>1. Width(problem) = n
        BY <1>1, NarrowMatrix DEF n
    <2> QED
        BY <1>1, <2>1, ProblemShape, AugmentedIs DEF m, n
<1>5. nullspace_over_Q(M) = KernelBasis(e, n)
    BY <1>1, <1>4 DEF nullspace_over_Q
<1>6. /\ e.rows \in [1..m -> FractionRow(n)] /\ DOMAIN e.pivots = 1..Len(e.pivots)
      /\ \A i \in 1..Len(e.pivots) : e.pivots[i] \in 1..n
    <2> HIDE DEF e
    <2>1. EchelonShape(e, m, n, n)
        BY <1>1, EchelonParts
    <2> QED
        BY <2>1 DEF EchelonShape
<1> HIDE DEF e, A, M, B
<1>7. \A x \in FractionRow(n) : is_zero(mat_vec(M, x)) <=> KilledBy(e, x, m, n)
    BY <1>1, <1>4, <1>6, KernelKept
<1>8. ASSUME NEW f \in DOMAIN B PROVE is_zero(mat_vec(M, B[f]))
    <2>1. f \in 1..n /\ ~IsPivot(e, f)
        BY <1>2, <1>3
    <2>2. KilledBy(e, B[f], m, n) /\ B[f] \in FractionRow(n)
        BY <1>1, <1>2, <2>1, BasisKilled DEF BasisAt
    <2> QED
        BY <1>7, <2>2
<1>9. \A x \in FractionRow(n) :
         is_zero(mat_vec(M, x)) <=> \A c \in 1..n : x[c] = SumProducts(x, EntriesAt(e, B, c, n), n)
    BY <1>1, <1>2, <1>7, BasisCombines
<1>10. /\ DOMAIN KernelBasis(e, n) = 1..Len(FreeColumns(e, n))
       /\ \A k \in 1..Len(FreeColumns(e, n)) : KernelBasis(e, n)[k] = B[FreeColumns(e, n)[k]]
    BY <1>1, <1>2, KernelBasisIs
<1>11. /\ FreeColumns(e, n) \in Seq(1..n)
       /\ \A c \in 1..n : PivotRow(e, c) = {} <=> \E k \in 1..Len(FreeColumns(e, n)) : FreeColumns(e, n)[k] = c
    BY <1>1, FreeColumnsAre
<1>12. \A c \in 1..n : c \in DOMAIN B <=> \E k \in 1..Len(FreeColumns(e, n)) : FreeColumns(e, n)[k] = c
    BY <1>2, <1>6, <1>11, SMTT(30) DEF IsPivot, PivotRow
<1> DEFINE free == FreeColumns(e, n)
           listed == KernelBasis(e, n)
<1>13. \A k \in 1..Len(free) : free[k] \in 1..n
    <2>1. free \in Seq(1..n)
        BY <1>11
    <2> DEFINE S == 1..n
    <2> HIDE DEF free, S
    <2>2. free \in Seq(S)
        BY <2>1 DEF S
    <2>3. \A k \in 1..Len(free) : free[k] \in S
        BY <2>2
    <2> QED
        BY <2>3 DEF S
<1> HIDE DEF free, listed
<1>14. {B[f] : f \in DOMAIN B} = {listed[k] : k \in DOMAIN listed}
    <2>1. \A k \in DOMAIN listed : k \in 1..Len(free) /\ free[k] \in DOMAIN B /\ listed[k] = B[free[k]]
        BY <1>10, <1>12, <1>13 DEF free, listed
    <2>2. \A f \in DOMAIN B : \E k \in DOMAIN listed : listed[k] = B[f]
        BY <1>3, <1>10, <1>12 DEF free, listed
    <2> QED
        BY <2>1, <2>2
<1> QED
    BY <1>5, <1>8, <1>9, <1>14 DEF M, B, e, listed

\* The combination that BasisSpansKernel forms.
LEMMA AsCombination ==
    ASSUME IndInv, NEW x \in FractionRow(n), BasisAt(State, Basis, n),
           \A f \in 1..n : f \in DOMAIN Basis <=> ~IsPivot(State, f)
    PROVE  LET s == [c \in 1..n |->
                       Sum([k \in 1..n |-> IF k \in DOMAIN Basis THEN Times(x[k], Basis[k][c]) ELSE Zero])]
           IN x = s <=> \A c \in 1..n : x[c] = SumProducts(x, EntriesAt(State, Basis, c, n), n)
<1> DEFINE B == Basis
           e == State
           t(c) == [k \in 1..n |-> IF k \in DOMAIN B THEN Times(x[k], B[k][c]) ELSE Zero]
           s == [c \in 1..n |-> Sum(t(c))]
<1>1. \A k \in 1..n : x[k] \in Fractions /\ Times(x[k], Zero) = Zero
    BY TimesZero DEF FractionRow
<1>2. ASSUME NEW c \in 1..n PROVE Sum(t(c)) = SumProducts(x, EntriesAt(e, B, c, n), n)
    <2>1. t(c) = [k \in 1..n |-> Times(x[k], EntriesAt(e, B, c, n)[k])]
        <3> HIDE DEF B, e
        <3>1. \A k \in 1..n : (IF k \in DOMAIN B THEN Times(x[k], B[k][c]) ELSE Zero)
                                = Times(x[k], EntriesAt(e, B, c, n)[k])
            BY <1>1 DEF EntriesAt, B, e
        <3> QED
            BY <3>1
    <2> HIDE DEF t, B, e
    <2> QED
        BY <2>1 DEF SumProducts
<1>3. x = [c \in 1..n |-> x[c]]
    BY DEF FractionRow
<1> HIDE DEF t
<1>4. x = s <=> \A c \in 1..n : x[c] = Sum(t(c))
    BY <1>3
<1>5. x = s <=> \A c \in 1..n : x[c] = SumProducts(x, EntriesAt(e, B, c, n), n)
    BY <1>2, <1>4
<1> QED
    BY <1>5 DEF t

LEMMA SmallAreFractions == ASSUME NEW size \in Nat PROVE Small(size) \subseteq FractionRow(size)
<1>1. ASSUME NEW k \in -2..2 PROVE <<k, 1>> \in Fractions
    <2> DEFINE a == Magnitude(k)
    <2>1. a \in Nat /\ a % 1 = 0
        BY DEF Magnitude
    <2> HIDE DEF a
    <2>2. gcd[<<1, 0>>] = 1
        BY GcdRec
    <2>3. gcd[<<a, 1>>] = gcd[<<1, (a % 1)>>]
        BY <2>1, GcdRec
    <2> QED
        BY <2>1, <2>2, <2>3 DEF Fractions, IsFraction, a
<1>2. ASSUME NEW v \in [1..size -> -2..2] PROVE [k \in 1..size |-> <<v[k], 1>>] \in FractionRow(size)
    BY <1>1 DEF FractionRow
<1> QED
    BY <1>2 DEF Small

LEMMA InvImpliesBasis == IndInv => BasisSpansKernel
<1> SUFFICES ASSUME IndInv, result.kind = "basis"
             PROVE  LET B == Basis
                        b == nullspace_over_Q(problem.D)
                        Kernel(x) == is_zero(mat_vec(problem.D, x))
                        Combined(x) ==
                          [c \in 1..n |->
                             Sum([k \in 1..n |-> IF k \in DOMAIN B THEN Times(x[k], B[k][c]) ELSE Zero])]
                    IN /\ \A f \in DOMAIN B : Kernel(B[f])
                       /\ \A x \in Small(n) : Kernel(x) <=> x = Combined(x)
                       /\ {B[f] : f \in DOMAIN B} = {b[k] : k \in DOMAIN b}
    <2>1. ASSUME IndInv, result.kind = "basis" PROVE result.witness = Basis
        BY <2>1 DEF IndInv, Answered
    <2> QED
        BY <2>1 DEF BasisSpansKernel
<1>1. ~(col <= n /\ pivot_row < m) /\ problem.task = "nullspace"
    BY DEF IndInv, Answered
<1>2. Small(n) \subseteq FractionRow(n)
    BY StateIs, SmallAreFractions
<1>3. BasisAt(State, Basis, n) /\ \A f \in 1..n : f \in DOMAIN Basis <=> ~IsPivot(State, f)
    BY <1>1, BasisReadOff
<1>4. /\ \A f \in DOMAIN Basis : is_zero(mat_vec(problem.D, Basis[f]))
      /\ \A x \in FractionRow(n) :
            is_zero(mat_vec(problem.D, x))
              <=> \A c \in 1..n : x[c] = SumProducts(x, EntriesAt(State, Basis, c, n), n)
      /\ {Basis[f] : f \in DOMAIN Basis}
           = {nullspace_over_Q(problem.D)[k] : k \in DOMAIN nullspace_over_Q(problem.D)}
    BY <1>1, BasisOfKernel
<1>5. \A x \in FractionRow(n) :
         is_zero(mat_vec(problem.D, x))
           <=> x = [c \in 1..n |->
                      Sum([k \in 1..n |-> IF k \in DOMAIN Basis THEN Times(x[k], Basis[k][c]) ELSE Zero])]
    BY <1>3, <1>4, AsCombination
<1> QED
    BY <1>2, <1>4, <1>5

(***************************************************************************)
(* nullspace_over_Q returns a basis of the whole kernel, for every matrix. *)
(***************************************************************************)
THEOREM BasisSpansKernelHolds == Spec => []BasisSpansKernel
    BY InvImpliesBasis, Inductive, PTL
=============================================================================
