--------------------------- MODULE MCElimination ---------------------------
EXTENDS Elimination

\* Vectors and matrices of integers, as rationals.
Vec(size, S)    == {[k \in 1..size |-> <<v[k], 1>>] : v \in [1..size -> S]}
Mat(h, w, S)    == [1..h -> Vec(w, S)]
Systems(Ds, rs) == [task : {"solve", "decide"}, D : Ds, r : rs]
Kernels(Ds)     == [task : {"nullspace"}, D : Ds, r : {<<>>}]

\* Every sign pattern of 3x2 and 2x3 (under, over and exactly determined, of
\* every rank), 2x2 with pivots that leave fractions, and the empty shapes.
MCProblems ==
    Systems(Mat(3, 2, -1..1), Vec(3, {0, 1}))
    \cup Systems(Mat(2, 3, -1..1), Vec(2, {0, 1}))
    \cup Systems(Mat(2, 2, {0, 1, 2}), Vec(2, {0, 1, 3}))
    \cup Systems({<<<<>>, <<>>>>}, Vec(2, {0, 1}))
    \cup Systems({<<>>}, {<<>>})
    \cup Kernels(Mat(3, 2, -1..1) \cup Mat(2, 3, {0, 1}) \cup Mat(2, 3, {-1, 1}) \cup {<<>>})
=============================================================================
