-------------------------- MODULE RefinementProbes --------------------------
(***************************************************************************)
(* The composition probes. First the ways they build one refinement from   *)
(* others: a further step on a refined complex (subdivide a vertex, insert *)
(* a bridge), two branches side by side over two copies of the coarse      *)
(* complex, and two branches glued along a seam over one copy (names are   *)
(* prefixed as in the code). Then what they compute of two refinements in  *)
(* a row, side by side, along a seam, or given as bare matrices. A search  *)
(* that skips a case returns {}, one that reports it a singleton.          *)
(***************************************************************************)
EXTENDS Refinement, TLC

RangeOf(s) == {s[k] : k \in DOMAIN s}

\* [x for x in s if x not in drop]
Without(s, drop) ==
    LET upto[k \in 0..Len(s)] == IF k = 0 THEN <<>>
                                 ELSE IF s[k] \in drop THEN upto[k - 1] ELSE Append(upto[k - 1], s[k])
    IN upto[Len(s)]

\* Every edge of a complex, over itself.
Lifted(edges) == [k \in DOMAIN edges |-> [edges[k] EXCEPT !.over = edges[k].name, !.sign = One]]

\* Every edge into `target` ends in its incoming half, every edge out of it
\* starts in the outgoing one, and a new edge joins the two.
generic_subdivide(complex, target) ==
    LET a == target \o "_a"
        b == target \o "_b"
        vertices == Without(complex.vertices, {target}) \o <<a, b>>
        half(e) == [e EXCEPT !.src = IF @ = target THEN b ELSE @, !.tgt = IF @ = target THEN a ELSE @]
    IN [vertices |-> vertices,
        edges |-> [k \in DOMAIN complex.edges |-> half(Lifted(complex.edges)[k])]
                    \o <<Edge("s_" \o target, a, b, None, 1)>>,
        vertex_over |-> [v \in RangeOf(vertices) |-> IF v \in {a, b} THEN target ELSE v]]

generic_insert_bridge(complex, v1, v2) ==
    [vertices |-> complex.vertices,
     edges |-> Lifted(complex.edges) \o <<Edge("bridge_" \o v1 \o "_" \o v2, v1, v2, None, 1)>>,
     vertex_over |-> [v \in RangeOf(complex.vertices) |-> v]]

SecondSteps(complex) ==
    {generic_subdivide(complex, v) : v \in RangeOf(complex.vertices)}
    \cup {generic_insert_bridge(complex, complex.vertices[p[1]], complex.vertices[p[2]]) :
            p \in {q \in (1..Len(complex.vertices)) \X (1..Len(complex.vertices)) : q[1] < q[2]}}

----------------------------------------------------------------------------
(* Branches side by side, over two copies of the coarse complex. *)

Prefixed(name) == IF name = None THEN None ELSE "B_" \o name

rename(edges) == [k \in DOMAIN edges |->
    [name |-> Prefixed(edges[k].name), src |-> Prefixed(edges[k].src), tgt |-> Prefixed(edges[k].tgt),
     over |-> Prefixed(edges[k].over), sign |-> edges[k].sign]]

rename_all(names) == [k \in DOMAIN names |-> Prefixed(names[k])]

Unprefixed(v, names) == CHOOSE u \in RangeOf(names) : Prefixed(u) = v

\* The parents of both branches' vertices, branch b's renamed on both sides.
rename_vertex_over(a, b) ==
    [v \in RangeOf(a.vertices) \cup RangeOf(rename_all(b.vertices)) |->
        IF v \in RangeOf(rename_all(b.vertices)) THEN Prefixed(b.vertex_over[Unprefixed(v, b.vertices)])
        ELSE a.vertex_over[v]]

Doubled(coarse) ==
    [vertices |-> coarse.vertices \o rename_all(coarse.vertices),
     edges    |-> coarse.edges \o rename(coarse.edges)]

build_disjoint_parallel(a, b) ==
    [vertices |-> a.vertices \o rename_all(b.vertices),
     edges    |-> a.edges \o rename(b.edges),
     vertex_over |-> rename_vertex_over(a, b),
     z |-> a.z \o b.z]

Negated(w) == [w EXCEPT !.z = [k \in DOMAIN @ |-> Minus(Zero, @[k])]]

----------------------------------------------------------------------------
(* Branches glued along a seam, over one copy of the coarse complex. What  *)
(* the gate compares is branch b as `declared`, which a caller may have    *)
(* made differ from b; what is glued is b.                                 *)

EdgeNamed(w, seam) == CHOOSE k \in DOMAIN w.edges : w.edges[k].name = seam

Ends(edge) == {edge.src, edge.tgt}

\* The gate: the same edge, the same coefficient on it, the same parents.
Compatible(a, declared, seam) ==
    LET ea == a.edges[EdgeNamed(a, seam)]
        eb == declared.edges[EdgeNamed(declared, seam)]
    IN /\ ea = eb
       /\ a.z[EdgeNamed(a, seam)] = declared.z[EdgeNamed(declared, seam)]
       /\ \A v \in Ends(ea) : a.vertex_over[v] = declared.vertex_over[v]

\* Everything of branch b but the seam and its ends is renamed.
rename_except(b, seam, kept) ==
    LET rv(v) == IF v \in kept THEN v ELSE Prefixed(v)
        back(v) == IF v \in kept THEN v ELSE Unprefixed(v, b.vertices)
    IN [vertices |-> [k \in DOMAIN b.vertices |-> rv(b.vertices[k])],
        edges |-> [k \in DOMAIN b.edges |->
            IF b.edges[k].name = seam THEN b.edges[k]
            ELSE [b.edges[k] EXCEPT !.name = Prefixed(@), !.src = rv(@), !.tgt = rv(@)]],
        vertex_over |-> [v \in {rv(u) : u \in RangeOf(b.vertices)} |-> b.vertex_over[back(v)]],
        z |-> b.z]

\* (slip) The seam is taken over from both branches.
Kept_twice(renamed, seam) == [k \in DOMAIN renamed.edges |-> k]

\* The edges that branch b adds: all but the seam, by their place.
Kept(renamed, seam) ==
    Without([k \in DOMAIN renamed.edges |-> k], {k \in DOMAIN renamed.edges : renamed.edges[k].name = seam})

\* {the glued witness}, or {} for a conflict at the interface.
build_coupled_shared_seam(a, b, declared, seam) ==
    IF ~Compatible(a, declared, seam) THEN {}
    ELSE LET renamed == rename_except(b, seam, Ends(a.edges[EdgeNamed(a, seam)]))
             new == Kept(renamed, seam)
         IN {[vertices |-> a.vertices \o Without(renamed.vertices, RangeOf(a.vertices)),
              edges    |-> a.edges \o [k \in DOMAIN new |-> renamed.edges[new[k]]],
              vertex_over |-> [v \in RangeOf(a.vertices) \cup RangeOf(renamed.vertices) |->
                 IF v \in RangeOf(renamed.vertices) THEN renamed.vertex_over[v] ELSE a.vertex_over[v]],
              z |-> a.z \o [k \in DOMAIN new |-> renamed.z[new[k]]]]}

----------------------------------------------------------------------------
(* What the probes compute.                                                *)

check(coarse, r, w) ==
    LET rho == rho_star(coarse, w)
    IN [A3 |-> A3(w), A4 |-> A4(w, mat_vec(rho, r)), pairing |-> Pairing(w, mat_vec(rho, r)),
        N0 |-> N0(coarse, w, rho0_star(coarse, w), rho), E0 |-> E0(coarse, w, rho)]

----------------------------------------------------------------------------
(* coarse -> first -> second, with a cycle z of the second.                *)

composite(coarse, first, second) ==
    [rho  |-> mat_mat(rho_star(first, second), rho_star(coarse, first)),
     rho0 |-> mat_mat(rho0_star(first, second), rho0_star(coarse, first))]

check_step(coarse, r, fine, z) ==
    LET rho == rho_star(coarse, fine)
        pairing == dot(z, mat_vec(rho, r))
    IN [A3 |-> is_zero(row_vec_mat(z, delta0(fine))), A4 |-> pairing # Zero, pairing |-> pairing,
        N0 |-> N0(coarse, fine, rho0_star(coarse, fine), rho)]

\* Both steps and the composite, for the residue r of the coarse complex.
in_a_row(coarse, r, first, second, z) ==
    LET maps == composite(coarse, first, second)
        rho_CQ == rho_star(coarse, first)
        pairing == dot(z, mat_vec(maps.rho, r))
    IN [step1_N0 |-> N0(coarse, first, rho0_star(coarse, first), rho_CQ),
        step2 |-> check_step(first, mat_vec(rho_CQ, r), second, z),
        pairing |-> pairing, A4 |-> pairing # Zero,
        N0 |-> N0(coarse, second, maps.rho0, maps.rho), E0 |-> E0(coarse, second, maps.rho)]

\* search() goes on to the next case unless the second step is safe by itself.
search_case(coarse, r, first, second, z) ==
    {res \in {in_a_row(coarse, r, first, second, z)} : res.step2.A3 /\ res.step2.A4 /\ res.step2.N0}

verify_n0_theorem_consistency(res) == ~(~res.N0 /\ res.step1_N0 /\ res.step2.N0)

\* The second steps worked out by hand, on SUBDIVIDE_U1, each with its cycle.
_second_subdivision ==
    [vertices |-> <<"U1a", "U1b", "U2a", "U2b", "U3", "U4">>,
     edges |-> <<Edge("e12pp", "U1b", "U2a", "e12p", 1), Edge("s2p", "U2a", "U2b", None, 1),
                 Edge("e23p", "U2b", "U3", "e23", 1), Edge("e34", "U3", "U4", "e34", 1),
                 Edge("e14r", "U4", "U1a", "e14r", 1), Edge("s1", "U1a", "U1b", "s1", 1)>>,
     vertex_over |-> [U1a |-> "U1a", U1b |-> "U1b", U2a |-> "U2", U2b |-> "U2", U3 |-> "U3", U4 |-> "U4"],
     z |-> F(<<1, 1, 1, 1, 1, 1>>)]

_bridge_insertion ==
    LET bridged == [vertices |-> SUBDIVIDE_U1.vertices,
                    edges |-> Lifted(SUBDIVIDE_U1.edges) \o <<Edge("b12", "U1b", "U2", None, 1)>>,
                    vertex_over |-> [v \in RangeOf(SUBDIVIDE_U1.vertices) |-> v]]
    IN [vertices |-> bridged.vertices, edges |-> bridged.edges, vertex_over |-> bridged.vertex_over,
        z |-> Z1(bridged)[1]]

----------------------------------------------------------------------------
(* Side by side, and along a seam.                                         *)

run_disjoint(coarse, r, a, b) ==
    [branch_a |-> check(coarse, r, a), branch_b |-> check(coarse, r, b),
     combined |-> check(Doubled(coarse), r \o r, build_disjoint_parallel(a, b))]

\* combined is {} when the branches conflict.
run_coupled(coarse, r, a, b, declared, seam) ==
    [branch_a |-> check(coarse, r, a), branch_b |-> check(coarse, r, b),
     combined |-> {check(coarse, r, g) : g \in build_coupled_shared_seam(a, b, declared, seam)}]

----------------------------------------------------------------------------
(* Phase 5d: is there a partner for w along edge number e so that the      *)
(* pairings cancel?                                                        *)

Combined(coefficients, vectors) ==
    [k \in DOMAIN vectors[1] |-> dot(coefficients, [j \in DOMAIN vectors |-> vectors[j][k]])]

off_seam_directions(basis, e) ==
    IF Len(basis) < 2 THEN <<>>
    ELSE LET coeffs == nullspace_over_Q(<<[j \in DOMAIN basis |-> basis[j][e]]>>)
         IN Computed([k \in DOMAIN coeffs |-> Computed(Combined(coeffs[k], basis))])

\* (slip) The seam's share of the pairing is counted in both branches.
lambda_doubled(w, rho_r, e, direction) ==
    Over(Minus(Zero, Plus(dot(w.z, rho_r), dot(w.z, rho_r))), dot(direction, rho_r))

lambda(w, rho_r, e, direction) ==
    Over(Minus(Times(w.z[e], rho_r[e]), Plus(dot(w.z, rho_r), dot(w.z, rho_r))), dot(direction, rho_r))

\* The partner along the first direction that the residue sees, if any.
Partner(w, rho_r, e) ==
    LET directions == off_seam_directions(Z1(w), e)
        seen == {k \in DOMAIN directions : dot(directions[k], rho_r) # Zero}
    IN {[w EXCEPT !.z = [k \in DOMAIN w.z |->
            Plus(w.z[k], Times(lambda(w, rho_r, e, directions[j]), directions[j][k]))]] :
          j \in {j \in seen : \A i \in seen : j <= i}}

search_witness_edge(coarse, r, w, e) ==
    {run_coupled(coarse, r, w, b, b, w.edges[e].name) : b \in Partner(w, mat_vec(rho_star(coarse, w), r), e)}

----------------------------------------------------------------------------
(* Two steps given as bare matrices, the finer coboundaries being products *)
(* so that (N0) holds. Basis is a basis of cycles of the finer complex.    *)

Reflects(rho, fine, coarse) ==
    \A k \in DOMAIN coarse :
        in_span_over_Q([j \in DOMAIN fine |-> mat_vec(transpose(rho), fine[j])], coarse[k])

CyclesOf(delta) == nullspace_over_Q(transpose(delta))

\* The basis cycles with a non-zero pairing, by their place.
Pairs(delta, r) ==
    {k \in DOMAIN CyclesOf(delta) :
        is_zero(row_vec_mat(CyclesOf(delta)[k], delta)) /\ dot(CyclesOf(delta)[k], r) # Zero}

\* (slip) As the first version did, the second step is taken without its (E0).
build_unreflected(delta_P, rho_PQ, rho_QR, r) ==
    LET delta_Q == mat_mat(rho_PQ, delta_P)
        delta_R == mat_mat(rho_QR, delta_Q)
        rho == mat_mat(rho_QR, rho_PQ)
    IN IF Pairs(delta_Q, mat_vec(rho_PQ, r)) = {} \/ ~Reflects(rho_PQ, CyclesOf(delta_Q), CyclesOf(delta_P))
          \/ Pairs(delta_R, mat_vec(rho_QR, mat_vec(rho_PQ, r))) = {}
         THEN {}
         ELSE {[A4 |-> TRUE, E0 |-> Reflects(rho, CyclesOf(delta_R), CyclesOf(delta_P)),
                rho |-> rho, delta_R |-> delta_R]}

build_witness_and_check(delta_P, rho_PQ, rho_QR, r) ==
    LET delta_Q == mat_mat(rho_PQ, delta_P)
        r_Q == mat_vec(rho_PQ, r)
        delta_R == mat_mat(rho_QR, delta_Q)
        paired == Pairs(delta_R, mat_vec(rho_QR, r_Q))
        z == CyclesOf(delta_R)[CHOOSE k \in paired : \A j \in paired : k <= j]
        rho == mat_mat(rho_QR, rho_PQ)
    IN IF \/ Pairs(delta_Q, r_Q) = {} \/ ~Reflects(rho_PQ, CyclesOf(delta_Q), CyclesOf(delta_P))
          \/ paired = {} \/ ~Reflects(rho_QR, CyclesOf(delta_R), CyclesOf(delta_Q))
         THEN {}
         ELSE {[A4 |-> dot(z, mat_vec(rho, r)) # Zero,
                E0 |-> Reflects(rho, CyclesOf(delta_R), CyclesOf(delta_P)), rho |-> rho, delta_R |-> delta_R]}

\* The loop of exhaustive_search goes into rho_QR only when this holds.
Survives(delta_P, rho_PQ, r) == Pairs(mat_mat(rho_PQ, delta_P), mat_vec(rho_PQ, r)) # {}

associative(D, A, B) == mat_mat(mat_mat(D, A), B) = mat_mat(D, mat_mat(A, B))
=============================================================================
