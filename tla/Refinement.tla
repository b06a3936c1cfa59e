---------------------------- MODULE Refinement ----------------------------
(***************************************************************************)
(* refinement_checker.py: a refined complex over a coarse one, the maps it *)
(* induces on cochains, and the conditions (A3), (A4), (N0), (E0). A       *)
(* complex is [vertices, edges]; an edge is [name, src, tgt, over, sign],  *)
(* `over` being the coarse edge it lies over, or None. A witness adds      *)
(* vertex_over, the coarse parent of each refined vertex, and z, the       *)
(* declared cycle. C^2 is zero throughout, so (A1) and (A2) say nothing.   *)
(***************************************************************************)
EXTENDS LinearAlgebra

None == ""

coboundary_0(vertices, edges) ==
    Computed([i \in DOMAIN edges |-> Computed([j \in DOMAIN vertices |->
        Minus(IF vertices[j] = edges[i].tgt THEN One ELSE Zero,
              IF vertices[j] = edges[i].src THEN One ELSE Zero)])])

delta0(complex) == coboundary_0(complex.vertices, complex.edges)

pullback_matrix(coarse_edges, refined_edges) ==
    [i \in DOMAIN refined_edges |-> [j \in DOMAIN coarse_edges |->
        IF refined_edges[i].over = coarse_edges[j].name THEN refined_edges[i].sign ELSE Zero]]

vertex_pullback_matrix(coarse_vertices, refined_vertices, vertex_over) ==
    [i \in DOMAIN refined_vertices |-> [j \in DOMAIN coarse_vertices |->
        IF vertex_over[refined_vertices[i]] = coarse_vertices[j] THEN One ELSE Zero]]

rho_star(coarse, w)  == pullback_matrix(coarse.edges, w.edges)
rho0_star(coarse, w) == vertex_pullback_matrix(coarse.vertices, w.vertices, w.vertex_over)

\* A basis of the cycles: the vectors y with y delta0 = 0.
Z1(complex) == nullspace_over_Q(transpose(delta0(complex)))

\* (slip) The entries are added up before they are compared with zero.
A3_total(w) == Sum(row_vec_mat(w.z, delta0(w))) = Zero

A3(w)         == is_zero(row_vec_mat(w.z, delta0(w)))
Pairing(w, r) == dot(w.z, r)
A4(w, r)      == Pairing(w, r) # Zero

\* The two ways around the square, for maps rho0 on vertices and rho on edges.
N0(coarse, fine, rho0, rho) == mat_mat(delta0(fine), rho0) = mat_mat(rho, delta0(coarse))

\* (slip) The other way round: every image is a combination of coarse cycles.
E0_reversed(coarse, fine, rho) ==
    LET cycles == Z1(coarse)
        lifts  == Z1(fine)
        pushed == Computed([k \in DOMAIN lifts |-> Computed(mat_vec(transpose(rho), lifts[k]))])
    IN \A k \in DOMAIN pushed : in_span_over_Q(cycles, pushed[k])

\* Every coarse cycle is the image of a combination of refined ones.
E0(coarse, fine, rho) ==
    LET cycles == Z1(coarse)
        lifts  == Z1(fine)
        pushed == Computed([k \in DOMAIN lifts |-> Computed(mat_vec(transpose(rho), lifts[k]))])
    IN \A k \in DOMAIN cycles : in_span_over_Q(pushed, cycles[k])

(***************************************************************************)
(* check_witness: coarse with its residue r, refined by w. solver is the   *)
(* cross-check by elimination, which feeds into none of the conditions.    *)
(***************************************************************************)
check_witness(coarse, r, w) ==
    LET rho == rho_star(coarse, w)
        fine_r == mat_vec(rho, r)
        a3 == A3(w)
        a4 == A4(w, fine_r)
        n0 == N0(coarse, w, rho0_star(coarse, w), rho)
        e0 == E0(coarse, w, rho)
    IN [A3 |-> a3, A4 |-> a4, N0 |-> n0, E0 |-> e0, pairing |-> Pairing(w, fine_r),
        descent_safe |-> a3 /\ a4 /\ n0, verdict_safe |-> a3 /\ a4 /\ n0 /\ e0,
        solver_not_coboundary |-> ~Solvable(delta0(w), fine_r)]

----------------------------------------------------------------------------
(* refinement_witnesses.py: the coarse four-cycle and its four witnesses.  *)

Edge(name, src, tgt, over, sign) ==
    [name |-> name, src |-> src, tgt |-> tgt, over |-> over, sign |-> <<sign, 1>>]

F(v) == [k \in DOMAIN v |-> <<v[k], 1>>]

COARSE ==
    [vertices |-> <<"U1", "U2", "U3", "U4">>,
     edges |-> <<Edge("e12", "U1", "U2", None, 1), Edge("e23", "U2", "U3", None, 1),
                 Edge("e34", "U3", "U4", None, 1), Edge("e14", "U1", "U4", None, 1)>>,
     residue |-> F(<<1, 1, 1, -2>>), cycle |-> F(<<-1, -1, -1, 1>>)]

\* The walk around the cycle, each edge along it: e14r runs against e14.
SUBDIVIDE_U1 ==
    [vertices |-> <<"U1a", "U1b", "U2", "U3", "U4">>,
     edges |-> <<Edge("e12p", "U1b", "U2", "e12", 1), Edge("e23", "U2", "U3", "e23", 1),
                 Edge("e34", "U3", "U4", "e34", 1), Edge("e14r", "U4", "U1a", "e14", -1),
                 Edge("s1", "U1a", "U1b", None, 1)>>,
     vertex_over |-> [U1a |-> "U1", U1b |-> "U1", U2 |-> "U2", U3 |-> "U3", U4 |-> "U4"],
     z |-> F(<<1, 1, 1, 1, 1>>)]

SUBDIVIDE_U2 ==
    [vertices |-> <<"U1", "U2a", "U2b", "U3", "U4">>,
     edges |-> <<Edge("e12p", "U1", "U2a", "e12", 1), Edge("s2", "U2a", "U2b", None, 1),
                 Edge("e23p", "U2b", "U3", "e23", 1), Edge("e34", "U3", "U4", "e34", 1),
                 Edge("e14r", "U4", "U1", "e14", -1)>>,
     vertex_over |-> [U1 |-> "U1", U2a |-> "U2", U2b |-> "U2", U3 |-> "U3", U4 |-> "U4"],
     z |-> F(<<1, 1, 1, 1, 1>>)]

SUBDIVIDE_ALL ==
    [vertices |-> <<"U1a", "U1b", "U2a", "U2b", "U3a", "U3b", "U4a", "U4b">>,
     edges |-> <<Edge("e12p", "U1b", "U2a", "e12", 1), Edge("s2", "U2a", "U2b", None, 1),
                 Edge("e23p", "U2b", "U3a", "e23", 1), Edge("s3", "U3a", "U3b", None, 1),
                 Edge("e34p", "U3b", "U4a", "e34", 1), Edge("s4", "U4a", "U4b", None, 1),
                 Edge("e14r", "U4b", "U1a", "e14", -1), Edge("s1", "U1a", "U1b", None, 1)>>,
     vertex_over |-> [U1a |-> "U1", U1b |-> "U1", U2a |-> "U2", U2b |-> "U2",
                      U3a |-> "U3", U3b |-> "U3", U4a |-> "U4", U4b |-> "U4"],
     z |-> F(<<1, 1, 1, 1, 1, 1, 1, 1>>)]

\* A second edge between U1 and U2 that lies over nothing.
INSERT_BRIDGE ==
    [vertices |-> COARSE.vertices,
     edges |-> <<Edge("e12", "U1", "U2", "e12", 1), Edge("e23", "U2", "U3", "e23", 1),
                 Edge("e34", "U3", "U4", "e34", 1), Edge("e14", "U1", "U4", "e14", 1),
                 Edge("b12", "U1", "U2", None, 1)>>,
     vertex_over |-> [U1 |-> "U1", U2 |-> "U2", U3 |-> "U3", U4 |-> "U4"],
     z |-> F(<<-1, -1, -1, 1, 0>>)]

ALL_WITNESSES == {SUBDIVIDE_U1, SUBDIVIDE_U2, SUBDIVIDE_ALL, INSERT_BRIDGE}
=============================================================================
