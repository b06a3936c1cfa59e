-------------------------- MODULE CoverDiagnostics --------------------------
(***************************************************************************)
(* The diagnostics that ask which residues the four seams can have when    *)
(* the seam constants are not free but populated, by some rule, from       *)
(* parameters that seams share. The four regions are subsets of one        *)
(* universe, a cover. Two of the programs take the cover as an argument,   *)
(* the others have one written in; here all of them take it.               *)
(***************************************************************************)
EXTENDS FirstOrderCertificate, Refinement

SEAMS == <<"e12", "e23", "e34", "e14">>

\* Which regions are U, V and W at a seam.
THETA == [e12 |-> <<"U1", "U2", "U3">>, e23 |-> <<"U2", "U3", "U4">>,
          e34 |-> <<"U3", "U4", "U1">>, e14 |-> <<"U4", "U1", "U2">>]

Names == {"U1", "U2", "U3", "U4"}

Seam(cover, e, mu) ==
    [seam |-> e, U |-> cover[THETA[e][1]], V |-> cover[THETA[e][2]], W |-> cover[THETA[e][3]], mu |-> mu]

triple_support(cover, e) == cover[THETA[e][1]] \cap cover[THETA[e][2]] \cap cover[THETA[e][3]]

properly_crosses(A, B)      == A \cap B # {} /\ A \cap B # A /\ A \cap B # B
contains_or_contained(A, B) == A \cap B = A \/ A \cap B = B

----------------------------------------------------------------------------
(* The rules. What a slot is populated with: the sum of the parameters     *)
(* named in plus, less those in minus. A parameter is named by its seam    *)
(* and slot, by two regions, or by two sets of points.                     *)

Slots == {"UV", "VW", "U_VvW", "UvV_W"}
Rules == {"independent", "adjacent", "inclusion_exclusion", "restriction"}

Unset   == [plus |-> <<>>, minus |-> <<>>]
Just(k) == [plus |-> <<k>>, minus |-> <<>>]

\* Four parameters for every seam, which no other seam has.
realisability_columns(e) == [s \in Slots |-> Just(<<e, s>>)]

\* One for each two adjacent regions; the outer slots stay zero.
_seam_correction(e) ==
    [s \in Slots |-> CASE s = "UV" -> Just({THETA[e][1], THETA[e][2]})
                      [] s = "VW" -> Just({THETA[e][2], THETA[e][3]})
                      [] OTHER -> Unset]

\* One for each pair of sets, an outer slot by inclusion and exclusion.
seam_correction_ie(X, Y, Z) ==
    [UV |-> Just(<<X, Y>>), VW |-> Just(<<Y, Z>>),
     U_VvW |-> [plus |-> <<<<X, Y>>, <<X, Z>>>>, minus |-> <<<<X, Y \cap Z>>>>],
     UvV_W |-> [plus |-> <<<<X, Z>>, <<Y, Z>>>>, minus |-> <<<<X \cap Y, Z>>>>]]

\* One for each region restricted to a triple support; the inner slots stay zero.
build_candidate_R(X, Z, T) ==
    [s \in Slots |-> CASE s = "U_VvW" -> Just(<<X, T>>) [] s = "UvV_W" -> Just(<<Z, T>>) [] OTHER -> Unset]

population(rule, cover, e) ==
    LET X == cover[THETA[e][1]]
        Y == cover[THETA[e][2]]
        Z == cover[THETA[e][3]]
    IN CASE rule = "independent"         -> realisability_columns(e)
         [] rule = "adjacent"            -> _seam_correction(e)
         [] rule = "inclusion_exclusion" -> seam_correction_ie(X, Y, Z)
         [] rule = "restriction"         -> build_candidate_R(X, Z, triple_support(cover, e))

\* All the parameters, and the coefficient of one of them in a slot.
parameters(rule, cover) ==
    UNION {{p.plus[i] : i \in DOMAIN p.plus} \cup {p.minus[i] : i \in DOMAIN p.minus} :
             p \in {population(rule, cover, SEAMS[i])[s] : i \in DOMAIN SEAMS, s \in Slots}}

coefficient(p, k) ==
    Cardinality({i \in DOMAIN p.plus : p.plus[i] = k}) - Cardinality({i \in DOMAIN p.minus : p.minus[i] = k})

\* A column of D R: the closed form on the slots of each seam.
_SLOT_COEFFICIENT == [UV |-> -1, VW |-> 1, U_VvW |-> 1, UvV_W |-> -1]

induced_column(rule, cover, k) ==
    Computed([i \in DOMAIN SEAMS |->
        LET at(s) == _SLOT_COEFFICIENT[s] * coefficient(population(rule, cover, SEAMS[i])[s], k)
        IN <<at("UV") + at("VW") + at("U_VvW") + at("UvV_W"), 1>>])

\* The same from the generator, the parameter k one and all others zero; {} if it raises.
residue_for(rule, cover, k) ==
    residue_vector([i \in DOMAIN SEAMS |->
                      Seam(cover, SEAMS[i],
                           [s \in Slots |-> coefficient(population(rule, cover, SEAMS[i])[s], k)])], SEAMS)

----------------------------------------------------------------------------
(* What a rule reaches, measured against the coboundaries.                 *)

\* The adjacency diagnostic has its last edge run forward, from U4 to U1.
_cyclic_delta0 == delta0([COARSE EXCEPT !.edges[4] = Edge("e41", "U4", "U1", None, 1)])

\* (slip) The coboundary of the paper's orientation for every rule.
coboundary_uniform(rule) == delta0(COARSE)

coboundary_for(rule) == IF rule = "adjacent" THEN _cyclic_delta0 ELSE delta0(COARSE)

\* The members of a finite set, each once, in an order that nobody relies on.
in_some_order(S) ==
    LET ordered[T \in SUBSET S] ==
            IF T = {} THEN <<>> ELSE LET v == CHOOSE v \in T : TRUE IN Append(ordered[T \ {v}], v)
    IN ordered[S]

columns_of(B) == in_some_order({B[k] : k \in DOMAIN B})

_rank(vectors) == IF vectors = <<>> THEN 0 ELSE Len(vectors) - Len(nullspace_over_Q(transpose(vectors)))

sharing(B) ==
    LET reached(k) == {i \in DOMAIN SEAMS : B[k][i] # Zero}
    IN [k \in DOMAIN B |-> CASE Cardinality(reached(k)) = 0 -> "zero_column"
                             [] Cardinality(reached(k)) = 1 -> "private_residual"
                             [] OTHER -> "genuinely_shared"]

\* The same function. (As with Computed: TLC evaluates it once, to compare it.)
Tabulated(f) == CHOOSE g \in {f} : g = f

check_nondegenerate(cover) ==
    /\ \A n \in Names : Cardinality(cover[n]) >= 4
    /\ \A a, b \in Names : a # b => ~(cover[a] \subseteq cover[b]) /\ properly_crosses(cover[a], cover[b])

\* One run of the generator for each parameter.
basis_probe(rule, cover) == Tabulated([k \in parameters(rule, cover) |-> residue_for(rule, cover, k)])

\* Of a space of that rank, what is left modulo the coboundaries.
dim_quotient(rank, ofB, ofD0) == rank - (rank + _rank(ofD0) - _rank(ofB \o ofD0))

Report(rule, cover, B, columnsOfB, rank) ==
    [B |-> B, rank |-> rank, quotient |-> dim_quotient(rank, columnsOfB, transpose(coboundary_for(rule))),
     sharing |-> sharing(B), nondegenerate |-> check_nondegenerate(cover)]

\* {} when the generator raises. The restriction rule goes through D R, the
\* others through the generator; equal columns are taken once, which alters no
\* rank.
measure(rule, cover) ==
    {Report(rule, cover, B, columns_of(B), _rank(columns_of(B))) :
       B \in {Tabulated([k \in DOMAIN probed |->
                 IF rule = "restriction" THEN induced_column(rule, cover, k) ELSE CHOOSE r \in probed[k] : TRUE]) :
                probed \in {q \in {basis_probe(rule, cover)} : \A k \in DOMAIN q : q[k] # {}}}}

verdict(m) == IF m.rank = Len(SEAMS) THEN "TOO_FREE_full_rank"
              ELSE IF m.quotient = 0 THEN "TOO_STRICT_collapses_to_im_delta0"
              ELSE "genuinely_partial_nontrivial_quotient"

\* No key of two whole regions reaches a residue under inclusion-exclusion.
verify_cancellation(cover, m) ==
    \A k \in DOMAIN m.B : {k[1], k[2]} \subseteq {cover[n] : n \in Names} => is_zero(m.B[k])

----------------------------------------------------------------------------
(* The Boolean rule: a slot is one when its two sides cross.               *)

check_gate0_nondegeneracy(cover) ==
    /\ \A n \in Names : Cardinality(cover[n]) > 1
    /\ \A a, b \in Names : a # b => ~contains_or_contained(cover[a], cover[b])
    /\ \A i \in DOMAIN SEAMS : properly_crosses(cover[THETA[SEAMS[i]][1]], cover[THETA[SEAMS[i]][2]])

check_gate1_support(cover) == \A i \in DOMAIN SEAMS : Cardinality(triple_support(cover, SEAMS[i])) = 1

_seam_correction_via_boolean_rule(cover, e) ==
    LET X == cover[THETA[e][1]]
        Y == cover[THETA[e][2]]
        Z == cover[THETA[e][3]]
        mu(A, B) == IF properly_crosses(A, B) THEN 1 ELSE 0
    IN [VW |-> mu(Y, Z), UvV_W |-> mu(X \cup Y, Z), U_VvW |-> mu(X, Y \cup Z), UV |-> mu(X, Y)]

verify_witness(cover) ==
    LET r == residue_vector([i \in DOMAIN SEAMS |->
                 Seam(cover, SEAMS[i], _seam_correction_via_boolean_rule(cover, SEAMS[i]))], SEAMS)
    IN {[residue |-> v, pairing |-> dot(COARSE.cycle, v),
         gate4 |-> ~Solvable(delta0(COARSE), v),
         all_gates_passed |-> /\ check_gate0_nondegeneracy(cover)
                              /\ ~Solvable(delta0(COARSE), v)
                              /\ is_obstruction(delta0(COARSE), v, <<>>)] :
            v \in {w \in r : check_gate1_support(cover)}}
=============================================================================
