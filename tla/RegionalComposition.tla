------------------------ MODULE RegionalComposition ------------------------
(***************************************************************************)
(* regional_composition.py: overlap products with seam corrections in the  *)
(* square-zero extension k^P[eps]/(eps^2), and the associator defect of    *)
(* three regions. A map from points to coefficients is total here, zero    *)
(* where the dictionary has no entry. The coefficients are integers: no    *)
(* operation below divides, and numbers over one common denominator may be *)
(* read as their numerators. Then associator_residue.py: the residue of a  *)
(* seam, read off its defect.                                              *)
(***************************************************************************)
EXTENDS Integers, FiniteSets

CONSTANT Points      \* the shared universe P

ASSUME PointsAssumption == IsFiniteSet(Points)

Regions == SUBSET Points
Maps    == [Points -> Int]
Dual    == [primary : Maps, boundary : Maps]

\* Four seam constants: mu_VW, mu_UvV_W, mu_U_VvW, mu_UV.
SeamCorrectionData == [VW : Int, UvV_W : Int, U_VvW : Int, UV : Int]

Zeros == [p \in Points |-> 0]

indicator(R) == [primary |-> [p \in Points |-> IF p \in R THEN 1 ELSE 0], boundary |-> Zeros]

support(x) == {p \in Points : x.primary[p] # 0 \/ x.boundary[p] # 0}

_pointwise_product(x, y) == [p \in Points |-> x[p] * y[p]]
_pointwise_sum(x, y)     == [p \in Points |-> x[p] + y[p]]

\* (x, xi)(y, eta) = (xy, x eta + xi y)
dual_multiply(a, b) ==
    [primary  |-> _pointwise_product(a.primary, b.primary),
     boundary |-> _pointwise_sum(_pointwise_product(a.primary, b.boundary),
                                 _pointwise_product(a.boundary, b.primary))]

dual_add(a, b) ==
    [primary  |-> _pointwise_sum(a.primary, b.primary),
     boundary |-> _pointwise_sum(a.boundary, b.boundary)]

cut(x, R) == [p \in Points |-> IF p \in R THEN x[p] ELSE 0]
restrict(x, R) == [primary |-> cut(x.primary, R), boundary |-> cut(x.boundary, R)]

raw_overlap_product(a, b, U, V) == restrict(dual_multiply(a, b), U \cap V)

\* mu times the product of the primary parts on the overlap, all of it boundary.
boundary_correction(a, b, U, V, mu) ==
    LET prod == cut(_pointwise_product(a.primary, b.primary), U \cap V)
    IN [primary |-> Zeros, boundary |-> [p \in Points |-> mu * prod[p]]]

corrected_product(a, b, U, V, mu) ==
    dual_add(raw_overlap_product(a, b, U, V), boundary_correction(a, b, U, V, mu))

right_product(U, V, W, mu) ==
    corrected_product(indicator(U), corrected_product(indicator(V), indicator(W), V, W, mu.VW),
                      U, V \cup W, mu.U_VvW)
left_product(U, V, W, mu) ==
    corrected_product(corrected_product(indicator(U), indicator(V), U, V, mu.UV), indicator(W),
                      U \cup V, W, mu.UvV_W)

\* a * (b * c) - (a * b) * c on the indicators, every seam with its constant.
associator_defect(U, V, W, mu) ==
    LET right == right_product(U, V, W, mu)
        left  == left_product(U, V, W, mu)
        minus(x, y) == _pointwise_sum(x, [p \in Points |-> -y[p]])
    IN [primary  |-> minus(right.primary, left.primary),
        boundary |-> minus(right.boundary, left.boundary)]

closed_form_delta(mu) == mu.VW - mu.UvV_W + mu.U_VvW - mu.UV

----------------------------------------------------------------------------
(* The residue of a seam is the coefficient of its associator defect at    *)
(* the one point of the triple overlap. What raises is the empty set, what *)
(* returns a singleton.                                                    *)

\* A SeamAssociatorInstance: [seam, U, V, W, mu].
triple_overlap(inst) == inst.U \cap inst.V \cap inst.W

defect_of(inst) == associator_defect(inst.U, inst.V, inst.W, inst.mu)

\* The ValueErrors (support, a single point) and the AssertionError (closed form).
Coefficient(inst, defect) ==
    IF /\ support(defect) \subseteq triple_overlap(inst)
       /\ Cardinality(triple_overlap(inst)) = 1
       /\ \A p \in triple_overlap(inst) : defect.boundary[p] = closed_form_delta(inst.mu)
      THEN {defect.boundary[p] : p \in triple_overlap(inst)}
      ELSE {}

compute_seam_residue(inst) == Coefficient(inst, defect_of(inst))

Compiles(instances) == \A k \in DOMAIN instances : compute_seam_residue(instances[k]) # {}

\* Of two instances for one seam the later is kept, as in a dictionary.
Instance(instances, seam) ==
    LET ks == {k \in DOMAIN instances : instances[k].seam = seam}
    IN {instances[k] : k \in {i \in ks : \A j \in ks : j <= i}}

\* {residue_vector}, or {} when an instance raises or a seam has none.
residue_vector(instances, seam_order) ==
    IF ~Compiles(instances) \/ \E s \in DOMAIN seam_order : Instance(instances, seam_order[s]) = {}
      THEN {}
      ELSE {[s \in DOMAIN seam_order |->
               <<CHOOSE v \in UNION {compute_seam_residue(i) : i \in Instance(instances, seam_order[s])} : TRUE, 1>>]}
=============================================================================
