----------------------- MODULE FirstOrderCertificate -----------------------
(***************************************************************************)
(* The first-order certificate: repair_solver.attempt_repair decides, the  *)
(* emitter writes down everything it used, and the independent checker     *)
(* redoes what needs no solving. A certificate stands alone: the checker   *)
(* is given no other file. null is {}, a present value a singleton.        *)
(***************************************************************************)
EXTENDS RegionalComposition, LinearAlgebra

Verdicts == {"globally_repairable", "nontrivial_associator_obstruction",
             "invalid_residue", "degenerate_input"}

Result(verdict, correction, pairing) ==
    [repairable |-> verdict = "globally_repairable", correction |-> correction,
     obstruction_pairing |-> pairing, verdict |-> verdict]

Degenerate(d0, r, z) == d0 = <<>> \/ columns(d0) = 0 \/ Len(r) # Len(d0) \/ Len(z) # Len(d0)
Open(d1, r) == d1 # <<>> /\ ~is_zero(mat_vec(d1, r))

attempt_repair(d0, r, z, d1) ==
    IF Degenerate(d0, r, z) THEN Result("degenerate_input", {}, {})
    ELSE IF Open(d1, r) THEN Result("invalid_residue", {}, {})
    ELSE LET b == solve_over_Q(d0, r)
         IN Result(IF b # {} THEN "globally_repairable" ELSE "nontrivial_associator_obstruction",
                   b, {dot(z, r)})

\* residue_classifier.classify on the same data: no shape is looked at first.
is_obstruction(d0, r, d1) == ~Open(d1, r) /\ ~Solvable(d0, r)

(***************************************************************************)
(* build_certificate for a source [seam_order, instances, d0, z, d1]: {}   *)
(* when it raises. Rationals are written with str and read back exactly.   *)
(***************************************************************************)
build_certificate(src) ==
    {LET result  == attempt_repair(src.d0, r, src.z, src.d1)
         delta1r == IF src.d1 = <<>> THEN <<>> ELSE mat_vec(src.d1, r)
         declared == {src.instances[k].seam : k \in DOMAIN src.instances}
     IN [seam_order |-> src.seam_order,
         mu_by_seam |-> [s \in declared |-> (CHOOSE i \in Instance(src.instances, s) : TRUE).mu],
         defects |-> [s \in {src.seam_order[k] : k \in DOMAIN src.seam_order} |->
                        r[CHOOSE k \in DOMAIN r : src.seam_order[k] = s]],
         seam_residue |-> r, coboundary_1 |-> src.d1, delta1_r |-> delta1r, closed |-> is_zero(delta1r),
         coboundary_0 |-> src.d0, cycle |-> src.z, pairing |-> result.obstruction_pairing,
         repairable |-> result.repairable, correction |-> result.correction,
         verdict |-> result.verdict] : r \in residue_vector(src.instances, src.seam_order)}

----------------------------------------------------------------------------
(* check_certificate: {} for ACCEPT, else the layers that object.          *)

\* (slip) The formula is copied with the signs of the two outer seams exchanged.
DeltaSwapped(mu) == <<mu.VW + mu.UvV_W - mu.U_VvW - mu.UV, 1>>

Delta(mu) == <<mu.VW - mu.UvV_W + mu.U_VvW - mu.UV, 1>>

\* A seam without its entries is an objection of its own, and the assembled
\* vector is compared only when no seam was left out.
ResidueLayer(c) ==
    /\ \A k \in DOMAIN c.seam_order :
         /\ c.seam_order[k] \in DOMAIN c.mu_by_seam \cap DOMAIN c.defects
         /\ Delta(c.mu_by_seam[c.seam_order[k]]) = c.defects[c.seam_order[k]]
    /\ [k \in DOMAIN c.seam_order |-> c.defects[c.seam_order[k]]] = c.seam_residue

ClosedLayer(c) ==
    LET delta1r == IF c.coboundary_1 = <<>> THEN <<>> ELSE mat_vec(c.coboundary_1, c.seam_residue)
    IN delta1r = c.delta1_r /\ is_zero(delta1r) /\ c.closed

RepairLayer(c) ==
    /\ c.repairable
    /\ c.correction # {}
    /\ \A b \in c.correction : mat_vec(c.coboundary_0, b) = c.seam_residue

\* (slip) The cycle condition is left to the emitter.
ObstructionUncycled(c) ==
    /\ ~c.repairable
    /\ dot(c.cycle, c.seam_residue) # Zero
    /\ c.pairing = {dot(c.cycle, c.seam_residue)}

ObstructionLayer(c) ==
    /\ ~c.repairable
    /\ is_zero(row_vec_mat(c.cycle, c.coboundary_0))
    /\ dot(c.cycle, c.seam_residue) # Zero
    /\ c.pairing = {dot(c.cycle, c.seam_residue)}

VerdictLayer(c) ==
    \/ c.verdict = "globally_repairable" /\ RepairLayer(c)
    \/ c.verdict = "nontrivial_associator_obstruction" /\ ObstructionLayer(c)

check_certificate(c) ==
    {layer \in {"residue", "closed", "verdict"} :
        \/ layer = "residue" /\ ~ResidueLayer(c)
        \/ layer = "closed"  /\ ~ClosedLayer(c)
        \/ layer = "verdict" /\ ~VerdictLayer(c)}

(***************************************************************************)
(* The checks index what they are given: a vector that is longer than a    *)
(* row, or than the matrix has rows, ends the checker with an IndexError,  *)
(* which nothing catches.                                                  *)
(***************************************************************************)
Crashes(c) ==
    \/ \E i \in DOMAIN c.coboundary_1 : Len(c.seam_residue) > Len(c.coboundary_1[i])
    \/ /\ c.verdict = "globally_repairable"
       /\ \E b \in c.correction : \E i \in DOMAIN c.coboundary_0 : Len(b) > Len(c.coboundary_0[i])
    \/ /\ c.verdict = "nontrivial_associator_obstruction"
       /\ c.coboundary_0 # <<>> /\ columns(c.coboundary_0) > 0
       /\ Len(c.cycle) > Len(c.coboundary_0)
=============================================================================
