-------------------------- MODULE ObstructionChain --------------------------
(***************************************************************************)
(* From four constants on a seam to a verdict that survives refinement:    *)
(* the first-order run and its checker, and, once the certificate of the   *)
(* coarse complex has been accepted, everything the repository does with   *)
(* that complex and its residue: the refinement checker and the            *)
(* composition probes, the diagnostics of where residues can come from,    *)
(* and the assembly of the same vector from evidence that arrives seam by  *)
(* seam.                                                                   *)
(***************************************************************************)
EXTENDS FirstOrderRun, RefinementRun, CoverDiagnostics, ContributionAssembly

CONSTANTS Covers,           \* [U1, U2, U3, U4 -> sets of points]
          Registry,         \* registered interfaces, [id, slot]
          Required,         \* required interfaces, [id, digest], in order
          Admissions,       \* admissibility certificates that can arrive
          Others,           \* contributions besides the accepted ones, [cert, digest]
          MaxEvidence,      \* how many pieces arrive at most,
          MaxOfAKind        \* and of either kind

\* The lists of either side as they are declared, and the points of the regions
\* on which the values are compared.
Submissions == [cert : [interface_id : STRING, digest : [seam : SeamCorrectionData],
                        contribution : Int \X Nat, witness : SeamCorrectionData],
                digest : STRING]

\* The regions of a cover are regions of the shared universe.
ASSUME CoversAssumption == Covers \subseteq [Names -> Regions]

ASSUME EvidenceAssumption ==
    /\ Registry \in Seq([id : STRING, slot : Slots])
    /\ Required \in Seq([id : STRING, digest : STRING])
    /\ Admissions \subseteq [id : STRING, digest : STRING, kind : {"Compatible", "Incompatible", "Unresolved"}]
    /\ Others \subseteq Submissions
    /\ {1, 2, 3, 4} \subseteq Points

vars == <<src, stage, file, judged, answer, probe>>

\* What refinement_witnesses calls COARSE is the complex of the certificate.
CoarseCertified ==
    /\ stage = "written" /\ answer = "ACCEPT" /\ file = judged
    /\ judged.cert.verdict = "nontrivial_associator_obstruction"
    /\ judged \in {Saved(c) : c \in emitted(src)}
    /\ judged.cert.coboundary_0 = delta0(Coarse) /\ judged.cert.seam_residue = Coarse.residue

\* A diagnostic's measurement of one rule on one cover.
Measure ==
    /\ probe = Idle
    /\ \E rule \in Rules, cover \in Covers :
         probe' = [kind |-> "measured", rule |-> rule, cover |-> cover, report |-> measure(rule, cover)]

Cross ==
    /\ probe = Idle
    /\ \E cover \in Covers : probe' = [kind |-> "crossed", cover |-> cover, report |-> verify_witness(cover)]

\* Evidence arrives one piece at a time, in any order, and is assembled anew
\* with each. certs remembers the contribution certificates behind con.
Assembly(adm, con, certs) ==
    [kind |-> "assembly", adm |-> adm, con |-> con, certs |-> certs, report |-> assemble(Required, adm, con)]

BeginAssembly == probe = Idle /\ probe' = Assembly(<<>>, <<>>, <<>>)

More(certs) == Len(certs) < MaxOfAKind /\ Len(probe.adm) + Len(probe.con) < MaxEvidence

Admit ==
    /\ probe.kind = "assembly" /\ More(probe.adm)
    /\ \E a \in Admissions : probe' = Assembly(Append(probe.adm, a), probe.con, probe.certs)

\* The contribution of a seam as the accepted certificate has it, if it does.
Certified(req) ==
    LET mu == judged.cert.mu_by_seam[req.id]
    IN [cert   |-> [interface_id |-> req.id, digest |-> compute_digest(mu),
                    contribution |-> judged.cert.defects[req.id], witness |-> mu],
        digest |-> req.digest]

Certifiable == {k \in DOMAIN Required : Required[k].id \in DOMAIN judged.cert.mu_by_seam}

\* A contribution whose certificate verifies becomes evidence, under the
\* digest it was submitted with; any other is dropped.
Contribute ==
    /\ probe.kind = "assembly" /\ More(probe.con)
    /\ \E c \in Others \cup {Certified(Required[k]) : k \in Certifiable} :
       \E v \in {verify_contribution(Registry, c.cert)} :
         probe' = IF v.verified
                    THEN Assembly(probe.adm,
                                  Append(probe.con, [id |-> c.cert.interface_id, digest |-> c.digest, value |-> v.value]),
                                  Append(probe.certs, c.cert))
                    ELSE probe

Beside == Measure \/ Cross \/ BeginAssembly \/ Admit \/ Contribute

Init == InitFirstOrder /\ InitProbe

Next ==
    \/ probe = Idle /\ FirstOrder /\ UNCHANGED probe
    \/ CoarseCertified /\ (Probe \/ Beside) /\ UNCHANGED foVars

Spec == Init /\ [][Next]_vars

----------------------------------------------------------------------------
(* Reference notions: what the verdicts are about.                         *)

\* r cut to the rows of D, or filled up with zeros: the certificate's layers
\* take the products only as far as both sides go. Without columns no vector
\* is asked for, and they do not look at the rows at all.
Fit(r, n) == [i \in 1..n |-> IF i <= Len(r) THEN r[i] ELSE Zero]

NoCorrection(D, r) == IF columns(D) = 0 THEN ~is_zero(r) ELSE ~Solvable(D, Fit(r, Len(D)))

\* The associator of the three two-point regions with one point in common,
\* multiplied out in the algebra.
AlgebraResidue(U, V, W, mu) == {associator_defect(U, V, W, mu).boundary[p] : p \in U \cap V \cap W}

(***************************************************************************)
(* Whatever file the checker was given, written by the run, by somebody    *)
(* else, or the genuine one with an entry changed: if it accepts, every    *)
(* entry of the residue is the defect that the algebra computes from the   *)
(* constants beside it, a claimed correction solves the system, and a      *)
(* claimed obstruction is one, though the checker solves no system. It     *)
(* never accepts a torn file.                                              *)
(***************************************************************************)
CertificateSound ==
    answer = "ACCEPT" =>
        /\ judged.kind = "certificate"
        /\ \E c \in {judged.cert} :
            /\ Len(c.seam_order) = Len(c.seam_residue)
            /\ \A k \in DOMAIN c.seam_residue : \A i \in DOMAIN src.instances :
                 Cardinality(triple_overlap(src.instances[i])) = 1 =>
                    {c.seam_residue[k]} =
                      {<<v, 1>> : v \in AlgebraResidue(src.instances[i].U, src.instances[i].V,
                                                       src.instances[i].W, c.mu_by_seam[c.seam_order[k]])}
            /\ Open(c.coboundary_1, c.seam_residue) = FALSE
            /\ \/ c.verdict = "globally_repairable" /\ Solvable(c.coboundary_0, c.seam_residue)
               \/ c.verdict = "nontrivial_associator_obstruction" /\ NoCorrection(c.coboundary_0, c.seam_residue)

(***************************************************************************)
(* What the run wrote is accepted exactly when its source supports it: the *)
(* shapes fit, the residue is closed, and it has a correction or the       *)
(* declared vector is a cycle that pairs with it. A right verdict with a   *)
(* vector that is no cycle is written all the same and then refused; what  *)
(* the run writes never makes the checker crash. The residue classifier,   *)
(* given the same data, calls the same sources obstructed.                 *)
(***************************************************************************)
Supported(s, r) ==
    /\ ~Degenerate(s.d0, r, s.z) /\ ~Open(s.d1, r)
    /\ Solvable(s.d0, r) \/ (is_zero(row_vec_mat(s.z, s.d0)) /\ dot(s.z, r) # Zero)

JudgedAsComputed ==
    judged.kind = "certificate" =>
        (judged \in {Saved(c) : c \in emitted(src)} =>
            /\ answer = IF Supported(src, judged.cert.seam_residue) THEN "ACCEPT" ELSE "REJECT"
            /\ ~Degenerate(src.d0, judged.cert.seam_residue, src.z) =>
                 (is_obstruction(src.d0, judged.cert.seam_residue, src.d1)
                    <=> judged.cert.verdict = "nontrivial_associator_obstruction"))

----------------------------------------------------------------------------
(* Refinement. The maps of a probe on complexes, from coarse to finest.    *)

OneStep   == probe.kind = "witness"
TwoSteps  == probe.kind = "second" /\ probe.report # {}
Finding   == CHOOSE res \in probe.report : TRUE

(***************************************************************************)
(* The cycle pairing certifies: wherever the code finds (A3) and (A4), for *)
(* a witness, for two steps in a row, side by side or glued, elimination   *)
(* finds no correction of the refined residue.                             *)
(***************************************************************************)
PairingCertifies ==
    /\ OneStep => (probe.report.A3 /\ probe.report.A4 => probe.report.solver_not_coboundary)
    /\ TwoSteps => (Finding.step2.A3 /\ Finding.A4 =>
         ~Solvable(delta0(probe.fine), mat_vec(composite(Coarse, probe.first, probe.fine).rho, Coarse.residue)))
    /\ probe.kind = "coupled" =>
         \A g \in build_coupled_shared_seam(probe.gluing.a, probe.gluing.b, probe.gluing.declared, probe.gluing.seam) :
            (\E c \in probe.report.combined : c.A3 /\ c.A4)
               => ~Solvable(delta0(g), mat_vec(rho_star(Coarse, g), Coarse.residue))

(***************************************************************************)
(* What the two conditions are for, for every residue on the coarse        *)
(* complex and not only the declared one. (N0): a correction there is      *)
(* carried to the refined complex. (E0): a correction on the refined       *)
(* complex comes from one on the coarse, and this fails for some residue   *)
(* whenever the code finds (E0) false.                                     *)
(***************************************************************************)
EdgeSums == {[k \in 1..Len(Coarse.edges) |-> IF k \in ks THEN One ELSE Zero] : ks \in SUBSET (1..Len(Coarse.edges))}

\* Those that pair to zero with every refined cycle, as the image of a coarse one.
Unpaired(fine, rho) ==
    LET lifts == Z1(fine)
    IN RangeOf(nullspace_over_Q(Computed([k \in DOMAIN lifts |-> Computed(mat_vec(transpose(rho), lifts[k]))])))

Residues(fine, rho)  == EdgeSums \cup {Coarse.residue} \cup Unpaired(fine, rho)
Carried(fine, rho)   == \A r \in Residues(fine, rho) :
                            Solvable(delta0(Coarse), r) => Solvable(delta0(fine), mat_vec(rho, r))
Reflected(fine, rho) == \A r \in Residues(fine, rho) :
                            Solvable(delta0(fine), mat_vec(rho, r)) => Solvable(delta0(Coarse), r)

VerdictTransported ==
    /\ OneStep => \E rho \in {rho_star(Coarse, probe.w)} :
         /\ probe.report.N0 => Carried(probe.w, rho)
         /\ probe.report.E0 <=> Reflected(probe.w, rho)
    /\ TwoSteps => \E rho \in {composite(Coarse, probe.first, probe.fine).rho} :
         /\ Finding.N0 => Carried(probe.fine, rho)
         /\ Finding.E0 <=> Reflected(probe.fine, rho)

(***************************************************************************)
(* Steps compose. (N0) of both is (N0) of the composite, the composite     *)
(* pairing is the second step's, and two steps that are verdict-safe by    *)
(* themselves make a composite that is; a pairing that is non-zero after   *)
(* two steps certifies an obstruction on the coarsest complex.             *)
(***************************************************************************)
StepsCompose ==
    /\ TwoSteps => /\ verify_n0_theorem_consistency(Finding)
                   /\ Finding.pairing = Finding.step2.pairing
                   /\ E0(probe.first, probe.fine, rho_star(probe.first, probe.fine))
                        /\ E0(Coarse, probe.first, rho_star(Coarse, probe.first)) => Finding.E0
    /\ probe.kind = "matrices" =>
         /\ associative(probe.rho_QR, probe.step.rho, probe.step.delta_P)
         /\ \A res \in probe.report : res.A4 /\ res.E0 /\ ~Solvable(probe.step.delta_P, probe.step.r)

(***************************************************************************)
(* Side by side, (N0) and (E0) hold for both when they hold for each, the  *)
(* pairings add, and so (A4) can be lost and only by cancellation. Glued   *)
(* along a seam both declare alike, (N0) is as side by side and the seam's *)
(* share of the pairing is counted once. (E0) asks less than of each: one  *)
(* coarse complex is under both, and a coarse cycle need only be made of   *)
(* what the two bring back together. The glued vector is a cycle only if   *)
(* the seam's coefficient is zero, or the seam a loop: otherwise (A3) is   *)
(* lost, and the pairing certifies nothing.                                *)
(***************************************************************************)
DisjointAdds(a, b, c) ==
    /\ c.A3 = (a.A3 /\ b.A3) /\ c.N0 = (a.N0 /\ b.N0) /\ c.E0 = (a.E0 /\ b.E0)
    /\ c.pairing = Plus(a.pairing, b.pairing)
    /\ c.A4 <=> a.pairing # Minus(Zero, b.pairing)

\* The cycles of a refined complex, brought back to the coarse one.
BroughtBack(fine) ==
    LET lifts == Z1(fine)
    IN Computed([k \in DOMAIN lifts |-> Computed(mat_vec(transpose(rho_star(Coarse, fine)), lifts[k]))])

Unmoved(z, edge) == z = Zero \/ edge.src = edge.tgt

GluedAdds(g, k, a, b, c) ==
    /\ c.pairing = Minus(Plus(a.pairing, b.pairing),
                         Times(g.b.z[k], mat_vec(rho_star(Coarse, g.b), Coarse.residue)[k]))
    /\ g.declared = g.b =>
         /\ c.N0 = (a.N0 /\ b.N0)
         /\ c.E0 <=> \E together \in {BroughtBack(g.a) \o BroughtBack(g.b)} :
                        \A cycle \in RangeOf(Z1(Coarse)) : in_span_over_Q(together, cycle)
         /\ a.A3 /\ b.A3 => (c.A3 <=> Unmoved(g.b.z[k], g.b.edges[k]))

CombinedAsBranches ==
    /\ probe.kind = "disjoint" =>
         DisjointAdds(probe.report.branch_a, probe.report.branch_b, probe.report.combined)
    /\ probe.kind = "coupled" =>
         \A c \in probe.report.combined :
            GluedAdds(probe.gluing, EdgeNamed(probe.gluing.b, probe.gluing.seam),
                      probe.report.branch_a, probe.report.branch_b, c)

(***************************************************************************)
(* The partner of the cancellation search is a cycle when the witness's    *)
(* own vector is, and it agrees with it on the seam, so the two do glue,   *)
(* and together they cancel exactly; that they cancel says something of a  *)
(* cycle only when the seam has no part in it.                             *)
(***************************************************************************)
CancellationSolved ==
    probe.kind = "cancelled" =>
        \A res \in probe.report :
            /\ res.branch_b.A3 = res.branch_a.A3 /\ res.combined # {}
            /\ \A c \in res.combined :
                 /\ c.pairing = Zero
                 /\ res.branch_a.A3 => (c.A3 <=> Unmoved(probe.w.z[probe.e], probe.w.edges[probe.e]))

----------------------------------------------------------------------------
(* Where residues can come from.                                           *)

Coincide(cover) == \A i, j \in DOMAIN SEAMS : triple_support(cover, SEAMS[i]) = triple_support(cover, SEAMS[j])
Inside(cover)   == \E a, b \in Names : a # b /\ cover[a] \subseteq cover[b]
Alike(cover)    == \E a, b \in Names : a # b /\ cover[a] = cover[b]

\* What one measurement found out, against a solver that knows no rank.
MeasuredRight(rule, cover, m) ==
    /\ \A k \in DOMAIN m.B : residue_for(rule, cover, k) = {m.B[k]} /\ induced_column(rule, cover, k) = m.B[k]
    /\ m.quotient = 0 <=> \A k \in DOMAIN m.B : Solvable(coboundary_for(rule), m.B[k])
    /\ m.rank = Len(SEAMS) <=>
         \A i \in DOMAIN SEAMS : in_span_over_Q(columns_of(m.B),
                                                [j \in DOMAIN SEAMS |-> IF i = j THEN One ELSE Zero])

(***************************************************************************)
(* The rank and the quotient that a diagnostic reports are what they say   *)
(* on every cover: no residue of the rule survives modulo corrections      *)
(* exactly when each column has one, and full rank is every residue. With  *)
(* parameters on adjacent overlaps only, all residues can be corrected;    *)
(* with inclusion-exclusion, none is excluded unless a region lies in      *)
(* another; restriction to the triple supports is partial exactly where    *)
(* the four supports coincide, however rich the regions are. The Boolean   *)
(* rule passes its gates exactly when the cycle pairs with its residue.    *)
(***************************************************************************)
RealisedAsMeasured ==
    /\ probe.kind = "measured" =>
         /\ probe.report = {} <=> ~check_gate1_support(probe.cover)
         /\ \A m \in probe.report :
              /\ MeasuredRight(probe.rule, probe.cover, m)
              /\ probe.rule = "independent" => verdict(m) = "TOO_FREE_full_rank"
              /\ probe.rule = "adjacent" => m.rank = 3 /\ verdict(m) = "TOO_STRICT_collapses_to_im_delta0"
              /\ probe.rule = "inclusion_exclusion" /\ ~Inside(probe.cover) =>
                   verdict(m) = "TOO_FREE_full_rank" /\ verify_cancellation(probe.cover, m)
              /\ probe.rule = "restriction" /\ ~Alike(probe.cover) =>
                   IF Coincide(probe.cover)
                     THEN /\ m.rank = 2 /\ verdict(m) = "genuinely_partial_nontrivial_quotient"
                          /\ \A k \in DOMAIN m.B : m.sharing[k] = "genuinely_shared"
                     ELSE verdict(m) = "TOO_FREE_full_rank"
    /\ probe.kind = "crossed" =>
         \A res \in probe.report :
            /\ res.gate4 <=> res.pairing # Zero
            /\ res.all_gates_passed <=> check_gate0_nondegeneracy(probe.cover) /\ res.pairing # Zero

----------------------------------------------------------------------------
(* Assembly.                                                               *)

For(id, certs) == {k \in DOMAIN certs : certs[k].id = id}

\* Exactly one good piece of each kind for an interface.
Supplied(req) ==
    /\ \E k \in DOMAIN probe.adm : /\ For(req.id, probe.adm) = {k}
                                   /\ probe.adm[k] = [id |-> req.id, digest |-> req.digest, kind |-> "Compatible"]
    /\ \E k \in DOMAIN probe.con : For(req.id, probe.con) = {k} /\ probe.con[k].digest = req.digest

\* The only word on the interface is that it is incompatible.
Opposed(req) ==
    /\ \A j, k \in For(req.id, probe.con) : j = k
    /\ \E k \in DOMAIN probe.adm : /\ For(req.id, probe.adm) = {k}
                                   /\ probe.adm[k] = [id |-> req.id, digest |-> req.digest, kind |-> "Incompatible"]

(***************************************************************************)
(* The outcome of an assembly, whatever has arrived and in what order: it  *)
(* refuses exactly the interfaces whose one admissibility certificate says *)
(* so, and is complete exactly when every required interface has one good  *)
(* piece of each kind and nothing else is there. The values of a complete  *)
(* one are the residue that the generator computes, on the regions of the  *)
(* Venn picture, from the constants its certificates commit to, each with  *)
(* the sign of its registered slot. No further evidence turns a refusal    *)
(* into completion, or leaves a completion as it is: it is reopened.       *)
(***************************************************************************)
OutcomeSupported ==
    LET required == {Required[k] : k \in DOMAIN Required}
        names    == {req.id : req \in required}
        seams    == [k \in DOMAIN Required |-> Required[k].id]
    IN /\ probe.report.outcome = "Refused" <=> \E req \in required : Opposed(req)
       /\ probe.report.outcome = "Refused" => probe.report.ids = {req.id : req \in {q \in required : Opposed(q)}}
       /\ probe.report.outcome = "Complete" <=>
            /\ \A req \in required : Supplied(req)
            /\ Len(probe.adm) = Cardinality(names) /\ Len(probe.con) = Cardinality(names)
       /\ probe.report.outcome = "Complete" =>
            /\ {probe.report.values} =
                 residue_vector([k \in DOMAIN probe.certs |->
                                   [seam |-> probe.certs[k].interface_id, U |-> {1, 4}, V |-> {2, 4}, W |-> {3, 4},
                                    mu |-> probe.certs[k].witness]], seams)
            /\ \A k \in DOMAIN probe.certs :
                 \E r \in {Registry[i] : i \in DOMAIN Registry} :
                   /\ r.id = probe.certs[k].interface_id
                   /\ probe.con[k].value = <<slot_coefficient[r.slot] * probe.certs[k].witness[r.slot], 1>>

Reopened ==
    /\ probe.report.outcome = "Refused"  => probe'.report.outcome # "Complete"
    /\ probe.report.outcome = "Complete" => probe'.report.outcome = "Unresolved"

AssembledAsSupported ==
    /\ [](probe.kind = "assembly" => OutcomeSupported)
    /\ [][probe.kind = "assembly" /\ probe'.kind = "assembly" /\ probe' # probe => Reopened]_vars
=============================================================================
