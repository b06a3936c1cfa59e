--------------------------- MODULE RefinementRun ---------------------------
(***************************************************************************)
(* The refinement checker and the composition probes at work on one coarse *)
(* complex. Each action is one turn of a loop of the code, and the report  *)
(* it leaves in `probe` is what that turn computes; a search goes on from  *)
(* a witness, or from a first step that survived, to the second step.      *)
(***************************************************************************)
EXTENDS RefinementProbes

CONSTANTS Coarse,           \* [vertices, edges, residue, cycle]
          Witnesses,        \* the declared refinements of Coarse
          Gluings,          \* [a, b, declared, seam]
          Steps,            \* [delta_P, rho, r]: a first step as matrices
          SecondMaps        \* the rho_QR of the second

\* Complexes and witnesses as they are declared: an edge and a vertex at least,
\* a sign of one or minus one, a coefficient for each edge, and a parent for
\* each vertex.
IsSequence(s) == s \in Seq(RangeOf(s))

LegalEdge(e) ==
    /\ DOMAIN e = {"name", "src", "tgt", "over", "sign"}
    /\ e = [f \in DOMAIN e |-> e[f]]
    /\ e.sign \in {One, <<-1, 1>>}

LegalComplex(c) ==
    /\ IsSequence(c.vertices) /\ c.vertices # <<>>
    /\ IsSequence(c.edges) /\ c.edges # <<>>
    /\ \A k \in DOMAIN c.edges : LegalEdge(c.edges[k])

LegalWitness(w) ==
    /\ {"vertices", "edges", "vertex_over", "z"} \subseteq DOMAIN w
    /\ LegalComplex(w)
    /\ ExactVector(w.z) /\ Len(w.z) = Len(w.edges)
    /\ RangeOf(w.vertices) \subseteq DOMAIN w.vertex_over

\* Matrices of exact entries that can be multiplied.
Conform(A, B) == A = <<>> \/ columns(A) = Len(B)

ASSUME RefinementAssumption ==
    /\ LegalComplex(Coarse) /\ ExactVector(Coarse.residue) /\ Len(Coarse.residue) = Len(Coarse.edges)
    /\ \A w \in Witnesses : LegalWitness(w)
    /\ \A g \in Gluings : LegalWitness(g.a) /\ LegalWitness(g.b)
    /\ \A s \in Steps :
         /\ ExactMatrix(s.delta_P) /\ ExactMatrix(s.rho) /\ Conform(s.rho, s.delta_P)
         /\ ExactVector(s.r) /\ Len(s.r) = Len(s.delta_P)
         /\ \A rho_QR \in SecondMaps : ExactMatrix(rho_QR) /\ Conform(rho_QR, s.rho)

\* The code looks names up in dictionaries: the names of a complex are distinct,
\* the ends of its edges are its vertices, and what a refinement lies over is there.
Distinct(s) == \A i, j \in DOMAIN s : s[i] = s[j] => i = j

EdgeNames(c) == [k \in DOMAIN c.edges |-> c.edges[k].name]

WellNamed(c) ==
    /\ Distinct(c.vertices) /\ Distinct(EdgeNames(c))
    /\ \A k \in DOMAIN c.edges : Ends(c.edges[k]) \subseteq RangeOf(c.vertices)

LiesOver(w, coarse) ==
    /\ \A v \in RangeOf(w.vertices) : w.vertex_over[v] \in RangeOf(coarse.vertices)
    /\ \A k \in DOMAIN w.edges : w.edges[k].over \in {None} \cup RangeOf(EdgeNames(coarse))

NamesIn(c) == RangeOf(c.vertices) \cup RangeOf(EdgeNames(c))

Branches == Witnesses \cup {g.a : g \in Gluings} \cup {g.b : g \in Gluings}

DeclaredNames == NamesIn(Coarse) \cup UNION {NamesIn(w) : w \in Branches}

\* The prefix makes names apart from all that are declared (rename's comment),
\* and different ones of different ones.
ASSUME NamesAssumption ==
    /\ WellNamed(Coarse)
    /\ \A w \in Branches : WellNamed(w) /\ LiesOver(w, Coarse)
    /\ \A g \in Gluings : g.seam \in RangeOf(EdgeNames(g.a)) \cap RangeOf(EdgeNames(g.b))
    /\ None \notin DeclaredNames
    /\ \A n \in DeclaredNames : Prefixed(n) \notin DeclaredNames \cup {None}
    /\ \A m, n \in DeclaredNames : Prefixed(m) = Prefixed(n) => m = n

VARIABLE probe

Idle == [kind |-> "idle"]

InitProbe == probe = Idle

\* refinement_checker.main: one certificate per witness.
CheckWitness ==
    /\ probe = Idle
    /\ \E w \in Witnesses :
         probe' = [kind |-> "witness", w |-> w, report |-> check_witness(Coarse, Coarse.residue, w)]

\* One turn of search()'s inner loop; a complex with no cycle has none.
SecondStep ==
    /\ probe.kind = "witness"
    /\ \E fine \in SecondSteps(probe.w) : \E basis \in {Z1(fine)} : \E k \in DOMAIN basis :
         probe' = [kind |-> "second", first |-> probe.w, fine |-> fine, z |-> basis[k],
                   report |-> search_case(Coarse, Coarse.residue, probe.w, fine, basis[k])]

\* The two scenarios written out in the composition probe.
Scenario ==
    /\ probe.kind = "witness" /\ probe.w = SUBDIVIDE_U1
    /\ \E fine \in {_second_subdivision, _bridge_insertion} :
         probe' = [kind |-> "second", first |-> probe.w, fine |-> fine, z |-> fine.z,
                   report |-> {in_a_row(Coarse, Coarse.residue, probe.w, fine, fine.z)}]

\* One turn of systematic_sweep: an ordered pair, the second cycle negated or not.
SideBySide ==
    /\ probe.kind = "witness"
    /\ \E b \in Witnesses : \E partner \in {b, Negated(b)} :
         probe' = [kind |-> "disjoint", report |-> run_disjoint(Coarse, Coarse.residue, probe.w, partner)]

Glue ==
    /\ probe = Idle
    /\ \E g \in Gluings :
         probe' = [kind |-> "coupled", gluing |-> g,
                   report |-> run_coupled(Coarse, Coarse.residue, g.a, g.b, g.declared, g.seam)]

\* One turn of run_search: a witness glued to a partner made to cancel it.
Cancel ==
    /\ probe.kind = "witness"
    /\ \E e \in DOMAIN probe.w.edges :
         probe' = [kind |-> "cancelled", w |-> probe.w, e |-> e,
                   report |-> search_witness_edge(Coarse, Coarse.residue, probe.w, e)]

\* exhaustive_search, its first step and its second.
FirstMap ==
    /\ probe = Idle
    /\ \E s \in Steps : /\ Survives(s.delta_P, s.rho, s.r)
                        /\ probe' = [kind |-> "survivor", step |-> s]

SecondMap ==
    /\ probe.kind = "survivor"
    /\ \E rho_QR \in SecondMaps :
         probe' = [kind |-> "matrices", step |-> probe.step, rho_QR |-> rho_QR,
                   report |-> build_witness_and_check(probe.step.delta_P, probe.step.rho, rho_QR, probe.step.r)]

\* The loops begin their next turn.
NextTurn == probe # Idle /\ probe' = Idle

Probe == CheckWitness \/ SecondStep \/ Scenario \/ SideBySide \/ Glue \/ Cancel \/ FirstMap \/ SecondMap \/ NextTurn
=============================================================================
