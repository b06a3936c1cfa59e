------------------------- MODULE MCObstructionChain -------------------------
EXTENDS ObstructionChain

\* The three-region Venn configuration, and one with two common points.
MCPoints == 1..15
Venn == [U |-> {1, 4, 5, 7}, V |-> {2, 4, 6, 7}, W |-> {3, 5, 6, 7}]
Wide == [U |-> {1, 2, 3}, V |-> {1, 2, 4}, W |-> {1, 2, 5}]
\* One common point, V inside U.
Nested == [U |-> {1, 2, 3}, V |-> {2, 3}, W |-> {3, 4}]

Mu(a, b, c, d) == [VW |-> a, UvV_W |-> b, U_VvW |-> c, UV |-> d]
Inst(seam, regions, mu) == [seam |-> seam, U |-> regions.U, V |-> regions.V, W |-> regions.W, mu |-> mu]

Order == <<"e12", "e23", "e34", "e14">>
FourCycle == [k \in 1..4 |-> Inst(Order[k], Venn, Mu(IF k = 4 THEN -2 ELSE 1, 0, 0, 0))]
\* The same residue, every constant in play.
Mixed == <<Inst("e12", Venn, Mu(0, 0, 1, 0)), Inst("e23", Nested, Mu(2, 1, 0, 0)),
           Inst("e34", Venn, Mu(0, 0, 0, -1)), Inst("e14", Nested, Mu(1, 2, 1, 2))>>
Removable == [FourCycle EXCEPT ![4].mu = Mu(1, -1, 1, 0)]

Source == [seam_order |-> Order, instances |-> FourCycle, d0 |-> delta0(COARSE), z |-> COARSE.cycle,
           d1 |-> <<>>, expected |-> {COARSE.residue}]

MCSources ==
    {Source,
     [Source EXCEPT !.instances = Mixed],
     [Source EXCEPT !.instances = Removable, !.expected = {}],
     \* a second instance of a seam, a seam without one, two common points
     [Source EXCEPT !.instances = Append(FourCycle, Inst("e12", Venn, Mu(5, 0, 0, 0))), !.expected = {}],
     [Source EXCEPT !.instances = Tail(FourCycle), !.expected = {}],
     [Source EXCEPT !.instances[2].U = Wide.U, !.instances[2].V = Wide.V, !.instances[2].W = Wide.W],
     [Source EXCEPT !.expected = {F(<<1, 1, 1, 2>>)}],
     \* no cycle, the zero cycle, a short one, no edges; a C^2 that the residue meets or not
     [Source EXCEPT !.z = F(<<1, 1, 1, 1>>)],
     [Source EXCEPT !.z = F(<<0, 0, 0, 0>>)],
     [Source EXCEPT !.z = F(<<-1, -1, -1>>)],
     [Source EXCEPT !.d0 = <<>>],
     [Source EXCEPT !.d1 = <<F(<<1, 1, 1, 1>>)>>],
     [Source EXCEPT !.d1 = <<F(<<1, 1, 0, 1>>)>>],
     \* the complex with a bridge, and a cycle with fractions
     [Source EXCEPT !.seam_order = Append(Order, "b12"), !.d0 = delta0(INSERT_BRIDGE),
                    !.instances = Append(FourCycle, Inst("b12", Venn, Mu(0, 0, 1, 1))),
                    !.z = <<<<1, 2>>, <<1, 1>>, <<1, 1>>, <<-1, 1>>, <<1, 2>>>>, !.expected = {}]}

\* A genuine certificate with an entry changed, or two that go together, and
\* that of the removable residue.
MCEdited(c) ==
    {[c EXCEPT !.verdict = v, !.repairable = b] : v \in Verdicts, b \in BOOLEAN}
    \cup {[c EXCEPT !.correction = b] : b \in {{}, {F(<<0, 1, 2, 3>>)}, {F(<<1, 1>>)}, {F(<<0, 0, 0, 0, 1>>)}}}
    \cup {[c EXCEPT !.verdict = "globally_repairable", !.repairable = TRUE, !.correction = {F(<<0, 1, 2, 3>>)}]}
    \cup {[c EXCEPT !.cycle = z, !.pairing = {dot(z, c.seam_residue)}, !.verdict = "nontrivial_associator_obstruction",
                    !.repairable = FALSE] :
            z \in {F(<<1, 1, 1, 1>>), F(<<-2, -2, -2, 2>>), F(<<1, 1>>), F(<<0, 0, 0, 0>>), F(<<1, 1, 1, 1, 1, 1>>)}}
    \cup {[c EXCEPT !.pairing = p] : p \in {{}, {One}}}
    \cup {[c EXCEPT !.closed = ~@], [c EXCEPT !.delta1_r = <<One>>],
          [c EXCEPT !.seam_residue = Tail(@)],
          [c EXCEPT !.seam_order = SubSeq(@, 1, 3), !.seam_residue = SubSeq(@, 1, 3), !.pairing = {F(<<-3>>)[1]}],
          [c EXCEPT !.seam_residue[1] = Zero, !.defects["e12"] = Zero],
          [c EXCEPT !.mu_by_seam["e23"] = Mu(1, 1, 1, 0)], [c EXCEPT !.mu_by_seam["e23"] = Mu(1, 0, 1, 0)],
          \* nothing left of the matrix but an empty row, or no row at all
          [c EXCEPT !.seam_residue[1] = Zero, !.defects["e12"] = Zero, !.mu_by_seam["e12"] = Mu(0, 0, 0, 0),
                    !.coboundary_0 = <<<<>>>>, !.cycle = F(<<0, 1>>), !.pairing = {One}],
          [c EXCEPT !.coboundary_0 = <<>>], [c EXCEPT !.coboundary_0 = SelectSeq(@, LAMBDA row : row # @[1])]}

----------------------------------------------------------------------------
\* A refinement that loses part of the cycle: SUBDIVIDE_U1 without its split
\* edge, and with a vector that is no cycle.
CUT == [SUBDIVIDE_U1 EXCEPT !.edges = SubSeq(@, 1, 4), !.z = SubSeq(@, 1, 4)]

MCWitnesses == ALL_WITNESSES \cup {CUT}

Seams(w) == {w.edges[k].name : k \in DOMAIN w.edges}

\* What a caller may declare for the seam instead: the same, another
\* coefficient, another sign, another parent.
Declarations(b, seam) ==
    LET k == EdgeNamed(b, seam)
    IN {b, [b EXCEPT !.z[k] = Minus(Zero, @)], [b EXCEPT !.edges[k].sign = <<-1, 1>>],
        [b EXCEPT !.vertex_over[b.edges[k].src] = "U4"]}

MCGluings ==
    UNION {{[a |-> a, b |-> b, declared |-> d, seam |-> s] : d \in Declarations(b, s)} :
             <<a, b, s>> \in {t \in MCWitnesses \X MCWitnesses \X UNION {Seams(w) : w \in MCWitnesses} :
                                t[3] \in Seams(t[1]) \cap Seams(t[2])}}

Square(S) == {<<F(<<a, b>>), F(<<c, d>>)>> : a \in S, b \in S, c \in S, d \in S}

MCSteps == [delta_P : {<<F(<<a>>), F(<<b>>)>> : a \in {0, 1}, b \in -1..1},
            rho : Square({0, 1}), r : {F(<<1, 0>>), F(<<1, 1>>), F(<<1, -1>>)}]
MCSecondMaps == Square({0, 1}) \cup {<<F(<<1, -1>>), F(<<0, 1>>)>>, <<F(<<1, 1>>), F(<<-1, 1>>)>>}

----------------------------------------------------------------------------
\* Covers: one point common to all, or one for each seam; points of two
\* regions for the pairs in ps, points of one region for those in qs.
InTriple == <<{"U1", "U2", "U3"}, {"U2", "U3", "U4"}, {"U3", "U4", "U1"}, {"U4", "U1", "U2"}>>
InPair   == <<{"U1", "U2"}, {"U2", "U3"}, {"U3", "U4"}, {"U1", "U4"}, {"U1", "U3"}, {"U2", "U4"}>>
Region   == <<"U1", "U2", "U3", "U4">>

Cover(common, ps, qs) ==
    [n \in Names |-> (IF common THEN {1} ELSE {1 + i : i \in {j \in 1..4 : n \in InTriple[j]}})
                     \cup {5 + i : i \in {j \in ps : n \in InPair[j]}}
                     \cup {11 + i : i \in {j \in qs : n = Region[j]}}]

MCCovers ==
    {Cover(common, ps, qs) : common \in BOOLEAN, ps \in SUBSET {1, 3, 5} \cup {1..6}, qs \in {{}, {4}, 1..4}}
    \cup {[n \in Names |-> {}], [n \in Names |-> IF n = "U4" THEN {1, 3} ELSE {1, 2}]}

\* The registry of the parity corpus, and two of its required interfaces.
MCRegistry == <<[id |-> "e12", slot |-> "VW"], [id |-> "e23", slot |-> "VW"], [id |-> "e34", slot |-> "VW"],
                [id |-> "e14", slot |-> "VW"], [id |-> "e_test_uv", slot |-> "UV"]>>
MCRequired == <<[id |-> "e12", digest |-> "e12"], [id |-> "e14", digest |-> "e14"]>>

MCAdmissions == {[id |-> "e12", digest |-> "e12", kind |-> k] : k \in {"Compatible", "Incompatible", "Unresolved"}}
                \cup {[id |-> "e12", digest |-> "e14", kind |-> "Compatible"],
                      [id |-> "e14", digest |-> "e14", kind |-> "Compatible"],
                      [id |-> "e99", digest |-> "e99", kind |-> "Incompatible"]}

ContributionOf(id, mu, v) ==
    [interface_id |-> id, digest |-> compute_digest(mu), contribution |-> <<v, 1>>, witness |-> mu]

\* Another constant for a seam, the wrong co-reference, an interface nobody
\* asked for; and four that do not verify, one for each check.
MCOthers == {[cert |-> c, digest |-> "e12"] :
               c \in {ContributionOf("e12", Mu(-1, 0, 0, 0), -1), ContributionOf("e99", Mu(1, 0, 0, 0), 1),
                      [ContributionOf("e12", Mu(1, 0, 0, 0), 1) EXCEPT !.digest = compute_digest(Mu(9, 0, 0, 0))],
                      ContributionOf("e12", Mu(0, 0, 0, 3), -3), ContributionOf("e12", Mu(1, 0, 0, 0), 2)}}
            \cup {[cert |-> ContributionOf("e14", Mu(-2, 0, 0, 0), -2), digest |-> "e12"],
                  [cert |-> ContributionOf("e_test_uv", Mu(0, 0, 0, 7), -7), digest |-> "e_test_uv"]}
=============================================================================
