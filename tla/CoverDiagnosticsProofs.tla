------------------------ MODULE CoverDiagnosticsProofs ------------------------
(***************************************************************************)
(* What the diagnostics of realisable residues report, for every universe  *)
(* of points and every cover of it by four regions. The rules induce       *)
(* columns, one for each parameter; elimination of the listed columns      *)
(* gives the dimension of the realisable residues, of the corrections and  *)
(* of the quotient. The proofs find those dimensions rule by rule (full    *)
(* rank, three, or two), whatever the order in which the set of parameters *)
(* is listed, and conclude that the report says exactly what can be        *)
(* realised and what can be corrected.                                     *)
(***************************************************************************)
EXTENDS ObstructionChainProofs

----------------------------------------------------------------------------
(* The residue that a cover has for a rule: what one seam's four terms     *)
(* contribute to one parameter, each named in its slot or not.             *)

Says(a, k) == IF a = k THEN 1 ELSE 0

LEMMA SeamsAre ==
    /\ Len(SEAMS) = 4 /\ DOMAIN SEAMS = 1..4
    /\ SEAMS[1] = "e12" /\ SEAMS[2] = "e23" /\ SEAMS[3] = "e34" /\ SEAMS[4] = "e14"
    /\ \A i, j \in 1..4 : SEAMS[i] = SEAMS[j] => i = j
<1>1. /\ Len(SEAMS) = 4 /\ DOMAIN SEAMS = 1..4
      /\ SEAMS[1] = "e12" /\ SEAMS[2] = "e23" /\ SEAMS[3] = "e34" /\ SEAMS[4] = "e14"
    BY DEF SEAMS
<1>2. ASSUME NEW i \in 1..4, NEW j \in 1..4, SEAMS[i] = SEAMS[j] PROVE i = j
    <2>1. (i = 1 \/ i = 2 \/ i = 3 \/ i = 4) /\ (j = 1 \/ j = 2 \/ j = 3 \/ j = 4)
        OBVIOUS
    <2> QED
        BY <1>1, <1>2, <2>1
<1> QED
    BY <1>1, <1>2

LEMMA CoefficientIs ==
    ASSUME NEW k
    PROVE  /\ coefficient(Unset, k) = 0
           /\ \A a : coefficient(Just(a), k) = Says(a, k)
           /\ \A a, b, c : coefficient([plus |-> <<a, b>>, minus |-> <<c>>], k)
                             = Says(a, k) + Says(b, k) - Says(c, k)
<1>1. /\ Cardinality({}) = 0
      /\ \A x : Cardinality({x}) = 1
    BY FS_EmptySet, FS_Singleton
<1>2. \A s, t : DOMAIN s = 1..1 /\ s[1] = t => Cardinality({i \in DOMAIN s : s[i] = k}) = Says(t, k)
    <2> SUFFICES ASSUME NEW s, NEW t, DOMAIN s = 1..1, s[1] = t
                 PROVE  Cardinality({i \in DOMAIN s : s[i] = k}) = Says(t, k)
        OBVIOUS
    <2>1. {i \in DOMAIN s : s[i] = k} = IF t = k THEN {1} ELSE {}
        OBVIOUS
    <2> QED
        BY <1>1, <2>1 DEF Says
<1>3. \A s : DOMAIN s = {} => Cardinality({i \in DOMAIN s : s[i] = k}) = 0
    BY <1>1
<1>4. \A s, t, u : DOMAIN s = 1..2 /\ s[1] = t /\ s[2] = u =>
         Cardinality({i \in DOMAIN s : s[i] = k}) = Says(t, k) + Says(u, k)
    <2> SUFFICES ASSUME NEW s, NEW t, NEW u, DOMAIN s = 1..2, s[1] = t, s[2] = u
                 PROVE  Cardinality({i \in DOMAIN s : s[i] = k}) = Says(t, k) + Says(u, k)
        OBVIOUS
    <2>1. {i \in DOMAIN s : s[i] = k} = IF t = k THEN (IF u = k THEN {1, 2} ELSE {1}) ELSE (IF u = k THEN {2} ELSE {})
        OBVIOUS
    <2>2. Cardinality({1, 2}) = 2
        <3>1. IsFiniteSet({1}) /\ 2 \notin {1}
            BY FS_Singleton
        <3>2. {1, 2} = {1} \cup {2}
            OBVIOUS
        <3>3. Cardinality({1}) = 1
            BY <1>1
        <3>4. Cardinality({1} \cup {2}) = Cardinality({1}) + 1
            BY <3>1, FS_AddElement
        <3> QED
            BY <3>2, <3>3, <3>4
    <2>3. CASE t = k /\ u = k
        BY <2>1, <2>2, <2>3 DEF Says
    <2>4. CASE t # k /\ u = k
        <3>1. {i \in DOMAIN s : s[i] = k} = {2}
            BY <2>1, <2>4
        <3>2. Says(t, k) = 0 /\ Says(u, k) = 1
            BY <2>4 DEF Says
        <3> QED
            BY <1>1, <3>1, <3>2
    <2>5. CASE t = k /\ u # k
        <3>1. {i \in DOMAIN s : s[i] = k} = {1}
            BY <2>1, <2>5
        <3> QED
            BY <1>1, <2>5, <3>1 DEF Says
    <2>6. CASE t # k /\ u # k
        BY <1>1, <2>1, <2>6 DEF Says
    <2> QED
        BY <2>3, <2>4, <2>5, <2>6
<1>5. coefficient(Unset, k) = 0
    <2>1. DOMAIN Unset.plus = {} /\ DOMAIN Unset.minus = {}
        BY DEF Unset
    <2> QED
        BY <1>3, <2>1 DEF coefficient
<1>6. ASSUME NEW a PROVE coefficient(Just(a), k) = Says(a, k)
    <2>1. DOMAIN Just(a).plus = 1..1 /\ Just(a).plus[1] = a /\ DOMAIN Just(a).minus = {}
        BY DEF Just
    <2>2. Cardinality({i \in DOMAIN Just(a).plus : Just(a).plus[i] = k}) = Says(a, k)
        BY <1>2, <2>1
    <2>3. Cardinality({i \in DOMAIN Just(a).minus : Just(a).minus[i] = k}) = 0
        BY <1>3, <2>1
    <2>4. Says(a, k) \in Int
        BY DEF Says
    <2> QED
        BY <2>2, <2>3, <2>4 DEF coefficient
<1>7. ASSUME NEW a, NEW b, NEW c
      PROVE  coefficient([plus |-> <<a, b>>, minus |-> <<c>>], k) = Says(a, k) + Says(b, k) - Says(c, k)
    <2> DEFINE p == [plus |-> <<a, b>>, minus |-> <<c>>]
    <2>1. /\ DOMAIN p.plus = 1..2 /\ p.plus[1] = a /\ p.plus[2] = b
          /\ DOMAIN p.minus = 1..1 /\ p.minus[1] = c
        OBVIOUS
    <2> HIDE DEF p
    <2>2. Cardinality({i \in DOMAIN p.plus : p.plus[i] = k}) = Says(a, k) + Says(b, k)
        BY <1>4, <2>1
    <2>3. Cardinality({i \in DOMAIN p.minus : p.minus[i] = k}) = Says(c, k)
        BY <1>2, <2>1
    <2>5. Says(a, k) \in Int /\ Says(b, k) \in Int /\ Says(c, k) \in Int
        BY DEF Says
    <2>4. coefficient(p, k) = Says(a, k) + Says(b, k) - Says(c, k)
        <3> DEFINE x == Cardinality({i \in DOMAIN p.plus : p.plus[i] = k})
                   y == Cardinality({i \in DOMAIN p.minus : p.minus[i] = k})
        <3>1. coefficient(p, k) = x - y
            BY DEF coefficient
        <3>2. x = Says(a, k) + Says(b, k) /\ y = Says(c, k)
            BY <2>2, <2>3
        <3> HIDE DEF x, y
        <3> QED
            BY <2>5, <3>1, <3>2
    <2> QED
        BY <2>4 DEF p
<1> QED
    BY <1>5, <1>6, <1>7

\* What a parameter adds to the residue of a seam.
Entry(rule, cover, e, k) ==
    LET X == cover[THETA[e][1]]
        Y == cover[THETA[e][2]]
        Z == cover[THETA[e][3]]
        T == triple_support(cover, e)
    IN CASE rule = "independent"         -> Says(<<e, "VW">>, k) + Says(<<e, "U_VvW">>, k)
                                              - Says(<<e, "UV">>, k) - Says(<<e, "UvV_W">>, k)
         [] rule = "adjacent"            -> Says({THETA[e][2], THETA[e][3]}, k) - Says({THETA[e][1], THETA[e][2]}, k)
         [] rule = "inclusion_exclusion" -> Says(<<X \cap Y, Z>>, k) - Says(<<X, Y \cap Z>>, k)
         [] rule = "restriction"         -> Says(<<X, T>>, k) - Says(<<Z, T>>, k)

LEMMA EntryIs ==
    ASSUME NEW rule \in Rules, NEW cover, NEW e, NEW k
    PROVE  /\ \A s \in Slots : coefficient(population(rule, cover, e)[s], k) \in Int
           /\ Entry(rule, cover, e, k) \in Int
           /\ Entry(rule, cover, e, k) =
                coefficient(population(rule, cover, e)["VW"], k) - coefficient(population(rule, cover, e)["UvV_W"], k)
                  + coefficient(population(rule, cover, e)["U_VvW"], k) - coefficient(population(rule, cover, e)["UV"], k)
<1> DEFINE p == population(rule, cover, e)
           a == coefficient(p["UV"], k)
           b == coefficient(p["VW"], k)
           c == coefficient(p["U_VvW"], k)
           d == coefficient(p["UvV_W"], k)
           X == cover[THETA[e][1]]
           Y == cover[THETA[e][2]]
           Z == cover[THETA[e][3]]
           T == triple_support(cover, e)
<1>1. SUFFICES /\ a \in Int /\ b \in Int /\ c \in Int /\ d \in Int
               /\ Entry(rule, cover, e, k) = b - d + c - a
    <2>1. \A s \in Slots : s = "UV" \/ s = "VW" \/ s = "U_VvW" \/ s = "UvV_W"
        BY DEF Slots
    <2> HIDE DEF p
    <2>2. \A s \in Slots : coefficient(p[s], k) \in Int
        BY <1>1, <2>1
    <2> HIDE DEF a, b, c, d
    <2>3. Entry(rule, cover, e, k) \in Int
        BY <1>1
    <2> QED
        BY <1>1, <2>2, <2>3 DEF a, b, c, d, p
<1>2. \A x : Says(x, k) \in Int
    BY DEF Says
<1>3. CASE rule = "independent"
    <2>1. p["UV"] = Just(<<e, "UV">>) /\ p["VW"] = Just(<<e, "VW">>)
        BY <1>3 DEF population, realisability_columns, Slots
    <2>2. p["U_VvW"] = Just(<<e, "U_VvW">>) /\ p["UvV_W"] = Just(<<e, "UvV_W">>)
        BY <1>3 DEF population, realisability_columns, Slots
    <2>3. a = Says(<<e, "UV">>, k) /\ b = Says(<<e, "VW">>, k)
        BY <2>1, CoefficientIs
    <2>4. c = Says(<<e, "U_VvW">>, k) /\ d = Says(<<e, "UvV_W">>, k)
        BY <2>2, CoefficientIs
    <2>5. Entry(rule, cover, e, k) = Says(<<e, "VW">>, k) + Says(<<e, "U_VvW">>, k)
                                       - Says(<<e, "UV">>, k) - Says(<<e, "UvV_W">>, k)
        BY <1>3 DEF Entry
    <2> QED
        BY ONLY <1>2, <2>3, <2>4, <2>5
<1>4. CASE rule = "adjacent"
    <2>1. p["UV"] = Just({THETA[e][1], THETA[e][2]}) /\ p["VW"] = Just({THETA[e][2], THETA[e][3]})
        BY <1>4 DEF population, _seam_correction, Slots
    <2>2. p["U_VvW"] = Unset /\ p["UvV_W"] = Unset
        BY <1>4 DEF population, _seam_correction, Slots
    <2>3. a = Says({THETA[e][1], THETA[e][2]}, k) /\ b = Says({THETA[e][2], THETA[e][3]}, k)
        BY <2>1, CoefficientIs
    <2>4. c = 0 /\ d = 0
        BY <2>2, CoefficientIs
    <2>5. Entry(rule, cover, e, k) = Says({THETA[e][2], THETA[e][3]}, k) - Says({THETA[e][1], THETA[e][2]}, k)
        BY <1>4 DEF Entry
    <2> QED
        BY ONLY <1>2, <2>3, <2>4, <2>5
<1>5. CASE rule = "inclusion_exclusion"
    <2>1. p["UV"] = Just(<<X, Y>>) /\ p["VW"] = Just(<<Y, Z>>)
        BY <1>5 DEF population, seam_correction_ie
    <2>2. /\ p["U_VvW"] = [plus |-> <<<<X, Y>>, <<X, Z>>>>, minus |-> <<<<X, Y \cap Z>>>>]
          /\ p["UvV_W"] = [plus |-> <<<<X, Z>>, <<Y, Z>>>>, minus |-> <<<<X \cap Y, Z>>>>]
        BY <1>5 DEF population, seam_correction_ie
    <2>5. Entry(rule, cover, e, k) = Says(<<X \cap Y, Z>>, k) - Says(<<X, Y \cap Z>>, k)
        BY <1>5 DEF Entry
    <2> HIDE DEF X, Y, Z, p
    <2>3. a = Says(<<X, Y>>, k) /\ b = Says(<<Y, Z>>, k)
        BY <2>1, CoefficientIs
    <2> DEFINE f(u, v, w) == [plus |-> <<u, v>>, minus |-> <<w>>]
    <2>6. \A u, v, w : coefficient(f(u, v, w), k) = Says(u, k) + Says(v, k) - Says(w, k)
        BY CoefficientIs
    <2>7. p["U_VvW"] = f(<<X, Y>>, <<X, Z>>, <<X, Y \cap Z>>) /\ p["UvV_W"] = f(<<X, Z>>, <<Y, Z>>, <<X \cap Y, Z>>)
        BY <2>2
    <2> HIDE DEF f
    <2>4. /\ c = Says(<<X, Y>>, k) + Says(<<X, Z>>, k) - Says(<<X, Y \cap Z>>, k)
          /\ d = Says(<<X, Z>>, k) + Says(<<Y, Z>>, k) - Says(<<X \cap Y, Z>>, k)
        BY <2>6, <2>7
    <2> QED
        BY ONLY <1>2, <2>3, <2>4, <2>5
<1>6. CASE rule = "restriction"
    <2>1. p["UV"] = Unset /\ p["VW"] = Unset
        BY <1>6 DEF population, build_candidate_R, Slots
    <2>2. p["U_VvW"] = Just(<<X, T>>) /\ p["UvV_W"] = Just(<<Z, T>>)
        BY <1>6 DEF population, build_candidate_R, Slots
    <2>5. Entry(rule, cover, e, k) = Says(<<X, T>>, k) - Says(<<Z, T>>, k)
        BY <1>6 DEF Entry
    <2> HIDE DEF X, Y, Z, T, p
    <2>3. a = 0 /\ b = 0
        BY <2>1, CoefficientIs
    <2>4. c = Says(<<X, T>>, k) /\ d = Says(<<Z, T>>, k)
        BY <2>2, CoefficientIs
    <2> QED
        BY ONLY <1>2, <2>3, <2>4, <2>5
<1> QED
    BY <1>3, <1>4, <1>5, <1>6 DEF Rules

LEMMA ColumnIs ==
    ASSUME NEW rule \in Rules, NEW cover, NEW k
    PROVE  /\ induced_column(rule, cover, k) = [i \in 1..4 |-> <<Entry(rule, cover, SEAMS[i], k), 1>>]
           /\ induced_column(rule, cover, k) \in FractionRow(4)
           /\ \A i \in 1..4 : Entry(rule, cover, SEAMS[i], k) \in Int
<1> DEFINE a(i, slot) == _SLOT_COEFFICIENT[slot] * coefficient(population(rule, cover, SEAMS[i])[slot], k)
           v == [i \in 1..4 |-> <<a(i, "UV") + a(i, "VW") + a(i, "U_VvW") + a(i, "UvV_W"), 1>>]
           E(i) == Entry(rule, cover, SEAMS[i], k)
           c(i, slot) == coefficient(population(rule, cover, SEAMS[i])[slot], k)
<1>1. \A i \in 1..4 : E(i) \in Int
    BY EntryIs
<1>2. \A i \in 1..4 : v[i] = <<E(i), 1>>
    <2> SUFFICES ASSUME NEW i \in 1..4 PROVE a(i, "UV") + a(i, "VW") + a(i, "U_VvW") + a(i, "UvV_W") = E(i)
        OBVIOUS
    <2>1. "UV" \in Slots /\ "VW" \in Slots /\ "U_VvW" \in Slots /\ "UvV_W" \in Slots
        BY DEF Slots
    <2>2. /\ c(i, "UV") \in Int /\ c(i, "VW") \in Int /\ c(i, "U_VvW") \in Int /\ c(i, "UvV_W") \in Int
          /\ E(i) = c(i, "VW") - c(i, "UvV_W") + c(i, "U_VvW") - c(i, "UV")
        BY <2>1, EntryIs
    <2>3. /\ a(i, "UV") = (-1) * c(i, "UV") /\ a(i, "VW") = 1 * c(i, "VW")
          /\ a(i, "U_VvW") = 1 * c(i, "U_VvW") /\ a(i, "UvV_W") = (-1) * c(i, "UvV_W")
        BY DEF _SLOT_COEFFICIENT
    <2> HIDE DEF E, a, c
    <2> QED
        BY <2>2, <2>3
<1>3. v = [i \in 1..4 |-> <<E(i), 1>>]
    <2> HIDE DEF E, a
    <2> QED
        BY <1>2
<1>4. \A i \in 1..4 : <<E(i), 1>> \in Fractions
    BY <1>1, IntegerIs
<1>5. v \in FractionRow(4)
    <2> HIDE DEF E, a
    <2> QED
        BY <1>3, <1>4 DEF FractionRow
<1>6. Computed(v) = v
    <2> HIDE DEF v
    <2>1. v \in Seq(Fractions)
        BY <1>5, RowIsSeq
    <2> QED
        BY <2>1, ComputedIs
<1>7. induced_column(rule, cover, k) = Computed(v)
    BY SeamsAre DEF induced_column
<1> QED
    BY <1>1, <1>3, <1>5, <1>6, <1>7

\* Regions of the universe, and the constants of a seam.
Placed(i) == i.U \in Regions /\ i.V \in Regions /\ i.W \in Regions /\ i.mu \in SeamCorrectionData

LEMMA PlacedResidueIs ==
    ASSUME NEW i, Placed(i)
    PROVE  compute_seam_residue(i) =
             IF Cardinality(triple_overlap(i)) = 1 THEN {closed_form_delta(i.mu)} ELSE {}
<1>1. i.U \in Regions /\ i.V \in Regions /\ i.W \in Regions /\ i.mu \in SeamCorrectionData
    BY DEF Placed
<1> DEFINE d == defect_of(i)
           o == triple_overlap(i)
<1>2. CASE Cardinality(o) # 1
    BY <1>2 DEF compute_seam_residue, Coefficient
<1>3. CASE Cardinality(o) = 1
    <2>1. support(d) \subseteq o
        BY <1>1, SupportInOverlap DEF defect_of, triple_overlap
    <2>2. d.boundary = [q \in Points |-> IF q \in o THEN closed_form_delta(i.mu) ELSE 0]
        BY <1>1, Localised, SMTT(30) DEF defect_of, triple_overlap
    <2>3. PICK p \in Points : o = {p}
        <3>1. o \subseteq Points
            BY <1>1 DEF triple_overlap, Regions
        <3>2. IsFiniteSet(o)
            BY <3>1, PointsAssumption, FS_Subset
        <3>3. PICK p : o = {p}
            BY <1>3, <3>2, FS_Singleton
        <3> QED
            BY <3>1, <3>3
    <2> HIDE DEF d, o
    <2>4. d.boundary[p] = closed_form_delta(i.mu)
        BY <2>2, <2>3
    <2>5. compute_seam_residue(i) = {d.boundary[q] : q \in o}
        BY <1>3, <2>1, <2>3, <2>4 DEF compute_seam_residue, Coefficient, d, o
    <2> QED
        BY <1>3, <2>3, <2>4, <2>5 DEF o
<1> QED
    BY <1>2, <1>3

----------------------------------------------------------------------------
(* One value per parameter. A vector of constants on the four seams is a   *)
(* combination of the columns, and the gate is what crossing them finds.   *)

LEMMA PlacesAre ==
    /\ THETA["e12"] = <<"U1", "U2", "U3">> /\ THETA["e23"] = <<"U2", "U3", "U4">>
    /\ THETA["e34"] = <<"U3", "U4", "U1">> /\ THETA["e14"] = <<"U4", "U1", "U2">>
    /\ \A i \in 1..4, j \in 1..3 : THETA[SEAMS[i]][j] \in Names
<1>1. /\ THETA["e12"] = <<"U1", "U2", "U3">> /\ THETA["e23"] = <<"U2", "U3", "U4">>
      /\ THETA["e34"] = <<"U3", "U4", "U1">> /\ THETA["e14"] = <<"U4", "U1", "U2">>
    BY DEF THETA
<1>2. ASSUME NEW i \in 1..4, NEW j \in 1..3 PROVE THETA[SEAMS[i]][j] \in Names
    <2>1. (i = 1 \/ i = 2 \/ i = 3 \/ i = 4) /\ (j = 1 \/ j = 2 \/ j = 3)
        OBVIOUS
    <2> QED
        BY <1>1, <2>1, SeamsAre DEF Names
<1> QED
    BY <1>1, <1>2

LEMMA VectorOnCover ==
    ASSUME NEW cover \in [Names -> Regions], NEW mu, \A i \in 1..4 : mu[i] \in SeamCorrectionData,
           NEW x, x = [i \in DOMAIN SEAMS |-> Seam(cover, SEAMS[i], mu[i])]
    PROVE  residue_vector(x, SEAMS) =
             IF check_gate1_support(cover) THEN {[i \in 1..4 |-> <<closed_form_delta(mu[i]), 1>>]} ELSE {}
<1>1. DOMAIN x = 1..4
    BY SeamsAre
<1>2. ASSUME NEW i \in 1..4
      PROVE  /\ x[i].seam = SEAMS[i] /\ x[i].mu = mu[i] /\ Placed(x[i])
             /\ triple_overlap(x[i]) = triple_support(cover, SEAMS[i])
    <2>1. x[i] = Seam(cover, SEAMS[i], mu[i])
        BY SeamsAre
    <2>2. /\ x[i].seam = SEAMS[i] /\ x[i].mu = mu[i]
          /\ x[i].U = cover[THETA[SEAMS[i]][1]] /\ x[i].V = cover[THETA[SEAMS[i]][2]]
          /\ x[i].W = cover[THETA[SEAMS[i]][3]]
        BY <2>1 DEF Seam
    <2>3. x[i].U \in Regions /\ x[i].V \in Regions /\ x[i].W \in Regions
        BY <2>2, PlacesAre
    <2> QED
        BY <2>2, <2>3 DEF Placed, triple_overlap, triple_support
<1>3. ASSUME NEW i \in 1..4
      PROVE  compute_seam_residue(x[i]) =
               IF Cardinality(triple_support(cover, SEAMS[i])) = 1 THEN {closed_form_delta(mu[i])} ELSE {}
    BY <1>2, PlacedResidueIs
<1>4. ASSUME NEW i \in 1..4 PROVE Instance(x, SEAMS[i]) = {x[i]}
    <2> DEFINE ks == {k \in DOMAIN x : x[k].seam = SEAMS[i]}
               last == {k \in ks : \A j \in ks : j <= k}
    <2>1. ks = {i}
        BY <1>1, <1>2, SeamsAre
    <2>2. Instance(x, SEAMS[i]) = {x[k] : k \in last}
        BY DEF Instance
    <2> HIDE DEF ks
    <2>3. last = {i}
        BY <2>1
    <2> HIDE DEF last
    <2> QED
        BY <2>2, <2>3
<1>5. Compiles(x) <=> check_gate1_support(cover)
    BY <1>1, <1>3, SeamsAre DEF Compiles, check_gate1_support
<1>6. CASE ~check_gate1_support(cover)
    BY <1>5, <1>6 DEF residue_vector
<1>7. CASE check_gate1_support(cover)
    <2> DEFINE w(s) == UNION {compute_seam_residue(i) : i \in Instance(x, SEAMS[s])}
    <2>1. ASSUME NEW s \in 1..4 PROVE w(s) = {closed_form_delta(mu[s])}
        <3>1. compute_seam_residue(x[s]) = {closed_form_delta(mu[s])}
            BY <1>3, <1>7, SeamsAre DEF check_gate1_support
        <3> QED
            BY <1>4, <3>1
    <2>2. ~\E s \in DOMAIN SEAMS : Instance(x, SEAMS[s]) = {}
        BY <1>4, SeamsAre
    <2>3. residue_vector(x, SEAMS) = {[s \in 1..4 |-> <<CHOOSE v \in w(s) : TRUE, 1>>]}
        BY <1>5, <1>7, <2>2, SeamsAre DEF residue_vector
    <2> HIDE DEF w
    <2>4. \A s \in 1..4 : (CHOOSE v \in w(s) : TRUE) = closed_form_delta(mu[s])
        BY <2>1
    <2> QED
        BY <1>7, <2>3, <2>4
<1> QED
    BY <1>6, <1>7

LEMMA ConstantsAre ==
    ASSUME NEW m, m.VW \in Int, m.UvV_W \in Int, m.U_VvW \in Int, m.UV \in Int, m = [s \in Slots |-> m[s]]
    PROVE  m \in SeamCorrectionData
<1>1. m = [VW |-> m.VW, UvV_W |-> m.UvV_W, U_VvW |-> m.U_VvW, UV |-> m.UV]
    BY DEF Slots
<1> QED
    BY <1>1 DEF SeamCorrectionData

LEMMA GateIs ==
    ASSUME NEW rule \in Rules, NEW cover \in [Names -> Regions], NEW k
    PROVE  residue_for(rule, cover, k) =
             IF check_gate1_support(cover) THEN {induced_column(rule, cover, k)} ELSE {}
<1> DEFINE mu == [i \in 1..4 |-> [s \in Slots |-> coefficient(population(rule, cover, SEAMS[i])[s], k)]]
           x == [i \in DOMAIN SEAMS |-> Seam(cover, SEAMS[i], mu[i])]
<1>1. \A i \in 1..4 : mu[i] \in SeamCorrectionData /\ closed_form_delta(mu[i]) = Entry(rule, cover, SEAMS[i], k)
    <2> SUFFICES ASSUME NEW i \in 1..4
                 PROVE  mu[i] \in SeamCorrectionData /\ closed_form_delta(mu[i]) = Entry(rule, cover, SEAMS[i], k)
        OBVIOUS
    <2> DEFINE c(s) == coefficient(population(rule, cover, SEAMS[i])[s], k)
               m == [s \in Slots |-> c(s)]
    <2>1. "UV" \in Slots /\ "VW" \in Slots /\ "U_VvW" \in Slots /\ "UvV_W" \in Slots
        BY DEF Slots
    <2>2. /\ c("UV") \in Int /\ c("VW") \in Int /\ c("U_VvW") \in Int /\ c("UvV_W") \in Int
          /\ Entry(rule, cover, SEAMS[i], k) = c("VW") - c("UvV_W") + c("U_VvW") - c("UV")
        BY <2>1, EntryIs
    <2>3. mu[i] = m
        OBVIOUS
    <2> HIDE DEF c, mu
    <2>4. m.UV = c("UV") /\ m.VW = c("VW") /\ m.U_VvW = c("U_VvW") /\ m.UvV_W = c("UvV_W") /\ m = [s \in Slots |-> m[s]]
        BY <2>1
    <2> HIDE DEF m
    <2>5. m \in SeamCorrectionData
        BY <2>2, <2>4, ConstantsAre
    <2>6. closed_form_delta(m) = Entry(rule, cover, SEAMS[i], k)
        BY <2>2, <2>4 DEF closed_form_delta
    <2> QED
        BY <2>3, <2>5, <2>6
<1>2. residue_for(rule, cover, k) = residue_vector(x, SEAMS)
    BY SeamsAre DEF residue_for
<1> HIDE DEF mu
<1>3. residue_vector(x, SEAMS) =
        IF check_gate1_support(cover) THEN {[i \in 1..4 |-> <<closed_form_delta(mu[i]), 1>>]} ELSE {}
    <2> HIDE DEF x
    <2>1. x = [i \in DOMAIN SEAMS |-> Seam(cover, SEAMS[i], mu[i])]
        BY DEF x
    <2> QED
        BY <1>1, <2>1, VectorOnCover
<1>4. [i \in 1..4 |-> <<closed_form_delta(mu[i]), 1>>] = induced_column(rule, cover, k)
    BY <1>1, ColumnIs
<1> QED
    BY <1>2, <1>3, <1>4

----------------------------------------------------------------------------
(* What is named is finite: regions and supports are subsets of Points,    *)
(* and a parameter is a key made of them. The columns can be listed.       *)

LEMMA ImageFinite == ASSUME NEW S, IsFiniteSet(S), NEW f PROVE IsFiniteSet({f[x] : x \in S})
<1> DEFINE g == [x \in S |-> f[x]]
<1>1. g \in Surjection(S, {f[x] : x \in S})
    BY DEF Surjection
<1> QED
    BY <1>1, FS_Surjection

\* The parameters that are named in a slot.
NamedIn(p) == {p.plus[i] : i \in DOMAIN p.plus} \cup {p.minus[i] : i \in DOMAIN p.minus}

LEMMA NamedAre ==
    /\ NamedIn(Unset) = {}
    /\ \A a : NamedIn(Just(a)) = {a}
    /\ \A a, b, c : NamedIn([plus |-> <<a, b>>, minus |-> <<c>>]) = {a, b, c}
<1>1. NamedIn(Unset) = {}
    <2>1. DOMAIN Unset.plus = {} /\ DOMAIN Unset.minus = {}
        BY DEF Unset
    <2> QED
        BY <2>1 DEF NamedIn
<1>2. ASSUME NEW a PROVE NamedIn(Just(a)) = {a}
    <2>1. DOMAIN Just(a).plus = 1..1 /\ Just(a).plus[1] = a /\ DOMAIN Just(a).minus = {}
        BY DEF Just
    <2>2. 1..1 = {1}
        OBVIOUS
    <2> QED
        BY <2>1, <2>2 DEF NamedIn
<1>3. ASSUME NEW a, NEW b, NEW c PROVE NamedIn([plus |-> <<a, b>>, minus |-> <<c>>]) = {a, b, c}
    <2> DEFINE p == [plus |-> <<a, b>>, minus |-> <<c>>]
    <2>1. /\ DOMAIN p.plus = 1..2 /\ p.plus[1] = a /\ p.plus[2] = b
          /\ DOMAIN p.minus = 1..1 /\ p.minus[1] = c
        OBVIOUS
    <2> HIDE DEF p
    <2>2. 1..1 = {1} /\ 1..2 = {1, 2}
        OBVIOUS
    <2>3. NamedIn(p) = {a, b, c}
        BY <2>1, <2>2 DEF NamedIn
    <2> QED
        BY <2>3 DEF p
<1> QED
    BY <1>1, <1>2, <1>3

LEMMA KeysAre ==
    ASSUME NEW rule, NEW cover
    PROVE  /\ \A i \in 1..4, s \in Slots : NamedIn(population(rule, cover, SEAMS[i])[s]) \subseteq parameters(rule, cover)
           /\ \A k \in parameters(rule, cover) :
                \E i \in 1..4, s \in Slots : k \in NamedIn(population(rule, cover, SEAMS[i])[s])
<1> DEFINE p(i, s) == population(rule, cover, SEAMS[i])[s]
<1>1. parameters(rule, cover) = UNION {NamedIn(q) : q \in {p(i, s) : i \in 1..4, s \in Slots}}
    BY SeamsAre DEF parameters, NamedIn
<1> HIDE DEF p
<1>2. \A i \in 1..4, s \in Slots : NamedIn(p(i, s)) \subseteq parameters(rule, cover)
    BY <1>1
<1>3. \A k \in parameters(rule, cover) : \E i \in 1..4, s \in Slots : k \in NamedIn(p(i, s))
    BY <1>1
<1> QED
    BY <1>2, <1>3 DEF p

\* Which are named at a seam.
LEMMA SlotsName ==
    ASSUME NEW cover, NEW e
    PROVE  /\ NamedIn(population("independent", cover, e)["VW"]) = {<<e, "VW">>}
           /\ NamedIn(population("adjacent", cover, e)["VW"]) = {{THETA[e][2], THETA[e][3]}}
           /\ <<cover[THETA[e][1]] \cap cover[THETA[e][2]], cover[THETA[e][3]]>>
                 \in NamedIn(population("inclusion_exclusion", cover, e)["UvV_W"])
           /\ NamedIn(population("restriction", cover, e)["UV"]) = {} /\ NamedIn(population("restriction", cover, e)["VW"]) = {}
           /\ NamedIn(population("restriction", cover, e)["U_VvW"]) = {<<cover[THETA[e][1]], triple_support(cover, e)>>}
           /\ NamedIn(population("restriction", cover, e)["UvV_W"]) = {<<cover[THETA[e][3]], triple_support(cover, e)>>}
<1> DEFINE X == cover[THETA[e][1]]
           Y == cover[THETA[e][2]]
           Z == cover[THETA[e][3]]
           T == triple_support(cover, e)
<1>1. population("independent", cover, e)["VW"] = Just(<<e, "VW">>)
    BY DEF population, realisability_columns, Slots
<1>2. population("adjacent", cover, e)["VW"] = Just({THETA[e][2], THETA[e][3]})
    BY DEF population, _seam_correction, Slots
<1>3. population("inclusion_exclusion", cover, e)["UvV_W"] = [plus |-> <<<<X, Z>>, <<Y, Z>>>>, minus |-> <<<<X \cap Y, Z>>>>]
    BY DEF population, seam_correction_ie
<1>4. population("restriction", cover, e)["UV"] = Unset /\ population("restriction", cover, e)["VW"] = Unset
    BY DEF population, build_candidate_R, Slots
<1>5. population("restriction", cover, e)["U_VvW"] = Just(<<X, T>>) /\ population("restriction", cover, e)["UvV_W"] = Just(<<Z, T>>)
    BY DEF population, build_candidate_R, Slots
<1>6. <<X \cap Y, Z>> \in NamedIn(population("inclusion_exclusion", cover, e)["UvV_W"])
    <2> HIDE DEF X, Y, Z
    <2> DEFINE f(u, v, w) == [plus |-> <<u, v>>, minus |-> <<w>>]
    <2>1. \A u, v, w : NamedIn(f(u, v, w)) = {u, v, w}
        BY NamedAre
    <2>2. population("inclusion_exclusion", cover, e)["UvV_W"] = f(<<X, Z>>, <<Y, Z>>, <<X \cap Y, Z>>)
        BY <1>3
    <2> HIDE DEF f
    <2> QED
        BY <2>1, <2>2
<1> QED
    BY <1>1, <1>2, <1>4, <1>5, <1>6, NamedAre

LEMMA SlotFinite ==
    ASSUME NEW rule \in Rules, NEW cover, NEW e, NEW s \in Slots PROVE IsFiniteSet(NamedIn(population(rule, cover, e)[s]))
<1> DEFINE p == population(rule, cover, e)[s]
<1>1. \/ p = Unset
      \/ \E a : p = Just(a)
      \/ \E a, b, c : p = [plus |-> <<a, b>>, minus |-> <<c>>]
    <2>1. CASE rule = "independent"
        BY <2>1 DEF population, realisability_columns
    <2>2. CASE rule = "adjacent"
        BY <2>2 DEF population, _seam_correction
    <2>3. CASE rule = "restriction"
        BY <2>3 DEF population, build_candidate_R
    <2>4. CASE rule = "inclusion_exclusion"
        <3> DEFINE X == cover[THETA[e][1]]
                   Y == cover[THETA[e][2]]
                   Z == cover[THETA[e][3]]
        <3>1. population(rule, cover, e) = seam_correction_ie(X, Y, Z)
            BY <2>4 DEF population
        <3> HIDE DEF X, Y, Z
        <3>2. CASE s = "UV"
            BY <3>1, <3>2 DEF seam_correction_ie
        <3>3. CASE s = "VW"
            BY <3>1, <3>3 DEF seam_correction_ie
        <3>4. CASE s = "U_VvW"
            <4>1. p = [plus |-> <<<<X, Y>>, <<X, Z>>>>, minus |-> <<<<X, Y \cap Z>>>>]
                BY <3>1, <3>4 DEF seam_correction_ie
            <4> HIDE DEF p
            <4> QED
                BY <4>1
        <3>5. CASE s = "UvV_W"
            <4>1. p = [plus |-> <<<<X, Z>>, <<Y, Z>>>>, minus |-> <<<<X \cap Y, Z>>>>]
                BY <3>1, <3>5 DEF seam_correction_ie
            <4> HIDE DEF p
            <4> QED
                BY <4>1
        <3> QED
            BY <3>2, <3>3, <3>4, <3>5 DEF Slots
    <2> QED
        BY <2>1, <2>2, <2>3, <2>4 DEF Rules
<1> HIDE DEF p
<1>2. \A a, b, c : IsFiniteSet({}) /\ IsFiniteSet({a}) /\ IsFiniteSet({a, b, c})
    <2> SUFFICES ASSUME NEW a, NEW b, NEW c PROVE IsFiniteSet({}) /\ IsFiniteSet({a}) /\ IsFiniteSet({a, b, c})
        OBVIOUS
    <2>1. IsFiniteSet({a}) /\ IsFiniteSet({})
        BY FS_Singleton, FS_EmptySet
    <2>2. IsFiniteSet({a} \cup {b})
        BY <2>1, FS_AddElement
    <2>3. IsFiniteSet(({a} \cup {b}) \cup {c})
        BY <2>2, FS_AddElement
    <2>4. ({a} \cup {b}) \cup {c} = {a, b, c}
        OBVIOUS
    <2> QED
        BY <2>1, <2>3, <2>4
<1>4. IsFiniteSet(NamedIn(p))
    <2>1. CASE p = Unset
        BY <1>2, <2>1, NamedAre
    <2>2. ASSUME NEW a, p = Just(a) PROVE IsFiniteSet(NamedIn(p))
        BY <1>2, <2>2, NamedAre
    <2>3. ASSUME NEW a, NEW b, NEW c, p = [plus |-> <<a, b>>, minus |-> <<c>>] PROVE IsFiniteSet(NamedIn(p))
        <3>1. NamedIn(p) = {a, b, c}
            BY <2>3, NamedAre
        <3>2. IsFiniteSet({a, b, c})
            BY <1>2
        <3> QED
            BY <3>1, <3>2
    <2> QED
        BY <1>1, <2>1, <2>2, <2>3
<1> QED
    BY <1>4 DEF p

LEMMA ParametersFinite ==
    ASSUME NEW rule \in Rules, NEW cover PROVE IsFiniteSet(parameters(rule, cover))
<1> DEFINE N == [x \in (1..4) \X Slots |-> NamedIn(population(rule, cover, SEAMS[x[1]])[x[2]])]
<1>1. IsFiniteSet(1..4)
    <2> DEFINE n == 4
    <2>1. n \in Int
        OBVIOUS
    <2> HIDE DEF n
    <2>2. IsFiniteSet(1..n)
        BY <2>1, FS_Interval
    <2> QED
        BY <2>2 DEF n
<1>2. IsFiniteSet(Slots)
    <2>1. IsFiniteSet({"UV"})
        BY FS_Singleton
    <2>2. IsFiniteSet({"UV"} \cup {"VW"})
        BY <2>1, FS_AddElement
    <2>3. IsFiniteSet(({"UV"} \cup {"VW"}) \cup {"U_VvW"})
        BY <2>2, FS_AddElement
    <2>4. IsFiniteSet((({"UV"} \cup {"VW"}) \cup {"U_VvW"}) \cup {"UvV_W"})
        BY <2>3, FS_AddElement
    <2>5. Slots = (({"UV"} \cup {"VW"}) \cup {"U_VvW"}) \cup {"UvV_W"}
        BY DEF Slots
    <2> QED
        BY <2>4, <2>5
<1>3. IsFiniteSet((1..4) \X Slots)
    BY <1>1, <1>2, FS_Product
<1>4. \A x \in (1..4) \X Slots : IsFiniteSet(N[x])
    BY SlotFinite
<1>5. parameters(rule, cover) = UNION {N[x] : x \in (1..4) \X Slots}
    <2>1. \A k \in parameters(rule, cover) : \E x \in (1..4) \X Slots : k \in N[x]
        <3> SUFFICES ASSUME NEW k \in parameters(rule, cover) PROVE \E x \in (1..4) \X Slots : k \in N[x]
            OBVIOUS
        <3>1. PICK i \in 1..4, s \in Slots : k \in NamedIn(population(rule, cover, SEAMS[i])[s])
            BY KeysAre
        <3>2. <<i, s>> \in (1..4) \X Slots /\ k \in N[<<i, s>>]
            BY <3>1
        <3> QED
            BY <3>2
    <2>2. \A x \in (1..4) \X Slots : N[x] \subseteq parameters(rule, cover)
        BY KeysAre
    <2> HIDE DEF N
    <2> QED
        BY <2>1, <2>2
<1> HIDE DEF N
<1>6. IsFiniteSet({N[x] : x \in (1..4) \X Slots})
    BY <1>3, ImageFinite
<1> QED
    BY <1>4, <1>5, <1>6, FS_UNION

LEMMA InSomeOrderIs ==
    ASSUME NEW S, IsFiniteSet(S)
    PROVE  in_some_order(S) \in Seq(S) /\ \A x \in S : \E i \in 1..Len(in_some_order(S)) : in_some_order(S)[i] = x
<1> DEFINE f == CHOOSE g : g = [T \in SUBSET S |-> IF T = {} THEN <<>> ELSE Append(g[T \ {SomeMember(T)}], SomeMember(T))]
<1>1. in_some_order(S) = f[S]
    BY DEF in_some_order, SomeMember
<1>2. f = [T \in SUBSET S |-> IF T = {} THEN <<>> ELSE Append(f[T \ {SomeMember(T)}], SomeMember(T))]
    <2>1. PICK h : h = [T \in SUBSET S |-> IF T = {} THEN <<>> ELSE Append(h[T \ {SomeMember(T)}], SomeMember(T))]
        BY ListingExists
    <2> QED
        BY <2>1
<1> HIDE DEF f
<1>3. \A T \in SUBSET S : ListedAt(f, T)
    BY <1>2 DEF ListedAt
<1> QED
    BY <1>1, <1>3, ListingIs

LEMMA TabulatedIs == ASSUME NEW f PROVE Tabulated(f) = f
BY DEF Tabulated

\* The columns by parameter.
ColumnsBy(rule, cover) == [k \in parameters(rule, cover) |-> induced_column(rule, cover, k)]

LEMMA KeysIn ==
    ASSUME NEW cover, NEW i \in 1..4
    PROVE  /\ <<SEAMS[i], "VW">> \in parameters("independent", cover)
           /\ {THETA[SEAMS[i]][2], THETA[SEAMS[i]][3]} \in parameters("adjacent", cover)
           /\ <<cover[THETA[SEAMS[i]][1]] \cap cover[THETA[SEAMS[i]][2]], cover[THETA[SEAMS[i]][3]]>>
                \in parameters("inclusion_exclusion", cover)
           /\ <<cover[THETA[SEAMS[i]][1]], triple_support(cover, SEAMS[i])>> \in parameters("restriction", cover)
<1> DEFINE named(rule, s) == NamedIn(population(rule, cover, SEAMS[i])[s])
<1>1. "VW" \in Slots /\ "UvV_W" \in Slots /\ "U_VvW" \in Slots
    BY DEF Slots
<1>2. \A rule : /\ named(rule, "VW") \subseteq parameters(rule, cover)
                /\ named(rule, "UvV_W") \subseteq parameters(rule, cover)
                /\ named(rule, "U_VvW") \subseteq parameters(rule, cover)
    BY <1>1, KeysAre
<1>3. /\ <<SEAMS[i], "VW">> \in named("independent", "VW")
      /\ {THETA[SEAMS[i]][2], THETA[SEAMS[i]][3]} \in named("adjacent", "VW")
    BY SlotsName
<1>4. <<cover[THETA[SEAMS[i]][1]] \cap cover[THETA[SEAMS[i]][2]], cover[THETA[SEAMS[i]][3]]>>
        \in named("inclusion_exclusion", "UvV_W")
    BY SlotsName
<1>5. <<cover[THETA[SEAMS[i]][1]], triple_support(cover, SEAMS[i])>> \in named("restriction", "U_VvW")
    <2>1. named("restriction", "U_VvW") = {<<cover[THETA[SEAMS[i]][1]], triple_support(cover, SEAMS[i])>>}
        BY SlotsName
    <2> QED
        BY <2>1
<1> HIDE DEF named
<1> QED
    BY <1>2, <1>3, <1>4, <1>5

LEMMA ParameterExists == ASSUME NEW rule \in Rules, NEW cover PROVE parameters(rule, cover) # {}
<1>1. 1 \in 1..4
    OBVIOUS
<1>2. /\ parameters("independent", cover) # {} /\ parameters("adjacent", cover) # {}
      /\ parameters("inclusion_exclusion", cover) # {} /\ parameters("restriction", cover) # {}
    BY <1>1, KeysIn
<1> QED
    BY <1>2 DEF Rules

LEMMA MeasureIs ==
    ASSUME NEW rule \in Rules, NEW cover \in [Names -> Regions], NEW B, B = ColumnsBy(rule, cover)
    PROVE  measure(rule, cover) =
             IF check_gate1_support(cover) THEN {Report(rule, cover, B, columns_of(B), _rank(columns_of(B)))} ELSE {}
<1> DEFINE P == parameters(rule, cover)
           q == basis_probe(rule, cover)
           good == {x \in {q} : \A k \in DOMAIN x : x[k] # {}}
           table(probed) == [k \in DOMAIN probed |->
                 IF rule = "restriction" THEN induced_column(rule, cover, k) ELSE CHOOSE r \in probed[k] : TRUE]
           report(b) == Report(rule, cover, b, columns_of(b), _rank(columns_of(b)))
<1>1. q = [k \in P |-> IF check_gate1_support(cover) THEN {induced_column(rule, cover, k)} ELSE {}]
    <2> DEFINE t == [k \in P |-> residue_for(rule, cover, k)]
    <2>1. q = Tabulated(t)
        BY DEF basis_probe
    <2> HIDE DEF t, q
    <2>2. q = t
        BY <2>1, TabulatedIs
    <2>3. \A k \in P : residue_for(rule, cover, k) = IF check_gate1_support(cover) THEN {induced_column(rule, cover, k)} ELSE {}
        BY GateIs
    <2> QED
        BY <2>2, <2>3 DEF t
<1>2. P # {}
    BY ParameterExists
<1>3. measure(rule, cover) = {report(b) : b \in {Tabulated(table(probed)) : probed \in good}}
    BY DEF measure
<1> HIDE DEF q, P, report, table
<1>4. CASE ~check_gate1_support(cover)
    <2>1. good = {}
        BY <1>1, <1>2, <1>4
    <2> HIDE DEF good
    <2>2. {Tabulated(table(probed)) : probed \in good} = {}
        BY <2>1
    <2> QED
        BY <1>3, <1>4, <2>2
<1>5. CASE check_gate1_support(cover)
    <2>1. good = {q}
        BY <1>1, <1>5
    <2>2. table(q) = B
        <3>1. DOMAIN q = P
            BY <1>1
        <3>2. \A k \in P : (CHOOSE r \in q[k] : TRUE) = induced_column(rule, cover, k)
            BY <1>1, <1>5
        <3>3. table(q) = [k \in P |-> induced_column(rule, cover, k)]
            BY <3>1, <3>2 DEF table
        <3> QED
            BY <3>3 DEF ColumnsBy, P
    <2> HIDE DEF good
    <2>3. Tabulated(table(q)) = B
        BY <2>2, TabulatedIs
    <2>4. {Tabulated(table(probed)) : probed \in good} = {B}
        BY <2>1, <2>3
    <2>5. measure(rule, cover) = {report(B)}
        BY <1>3, <2>4
    <2> QED
        BY <1>5, <2>5 DEF report
<1> QED
    BY <1>4, <1>5

----------------------------------------------------------------------------
(* The span of the listed columns, as what elimination reports of them.    *)

LEMMA SpanIsSolvable ==
    ASSUME NEW m \in Nat, NEW n \in Nat, m > 0, NEW D \in Rows(m, n), NEW v \in FractionRow(m)
    PROVE  InSpan(transpose(D), n, m, v) <=> Solvable(D, v)
<1>1. \A c \in 1..m : Column(transpose(D), c, n) = D[c]
    <2>1. transpose(D) = [j \in 1..n |-> Column(D, j, m)]
        BY TransposeIs
    <2>2. \A c \in 1..m : D[c] = [j \in 1..n |-> D[c][j]]
        BY DEF Rows, FractionRow
    <2>3. \A c \in 1..m : Column(transpose(D), c, n) = [j \in 1..n |-> D[c][j]]
        BY <2>1 DEF Column
    <2> QED
        BY <2>2, <2>3
<1>2. \A b \in FractionRow(n) : mat_vec(D, b) = v <=> \A c \in 1..m : v[c] = SumProducts(D[c], b, n)
    <2> SUFFICES ASSUME NEW b \in FractionRow(n)
                 PROVE  mat_vec(D, b) = v <=> \A c \in 1..m : v[c] = SumProducts(D[c], b, n)
        OBVIOUS
    <2>1. mat_vec(D, b) \in FractionRow(m) /\ \A c \in 1..m : mat_vec(D, b)[c] = SumProducts(D[c], b, n)
        BY ApplyIs
    <2> QED
        BY <2>1 DEF FractionRow
<1>3. InSpan(transpose(D), n, m, v) <=> \E b \in FractionRow(n) : \A c \in 1..m : v[c] = SumProducts(D[c], b, n)
    BY <1>1 DEF InSpan
<1>4. Solvable(D, v) <=> \E b \in FractionRow(n) : mat_vec(D, b) = v
    BY SolvableIs
<1> QED
    BY <1>2, <1>3, <1>4

\* Where the columns of a diagnostic are listed.
ListedColumns(rule, cover, V) ==
    /\ Len(V) \in Nat /\ V \in Rows(Len(V), 4)
    /\ \A j \in 1..Len(V) : \E k \in parameters(rule, cover) : V[j] = induced_column(rule, cover, k)
    /\ \A k \in parameters(rule, cover) : \E j \in 1..Len(V) : V[j] = induced_column(rule, cover, k)

LEMMA ColumnsListed ==
    ASSUME NEW rule \in Rules, NEW cover
    PROVE  ListedColumns(rule, cover, columns_of(ColumnsBy(rule, cover)))
<1> DEFINE P == parameters(rule, cover)
           B == ColumnsBy(rule, cover)
           S == {B[k] : k \in P}
           V == in_some_order(S)
<1>1. columns_of(B) = V
    BY DEF columns_of, ColumnsBy
<1>2. \A k \in P : B[k] = induced_column(rule, cover, k)
    BY DEF ColumnsBy
<1>3. \A k \in P : B[k] \in FractionRow(4)
    BY <1>2, ColumnIs
<1>4. IsFiniteSet(P)
    BY ParametersFinite
<1> HIDE DEF P, B
<1>5. IsFiniteSet(S)
    BY <1>4, ImageFinite
<1>6. S \subseteq FractionRow(4)
    BY <1>3
<1>7. V \in Seq(S) /\ \A x \in S : \E i \in 1..Len(V) : V[i] = x
    BY <1>5, InSomeOrderIs
<1>8. \A k \in P : B[k] \in S
    OBVIOUS
<1>9. \A x \in S : \E k \in P : x = B[k]
    OBVIOUS
<1> HIDE DEF S, V
<1>10. Len(V) \in Nat /\ V \in Rows(Len(V), 4) /\ \A j \in 1..Len(V) : V[j] \in S
    BY <1>6, <1>7 DEF Rows
<1>11. \A j \in 1..Len(V) : \E k \in P : V[j] = induced_column(rule, cover, k)
    BY <1>2, <1>9, <1>10
<1>12. \A k \in P : \E j \in 1..Len(V) : V[j] = induced_column(rule, cover, k)
    BY <1>2, <1>7, <1>8
<1> QED
    BY <1>1, <1>10, <1>11, <1>12 DEF ListedColumns, P, B

----------------------------------------------------------------------------
(* Rows of whole numbers, and the two coboundaries as such rows.           *)

LEMMA WholeRow ==
    ASSUME NEW v, NEW a, v \in [1..4 -> Fractions] \/ v = [k \in 1..4 |-> v[k]], Whole(v, a)
    PROVE  v \in FractionRow(4)
<1>1. \A k \in 1..4 : v[k] \in Fractions
    BY IntegerIs DEF Whole
<1> QED
    BY <1>1 DEF FractionRow

\* A complex on the four regions, edge by edge.
OnFour(c) ==
    /\ c.vertices = <<"U1", "U2", "U3", "U4">> /\ DOMAIN c.edges = 1..4
    /\ c.edges[1].src = "U1" /\ c.edges[1].tgt = "U2" /\ c.edges[2].src = "U2" /\ c.edges[2].tgt = "U3"
    /\ c.edges[3].src = "U3" /\ c.edges[3].tgt = "U4"

Difference(c, i) ==
    [j \in 1..4 |-> Says(c.vertices[j], c.edges[i].tgt) - Says(c.vertices[j], c.edges[i].src)]

LEMMA FourRows ==
    ASSUME NEW c, DOMAIN c.vertices = 1..4, DOMAIN c.edges = 1..4
    PROVE  delta0(c) \in Rows(4, 4) /\ \A i \in 1..4 : Whole(delta0(c)[i], Difference(c, i))
<1> DEFINE d(i) == Difference(c, i)
           row(i) == [j \in 1..4 |-> <<d(i)[j], 1>>]
           D == [i \in 1..4 |-> row(i)]
<1>1. ASSUME NEW i \in 1..4 PROVE Whole(row(i), d(i)) /\ row(i) \in FractionRow(4)
    <2>1. \A j \in 1..4 : d(i)[j] \in Int
        BY DEF Difference, Says
    <2> HIDE DEF d
    <2>2. \A j \in 1..4 : row(i)[j] = <<d(i)[j], 1>>
        OBVIOUS
    <2> HIDE DEF row
    <2>3. Whole(row(i), d(i))
        BY <2>1, <2>2 DEF Whole
    <2>4. row(i) = [j \in 1..4 |-> row(i)[j]]
        BY DEF row
    <2> QED
        BY <2>3, <2>4, WholeRow
<1>2. ASSUME NEW i \in 1..4, NEW j \in 1..4
      PROVE  Minus(IF c.vertices[j] = c.edges[i].tgt THEN One ELSE Zero,
                   IF c.vertices[j] = c.edges[i].src THEN One ELSE Zero) = row(i)[j]
    <2> DEFINE x == Says(c.vertices[j], c.edges[i].tgt)
               y == Says(c.vertices[j], c.edges[i].src)
    <2>1. /\ (IF c.vertices[j] = c.edges[i].tgt THEN One ELSE Zero) = <<x, 1>>
          /\ (IF c.vertices[j] = c.edges[i].src THEN One ELSE Zero) = <<y, 1>>
        BY DEF Says, One, Zero
    <2>2. x \in Int /\ y \in Int
        BY DEF Says
    <2>3. row(i)[j] = <<x - y, 1>>
        BY DEF Difference
    <2> HIDE DEF x, y, row
    <2>4. Minus(<<x, 1>>, <<y, 1>>) = <<x - y, 1>>
        BY <2>2, WholeIs
    <2> QED
        BY <2>1, <2>3, <2>4
<1>3. delta0(c) = Computed([i \in 1..4 |-> Computed([j \in 1..4 |-> row(i)[j]])])
    <2> HIDE DEF row
    <2> QED
        BY <1>2 DEF delta0, coboundary_0
<1>4. \A i \in 1..4 : [j \in 1..4 |-> row(i)[j]] = row(i)
    OBVIOUS
<1> HIDE DEF row
<1>5. \A i \in 1..4 : Computed([j \in 1..4 |-> row(i)[j]]) = row(i)
    <2> SUFFICES ASSUME NEW i \in 1..4 PROVE Computed(row(i)) = row(i)
        BY <1>4
    <2>1. row(i) \in Seq(Fractions)
        BY <1>1, RowIsSeq
    <2> QED
        BY <2>1, ComputedIs
<1>6. delta0(c) = Computed(D)
    BY <1>3, <1>5
<1>7. D \in Rows(4, 4) /\ D \in Seq(FractionRow(4))
    BY <1>1 DEF Rows
<1>8. Computed(D) = D
    <2> HIDE DEF D
    <2> QED
        BY <1>7, ComputedIs
<1> QED
    BY <1>1, <1>6, <1>7, <1>8

LEMMA CoarseRows ==
    ASSUME NEW c, OnFour(c),
           NEW s \in {1, -1}, s = 1 => c.edges[4].src = "U1" /\ c.edges[4].tgt = "U4",
           s = -1 => c.edges[4].src = "U4" /\ c.edges[4].tgt = "U1",
           NEW D, D = delta0(c)
    PROVE  /\ D \in Rows(4, 4)
           /\ Whole(D[1], <<-1, 1, 0, 0>>) /\ Whole(D[2], <<0, -1, 1, 0>>)
           /\ Whole(D[3], <<0, 0, -1, 1>>) /\ Whole(D[4], <<-s, 0, 0, s>>)
<1>1. DOMAIN c.vertices = 1..4 /\ DOMAIN c.edges = 1..4
    BY DEF OnFour
<1>2. D \in Rows(4, 4) /\ \A i \in 1..4 : Whole(D[i], Difference(c, i))
    BY <1>1, FourRows
<1>3. c.vertices[1] = "U1" /\ c.vertices[2] = "U2" /\ c.vertices[3] = "U3" /\ c.vertices[4] = "U4"
    BY DEF OnFour
<1>4. /\ Difference(c, 1) = <<-1, 1, 0, 0>> /\ Difference(c, 2) = <<0, -1, 1, 0>>
      /\ Difference(c, 3) = <<0, 0, -1, 1>>
    BY <1>3 DEF OnFour, Difference, Says
<1>5. Difference(c, 4) = <<-s, 0, 0, s>>
    BY <1>3 DEF OnFour, Difference, Says
<1> QED
    BY <1>2, <1>4, <1>5

RowsOf(D, s) ==
    /\ D \in Rows(4, 4)
    /\ Whole(D[1], <<-1, 1, 0, 0>>) /\ Whole(D[2], <<0, -1, 1, 0>>)
    /\ Whole(D[3], <<0, 0, -1, 1>>) /\ Whole(D[4], <<-s, 0, 0, s>>)

LEMMA CoboundariesAre == RowsOf(delta0(COARSE), 1) /\ RowsOf(_cyclic_delta0, -1)
<1> DEFINE cyc == [COARSE EXCEPT !.edges[4] = Edge("e41", "U4", "U1", None, 1)]
           e1 == Edge("e12", "U1", "U2", None, 1)
           e2 == Edge("e23", "U2", "U3", None, 1)
           e3 == Edge("e34", "U3", "U4", None, 1)
           e4 == Edge("e14", "U1", "U4", None, 1)
           f4 == Edge("e41", "U4", "U1", None, 1)
           es == <<e1, e2, e3, e4>>
           fs == [es EXCEPT ![4] = f4]
           vs == <<"U1", "U2", "U3", "U4">>
<1>1. COARSE.vertices = vs /\ COARSE.edges = es
    BY DEF COARSE
<1>2. cyc.vertices = vs /\ cyc.edges = fs
    BY DEF COARSE
<1>3. /\ e1.src = "U1" /\ e1.tgt = "U2" /\ e2.src = "U2" /\ e2.tgt = "U3"
      /\ e3.src = "U3" /\ e3.tgt = "U4" /\ e4.src = "U1" /\ e4.tgt = "U4" /\ f4.src = "U4" /\ f4.tgt = "U1"
    BY DEF Edge
<1> HIDE DEF e1, e2, e3, e4, f4
<1>4. DOMAIN es = 1..4 /\ es[1] = e1 /\ es[2] = e2 /\ es[3] = e3 /\ es[4] = e4
    OBVIOUS
<1>5. DOMAIN fs = 1..4 /\ fs[1] = e1 /\ fs[2] = e2 /\ fs[3] = e3 /\ fs[4] = f4
    OBVIOUS
<1> HIDE DEF es, fs
<1>6. OnFour(COARSE) /\ COARSE.edges[4].src = "U1" /\ COARSE.edges[4].tgt = "U4"
    BY <1>1, <1>3, <1>4 DEF OnFour
<1> HIDE DEF cyc
<1>7. OnFour(cyc) /\ cyc.edges[4].src = "U4" /\ cyc.edges[4].tgt = "U1"
    BY <1>2, <1>3, <1>5 DEF OnFour
<1>8. RowsOf(delta0(COARSE), 1)
    BY <1>6, CoarseRows DEF RowsOf
<1>9. RowsOf(delta0(cyc), -1)
    BY <1>7, CoarseRows DEF RowsOf
<1> QED
    BY <1>8, <1>9 DEF _cyclic_delta0, cyc, f4

\* What the rows make of a vector of integers.
LEMMA RowsApply ==
    ASSUME NEW D, NEW s \in Int, RowsOf(D, s), NEW b \in FractionRow(4), NEW x, Whole(b, x),
           NEW v \in FractionRow(4), NEW a, Whole(v, a),
           a[1] = x[2] - x[1], a[2] = x[3] - x[2], a[3] = x[4] - x[3], a[4] = s * x[4] - s * x[1]
    PROVE  Solvable(D, v)
<1>1. x[1] \in Int /\ x[2] \in Int /\ x[3] \in Int /\ x[4] \in Int
    BY DEF Whole
<1>2. v[1] = <<a[1], 1>> /\ v[2] = <<a[2], 1>> /\ v[3] = <<a[3], 1>> /\ v[4] = <<a[4], 1>>
    BY DEF Whole
<1>3. SumProducts(D[1], b, 4) = v[1]
    <2>1. SumProducts(D[1], b, 4) = <<(-1) * x[1] + 1 * x[2] + 0 * x[3] + 0 * x[4], 1>>
        BY FourProducts DEF RowsOf
    <2> QED
        BY <1>1, <1>2, <2>1
<1>4. SumProducts(D[2], b, 4) = v[2]
    <2>1. SumProducts(D[2], b, 4) = <<0 * x[1] + (-1) * x[2] + 1 * x[3] + 0 * x[4], 1>>
        BY FourProducts DEF RowsOf
    <2> QED
        BY <1>1, <1>2, <2>1
<1>5. SumProducts(D[3], b, 4) = v[3]
    <2>1. SumProducts(D[3], b, 4) = <<0 * x[1] + 0 * x[2] + (-1) * x[3] + 1 * x[4], 1>>
        BY FourProducts DEF RowsOf
    <2> QED
        BY <1>1, <1>2, <2>1
<1>6. SumProducts(D[4], b, 4) = v[4]
    <2>1. SumProducts(D[4], b, 4) = <<(-s) * x[1] + 0 * x[2] + 0 * x[3] + s * x[4], 1>>
        BY FourProducts DEF RowsOf
    <2>2. (-s) * x[1] + 0 * x[2] + 0 * x[3] + s * x[4] = s * x[4] - s * x[1]
        BY <1>1
    <2> QED
        BY <1>2, <2>1, <2>2
<1>7. mat_vec(D, b) = v
    <2>1. D \in Rows(4, 4)
        BY DEF RowsOf
    <2>2. mat_vec(D, b) \in FractionRow(4) /\ \A i \in 1..4 : mat_vec(D, b)[i] = SumProducts(D[i], b, 4)
        BY <2>1, ApplyIs
    <2>3. \A i \in 1..4 : i = 1 \/ i = 2 \/ i = 3 \/ i = 4
        OBVIOUS
    <2>4. \A i \in 1..4 : mat_vec(D, b)[i] = v[i]
        BY <1>3, <1>4, <1>5, <1>6, <2>2, <2>3
    <2> QED
        BY <2>2, <2>4 DEF FractionRow
<1> QED
    BY <1>7, SolvableIs DEF RowsOf

\* Integers as a vector.
LEMMA WholeExists ==
    ASSUME NEW a, a[1] \in Int, a[2] \in Int, a[3] \in Int, a[4] \in Int
    PROVE  \E v \in FractionRow(4) : Whole(v, a)
<1> DEFINE v == [k \in 1..4 |-> <<a[k], 1>>]
<1>1. \A k \in 1..4 : a[k] \in Int
    <2>1. \A k \in 1..4 : k = 1 \/ k = 2 \/ k = 3 \/ k = 4
        OBVIOUS
    <2> QED
        BY <2>1
<1>2. Whole(v, a)
    BY <1>1 DEF Whole
<1>3. v \in FractionRow(4)
    BY <1>2, WholeRow
<1> QED
    BY <1>2, <1>3

LEMMA CyclicReaches ==
    ASSUME NEW x, x[1] \in Int, x[2] \in Int, x[3] \in Int, x[4] \in Int, NEW v \in FractionRow(4), NEW a, Whole(v, a),
           a[1] = x[2] - x[1], a[2] = x[3] - x[2], a[3] = x[4] - x[3], a[4] = x[1] - x[4]
    PROVE  Solvable(_cyclic_delta0, v)
<1>1. PICK b \in FractionRow(4) : Whole(b, x)
    BY WholeExists
<1>2. a[4] = (-1) * x[4] - (-1) * x[1]
    OBVIOUS
<1>3. RowsOf(_cyclic_delta0, -1) /\ -1 \in Int
    BY CoboundariesAre
<1> QED
    BY <1>1, <1>2, <1>3, RowsApply

\* The coboundaries of the paper's orientation are what pairs to zero with the cycle.
LEMMA CoarsePairs ==
    ASSUME NEW v \in FractionRow(4), NEW a, Whole(v, a)
    PROVE  /\ dot(COARSE.cycle, v) = <<a[4] - a[1] - a[2] - a[3], 1>>
           /\ Solvable(delta0(COARSE), v) <=> a[4] - a[1] - a[2] - a[3] = 0
<1> DEFINE z == COARSE.cycle
           D == delta0(COARSE)
           w == <<-1, -1, -1, 1>>
<1>1. a[1] \in Int /\ a[2] \in Int /\ a[3] \in Int /\ a[4] \in Int
    BY DEF Whole
<1>2. Whole(z, w) /\ z \in FractionRow(4)
    <2>1. z = F(w)
        BY DEF COARSE
    <2>2. DOMAIN w = 1..4 /\ w[1] = -1 /\ w[2] = -1 /\ w[3] = -1 /\ w[4] = 1
        OBVIOUS
    <2> HIDE DEF w, z
    <2>3. z = [k \in 1..4 |-> <<w[k], 1>>]
        BY <2>1, <2>2 DEF F
    <2>4. \A k \in 1..4 : w[k] \in Int
        <3>1. \A k \in 1..4 : k = 1 \/ k = 2 \/ k = 3 \/ k = 4
            OBVIOUS
        <3> QED
            BY <2>2, <3>1
    <2>5. Whole(z, w)
        BY <2>3, <2>4 DEF Whole
    <2> QED
        BY <2>3, <2>5, WholeRow
<1> HIDE DEF z
<1>3. dot(z, v) = SumProducts(z, v, 4)
    <2>1. Len(z) = 4 /\ Len(v) = 4
        BY <1>2, RowIsSeq
    <2> QED
        BY <2>1 DEF dot
<1>4. SumProducts(z, v, 4) = <<a[4] - a[1] - a[2] - a[3], 1>>
    <2>1. SumProducts(z, v, 4) = <<(-1) * a[1] + (-1) * a[2] + (-1) * a[3] + 1 * a[4], 1>>
        BY <1>2, FourProducts
    <2> QED
        BY <1>1, <2>1
<1>5. RowsOf(D, 1) /\ D \in Rows(4, 4)
    BY CoboundariesAre DEF RowsOf
<1> HIDE DEF D
<1>6. is_zero(row_vec_mat(z, D))
    <2> DEFINE n == 4
    <2>5. n \in Nat /\ n > 0
        OBVIOUS
    <2>6. D \in Rows(n, n)
        BY <1>5
    <2> HIDE DEF n
    <2>7. Rectangular(D) /\ Len(D) = n /\ columns(D) = n
        BY <2>5, <2>6, RowsRectangular
    <2>8. transpose(D) = [j \in 1..n |-> Column(D, j, n)]
        BY <2>5, <2>6, TransposeIs
    <2>1. Rectangular(D) /\ Len(D) = 4 /\ columns(D) = 4
        BY <2>7 DEF n
    <2>2. Len(z) = 4 /\ Vector(z, 4)
        BY <1>2, RowIsSeq DEF FractionRow, Vector
    <2>3. transpose(D) = [j \in 1..4 |-> Column(D, j, 4)]
        BY <2>8 DEF n
    <2>4. ASSUME NEW j \in 1..4 PROVE SumProducts(transpose(D)[j], z, 4) = Zero
        <3> DEFINE u == Column(D, j, 4)
                   c == IF j = 1 THEN <<-1, 0, 0, -1>> ELSE IF j = 2 THEN <<1, -1, 0, 0>>
                        ELSE IF j = 3 THEN <<0, 1, -1, 0>> ELSE <<0, 0, 1, 1>>
        <3>1. transpose(D)[j] = u
            BY <2>3
        <3>2. u[1] = D[1][j] /\ u[2] = D[2][j] /\ u[3] = D[3][j] /\ u[4] = D[4][j]
            BY DEF Column
        <3>3. D[1][j] = <<c[1], 1>> /\ D[2][j] = <<c[2], 1>> /\ D[3][j] = <<c[3], 1>> /\ D[4][j] = <<c[4], 1>>
            <4>1. j = 1 \/ j = 2 \/ j = 3 \/ j = 4
                OBVIOUS
            <4> QED
                BY <1>5, <4>1 DEF RowsOf, Whole
        <3>4. /\ c[1] \in Int /\ c[2] \in Int /\ c[3] \in Int /\ c[4] \in Int
              /\ c[1] * (-1) + c[2] * (-1) + c[3] * (-1) + c[4] * 1 = 0
            OBVIOUS
        <3> HIDE DEF c, u
        <3>5. Whole(u, c)
            <4>1. \A k \in 1..4 : k = 1 \/ k = 2 \/ k = 3 \/ k = 4
                OBVIOUS
            <4> QED
                BY <3>2, <3>3, <3>4, <4>1 DEF Whole
        <3>6. SumProducts(u, z, 4) = <<c[1] * (-1) + c[2] * (-1) + c[3] * (-1) + c[4] * 1, 1>>
            BY <1>2, <3>5, FourProducts
        <3> QED
            BY <3>1, <3>4, <3>6 DEF Zero
    <2> QED
        BY <2>1, <2>2, <2>4, SeparatorForms
<1>7. ASSUME a[4] - a[1] - a[2] - a[3] # 0 PROVE ~Solvable(D, v)
    <2>1. dot(z, v) # Zero
        BY <1>3, <1>4, <1>7 DEF Zero
    <2> QED
        BY <1>2, <1>5, <1>6, <2>1, CycleRefutes
<1>8. ASSUME a[4] - a[1] - a[2] - a[3] = 0 PROVE Solvable(D, v)
    <2> DEFINE x == <<0, a[1], a[1] + a[2], a[1] + a[2] + a[3]>>
    <2>1. x[1] = 0 /\ x[2] = a[1] /\ x[3] = a[1] + a[2] /\ x[4] = a[1] + a[2] + a[3]
        OBVIOUS
    <2> HIDE DEF x
    <2>2. x[1] \in Int /\ x[2] \in Int /\ x[3] \in Int /\ x[4] \in Int
        BY <1>1, <2>1
    <2>3. PICK b \in FractionRow(4) : Whole(b, x)
        BY <2>2, WholeExists
    <2>4. a[1] = x[2] - x[1] /\ a[2] = x[3] - x[2] /\ a[3] = x[4] - x[3] /\ a[4] = 1 * x[4] - 1 * x[1]
        BY <1>1, <1>8, <2>1
    <2>5. 1 \in Int
        OBVIOUS
    <2> QED
        BY <1>5, <2>3, <2>4, <2>5, RowsApply
<1> QED
    BY <1>3, <1>4, <1>7, <1>8 DEF z, D

----------------------------------------------------------------------------
(* The four numbers of a report. The quotient by the coboundaries vanishes *)
(* when every column can be corrected, and not otherwise.                  *)

LEMMA CoboundaryFor ==
    ASSUME NEW rule PROVE coboundary_for(rule) \in Rows(4, 4)
BY CoboundariesAre DEF coboundary_for, RowsOf

LEMMA RankIs == ASSUME NEW V PROVE _rank(V) = RankOf(V)
BY DEF _rank, RankOf

\* The quotient vanishes when every column can be corrected.
LEMMA QuotientIs ==
    ASSUME NEW rule, NEW k \in Nat, NEW n \in Nat, n > 0, NEW V \in Rows(k, n), NEW D \in Rows(n, n), NEW r \in Int
    PROVE  dim_quotient(r, V, transpose(D)) = 0 <=> \A j \in 1..k : Solvable(D, V[j])
<1> DEFINE T == transpose(D)
           J == V \o T
<1>1. T \in Rows(n, n)
    BY TransposeIs
<1>2. J \in Rows(k + n, n) /\ (\A i \in 1..k : J[i] = V[i]) /\ (\A i \in 1..n : J[k + i] = T[i])
    <2>1. /\ V \in Seq(FractionRow(n)) /\ Len(V) = k /\ DOMAIN V = 1..k
          /\ T \in Seq(FractionRow(n)) /\ Len(T) = n /\ DOMAIN T = 1..n
        BY <1>1 DEF Rows
    <2> HIDE DEF T
    <2>2. J \in Seq(FractionRow(n)) /\ Len(J) = k + n
        BY <2>1
    <2>3. (\A i \in 1..k : J[i] = V[i]) /\ \A i \in 1..n : J[k + i] = T[i]
        BY <2>1
    <2> HIDE DEF J
    <2>4. J \in Rows(k + n, n)
        BY <2>2 DEF Rows
    <2> QED
        BY <2>3, <2>4
<1> HIDE DEF T, J
<1>3. RankOf(J) = RankOf(T) <=> \A j \in 1..k : InSpan(T, n, n, V[j])
    BY <1>1, <1>2, RankMore
<1>4. RankOf(J) \in Nat /\ RankOf(T) \in Nat
    <2> DEFINE h == k + n
    <2>1. h \in Nat
        OBVIOUS
    <2>2. J \in Rows(h, n)
        BY <1>2
    <2> HIDE DEF h
    <2> QED
        BY <1>1, <2>1, <2>2, RankBasis
<1>5. dim_quotient(r, V, T) = r - (r + RankOf(T) - RankOf(J))
    BY RankIs DEF dim_quotient, J
<1>6. dim_quotient(r, V, T) = 0 <=> RankOf(J) = RankOf(T)
    <2> DEFINE a == RankOf(T)
               b == RankOf(J)
    <2>1. a \in Int /\ b \in Int
        BY <1>4
    <2>2. dim_quotient(r, V, T) = r - (r + a - b)
        BY <1>5
    <2> HIDE DEF a, b
    <2>3. dim_quotient(r, V, T) = 0 <=> b = a
        BY <2>1, <2>2
    <2> QED
        BY <2>3 DEF a, b
<1>7. \A j \in 1..k : InSpan(T, n, n, V[j]) <=> Solvable(D, V[j])
    <2> SUFFICES ASSUME NEW j \in 1..k PROVE InSpan(T, n, n, V[j]) <=> Solvable(D, V[j])
        OBVIOUS
    <2>1. V[j] \in FractionRow(n)
        BY DEF Rows
    <2> QED
        BY <2>1, SpanIsSolvable DEF T
<1> QED
    BY <1>3, <1>6, <1>7 DEF T

LEMMA ReportRight ==
    ASSUME NEW rule \in Rules, NEW cover \in [Names -> Regions], check_gate1_support(cover),
           NEW m \in measure(rule, cover)
    PROVE  /\ MeasuredRight(rule, cover, m)
           /\ m.B = ColumnsBy(rule, cover) /\ m.sharing = sharing(m.B)
           /\ m.rank = RankOf(columns_of(m.B))
<1> DEFINE B == ColumnsBy(rule, cover)
           V == columns_of(B)
           T == transpose(coboundary_for(rule))
<1>1. m = Report(rule, cover, B, V, _rank(V))
    <2> HIDE DEF B
    <2>1. measure(rule, cover) = {Report(rule, cover, B, columns_of(B), _rank(columns_of(B)))}
        BY MeasureIs DEF B
    <2> QED
        BY <2>1
<1>2. ListedColumns(rule, cover, V)
    BY ColumnsListed
<1> HIDE DEF B, V
<1>3. /\ m.B = B /\ m.sharing = sharing(B) /\ m.rank = _rank(V)
      /\ m.quotient = dim_quotient(_rank(V), V, transpose(coboundary_for(rule)))
    BY <1>1 DEF Report
<1>4. m.rank = RankOf(V)
    BY <1>3, RankIs
<1>5. DOMAIN B = parameters(rule, cover) /\ \A k \in DOMAIN B : B[k] = induced_column(rule, cover, k)
    BY DEF B, ColumnsBy
<1>6. \A k \in DOMAIN m.B : residue_for(rule, cover, k) = {m.B[k]} /\ induced_column(rule, cover, k) = m.B[k]
    BY <1>3, <1>5, GateIs
<1> DEFINE l == Len(V)
           n == 4
<1>7. l \in Nat /\ V \in Rows(l, n) /\ n \in Nat /\ n > 0
    BY <1>2 DEF ListedColumns
<1>8. coboundary_for(rule) \in Rows(n, n)
    BY CoboundaryFor
<1>9. Len(SEAMS) = n /\ DOMAIN SEAMS = 1..n
    BY SeamsAre
<1> HIDE DEF n, l
<1>10. RankOf(V) \in Nat
    BY <1>7, RankBasis
<1>11. m.quotient = 0 <=> \A k \in DOMAIN m.B : Solvable(coboundary_for(rule), m.B[k])
    <2>1. RankOf(V) \in Int
        BY <1>10
    <2>2. dim_quotient(RankOf(V), V, transpose(coboundary_for(rule))) = 0 <=> \A j \in 1..l : Solvable(coboundary_for(rule), V[j])
        BY <1>7, <1>8, <2>1, QuotientIs
    <2>3. (\A j \in 1..l : Solvable(coboundary_for(rule), V[j])) <=> \A k \in DOMAIN B : Solvable(coboundary_for(rule), B[k])
        BY <1>2, <1>5 DEF ListedColumns, l
    <2> QED
        BY <1>3, <2>2, <2>3, RankIs
<1>12. m.rank = n <=> \A i \in 1..n : in_span_over_Q(columns_of(m.B), Units(i, n))
    <2>1. columns_of(m.B) = V
        BY <1>3 DEF V
    <2>2. \A i \in 1..n : Units(i, n) \in FractionRow(n)
        BY ZeroOne DEF Units, FractionRow
    <2>3. \A i \in 1..n : in_span_over_Q(V, Units(i, n)) <=> InSpan(V, l, n, Units(i, n))
        BY <1>7, <2>2, SpanDecided
    <2> QED
        BY <1>4, <1>7, <2>1, <2>3, RankFull
<1>13. MeasuredRight(rule, cover, m)
    <2>1. \A i \in 1..n : [j \in DOMAIN SEAMS |-> IF i = j THEN One ELSE Zero] = Units(i, n)
        BY <1>9 DEF Units
    <2>2. \A i \in 1..n : in_span_over_Q(columns_of(m.B), [j \in DOMAIN SEAMS |-> IF i = j THEN One ELSE Zero])
                          <=> in_span_over_Q(columns_of(m.B), Units(i, n))
        BY <2>1
    <2>3. m.rank = Len(SEAMS) <=>
            \A i \in DOMAIN SEAMS :
              in_span_over_Q(columns_of(m.B), [j \in DOMAIN SEAMS |-> IF i = j THEN One ELSE Zero])
        BY <1>9, <1>12, <2>2
    <2> QED
        BY <1>6, <1>11, <2>3 DEF MeasuredRight
<1> QED
    BY <1>3, <1>4, <1>13 DEF B, V

----------------------------------------------------------------------------
(* Independent and inclusion parameters: every seam has a column of its    *)
(* own, so every vector is reached and the ranks are full.                 *)

LEMMA UnitColumn ==
    ASSUME NEW rule \in Rules, NEW cover, NEW k, NEW i \in 1..4,
           \A j \in 1..4 : Entry(rule, cover, SEAMS[j], k) = IF j = i THEN 1 ELSE 0
    PROVE  induced_column(rule, cover, k) = Units(i, 4)
<1>1. \A j \in 1..4 : <<Entry(rule, cover, SEAMS[j], k), 1>> = IF j = i THEN One ELSE Zero
    BY DEF One, Zero
<1>2. [j \in 1..4 |-> <<Entry(rule, cover, SEAMS[j], k), 1>>] = Units(i, 4)
    BY <1>1 DEF Units
<1> QED
    BY <1>2, ColumnIs

UnitsReached(rule, cover) ==
    \A i \in 1..4 : \E k \in parameters(rule, cover) : induced_column(rule, cover, k) = Units(i, 4)

LEMMA FullReport ==
    ASSUME NEW rule \in Rules, NEW cover \in [Names -> Regions], check_gate1_support(cover),
           NEW m \in measure(rule, cover), UnitsReached(rule, cover)
    PROVE  verdict(m) = "TOO_FREE_full_rank"
<1> DEFINE V == columns_of(m.B)
           l == Len(V)
           n == 4
<1>1. m.B = ColumnsBy(rule, cover) /\ m.rank = RankOf(V)
    BY ReportRight
<1>2. ListedColumns(rule, cover, V)
    BY <1>1, ColumnsListed
<1> HIDE DEF V
<1>3. l \in Nat /\ V \in Rows(l, n) /\ n \in Nat /\ n > 0
    BY <1>2 DEF ListedColumns
<1>4. \A i \in 1..n : \E j \in 1..l : V[j] = Units(i, n)
    BY <1>2 DEF UnitsReached, ListedColumns
<1> HIDE DEF l
<1>5. m.rank = Len(SEAMS) <=> RankOf(V) = n
    BY <1>1, SeamsAre
<1> HIDE DEF n
<1>6. \A i \in 1..n : InSpan(V, l, n, Units(i, n))
    BY <1>3, <1>4, SpanMember
<1>7. RankOf(V) = n
    BY <1>3, <1>6, RankFull
<1> QED
    BY <1>5, <1>7 DEF verdict

LEMMA IndependentReaches == ASSUME NEW cover PROVE UnitsReached("independent", cover)
<1> SUFFICES ASSUME NEW i \in 1..4
             PROVE  \E k \in parameters("independent", cover) : induced_column("independent", cover, k) = Units(i, 4)
    BY DEF UnitsReached
<1> DEFINE k == <<SEAMS[i], "VW">>
<1>1. k \in parameters("independent", cover)
    BY KeysIn
<1>2. ASSUME NEW j \in 1..4 PROVE Entry("independent", cover, SEAMS[j], k) = IF j = i THEN 1 ELSE 0
    <2>1. Entry("independent", cover, SEAMS[j], k) = Says(<<SEAMS[j], "VW">>, k) + Says(<<SEAMS[j], "U_VvW">>, k)
                                              - Says(<<SEAMS[j], "UV">>, k) - Says(<<SEAMS[j], "UvV_W">>, k)
        BY DEF Entry
    <2>2. /\ Says(<<SEAMS[j], "U_VvW">>, k) = 0 /\ Says(<<SEAMS[j], "UV">>, k) = 0
          /\ Says(<<SEAMS[j], "UvV_W">>, k) = 0
        BY DEF Says
    <2>3. Says(<<SEAMS[j], "VW">>, k) = IF j = i THEN 1 ELSE 0
        BY SeamsAre DEF Says
    <2> QED
        BY <2>1, <2>2, <2>3
<1> HIDE DEF k
<1>3. "independent" \in Rules
    BY DEF Rules
<1>4. induced_column("independent", cover, k) = Units(i, 4)
    BY <1>2, <1>3, UnitColumn
<1> QED
    BY <1>1, <1>4

\* The regions of a seam bear different names, and so do the regions in one place.
LEMMA PlacesDiffer ==
    /\ \A i \in 1..4 : /\ THETA[SEAMS[i]][1] # THETA[SEAMS[i]][2] /\ THETA[SEAMS[i]][1] # THETA[SEAMS[i]][3]
                       /\ THETA[SEAMS[i]][2] # THETA[SEAMS[i]][3]
    /\ \A i, j \in 1..4 : i # j => /\ THETA[SEAMS[i]][1] # THETA[SEAMS[j]][1]
                                   /\ THETA[SEAMS[i]][3] # THETA[SEAMS[j]][3]
<1>1. ASSUME NEW i \in 1..4
      PROVE  /\ THETA[SEAMS[i]][1] # THETA[SEAMS[i]][2] /\ THETA[SEAMS[i]][1] # THETA[SEAMS[i]][3]
             /\ THETA[SEAMS[i]][2] # THETA[SEAMS[i]][3]
    <2>1. i = 1 \/ i = 2 \/ i = 3 \/ i = 4
        OBVIOUS
    <2> QED
        BY <2>1, SeamsAre, PlacesAre
<1>2. ASSUME NEW i \in 1..4, NEW j \in 1..4, i # j
      PROVE  THETA[SEAMS[i]][1] # THETA[SEAMS[j]][1] /\ THETA[SEAMS[i]][3] # THETA[SEAMS[j]][3]
    <2>1. (i = 1 \/ i = 2 \/ i = 3 \/ i = 4) /\ (j = 1 \/ j = 2 \/ j = 3 \/ j = 4)
        OBVIOUS
    <2>2. /\ THETA[SEAMS[1]] = <<"U1", "U2", "U3">> /\ THETA[SEAMS[2]] = <<"U2", "U3", "U4">>
          /\ THETA[SEAMS[3]] = <<"U3", "U4", "U1">> /\ THETA[SEAMS[4]] = <<"U4", "U1", "U2">>
        BY SeamsAre, PlacesAre
    <2>3. CASE i = 1
        BY <1>2, <2>1, <2>2, <2>3
    <2>4. CASE i = 2
        BY <1>2, <2>1, <2>2, <2>4
    <2>5. CASE i = 3
        BY <1>2, <2>1, <2>2, <2>5
    <2>6. CASE i = 4
        BY <1>2, <2>1, <2>2, <2>6
    <2> QED
        BY <2>1, <2>3, <2>4, <2>5, <2>6
<1> QED
    BY <1>1, <1>2

LEMMA InclusionReaches ==
    ASSUME NEW cover \in [Names -> Regions], ~Inside(cover)
    PROVE  UnitsReached("inclusion_exclusion", cover)
<1> SUFFICES ASSUME NEW i \in 1..4
             PROVE  \E k \in parameters("inclusion_exclusion", cover) :
                       induced_column("inclusion_exclusion", cover, k) = Units(i, 4)
    BY DEF UnitsReached
<1> DEFINE X(j) == cover[THETA[SEAMS[j]][1]]
           Y(j) == cover[THETA[SEAMS[j]][2]]
           Z(j) == cover[THETA[SEAMS[j]][3]]
           k == <<X(i) \cap Y(i), Z(i)>>
<1>1. k \in parameters("inclusion_exclusion", cover)
    BY KeysIn
<1>2. ASSUME NEW j \in 1..4 PROVE Entry("inclusion_exclusion", cover, SEAMS[j], k) = IF j = i THEN 1 ELSE 0
    <2>1. Entry("inclusion_exclusion", cover, SEAMS[j], k) = Says(<<X(j) \cap Y(j), Z(j)>>, k) - Says(<<X(j), Y(j) \cap Z(j)>>, k)
        BY DEF Entry
    <2>2. X(j) # X(i) \cap Y(i)
        <3>1. \A p \in 1..4, q \in 1..3 : THETA[SEAMS[p]][q] \in Names
            BY PlacesAre
        <3>2. THETA[SEAMS[i]][1] # THETA[SEAMS[i]][2]
            BY PlacesDiffer
        <3>3. CASE THETA[SEAMS[j]][1] # THETA[SEAMS[i]][1]
            BY <3>1, <3>3 DEF Inside
        <3>4. CASE THETA[SEAMS[j]][1] # THETA[SEAMS[i]][2]
            BY <3>1, <3>4 DEF Inside
        <3> QED
            BY <3>2, <3>3, <3>4
    <2>3. j # i => Z(j) # Z(i)
        BY PlacesAre, PlacesDiffer DEF Inside
    <2>4. Says(<<X(j), Y(j) \cap Z(j)>>, k) = 0
        BY <2>2 DEF Says
    <2>5. Says(<<X(j) \cap Y(j), Z(j)>>, k) = IF j = i THEN 1 ELSE 0
        BY <2>3 DEF Says
    <2> QED
        BY <2>1, <2>4, <2>5
<1> HIDE DEF k
<1>3. "inclusion_exclusion" \in Rules
    BY DEF Rules
<1>4. induced_column("inclusion_exclusion", cover, k) = Units(i, 4)
    BY <1>2, <1>3, UnitColumn
<1> QED
    BY <1>1, <1>4

LEMMA CancellationVerified ==
    ASSUME NEW cover \in [Names -> Regions], ~Inside(cover), NEW m, m.B = ColumnsBy("inclusion_exclusion", cover)
    PROVE  verify_cancellation(cover, m)
<1> SUFFICES ASSUME NEW k \in parameters("inclusion_exclusion", cover),
                    {k[1], k[2]} \subseteq {cover[n] : n \in Names}
             PROVE  is_zero(induced_column("inclusion_exclusion", cover, k))
    BY DEF verify_cancellation, ColumnsBy
<1> DEFINE X(j) == cover[THETA[SEAMS[j]][1]]
           Y(j) == cover[THETA[SEAMS[j]][2]]
           Z(j) == cover[THETA[SEAMS[j]][3]]
<1>1. PICK a \in Names, b \in Names : k[1] = cover[a] /\ k[2] = cover[b]
    OBVIOUS
<1>2. \A p \in 1..4, q \in 1..3 : THETA[SEAMS[p]][q] \in Names
    BY PlacesAre
<1>3. ASSUME NEW j \in 1..4 PROVE Entry("inclusion_exclusion", cover, SEAMS[j], k) = 0
    <2>1. Entry("inclusion_exclusion", cover, SEAMS[j], k) = Says(<<X(j) \cap Y(j), Z(j)>>, k) - Says(<<X(j), Y(j) \cap Z(j)>>, k)
        BY DEF Entry
    <2>2. <<X(j) \cap Y(j), Z(j)>> # k
        <3> SUFFICES ASSUME cover[a] = X(j) \cap Y(j) PROVE FALSE
            BY <1>1
        <3>1. THETA[SEAMS[j]][1] # THETA[SEAMS[j]][2]
            BY PlacesDiffer
        <3>2. CASE a # THETA[SEAMS[j]][1]
            BY <1>2, <3>2 DEF Inside
        <3>3. CASE a # THETA[SEAMS[j]][2]
            BY <1>2, <3>3 DEF Inside
        <3> QED
            BY <3>1, <3>2, <3>3
    <2>3. <<X(j), Y(j) \cap Z(j)>> # k
        <3> SUFFICES ASSUME cover[b] = Y(j) \cap Z(j) PROVE FALSE
            BY <1>1
        <3>1. THETA[SEAMS[j]][2] # THETA[SEAMS[j]][3]
            BY PlacesDiffer
        <3>2. CASE b # THETA[SEAMS[j]][2]
            BY <1>2, <3>2 DEF Inside
        <3>3. CASE b # THETA[SEAMS[j]][3]
            BY <1>2, <3>3 DEF Inside
        <3> QED
            BY <3>1, <3>2, <3>3
    <2> QED
        BY <2>1, <2>2, <2>3 DEF Says
<1> DEFINE c == induced_column("inclusion_exclusion", cover, k)
<1>4. "inclusion_exclusion" \in Rules
    BY DEF Rules
<1>5. c = [j \in 1..4 |-> <<Entry("inclusion_exclusion", cover, SEAMS[j], k), 1>>] /\ c \in FractionRow(4)
    BY <1>4, ColumnIs
<1>6. Len(c) = 4
    BY <1>5, RowIsSeq
<1> HIDE DEF c
<1>7. \A j \in 1..4 : c[j] = Zero
    BY <1>3, <1>5 DEF Zero
<1> QED
    BY <1>6, <1>7 DEF is_zero, c

----------------------------------------------------------------------------
(* Vectors that sum to zero are what three rows of a staircase reach.      *)

LEMMA SpanScaled ==
    ASSUME NEW k \in Nat, NEW L \in Rows(k, 4), NEW x \in Int,
           NEW u \in FractionRow(4), NEW a, Whole(u, a), InSpan(L, k, 4, u),
           NEW w \in FractionRow(4), NEW b, Whole(w, b), InSpan(L, k, 4, w),
           NEW v \in FractionRow(4), NEW c, Whole(v, c),
           c[1] = a[1] + x * b[1], c[2] = a[2] + x * b[2], c[3] = a[3] + x * b[3], c[4] = a[4] + x * b[4]
    PROVE  InSpan(L, k, 4, v)
<1> DEFINE t == <<x, 1>>
<1>1. t \in Fractions
    BY IntegerIs
<1>2. ASSUME NEW i \in 1..4 PROVE Plus(u[i], Times(t, w[i])) = <<a[i] + x * b[i], 1>>
    <2> DEFINE y == x * b[i]
    <2>1. u[i] = <<a[i], 1>> /\ a[i] \in Int /\ w[i] = <<b[i], 1>> /\ b[i] \in Int
        BY DEF Whole
    <2>2. y \in Int
        BY <2>1
    <2>3. Times(t, w[i]) = <<y, 1>>
        BY <2>1, WholeIs
    <2> HIDE DEF y, t
    <2> QED
        BY <2>1, <2>2, <2>3, WholeIs DEF y
<1> HIDE DEF t
<1>3. v = Added(u, t, w, 4)
    <2>1. \A i \in 1..4 : i = 1 \/ i = 2 \/ i = 3 \/ i = 4
        OBVIOUS
    <2>2. \A i \in 1..4 : v[i] = <<a[i] + x * b[i], 1>>
        BY <2>1 DEF Whole
    <2>3. \A i \in 1..4 : v[i] = Plus(u[i], Times(t, w[i]))
        BY <1>2, <2>2
    <2> QED
        BY <2>3 DEF Added, FractionRow
<1> DEFINE n == 4
<1>4. n \in Nat /\ L \in Rows(k, n) /\ InSpan(L, k, n, u) /\ InSpan(L, k, n, w)
    OBVIOUS
<1>5. v = Added(u, t, w, n)
    BY <1>3
<1> HIDE DEF n
<1>6. InSpan(L, k, n, v)
    BY <1>1, <1>4, <1>5, SpanAdds
<1> QED
    BY <1>6 DEF n

LEMMA ZeroReached ==
    ASSUME NEW k \in Nat, NEW L \in Rows(k, 4)
    PROVE  \E z \in FractionRow(4) : Whole(z, <<0, 0, 0, 0>>) /\ InSpan(L, k, 4, z)
<1> DEFINE o == <<0, 0, 0, 0>>
           n == 4
<1>1. o[1] = 0 /\ o[2] = 0 /\ o[3] = 0 /\ o[4] = 0
    OBVIOUS
<1> HIDE DEF o
<1>2. PICK z \in FractionRow(4) : Whole(z, o)
    BY <1>1, WholeExists
<1>3. \A c \in 1..n : z[c] = Zero
    <2>1. \A c \in 1..n : c = 1 \/ c = 2 \/ c = 3 \/ c = 4
        OBVIOUS
    <2> QED
        BY <1>1, <1>2, <2>1 DEF Whole, Zero
<1>4. n \in Nat /\ L \in Rows(k, n)
    OBVIOUS
<1> HIDE DEF n
<1>5. InSpan(L, k, n, z)
    BY <1>3, <1>4, SpanZero
<1> QED
    BY <1>2, <1>5 DEF n, o

\* Rows of integers, the first of which read off one coordinate each.
LEMMA StairsAre ==
    ASSUME NEW l \in Nat, l = 2 \/ l = 3, NEW a,
           \A i \in 1..l : \A c \in 1..4 : a[i][c] \in Int,
           \A i, j \in 1..l : a[j][i] = IF i = j THEN 1 ELSE 0
    PROVE  \E L \in Rows(l, 4) : LinearlyIndependent(L, l, 4) /\ \A i \in 1..l : Whole(L[i], a[i])
<1> DEFINE L == [i \in 1..l |-> [c \in 1..4 |-> <<a[i][c], 1>>]]
           n == 4
<1>1. \A i \in 1..l : Whole(L[i], a[i])
    BY DEF Whole
<1>2. \A i \in 1..l : L[i] \in FractionRow(4)
    <2> SUFFICES ASSUME NEW i \in 1..l PROVE L[i] \in FractionRow(4)
        OBVIOUS
    <2>1. L[i] = [c \in 1..4 |-> L[i][c]]
        OBVIOUS
    <2> HIDE DEF L
    <2> QED
        BY <1>1, <2>1, WholeRow
<1>3. L \in Rows(l, n)
    BY <1>2 DEF Rows
<1> HIDE DEF L
<1>4. \A i, j \in 1..l : L[j][i] = IF i = j THEN One ELSE Zero
    <2>1. \A i \in 1..l : i \in 1..4
        OBVIOUS
    <2> QED
        BY <1>1, <2>1 DEF Whole, One, Zero
<1>5. n \in Nat /\ l <= n
    OBVIOUS
<1> HIDE DEF n
<1>6. LinearlyIndependent(L, l, n)
    BY <1>3, <1>4, <1>5, StaircaseIndependent
<1> QED
    BY <1>1, <1>3, <1>6 DEF n

----------------------------------------------------------------------------
(* Adjacent parameters: a key that one seam adds, the next takes away, so  *)
(* the columns sum to zero and span three of the four dimensions.          *)

LEMMA EntriesWhole ==
    ASSUME NEW rule \in Rules, NEW cover, NEW k, NEW e, e = [i \in 1..4 |-> Entry(rule, cover, SEAMS[i], k)]
    PROVE  /\ induced_column(rule, cover, k) \in FractionRow(4)
           /\ Whole(induced_column(rule, cover, k), e)
<1>1. /\ induced_column(rule, cover, k) = [i \in 1..4 |-> <<e[i], 1>>]
      /\ induced_column(rule, cover, k) \in FractionRow(4) /\ \A i \in 1..4 : e[i] \in Int
    BY ColumnIs
<1> QED
    BY <1>1 DEF Whole

\* The key of a seam, and what its constants say of one key.
Key(i) == {THETA[SEAMS[i]][2], THETA[SEAMS[i]][3]}

LEMMA AdjacentColumn ==
    ASSUME NEW cover, NEW k, NEW x, x = [i \in 1..4 |-> Says(Key(i), k)]
    PROVE  /\ x[1] \in Int /\ x[2] \in Int /\ x[3] \in Int /\ x[4] \in Int
           /\ induced_column("adjacent", cover, k) \in FractionRow(4)
           /\ Whole(induced_column("adjacent", cover, k), <<x[1] - x[4], x[2] - x[1], x[3] - x[2], x[4] - x[3]>>)
<1> DEFINE e == [i \in 1..4 |-> Entry("adjacent", cover, SEAMS[i], k)]
<1>1. x[1] \in Int /\ x[2] \in Int /\ x[3] \in Int /\ x[4] \in Int
    BY DEF Says
<1>2. "adjacent" \in Rules
    BY DEF Rules
<1>3. induced_column("adjacent", cover, k) \in FractionRow(4) /\ Whole(induced_column("adjacent", cover, k), e)
    BY <1>2, EntriesWhole
<1>4. /\ THETA[SEAMS[1]] = <<"U1", "U2", "U3">> /\ THETA[SEAMS[2]] = <<"U2", "U3", "U4">>
      /\ THETA[SEAMS[3]] = <<"U3", "U4", "U1">> /\ THETA[SEAMS[4]] = <<"U4", "U1", "U2">>
    BY SeamsAre, PlacesAre
<1>5. /\ Key(1) = {"U2", "U3"} /\ Key(2) = {"U3", "U4"} /\ Key(3) = {"U4", "U1"} /\ Key(4) = {"U1", "U2"}
    BY <1>4 DEF Key
<1>6. \A i \in 1..4 : e[i] = Says({THETA[SEAMS[i]][2], THETA[SEAMS[i]][3]}, k)
                             - Says({THETA[SEAMS[i]][1], THETA[SEAMS[i]][2]}, k)
    BY DEF Entry
<1>7. e[1] = x[1] - x[4] /\ e[2] = x[2] - x[1] /\ e[3] = x[3] - x[2] /\ e[4] = x[4] - x[3]
    <2> DEFINE f(i) == {THETA[SEAMS[i]][1], THETA[SEAMS[i]][2]}
    <2>1. f(1) = Key(4) /\ f(2) = Key(1) /\ f(3) = Key(2) /\ f(4) = Key(3)
        BY <1>4, <1>5
    <2>2. \A i \in 1..4 : e[i] = Says(Key(i), k) - Says(f(i), k)
        BY <1>6 DEF Key
    <2>3. \A i \in 1..4 : x[i] = Says(Key(i), k)
        OBVIOUS
    <2> HIDE DEF e, f
    <2> QED
        BY <2>1, <2>2, <2>3
<1> HIDE DEF e
<1> DEFINE d == <<x[1] - x[4], x[2] - x[1], x[3] - x[2], x[4] - x[3]>>
<1>8. \A i \in 1..4 : d[i] = e[i]
    <2>1. \A i \in 1..4 : i = 1 \/ i = 2 \/ i = 3 \/ i = 4
        OBVIOUS
    <2>2. d[1] = e[1] /\ d[2] = e[2] /\ d[3] = e[3] /\ d[4] = e[4]
        BY <1>7
    <2> HIDE DEF d
    <2> QED
        BY <2>1, <2>2
<1> HIDE DEF d
<1>9. Whole(induced_column("adjacent", cover, k), d)
    BY <1>3, <1>8 DEF Whole
<1> QED
    BY <1>1, <1>3, <1>9 DEF d

LEMMA AdjacentSolved ==
    ASSUME NEW cover, NEW k PROVE Solvable(_cyclic_delta0, induced_column("adjacent", cover, k))
<1> DEFINE x == [i \in 1..4 |-> Says(Key(i), k)]
           a == <<x[1] - x[4], x[2] - x[1], x[3] - x[2], x[4] - x[3]>>
           y == <<x[4], x[1], x[2], x[3]>>
           v == induced_column("adjacent", cover, k)
<1>1. /\ x[1] \in Int /\ x[2] \in Int /\ x[3] \in Int /\ x[4] \in Int
      /\ v \in FractionRow(4) /\ Whole(v, a)
    BY AdjacentColumn
<1> HIDE DEF x, v
<1>2. y[1] = x[4] /\ y[2] = x[1] /\ y[3] = x[2] /\ y[4] = x[3]
    OBVIOUS
<1>3. a[1] = y[2] - y[1] /\ a[2] = y[3] - y[2] /\ a[3] = y[4] - y[3] /\ a[4] = y[1] - y[4]
    OBVIOUS
<1>4. y[1] \in Int /\ y[2] \in Int /\ y[3] \in Int /\ y[4] \in Int
    BY <1>1, <1>2
<1> HIDE DEF a, y
<1>5. Solvable(_cyclic_delta0, v)
    BY <1>1, <1>3, <1>4, CyclicReaches
<1> QED
    BY <1>5 DEF v

\* Integers that three rows of a staircase reach.
LEMMA StairsReach ==
    ASSUME NEW L \in Rows(3, 4), Whole(L[1], <<1, 0, 0, -1>>), Whole(L[2], <<0, 1, 0, -1>>), Whole(L[3], <<0, 0, 1, -1>>),
           NEW v \in FractionRow(4), NEW a, Whole(v, a), a[1] + a[2] + a[3] + a[4] = 0
    PROVE  InSpan(L, 3, 4, v)
<1> DEFINE p == <<a[1], 0, 0, 0 - a[1]>>
           q == <<a[1], a[2], 0, 0 - a[1] - a[2]>>
           o == <<0, 0, 0, 0>>
           s1 == <<1, 0, 0, -1>>
           s2 == <<0, 1, 0, -1>>
           s3 == <<0, 0, 1, -1>>
           l == 3
           n == 4
           In(u) == InSpan(L, l, 4, u)
<1>1. a[1] \in Int /\ a[2] \in Int /\ a[3] \in Int /\ a[4] \in Int
    BY DEF Whole
<1>2. /\ p[1] = a[1] /\ p[2] = 0 /\ p[3] = 0 /\ p[4] = 0 - a[1]
      /\ q[1] = a[1] /\ q[2] = a[2] /\ q[3] = 0 /\ q[4] = 0 - a[1] - a[2]
    OBVIOUS
<1>3. /\ o[1] = 0 /\ o[2] = 0 /\ o[3] = 0 /\ o[4] = 0
      /\ s1[1] = 1 /\ s1[2] = 0 /\ s1[3] = 0 /\ s1[4] = -1
      /\ s2[1] = 0 /\ s2[2] = 1 /\ s2[3] = 0 /\ s2[4] = -1
      /\ s3[1] = 0 /\ s3[2] = 0 /\ s3[3] = 1 /\ s3[4] = -1
    OBVIOUS
<1>4. Whole(L[1], s1) /\ Whole(L[2], s2) /\ Whole(L[3], s3)
    OBVIOUS
<1>5. l \in Nat /\ L \in Rows(l, 4)
    OBVIOUS
<1>6. L[1] \in FractionRow(4) /\ L[2] \in FractionRow(4) /\ L[3] \in FractionRow(4)
    BY DEF Rows
<1>7. In(L[1]) /\ In(L[2]) /\ In(L[3])
    <2>1. l \in Nat /\ n \in Nat /\ L \in Rows(l, n) /\ 1 \in 1..l /\ 2 \in 1..l /\ 3 \in 1..l
        OBVIOUS
    <2> HIDE DEF l, n
    <2>2. InSpan(L, l, n, L[1]) /\ InSpan(L, l, n, L[2]) /\ InSpan(L, l, n, L[3])
        BY <2>1, SpanMember
    <2> QED
        BY <2>2 DEF n
<1> HIDE DEF p, q, o, s1, s2, s3, l
<1>8. PICK z \in FractionRow(4) : Whole(z, o) /\ In(z)
    BY <1>5, ZeroReached DEF o
<1>9. \E u \in FractionRow(4) : Whole(u, p)
    BY <1>1, <1>2, WholeExists
<1>10. \E w \in FractionRow(4) : Whole(w, q)
    BY <1>1, <1>2, WholeExists
<1>11. PICK u \in FractionRow(4), w \in FractionRow(4) : Whole(u, p) /\ Whole(w, q)
    BY <1>9, <1>10
<1>12. In(u)
    <2>1. /\ p[1] = o[1] + a[1] * s1[1] /\ p[2] = o[2] + a[1] * s1[2]
          /\ p[3] = o[3] + a[1] * s1[3] /\ p[4] = o[4] + a[1] * s1[4]
        BY <1>1, <1>2, <1>3
    <2> QED
        BY <1>1, <1>4, <1>5, <1>6, <1>7, <1>8, <1>11, <2>1, SpanScaled
<1>13. In(w)
    <2>1. /\ q[1] = p[1] + a[2] * s2[1] /\ q[2] = p[2] + a[2] * s2[2]
          /\ q[3] = p[3] + a[2] * s2[3] /\ q[4] = p[4] + a[2] * s2[4]
        BY <1>1, <1>2, <1>3
    <2> QED
        BY <1>1, <1>4, <1>5, <1>6, <1>7, <1>11, <1>12, <2>1, SpanScaled
<1>14. In(v)
    <2>1. /\ a[1] = q[1] + a[3] * s3[1] /\ a[2] = q[2] + a[3] * s3[2]
          /\ a[3] = q[3] + a[3] * s3[3] /\ a[4] = q[4] + a[3] * s3[4]
        BY <1>1, <1>2, <1>3
    <2> QED
        BY <1>1, <1>4, <1>5, <1>6, <1>7, <1>11, <1>13, <2>1, SpanScaled
<1> QED
    BY <1>14 DEF l

\* Two steps around the rows of integers.
LEMMA SpanSteps ==
    ASSUME NEW l \in Nat, NEW V \in Rows(l, 4), NEW x \in {1, -1}, NEW j \in 1..l, NEW b, Whole(V[j], b),
           NEW u \in FractionRow(4), NEW a, Whole(u, a), InSpan(V, l, 4, u),
           NEW v \in FractionRow(4), NEW c, Whole(v, c),
           c[1] = a[1] + x * b[1], c[2] = a[2] + x * b[2], c[3] = a[3] + x * b[3], c[4] = a[4] + x * b[4]
    PROVE  InSpan(V, l, 4, v)
<1> DEFINE n == 4
<1>1. V[j] \in FractionRow(4)
    BY DEF Rows
<1>2. n \in Nat /\ V \in Rows(l, n)
    OBVIOUS
<1> HIDE DEF n
<1>3. InSpan(V, l, n, V[j])
    BY <1>2, SpanMember
<1>4. InSpan(V, l, 4, V[j]) /\ x \in Int
    BY <1>3 DEF n
<1> QED
    BY <1>1, <1>4, SpanScaled

LEMMA AdjacentKeys ==
    ASSUME NEW cover
    PROVE  /\ Key(1) \in parameters("adjacent", cover) /\ Key(2) \in parameters("adjacent", cover)
           /\ Key(3) \in parameters("adjacent", cover)
           /\ Whole(induced_column("adjacent", cover, Key(1)), <<1, -1, 0, 0>>)
           /\ Whole(induced_column("adjacent", cover, Key(2)), <<0, 1, -1, 0>>)
           /\ Whole(induced_column("adjacent", cover, Key(3)), <<0, 0, 1, -1>>)
<1>1. Key(1) \in parameters("adjacent", cover) /\ Key(2) \in parameters("adjacent", cover)
      /\ Key(3) \in parameters("adjacent", cover)
    <2>1. \A i \in 1..4 : Key(i) \in parameters("adjacent", cover)
        BY KeysIn DEF Key
    <2>2. 1 \in 1..4 /\ 2 \in 1..4 /\ 3 \in 1..4
        OBVIOUS
    <2> QED
        BY <2>1, <2>2
<1>2. \A i, n \in 1..4 : Key(i) = Key(n) => i = n
    <2>1. /\ THETA[SEAMS[1]] = <<"U1", "U2", "U3">> /\ THETA[SEAMS[2]] = <<"U2", "U3", "U4">>
          /\ THETA[SEAMS[3]] = <<"U3", "U4", "U1">> /\ THETA[SEAMS[4]] = <<"U4", "U1", "U2">>
        BY SeamsAre, PlacesAre
    <2>2. /\ Key(1) = {"U2", "U3"} /\ Key(2) = {"U3", "U4"} /\ Key(3) = {"U4", "U1"} /\ Key(4) = {"U1", "U2"}
        BY <2>1 DEF Key
    <2>3. /\ Key(1) # Key(2) /\ Key(1) # Key(3) /\ Key(1) # Key(4)
          /\ Key(2) # Key(3) /\ Key(2) # Key(4) /\ Key(3) # Key(4)
        BY <2>2
    <2>4. \A i \in 1..4 : i = 1 \/ i = 2 \/ i = 3 \/ i = 4
        OBVIOUS
    <2> QED
        BY <2>3, <2>4
<1>3. ASSUME NEW n \in 1..4
      PROVE  \E x : /\ Whole(induced_column("adjacent", cover, Key(n)),
                             <<x[1] - x[4], x[2] - x[1], x[3] - x[2], x[4] - x[3]>>)
                    /\ \A i \in 1..4 : x[i] = IF i = n THEN 1 ELSE 0
    <2> DEFINE k == Key(n)
               x == [i \in 1..4 |-> Says(Key(i), k)]
    <2>1. \A i \in 1..4 : x[i] = IF i = n THEN 1 ELSE 0
        BY <1>2 DEF Says
    <2>2. x = [i \in 1..4 |-> Says(Key(i), k)]
        OBVIOUS
    <2> HIDE DEF x, k
    <2>3. Whole(induced_column("adjacent", cover, k), <<x[1] - x[4], x[2] - x[1], x[3] - x[2], x[4] - x[3]>>)
        BY <2>2, AdjacentColumn
    <2> QED
        BY <2>1, <2>3 DEF k
<1>4. Whole(induced_column("adjacent", cover, Key(1)), <<1, -1, 0, 0>>)
    <2>1. PICK x : /\ Whole(induced_column("adjacent", cover, Key(1)),
                            <<x[1] - x[4], x[2] - x[1], x[3] - x[2], x[4] - x[3]>>)
                   /\ \A i \in 1..4 : x[i] = IF i = 1 THEN 1 ELSE 0
        BY <1>3
    <2>2. x[1] = 1 /\ x[2] = 0 /\ x[3] = 0 /\ x[4] = 0
        BY <2>1
    <2> QED
        BY <2>1, <2>2
<1>5. Whole(induced_column("adjacent", cover, Key(2)), <<0, 1, -1, 0>>)
    <2>1. PICK x : /\ Whole(induced_column("adjacent", cover, Key(2)),
                            <<x[1] - x[4], x[2] - x[1], x[3] - x[2], x[4] - x[3]>>)
                   /\ \A i \in 1..4 : x[i] = IF i = 2 THEN 1 ELSE 0
        BY <1>3
    <2>2. x[1] = 0 /\ x[2] = 1 /\ x[3] = 0 /\ x[4] = 0
        BY <2>1
    <2> QED
        BY <2>1, <2>2
<1>6. Whole(induced_column("adjacent", cover, Key(3)), <<0, 0, 1, -1>>)
    <2>1. PICK x : /\ Whole(induced_column("adjacent", cover, Key(3)),
                            <<x[1] - x[4], x[2] - x[1], x[3] - x[2], x[4] - x[3]>>)
                   /\ \A i \in 1..4 : x[i] = IF i = 3 THEN 1 ELSE 0
        BY <1>3
    <2>2. x[1] = 0 /\ x[2] = 0 /\ x[3] = 1 /\ x[4] = 0
        BY <2>1
    <2> QED
        BY <2>1, <2>2
<1> QED
    BY <1>1, <1>4, <1>5, <1>6

LEMMA AdjacentBasis ==
    ASSUME NEW cover, NEW V, ListedColumns("adjacent", cover, V)
    PROVE  RankOf(V) = 3
<1> DEFINE l == Len(V)
           n == 4
           t == 3
           a == <<<<1, 0, 0, -1>>, <<0, 1, 0, -1>>, <<0, 0, 1, -1>>>>
           k1 == <<1, -1, 0, 0>>
           k2 == <<0, 1, -1, 0>>
           k3 == <<0, 0, 1, -1>>
           o == <<0, 0, 0, 0>>
           s1 == <<1, 0, 0, -1>>
           s2 == <<0, 1, 0, -1>>
           s3 == <<0, 0, 1, -1>>
<1>1. l \in Nat /\ V \in Rows(l, 4)
    BY DEF ListedColumns
<1>2. PICK L \in Rows(t, 4) : /\ LinearlyIndependent(L, t, 4)
                              /\ Whole(L[1], s1) /\ Whole(L[2], s2) /\ Whole(L[3], s3)
    <2>1. a[1] = s1 /\ a[2] = s2 /\ a[3] = s3
        OBVIOUS
    <2>2. t \in Nat /\ (t = 2 \/ t = 3)
        OBVIOUS
    <2>3. \A i \in 1..t : \A c \in 1..4 : a[i][c] \in Int
        OBVIOUS
    <2>4. \A i, j \in 1..t : a[j][i] = IF i = j THEN 1 ELSE 0
        OBVIOUS
    <2>5. 1 \in 1..t /\ 2 \in 1..t /\ 3 \in 1..t
        OBVIOUS
    <2> HIDE DEF a, t, s1, s2, s3
    <2>6. \E L \in Rows(t, 4) : LinearlyIndependent(L, t, 4) /\ \A i \in 1..t : Whole(L[i], a[i])
        BY <2>2, <2>3, <2>4, StairsAre
    <2> QED
        BY <2>1, <2>5, <2>6
<1>3. L[1] \in FractionRow(4) /\ L[2] \in FractionRow(4) /\ L[3] \in FractionRow(4)
    BY DEF Rows
<1>4. PICK i1 \in 1..l, i2 \in 1..l, i3 \in 1..l : Whole(V[i1], k1) /\ Whole(V[i2], k2) /\ Whole(V[i3], k3)
    BY AdjacentKeys DEF ListedColumns
<1>5. /\ o[1] = 0 /\ o[2] = 0 /\ o[3] = 0 /\ o[4] = 0
      /\ s1[1] = 1 /\ s1[2] = 0 /\ s1[3] = 0 /\ s1[4] = -1
      /\ s2[1] = 0 /\ s2[2] = 1 /\ s2[3] = 0 /\ s2[4] = -1
      /\ s3[1] = 0 /\ s3[2] = 0 /\ s3[3] = 1 /\ s3[4] = -1
      /\ k1[1] = 1 /\ k1[2] = -1 /\ k1[3] = 0 /\ k1[4] = 0
      /\ k2[1] = 0 /\ k2[2] = 1 /\ k2[3] = -1 /\ k2[4] = 0
      /\ k3[1] = 0 /\ k3[2] = 0 /\ k3[3] = 1 /\ k3[4] = -1
    OBVIOUS
<1>6. 1 \in {1, -1}
    OBVIOUS
<1> HIDE DEF l, k1, k2, k3
<1>7. PICK z \in FractionRow(4) : Whole(z, o) /\ InSpan(V, l, 4, z)
    BY <1>1, ZeroReached
<1> HIDE DEF o, s1, s2, s3, a
<1>8. InSpan(V, l, 4, L[3])
    <2>1. s3[1] = o[1] + 1 * k3[1] /\ s3[2] = o[2] + 1 * k3[2] /\ s3[3] = o[3] + 1 * k3[3] /\ s3[4] = o[4] + 1 * k3[4]
        BY <1>5
    <2> QED
        BY <1>1, <1>2, <1>3, <1>4, <1>6, <1>7, <2>1, SpanSteps
<1>9. InSpan(V, l, 4, L[2])
    <2>1. s2[1] = s3[1] + 1 * k2[1] /\ s2[2] = s3[2] + 1 * k2[2] /\ s2[3] = s3[3] + 1 * k2[3] /\ s2[4] = s3[4] + 1 * k2[4]
        BY <1>5
    <2> QED
        BY <1>1, <1>2, <1>3, <1>4, <1>6, <1>8, <2>1, SpanSteps
<1>10. InSpan(V, l, 4, L[1])
    <2>1. s1[1] = s2[1] + 1 * k1[1] /\ s1[2] = s2[2] + 1 * k1[2] /\ s1[3] = s2[3] + 1 * k1[3] /\ s1[4] = s2[4] + 1 * k1[4]
        BY <1>5
    <2> QED
        BY <1>1, <1>2, <1>3, <1>4, <1>6, <1>9, <2>1, SpanSteps
<1>11. \A j \in 1..l : InSpan(L, t, 4, V[j])
    <2> SUFFICES ASSUME NEW j \in 1..l PROVE InSpan(L, t, 4, V[j])
        OBVIOUS
    <2>1. PICK k : V[j] = induced_column("adjacent", cover, k)
        BY DEF ListedColumns, l
    <2> DEFINE x == [i \in 1..4 |-> Says(Key(i), k)]
               e == <<x[1] - x[4], x[2] - x[1], x[3] - x[2], x[4] - x[3]>>
    <2>2. /\ x[1] \in Int /\ x[2] \in Int /\ x[3] \in Int /\ x[4] \in Int
          /\ V[j] \in FractionRow(4) /\ Whole(V[j], e)
        BY <2>1, AdjacentColumn
    <2> HIDE DEF x
    <2>3. e[1] + e[2] + e[3] + e[4] = 0
        <3>1. e[1] = x[1] - x[4] /\ e[2] = x[2] - x[1] /\ e[3] = x[3] - x[2] /\ e[4] = x[4] - x[3]
            OBVIOUS
        <3> HIDE DEF e
        <3> QED
            BY <2>2, <3>1
    <2> HIDE DEF e
    <2>4. InSpan(L, 3, 4, V[j])
        BY <1>2, <2>2, <2>3, StairsReach DEF t, s1, s2, s3
    <2> QED
        BY <2>4 DEF t
<1>12. \A i \in 1..t : InSpan(V, l, 4, L[i])
    <2>1. \A i \in 1..t : i = 1 \/ i = 2 \/ i = 3
        BY DEF t
    <2> QED
        BY <1>8, <1>9, <1>10, <2>1
<1>13. t \in Nat /\ n \in Nat /\ n > 0 /\ V \in Rows(l, n) /\ BasisOf(L, t, V, l, n)
    BY <1>1, <1>2, <1>11, <1>12 DEF BasisOf, t
<1> HIDE DEF n, t
<1>14. RankOf(V) = t
    BY <1>1, <1>13, RankOfIndependent
<1> QED
    BY <1>14 DEF t

LEMMA AdjacentReport ==
    ASSUME NEW cover \in [Names -> Regions], check_gate1_support(cover), NEW m \in measure("adjacent", cover)
    PROVE  m.rank = 3 /\ verdict(m) = "TOO_STRICT_collapses_to_im_delta0"
<1>1. "adjacent" \in Rules
    BY DEF Rules
<1>2. /\ MeasuredRight("adjacent", cover, m) /\ m.B = ColumnsBy("adjacent", cover)
      /\ m.rank = RankOf(columns_of(m.B))
    BY <1>1, ReportRight
<1>3. ListedColumns("adjacent", cover, columns_of(m.B))
    BY <1>1, <1>2, ColumnsListed
<1>4. m.rank = 3
    BY <1>2, <1>3, AdjacentBasis
<1>5. \A k \in DOMAIN m.B : m.B[k] = induced_column("adjacent", cover, k)
    BY <1>2 DEF ColumnsBy
<1>6. \A k \in DOMAIN m.B : Solvable(coboundary_for("adjacent"), m.B[k])
    BY <1>5, AdjacentSolved DEF coboundary_for
<1>7. m.quotient = 0
    BY <1>2, <1>6 DEF MeasuredRight
<1>8. Len(SEAMS) = 4
    BY SeamsAre
<1> QED
    BY <1>4, <1>7, <1>8 DEF verdict

----------------------------------------------------------------------------
(* Restricted parameters. Where the supports do not all coincide a seam    *)
(* has a column to itself; where they do, opposite seams cancel.           *)

\* The seams of the four regions in turn.
LEMMA PlacesTurn ==
    \A i, j \in 1..4 :
      /\ THETA[SEAMS[j]][3] = THETA[SEAMS[i]][1] <=> (i - j = 2 \/ j - i = 2)
      /\ (i - j = 2 \/ j - i = 2) =>
           \A n \in Names : n = THETA[SEAMS[i]][1] \/ n = THETA[SEAMS[i]][2] \/ n = THETA[SEAMS[i]][3]
                            \/ n = THETA[SEAMS[j]][1] \/ n = THETA[SEAMS[j]][2] \/ n = THETA[SEAMS[j]][3]
<1> SUFFICES ASSUME NEW i \in 1..4, NEW j \in 1..4
             PROVE  /\ THETA[SEAMS[j]][3] = THETA[SEAMS[i]][1] <=> (i - j = 2 \/ j - i = 2)
                    /\ (i - j = 2 \/ j - i = 2) =>
                         \A n \in Names : n = THETA[SEAMS[i]][1] \/ n = THETA[SEAMS[i]][2] \/ n = THETA[SEAMS[i]][3]
                            \/ n = THETA[SEAMS[j]][1] \/ n = THETA[SEAMS[j]][2] \/ n = THETA[SEAMS[j]][3]
    OBVIOUS
<1>1. /\ THETA[SEAMS[1]] = <<"U1", "U2", "U3">> /\ THETA[SEAMS[2]] = <<"U2", "U3", "U4">>
      /\ THETA[SEAMS[3]] = <<"U3", "U4", "U1">> /\ THETA[SEAMS[4]] = <<"U4", "U1", "U2">>
    BY SeamsAre, PlacesAre
<1>2. (i = 1 \/ i = 2 \/ i = 3 \/ i = 4) /\ (j = 1 \/ j = 2 \/ j = 3 \/ j = 4)
    OBVIOUS
<1>3. CASE i = 1
    BY <1>1, <1>2, <1>3 DEF Names
<1>4. CASE i = 2
    BY <1>1, <1>2, <1>4 DEF Names
<1>5. CASE i = 3
    BY <1>1, <1>2, <1>5 DEF Names
<1>6. CASE i = 4
    BY <1>1, <1>2, <1>6 DEF Names
<1> QED
    BY <1>2, <1>3, <1>4, <1>5, <1>6

LEMMA SupportIs ==
    ASSUME NEW cover \in [Names -> Regions], check_gate1_support(cover), NEW i \in 1..4
    PROVE  \E p \in Points : triple_support(cover, SEAMS[i]) = {p}
<1> DEFINE T == triple_support(cover, SEAMS[i])
<1>1. THETA[SEAMS[i]][1] \in Names
    BY PlacesAre
<1>2. T \subseteq Points
    BY <1>1 DEF triple_support, Regions
<1>3. IsFiniteSet(T)
    BY <1>2, PointsAssumption, FS_Subset
<1>4. Cardinality(T) = 1
    BY SeamsAre DEF check_gate1_support
<1> QED
    BY <1>2, <1>3, <1>4, FS_Singleton

\* Opposite seams with one support have a point that lies in every region.
LEMMA SupportsApart ==
    ASSUME NEW cover \in [Names -> Regions], check_gate1_support(cover), ~Coincide(cover),
           NEW i \in 1..4, NEW j \in 1..4, THETA[SEAMS[j]][3] = THETA[SEAMS[i]][1]
    PROVE  triple_support(cover, SEAMS[i]) # triple_support(cover, SEAMS[j])
<1> DEFINE T(h) == triple_support(cover, SEAMS[h])
<1> SUFFICES ASSUME T(i) = T(j) PROVE FALSE
    OBVIOUS
<1>1. PICK p \in Points : T(i) = {p}
    BY SupportIs
<1>2. /\ p \in cover[THETA[SEAMS[i]][1]] /\ p \in cover[THETA[SEAMS[i]][2]] /\ p \in cover[THETA[SEAMS[i]][3]]
      /\ p \in cover[THETA[SEAMS[j]][1]] /\ p \in cover[THETA[SEAMS[j]][2]] /\ p \in cover[THETA[SEAMS[j]][3]]
    BY <1>1 DEF triple_support
<1>3. \A n \in Names : p \in cover[n]
    BY <1>2, PlacesTurn
<1>4. \A h \in 1..4 : p \in T(h)
    BY <1>3, PlacesAre DEF triple_support
<1>5. ASSUME NEW h \in 1..4 PROVE T(h) = {p}
    <2>1. PICK q \in Points : T(h) = {q}
        BY SupportIs
    <2> QED
        BY <1>4, <2>1
<1> QED
    BY <1>5, SeamsAre DEF Coincide

LEMMA RestrictionReaches ==
    ASSUME NEW cover \in [Names -> Regions], check_gate1_support(cover), ~Alike(cover), ~Coincide(cover)
    PROVE  UnitsReached("restriction", cover)
<1> SUFFICES ASSUME NEW i \in 1..4
             PROVE  \E k \in parameters("restriction", cover) : induced_column("restriction", cover, k) = Units(i, 4)
    BY DEF UnitsReached
<1> DEFINE X(j) == cover[THETA[SEAMS[j]][1]]
           Z(j) == cover[THETA[SEAMS[j]][3]]
           T(j) == triple_support(cover, SEAMS[j])
           k == <<X(i), T(i)>>
<1>1. k \in parameters("restriction", cover)
    BY KeysIn
<1>2. \A p \in 1..4, q \in 1..3 : THETA[SEAMS[p]][q] \in Names
    BY PlacesAre
<1>3. ASSUME NEW j \in 1..4 PROVE Entry("restriction", cover, SEAMS[j], k) = IF j = i THEN 1 ELSE 0
    <2>1. Entry("restriction", cover, SEAMS[j], k) = Says(<<X(j), T(j)>>, k) - Says(<<Z(j), T(j)>>, k)
        BY DEF Entry
    <2>2. j # i => X(j) # X(i)
        BY <1>2, PlacesDiffer DEF Alike
    <2>3. Z(j) = X(i) => T(j) # T(i)
        <3>1. Z(j) = X(i) => THETA[SEAMS[j]][3] = THETA[SEAMS[i]][1]
            BY <1>2 DEF Alike
        <3> QED
            BY <3>1, SupportsApart
    <2>4. Says(<<X(j), T(j)>>, k) = IF j = i THEN 1 ELSE 0
        BY <2>2 DEF Says
    <2>5. Says(<<Z(j), T(j)>>, k) = 0
        BY <2>3 DEF Says
    <2> QED
        BY <2>1, <2>4, <2>5
<1> HIDE DEF k
<1>4. "restriction" \in Rules
    BY DEF Rules
<1>5. induced_column("restriction", cover, k) = Units(i, 4)
    BY <1>3, <1>4, UnitColumn
<1> QED
    BY <1>1, <1>5

\* The parameter of a region where all supports are one.
RegionKey(cover, i) == <<cover[THETA[SEAMS[i]][1]], triple_support(cover, SEAMS[1])>>

LEMMA KeptAre ==
    ASSUME NEW cover, Coincide(cover)
    PROVE  /\ \A i \in 1..4 : RegionKey(cover, i) \in parameters("restriction", cover)
           /\ \A k \in parameters("restriction", cover) : \E i \in 1..4 : k = RegionKey(cover, i)
<1> DEFINE T(i) == triple_support(cover, SEAMS[i])
           P(i, s) == NamedIn(population("restriction", cover, SEAMS[i])[s])
<1>1. \A i \in 1..4 : T(i) = T(1)
    BY SeamsAre DEF Coincide
<1>2. \A i \in 1..4 : RegionKey(cover, i) \in parameters("restriction", cover)
    BY <1>1, KeysIn DEF RegionKey
<1>3. ASSUME NEW k \in parameters("restriction", cover) PROVE \E i \in 1..4 : k = RegionKey(cover, i)
    <2>1. PICK i \in 1..4, s \in Slots : k \in P(i, s)
        BY KeysAre
    <2>2. s = "UV" \/ s = "VW" \/ s = "U_VvW" \/ s = "UvV_W"
        BY DEF Slots
    <2>3. /\ P(i, "UV") = {} /\ P(i, "VW") = {}
          /\ P(i, "U_VvW") = {<<cover[THETA[SEAMS[i]][1]], T(i)>>}
          /\ P(i, "UvV_W") = {<<cover[THETA[SEAMS[i]][3]], T(i)>>}
        BY SlotsName
    <2> HIDE DEF P
    <2>4. \E h \in 1..4 : THETA[SEAMS[i]][3] = THETA[SEAMS[h]][1]
        <3>1. (i = 1 \/ i = 2 \/ i = 3 \/ i = 4)
            OBVIOUS
        <3>2. \E h \in 1..4 : h - i = 2 \/ i - h = 2
            BY <3>1
        <3> QED
            BY <3>2, PlacesTurn
    <2> HIDE DEF T
    <2>5. k = <<cover[THETA[SEAMS[i]][1]], T(1)>> \/ k = <<cover[THETA[SEAMS[i]][3]], T(1)>>
        BY <1>1, <2>1, <2>2, <2>3
    <2> QED
        BY <2>4, <2>5 DEF RegionKey, T
<1> QED
    BY <1>2, <1>3

LEMMA RestrictionColumn ==
    ASSUME NEW cover, Coincide(cover), NEW k, NEW x, x = [i \in 1..4 |-> Says(RegionKey(cover, i), k)]
    PROVE  /\ x[1] \in Int /\ x[2] \in Int /\ x[3] \in Int /\ x[4] \in Int
           /\ induced_column("restriction", cover, k) \in FractionRow(4)
           /\ Whole(induced_column("restriction", cover, k), <<x[1] - x[3], x[2] - x[4], x[3] - x[1], x[4] - x[2]>>)
<1> DEFINE e == [i \in 1..4 |-> Entry("restriction", cover, SEAMS[i], k)]
           c == induced_column("restriction", cover, k)
           f(i) == <<cover[THETA[SEAMS[i]][3]], triple_support(cover, SEAMS[1])>>
<1>1. x[1] \in Int /\ x[2] \in Int /\ x[3] \in Int /\ x[4] \in Int
    BY DEF Says
<1>2. "restriction" \in Rules
    BY DEF Rules
<1>3. c \in FractionRow(4) /\ Whole(c, e)
    BY <1>2, EntriesWhole
<1> HIDE DEF c
<1>4. \A i \in 1..4 : triple_support(cover, SEAMS[i]) = triple_support(cover, SEAMS[1])
    BY SeamsAre DEF Coincide
<1>5. \A i \in 1..4 : e[i] = Says(RegionKey(cover, i), k) - Says(f(i), k)
    BY <1>4 DEF Entry, RegionKey
<1>6. f(1) = RegionKey(cover, 3) /\ f(2) = RegionKey(cover, 4) /\ f(3) = RegionKey(cover, 1) /\ f(4) = RegionKey(cover, 2)
    <2>1. /\ THETA[SEAMS[1]][3] = THETA[SEAMS[3]][1] /\ THETA[SEAMS[2]][3] = THETA[SEAMS[4]][1]
          /\ THETA[SEAMS[3]][3] = THETA[SEAMS[1]][1] /\ THETA[SEAMS[4]][3] = THETA[SEAMS[2]][1]
        BY PlacesTurn
    <2> QED
        BY <2>1 DEF RegionKey
<1>7. \A i \in 1..4 : x[i] = Says(RegionKey(cover, i), k)
    OBVIOUS
<1> HIDE DEF e, f
<1> DEFINE d == <<x[1] - x[3], x[2] - x[4], x[3] - x[1], x[4] - x[2]>>
<1>8. \A i \in 1..4 : d[i] = e[i]
    <2>1. \A i \in 1..4 : i = 1 \/ i = 2 \/ i = 3 \/ i = 4
        OBVIOUS
    <2>2. e[1] = x[1] - x[3] /\ e[2] = x[2] - x[4] /\ e[3] = x[3] - x[1] /\ e[4] = x[4] - x[2]
        BY <1>5, <1>6, <1>7
    <2>3. d[1] = e[1] /\ d[2] = e[2] /\ d[3] = e[3] /\ d[4] = e[4]
        BY <2>2
    <2> HIDE DEF d
    <2> QED
        BY <2>1, <2>3
<1> HIDE DEF d
<1>9. Whole(c, d)
    BY <1>3, <1>8 DEF Whole
<1> QED
    BY <1>1, <1>3, <1>9 DEF c, d

\* A parameter's own column: its region's seam and the opposite one.
LEMMA KeptColumn ==
    ASSUME NEW cover \in [Names -> Regions], Coincide(cover), ~Alike(cover), NEW n \in 1..4
    PROVE  \E x : /\ \A i \in 1..4 : x[i] = IF i = n THEN 1 ELSE 0
                  /\ Whole(induced_column("restriction", cover, RegionKey(cover, n)),
                           <<x[1] - x[3], x[2] - x[4], x[3] - x[1], x[4] - x[2]>>)
<1> DEFINE k == RegionKey(cover, n)
           x == [i \in 1..4 |-> Says(RegionKey(cover, i), k)]
<1>1. \A i \in 1..4 : RegionKey(cover, i) = k => i = n
    BY PlacesAre, PlacesDiffer DEF RegionKey, Alike
<1>2. \A i \in 1..4 : x[i] = IF i = n THEN 1 ELSE 0
    BY <1>1 DEF Says
<1>3. x = [i \in 1..4 |-> Says(RegionKey(cover, i), k)]
    OBVIOUS
<1> HIDE DEF x, k
<1>4. Whole(induced_column("restriction", cover, k), <<x[1] - x[3], x[2] - x[4], x[3] - x[1], x[4] - x[2]>>)
    BY <1>3, RestrictionColumn
<1> QED
    BY <1>2, <1>4 DEF k

LEMMA KeptAt ==
    ASSUME NEW cover \in [Names -> Regions], Coincide(cover), ~Alike(cover)
    PROVE  /\ Whole(induced_column("restriction", cover, RegionKey(cover, 1)), <<1, 0, -1, 0>>)
           /\ Whole(induced_column("restriction", cover, RegionKey(cover, 2)), <<0, 1, 0, -1>>)
           /\ Whole(induced_column("restriction", cover, RegionKey(cover, 3)), <<-1, 0, 1, 0>>)
           /\ Whole(induced_column("restriction", cover, RegionKey(cover, 4)), <<0, -1, 0, 1>>)
<1> DEFINE c(n) == induced_column("restriction", cover, RegionKey(cover, n))
<1>1. Whole(c(1), <<1, 0, -1, 0>>)
    <2>1. PICK x : /\ \A i \in 1..4 : x[i] = IF i = 1 THEN 1 ELSE 0
                   /\ Whole(c(1), <<x[1] - x[3], x[2] - x[4], x[3] - x[1], x[4] - x[2]>>)
        BY KeptColumn
    <2>2. x[1] = 1 /\ x[2] = 0 /\ x[3] = 0 /\ x[4] = 0
        BY <2>1
    <2> QED
        BY <2>1, <2>2
<1>2. Whole(c(2), <<0, 1, 0, -1>>)
    <2>1. PICK x : /\ \A i \in 1..4 : x[i] = IF i = 2 THEN 1 ELSE 0
                   /\ Whole(c(2), <<x[1] - x[3], x[2] - x[4], x[3] - x[1], x[4] - x[2]>>)
        BY KeptColumn
    <2>2. x[1] = 0 /\ x[2] = 1 /\ x[3] = 0 /\ x[4] = 0
        BY <2>1
    <2> QED
        BY <2>1, <2>2
<1>3. Whole(c(3), <<-1, 0, 1, 0>>)
    <2>1. PICK x : /\ \A i \in 1..4 : x[i] = IF i = 3 THEN 1 ELSE 0
                   /\ Whole(c(3), <<x[1] - x[3], x[2] - x[4], x[3] - x[1], x[4] - x[2]>>)
        BY KeptColumn
    <2>2. x[1] = 0 /\ x[2] = 0 /\ x[3] = 1 /\ x[4] = 0
        BY <2>1
    <2> QED
        BY <2>1, <2>2
<1>4. Whole(c(4), <<0, -1, 0, 1>>)
    <2>1. PICK x : /\ \A i \in 1..4 : x[i] = IF i = 4 THEN 1 ELSE 0
                   /\ Whole(c(4), <<x[1] - x[3], x[2] - x[4], x[3] - x[1], x[4] - x[2]>>)
        BY KeptColumn
    <2>2. x[1] = 0 /\ x[2] = 0 /\ x[3] = 0 /\ x[4] = 1
        BY <2>1
    <2> QED
        BY <2>1, <2>2
<1> QED
    BY <1>1, <1>2, <1>3, <1>4

LEMMA RestrictionBasis ==
    ASSUME NEW cover \in [Names -> Regions], Coincide(cover), ~Alike(cover),
           NEW V, ListedColumns("restriction", cover, V)
    PROVE  RankOf(V) = 2
<1> DEFINE l == Len(V)
           n == 4
           t == 2
           s1 == <<1, 0, -1, 0>>
           s2 == <<0, 1, 0, -1>>
           a == <<s1, s2>>
           o == <<0, 0, 0, 0>>
<1>1. l \in Nat /\ V \in Rows(l, 4)
    BY DEF ListedColumns
<1>2. PICK L \in Rows(t, 4) : LinearlyIndependent(L, t, 4) /\ Whole(L[1], s1) /\ Whole(L[2], s2)
    <2>1. a[1] = s1 /\ a[2] = s2
        OBVIOUS
    <2>2. t \in Nat /\ (t = 2 \/ t = 3)
        OBVIOUS
    <2>3. \A i \in 1..t : \A c \in 1..4 : a[i][c] \in Int
        OBVIOUS
    <2>4. \A i, j \in 1..t : a[j][i] = IF i = j THEN 1 ELSE 0
        OBVIOUS
    <2>5. 1 \in 1..t /\ 2 \in 1..t
        OBVIOUS
    <2> HIDE DEF a, t, s1, s2
    <2>6. \E L \in Rows(t, 4) : LinearlyIndependent(L, t, 4) /\ \A i \in 1..t : Whole(L[i], a[i])
        BY <2>2, <2>3, <2>4, StairsAre
    <2> QED
        BY <2>1, <2>5, <2>6
<1>3. L[1] \in FractionRow(4) /\ L[2] \in FractionRow(4)
    BY DEF Rows
<1>4. PICK i1 \in 1..l, i2 \in 1..l : Whole(V[i1], s1) /\ Whole(V[i2], s2)
    <2>1. \A i \in 1..4 : \E j \in 1..l : V[j] = induced_column("restriction", cover, RegionKey(cover, i))
        BY KeptAre DEF ListedColumns
    <2>2. /\ Whole(induced_column("restriction", cover, RegionKey(cover, 1)), s1)
          /\ Whole(induced_column("restriction", cover, RegionKey(cover, 2)), s2)
        BY KeptAt
    <2>3. 1 \in 1..4 /\ 2 \in 1..4
        OBVIOUS
    <2> HIDE DEF s1, s2, l
    <2> QED
        BY <2>1, <2>2, <2>3
<1>5. /\ o[1] = 0 /\ o[2] = 0 /\ o[3] = 0 /\ o[4] = 0
      /\ s1[1] = 1 /\ s1[2] = 0 /\ s1[3] = -1 /\ s1[4] = 0
      /\ s2[1] = 0 /\ s2[2] = 1 /\ s2[3] = 0 /\ s2[4] = -1
    OBVIOUS
<1>6. 1 \in {1, -1}
    OBVIOUS
<1> HIDE DEF l
<1>7. PICK z \in FractionRow(4) : Whole(z, o) /\ InSpan(V, l, 4, z)
    BY <1>1, ZeroReached
<1>8. t \in Nat /\ L \in Rows(t, 4)
    OBVIOUS
<1>9. PICK y \in FractionRow(4) : Whole(y, o) /\ InSpan(L, t, 4, y)
    <2> HIDE DEF t
    <2> QED
        BY <1>8, ZeroReached
<1> HIDE DEF o, s1, s2, a, t
<1>10. InSpan(V, l, 4, L[1])
    <2>1. s1[1] = o[1] + 1 * s1[1] /\ s1[2] = o[2] + 1 * s1[2] /\ s1[3] = o[3] + 1 * s1[3] /\ s1[4] = o[4] + 1 * s1[4]
        BY <1>5
    <2> QED
        BY <1>1, <1>2, <1>3, <1>4, <1>6, <1>7, <2>1, SpanSteps
<1>11. InSpan(V, l, 4, L[2])
    <2>1. s2[1] = o[1] + 1 * s2[1] /\ s2[2] = o[2] + 1 * s2[2] /\ s2[3] = o[3] + 1 * s2[3] /\ s2[4] = o[4] + 1 * s2[4]
        BY <1>5
    <2> QED
        BY <1>1, <1>2, <1>3, <1>4, <1>6, <1>7, <2>1, SpanSteps
<1>12. InSpan(L, t, 4, L[1]) /\ InSpan(L, t, 4, L[2])
    <2>1. n \in Nat /\ L \in Rows(t, n) /\ 1 \in 1..t /\ 2 \in 1..t
        BY <1>8 DEF t
    <2> HIDE DEF n
    <2>2. InSpan(L, t, n, L[1]) /\ InSpan(L, t, n, L[2])
        BY <1>8, <2>1, SpanMember
    <2> QED
        BY <2>2 DEF n
<1>13. \A j \in 1..l : InSpan(L, t, 4, V[j])
    <2> SUFFICES ASSUME NEW j \in 1..l PROVE InSpan(L, t, 4, V[j])
        OBVIOUS
    <2>1. PICK k : V[j] = induced_column("restriction", cover, k)
        BY DEF ListedColumns, l
    <2> DEFINE x == [i \in 1..4 |-> Says(RegionKey(cover, i), k)]
               e == <<x[1] - x[3], x[2] - x[4], x[3] - x[1], x[4] - x[2]>>
               p == x[1] - x[3]
               q == x[2] - x[4]
               d == <<p, 0, 0 - p, 0>>
    <2>2. /\ x[1] \in Int /\ x[2] \in Int /\ x[3] \in Int /\ x[4] \in Int
          /\ V[j] \in FractionRow(4) /\ Whole(V[j], e)
        BY <2>1, RestrictionColumn
    <2> HIDE DEF x
    <2>3. p \in Int /\ q \in Int
        BY <2>2
    <2>4. e[1] = p /\ e[2] = q /\ e[3] = 0 - p /\ e[4] = 0 - q
        BY <2>2
    <2>5. d[1] = p /\ d[2] = 0 /\ d[3] = 0 - p /\ d[4] = 0
        OBVIOUS
    <2> HIDE DEF d, e, p, q
    <2>6. PICK u \in FractionRow(4) : Whole(u, d)
        BY <2>3, <2>5, WholeExists
    <2>7. InSpan(L, t, 4, u)
        <3>1. d[1] = o[1] + p * s1[1] /\ d[2] = o[2] + p * s1[2] /\ d[3] = o[3] + p * s1[3] /\ d[4] = o[4] + p * s1[4]
            BY <1>5, <2>3, <2>5
        <3> QED
            BY <1>2, <1>3, <1>8, <1>9, <1>12, <2>3, <2>6, <3>1, SpanScaled
    <2>8. e[1] = d[1] + q * s2[1] /\ e[2] = d[2] + q * s2[2] /\ e[3] = d[3] + q * s2[3] /\ e[4] = d[4] + q * s2[4]
        BY <1>5, <2>3, <2>4, <2>5
    <2> QED
        BY <1>2, <1>3, <1>8, <1>12, <2>2, <2>3, <2>6, <2>7, <2>8, SpanScaled
<1>14. \A i \in 1..t : InSpan(V, l, 4, L[i])
    <2>1. \A i \in 1..t : i = 1 \/ i = 2
        BY DEF t
    <2> QED
        BY <1>10, <1>11, <2>1
<1>15. n \in Nat /\ n > 0 /\ V \in Rows(l, n) /\ BasisOf(L, t, V, l, n)
    BY <1>1, <1>2, <1>8, <1>13, <1>14 DEF BasisOf
<1> HIDE DEF n
<1>16. RankOf(V) = t
    BY <1>1, <1>15, RankOfIndependent
<1> QED
    BY <1>16 DEF t

\* A column that is not zero at two seams is shared.
LEMMA SharedIs ==
    ASSUME NEW B, NEW k \in DOMAIN B, NEW i \in 1..4, NEW j \in 1..4, i # j, B[k][i] # Zero, B[k][j] # Zero
    PROVE  sharing(B)[k] = "genuinely_shared"
<1> DEFINE R == {h \in DOMAIN SEAMS : B[k][h] # Zero}
           n == 4
<1>1. i \in R /\ j \in R /\ R \subseteq 1..n
    BY SeamsAre
<1>2. n \in Int
    OBVIOUS
<1> HIDE DEF R, n
<1>3. IsFiniteSet(R)
    <2>1. IsFiniteSet(1..n)
        BY <1>2, FS_Interval
    <2> QED
        BY <1>1, <2>1, FS_Subset
<1>4. Cardinality(R) # 0
    BY <1>1, <1>3, FS_EmptySet
<1>5. Cardinality(R) # 1
    BY <1>1, <1>3, FS_Singleton
<1> QED
    BY <1>4, <1>5 DEF sharing, R

LEMMA RestrictionReport ==
    ASSUME NEW cover \in [Names -> Regions], check_gate1_support(cover), Coincide(cover), ~Alike(cover),
           NEW m \in measure("restriction", cover)
    PROVE  /\ m.rank = 2 /\ verdict(m) = "genuinely_partial_nontrivial_quotient"
           /\ \A k \in DOMAIN m.B : m.sharing[k] = "genuinely_shared"
<1> DEFINE c(k) == induced_column("restriction", cover, k)
           s1 == <<1, 0, -1, 0>>
           s2 == <<0, 1, 0, -1>>
           s3 == <<-1, 0, 1, 0>>
           s4 == <<0, -1, 0, 1>>
<1>1. "restriction" \in Rules
    BY DEF Rules
<1>2. /\ MeasuredRight("restriction", cover, m) /\ m.B = ColumnsBy("restriction", cover)
      /\ m.rank = RankOf(columns_of(m.B)) /\ m.sharing = sharing(m.B)
    BY <1>1, ReportRight
<1>3. ListedColumns("restriction", cover, columns_of(m.B))
    BY <1>1, <1>2, ColumnsListed
<1>4. m.rank = 2
    BY <1>2, <1>3, RestrictionBasis
<1>5. DOMAIN m.B = parameters("restriction", cover) /\ \A k \in DOMAIN m.B : m.B[k] = c(k)
    BY <1>2 DEF ColumnsBy
<1>6. /\ Whole(c(RegionKey(cover, 1)), s1) /\ Whole(c(RegionKey(cover, 2)), s2)
      /\ Whole(c(RegionKey(cover, 3)), s3) /\ Whole(c(RegionKey(cover, 4)), s4)
    BY KeptAt
<1>7. \A k \in DOMAIN m.B : c(k) \in FractionRow(4)
    BY <1>1, ColumnIs
<1> HIDE DEF c
<1>8. m.quotient # 0
    <2>1. RegionKey(cover, 2) \in DOMAIN m.B
        BY <1>5, KeptAre
    <2>2. c(RegionKey(cover, 2)) \in FractionRow(4) /\ Whole(c(RegionKey(cover, 2)), s2)
        BY <1>6, <1>7, <2>1
    <2>3. s2[4] - s2[1] - s2[2] - s2[3] # 0
        OBVIOUS
    <2> HIDE DEF s2
    <2>4. ~Solvable(delta0(COARSE), c(RegionKey(cover, 2)))
        BY <2>2, <2>3, CoarsePairs
    <2>5. coboundary_for("restriction") = delta0(COARSE)
        BY DEF coboundary_for
    <2> QED
        BY <1>2, <1>5, <2>1, <2>4, <2>5 DEF MeasuredRight
<1>9. Len(SEAMS) = 4
    BY SeamsAre
<1>10. verdict(m) = "genuinely_partial_nontrivial_quotient"
    BY <1>4, <1>8, <1>9 DEF verdict
<1>11. ASSUME NEW k \in DOMAIN m.B PROVE m.sharing[k] = "genuinely_shared"
    <2>1. PICK n \in 1..4 : k = RegionKey(cover, n)
        BY <1>5, KeptAre
    <2>2. <<1, 1>> # Zero /\ <<-1, 1>> # Zero
        BY DEF Zero
    <2> DEFINE w(i) == c(RegionKey(cover, i))
               Far(v) == (v[1] # Zero /\ v[3] # Zero) \/ (v[2] # Zero /\ v[4] # Zero)
    <2>3. Far(w(1)) /\ Far(w(2)) /\ Far(w(3)) /\ Far(w(4))
        <3>1. w(1)[1] = <<1, 1>> /\ w(1)[3] = <<-1, 1>>
            BY <1>6 DEF Whole
        <3>2. w(2)[2] = <<1, 1>> /\ w(2)[4] = <<-1, 1>>
            BY <1>6 DEF Whole
        <3>3. w(3)[1] = <<-1, 1>> /\ w(3)[3] = <<1, 1>>
            BY <1>6 DEF Whole
        <3>4. w(4)[2] = <<-1, 1>> /\ w(4)[4] = <<1, 1>>
            BY <1>6 DEF Whole
        <3> HIDE DEF w
        <3> QED
            BY <2>2, <3>1, <3>2, <3>3, <3>4
    <2> HIDE DEF Far
    <2>4. Far(c(k))
        <3>1. n = 1 \/ n = 2 \/ n = 3 \/ n = 4
            OBVIOUS
        <3> QED
            BY <2>1, <2>3, <3>1
    <2>5. \E i, j \in 1..4 : i # j /\ m.B[k][i] # Zero /\ m.B[k][j] # Zero
        <3>1. m.B[k] = c(k)
            BY <1>5
        <3>2. 1 \in 1..4 /\ 2 \in 1..4 /\ 3 \in 1..4 /\ 4 \in 1..4 /\ 1 # 3 /\ 2 # 4
            OBVIOUS
        <3> QED
            BY <2>4, <3>1, <3>2 DEF Far
    <2>6. sharing(m.B)[k] = "genuinely_shared"
        BY <2>5, SharedIs
    <2> QED
        BY <1>2, <2>6
<1> QED
    BY <1>4, <1>10, <1>11

----------------------------------------------------------------------------
(* What crossing the covers finds, and what the diagnostics report.        *)

\* What crossing sets makes of the seams.
LEMMA CrossedIs ==
    ASSUME NEW cover \in [Names -> Regions], NEW res \in verify_witness(cover)
    PROVE  /\ res.gate4 <=> res.pairing # Zero
           /\ res.all_gates_passed <=> check_gate0_nondegeneracy(cover) /\ res.pairing # Zero
<1> DEFINE mu == [i \in 1..4 |-> _seam_correction_via_boolean_rule(cover, SEAMS[i])]
           x == [i \in DOMAIN SEAMS |-> Seam(cover, SEAMS[i], mu[i])]
           D == delta0(COARSE)
<1>1. \A i \in 1..4 : mu[i] \in SeamCorrectionData
    <2> SUFFICES ASSUME NEW i \in 1..4 PROVE _seam_correction_via_boolean_rule(cover, SEAMS[i]) \in SeamCorrectionData
        OBVIOUS
    <2> DEFINE X == cover[THETA[SEAMS[i]][1]]
               Y == cover[THETA[SEAMS[i]][2]]
               Z == cover[THETA[SEAMS[i]][3]]
               c(A, B) == IF properly_crosses(A, B) THEN 1 ELSE 0
               p == c(Y, Z)
               q == c(X \cup Y, Z)
               r == c(X, Y \cup Z)
               s == c(X, Y)
    <2>1. _seam_correction_via_boolean_rule(cover, SEAMS[i]) = [VW |-> p, UvV_W |-> q, U_VvW |-> r, UV |-> s]
        BY DEF _seam_correction_via_boolean_rule
    <2>2. p \in Int /\ q \in Int /\ r \in Int /\ s \in Int
        OBVIOUS
    <2> HIDE DEF p, q, r, s
    <2> QED
        BY <2>1, <2>2 DEF SeamCorrectionData
<1>2. residue_vector(x, SEAMS) =
        residue_vector([i \in DOMAIN SEAMS |->
          Seam(cover, SEAMS[i], _seam_correction_via_boolean_rule(cover, SEAMS[i]))], SEAMS)
    BY SeamsAre
<1>3. x = [i \in DOMAIN SEAMS |-> Seam(cover, SEAMS[i], mu[i])]
    OBVIOUS
<1>4. PICK v \in residue_vector(x, SEAMS) :
         /\ check_gate1_support(cover)
         /\ res = [residue |-> v, pairing |-> dot(COARSE.cycle, v), gate4 |-> ~Solvable(D, v),
                   all_gates_passed |-> /\ check_gate0_nondegeneracy(cover)
                                        /\ ~Solvable(D, v) /\ is_obstruction(D, v, <<>>)]
    BY <1>2 DEF verify_witness
<1> HIDE DEF mu, x, D
<1> DEFINE e == [i \in 1..4 |-> closed_form_delta(mu[i])]
<1>5. v = [i \in 1..4 |-> <<e[i], 1>>]
    BY <1>1, <1>3, <1>4, VectorOnCover
<1>6. \A i \in 1..4 : e[i] \in Int
    BY <1>1 DEF closed_form_delta, SeamCorrectionData
<1> HIDE DEF e
<1>7. Whole(v, e)
    BY <1>5, <1>6 DEF Whole
<1>8. v \in FractionRow(4)
    <2>1. v = [k \in 1..4 |-> v[k]]
        BY <1>5
    <2> QED
        BY <1>7, <2>1, WholeRow
<1> DEFINE s == e[4] - e[1] - e[2] - e[3]
<1>9. dot(COARSE.cycle, v) = <<s, 1>> /\ (Solvable(D, v) <=> s = 0)
    BY <1>7, <1>8, CoarsePairs DEF D
<1> HIDE DEF s
<1>10. ~Solvable(D, v) <=> dot(COARSE.cycle, v) # Zero
    BY <1>9 DEF Zero
<1>11. is_obstruction(D, v, <<>>) <=> ~Solvable(D, v)
    BY DEF is_obstruction, Open
<1>12. /\ res.gate4 <=> ~Solvable(D, v)
       /\ res.all_gates_passed <=> check_gate0_nondegeneracy(cover) /\ ~Solvable(D, v) /\ is_obstruction(D, v, <<>>)
       /\ res.pairing = dot(COARSE.cycle, v)
    BY <1>4
<1> QED
    BY <1>10, <1>11, <1>12

MeasureRight(p) ==
    /\ p.kind = "measured" => p.rule \in Rules /\ p.cover \in [Names -> Regions] /\ p.report = measure(p.rule, p.cover)
    /\ p.kind = "crossed" => p.cover \in [Names -> Regions] /\ p.report = verify_witness(p.cover)

MeasureInv == MeasureRight(probe)

(***************************************************************************)
(* A probe of a cover holds what `measure` or `verify_witness` computed of *)
(* that cover under that rule, and no other step touches it: whatever the  *)
(* other turns of the chain do in between, the report is of its cover.     *)
(***************************************************************************)
THEOREM MeasuresReport == Spec => []MeasureInv
<1>1. Init => MeasureInv
    BY DEF Init, InitProbe, Idle, MeasureInv, MeasureRight
<1>2. MeasureInv /\ [Next]_vars => MeasureInv'
    <2> SUFFICES ASSUME MeasureInv, [Next]_vars PROVE MeasureRight(probe')
        BY DEF MeasureInv
    <2>1. CASE UNCHANGED probe
        BY <2>1 DEF MeasureInv
    <2>2. \A p : p.kind \in {"idle", "witness", "disjoint", "cancelled", "second", "coupled", "survivor", "matrices",
                             "assembly"} => MeasureRight(p)
        BY DEF MeasureRight
    <2>3. CASE CheckWitness
        BY <2>2, <2>3 DEF CheckWitness
    <2>4. CASE SideBySide
        BY <2>2, <2>4 DEF SideBySide
    <2>5. CASE Cancel
        BY <2>2, <2>5 DEF Cancel
    <2>6. CASE SecondStep
        BY <2>2, <2>6 DEF SecondStep
    <2>7. CASE Scenario
        BY <2>2, <2>7 DEF Scenario
    <2>8. CASE Glue
        BY <2>2, <2>8 DEF Glue
    <2>9. CASE FirstMap
        BY <2>2, <2>9 DEF FirstMap
    <2>10. CASE SecondMap
        BY <2>2, <2>10 DEF SecondMap
    <2>11. CASE NextTurn
        BY <2>2, <2>11 DEF NextTurn, Idle
    <2>12. CASE Beside
        <3>1. CASE Measure
            <4>1. PICK rule \in Rules, cover \in Covers :
                     probe' = [kind |-> "measured", rule |-> rule, cover |-> cover, report |-> measure(rule, cover)]
                BY <3>1 DEF Measure
            <4> DEFINE res == measure(rule, cover)
            <4> HIDE DEF res
            <4>2. probe'.kind = "measured" /\ probe'.rule = rule /\ probe'.cover = cover /\ probe'.report = res
                BY <4>1 DEF res
            <4> QED
                BY <4>2, CoversAssumption DEF MeasureRight, res
        <3>2. CASE Cross
            <4>1. PICK cover \in Covers : probe' = [kind |-> "crossed", cover |-> cover, report |-> verify_witness(cover)]
                BY <3>2 DEF Cross
            <4> DEFINE res == verify_witness(cover)
            <4> HIDE DEF res
            <4>2. probe'.kind = "crossed" /\ probe'.cover = cover /\ probe'.report = res
                BY <4>1 DEF res
            <4> QED
                BY <4>2, CoversAssumption DEF MeasureRight, res
        <3>3. CASE BeginAssembly
            BY <2>2, <3>3 DEF BeginAssembly, Assembly
        <3>4. CASE Admit
            BY <2>2, <3>4 DEF Admit, Assembly
        <3>5. CASE Contribute
            <4>1. probe.kind = "assembly"
                BY <3>5 DEF Contribute
            <4>2. probe'.kind = "assembly"
                BY <3>5, <4>1 DEF Contribute, Assembly
            <4> QED
                BY <2>2, <4>2
        <3> QED
            BY <2>12, <3>1, <3>2, <3>3, <3>4, <3>5 DEF Beside
    <2> QED
        BY <2>1, <2>3, <2>4, <2>5, <2>6, <2>7, <2>8, <2>9, <2>10, <2>11, <2>12 DEF Next, Probe, vars
<1> QED
    BY <1>1, <1>2, PTL DEF Spec

(***************************************************************************)
(* The diagnostics report what is so, on every cover of every universe by  *)
(* four regions: `_rank` and the quotient of build_report are what they    *)
(* claim for all four rules (full rank is every residue, a zero quotient   *)
(* is a correction for every column); parameters on adjacent overlaps give *)
(* only what can be corrected; inclusion-exclusion excludes nothing unless *)
(* one region lies in another; restriction to the triple supports loses    *)
(* half the dimensions exactly where the four supports coincide; and       *)
(* verify_witness passes all gates exactly when the cycle pairs with the   *)
(* residue of a nondegenerate cover.                                       *)
(***************************************************************************)
THEOREM MeasuredAsRealised == Spec => []RealisedAsMeasured
<1>1. MeasureInv => RealisedAsMeasured
    <2> SUFFICES ASSUME MeasureInv PROVE RealisedAsMeasured
        OBVIOUS
    <2> DEFINE rule == probe.rule
               cover == probe.cover
    <2>1. ASSUME probe.kind = "measured"
          PROVE  rule \in Rules /\ cover \in [Names -> Regions] /\ probe.report = measure(rule, cover)
        BY <2>1 DEF MeasureInv, MeasureRight
    <2>2. ASSUME probe.kind = "measured" PROVE probe.report = {} <=> ~check_gate1_support(cover)
        <3> DEFINE B == ColumnsBy(rule, cover)
        <3>1. B = ColumnsBy(rule, cover)
            OBVIOUS
        <3> HIDE DEF B
        <3> QED
            BY <2>1, <2>2, <3>1, MeasureIs
    <2>3. ASSUME probe.kind = "measured", NEW m \in probe.report
          PROVE  /\ MeasuredRight(rule, cover, m)
                 /\ rule = "independent" => verdict(m) = "TOO_FREE_full_rank"
                 /\ rule = "adjacent" => m.rank = 3 /\ verdict(m) = "TOO_STRICT_collapses_to_im_delta0"
                 /\ rule = "inclusion_exclusion" /\ ~Inside(cover) =>
                      verdict(m) = "TOO_FREE_full_rank" /\ verify_cancellation(cover, m)
                 /\ rule = "restriction" /\ ~Alike(cover) =>
                      IF Coincide(cover)
                        THEN /\ m.rank = 2 /\ verdict(m) = "genuinely_partial_nontrivial_quotient"
                             /\ \A k \in DOMAIN m.B : m.sharing[k] = "genuinely_shared"
                        ELSE verdict(m) = "TOO_FREE_full_rank"
        <3>1. rule \in Rules /\ cover \in [Names -> Regions] /\ m \in measure(rule, cover) /\ check_gate1_support(cover)
            BY <2>1, <2>2, <2>3
        <3> HIDE DEF rule, cover
        <3>2. MeasuredRight(rule, cover, m) /\ m.B = ColumnsBy(rule, cover)
            BY <3>1, ReportRight
        <3>3. CASE rule = "independent"
            BY <3>1, <3>2, <3>3, IndependentReaches, FullReport
        <3>4. CASE rule = "adjacent"
            BY <3>1, <3>2, <3>4, AdjacentReport
        <3>5. CASE rule = "inclusion_exclusion"
            <4> SUFFICES ASSUME ~Inside(cover) PROVE verdict(m) = "TOO_FREE_full_rank" /\ verify_cancellation(cover, m)
                BY <3>2, <3>5
            <4>1. verdict(m) = "TOO_FREE_full_rank"
                BY <3>1, <3>5, InclusionReaches, FullReport
            <4>2. verify_cancellation(cover, m)
                BY <3>1, <3>2, <3>5, CancellationVerified
            <4> QED
                BY <4>1, <4>2
        <3>6. CASE rule = "restriction"
            <4>1. ASSUME ~Alike(cover), Coincide(cover)
                  PROVE  /\ m.rank = 2 /\ verdict(m) = "genuinely_partial_nontrivial_quotient"
                         /\ \A k \in DOMAIN m.B : m.sharing[k] = "genuinely_shared"
                BY <3>1, <3>6, <4>1, RestrictionReport
            <4>2. ASSUME ~Alike(cover), ~Coincide(cover) PROVE verdict(m) = "TOO_FREE_full_rank"
                BY <3>1, <3>6, <4>2, RestrictionReaches, FullReport
            <4> QED
                BY <3>2, <3>6, <4>1, <4>2
        <3> QED
            BY <3>1, <3>3, <3>4, <3>5, <3>6 DEF Rules
    <2>4. ASSUME probe.kind = "crossed", NEW res \in probe.report
          PROVE  /\ res.gate4 <=> res.pairing # Zero
                 /\ res.all_gates_passed <=> check_gate0_nondegeneracy(cover) /\ res.pairing # Zero
        <3>1. cover \in [Names -> Regions] /\ res \in verify_witness(cover)
            BY <2>4 DEF MeasureInv, MeasureRight
        <3> HIDE DEF cover
        <3> QED
            BY <3>1, CrossedIs
    <2> QED
        BY <2>2, <2>3, <2>4 DEF RealisedAsMeasured
<1> QED
    BY <1>1, MeasuresReport, PTL
==============================================================================
