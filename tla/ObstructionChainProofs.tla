------------------------ MODULE ObstructionChainProofs ------------------------
(***************************************************************************)
(* What the chain from seam constants to verdicts establishes, for every   *)
(* universe of points, every source, every edit of a certificate and every *)
(* refinement. First the algebra: the associator defect of three regions   *)
(* is the four-term closed form on the triple overlap and nothing          *)
(* elsewhere. Then the certificate: acceptance is sound, and what the run  *)
(* writes is judged by what its source supports. Then refinement: the      *)
(* probes build complexes, a pairing with a cycle certifies, verdicts are  *)
(* transported as the two conditions say, and steps compose. Last, the     *)
(* assembly of a vector from evidence that arrives piece by piece.         *)
(***************************************************************************)
EXTENDS ObstructionChain, LinearAlgebraProofs

(***************************************************************************)
(* The product a * (b * c), point by point: the indicator of the triple    *)
(* overlap, with the two constants of the seams it crosses.                *)
(***************************************************************************)
LEMMA RightProduct ==
    ASSUME NEW U \in Regions, NEW V \in Regions, NEW W \in Regions,
           NEW mu \in SeamCorrectionData, NEW p \in Points
    PROVE  /\ right_product(U, V, W, mu).primary[p] = IF p \in U \cap V \cap W THEN 1 ELSE 0
           /\ right_product(U, V, W, mu).boundary[p] =
                IF p \in U \cap V \cap W THEN mu.VW + mu.U_VvW ELSE 0
<1>1. mu.VW \in Int /\ mu.U_VvW \in Int
  BY DEF SeamCorrectionData
<1> DEFINE inner == corrected_product(indicator(V), indicator(W), V, W, mu.VW)
<1>2. /\ inner.primary = [q \in Points |-> IF q \in V \cap W THEN 1 ELSE 0]
      /\ inner.boundary = [q \in Points |-> IF q \in V \cap W THEN mu.VW ELSE 0]
  BY <1>1 DEF corrected_product, dual_add, raw_overlap_product, boundary_correction, restrict, cut,
              dual_multiply, _pointwise_product, _pointwise_sum, indicator, Zeros
<1> HIDE DEF inner
<1>3. right_product(U, V, W, mu) = corrected_product(indicator(U), inner, U, V \cup W, mu.U_VvW)
  BY DEF right_product, inner
<1> QED
  BY <1>1, <1>2, <1>3
     DEF corrected_product, dual_add, raw_overlap_product, boundary_correction, restrict, cut,
         dual_multiply, _pointwise_product, _pointwise_sum, indicator, Zeros

(***************************************************************************)
(* The product (a * b) * c, likewise.                                      *)
(***************************************************************************)
LEMMA LeftProduct ==
    ASSUME NEW U \in Regions, NEW V \in Regions, NEW W \in Regions,
           NEW mu \in SeamCorrectionData, NEW p \in Points
    PROVE  /\ left_product(U, V, W, mu).primary[p] = IF p \in U \cap V \cap W THEN 1 ELSE 0
           /\ left_product(U, V, W, mu).boundary[p] =
                IF p \in U \cap V \cap W THEN mu.UV + mu.UvV_W ELSE 0
<1>1. mu.UV \in Int /\ mu.UvV_W \in Int
  BY DEF SeamCorrectionData
<1> DEFINE inner == corrected_product(indicator(U), indicator(V), U, V, mu.UV)
<1>2. /\ inner.primary = [q \in Points |-> IF q \in U \cap V THEN 1 ELSE 0]
      /\ inner.boundary = [q \in Points |-> IF q \in U \cap V THEN mu.UV ELSE 0]
  BY <1>1 DEF corrected_product, dual_add, raw_overlap_product, boundary_correction, restrict, cut,
              dual_multiply, _pointwise_product, _pointwise_sum, indicator, Zeros
<1> HIDE DEF inner
<1>3. left_product(U, V, W, mu) = corrected_product(inner, indicator(W), U \cup V, W, mu.UvV_W)
  BY DEF left_product, inner
<1> QED
  BY <1>1, <1>2, <1>3
     DEF corrected_product, dual_add, raw_overlap_product, boundary_correction, restrict, cut,
         dual_multiply, _pointwise_product, _pointwise_sum, indicator, Zeros

(***************************************************************************)
(* The literal expansion of the associator is Delta on the triple overlap  *)
(* and zero elsewhere (associator_defect against closed_form_delta, for    *)
(* every triple of regions, not only the Venn triple of the tests).        *)
(***************************************************************************)
THEOREM Localised ==
    ASSUME NEW U \in Regions, NEW V \in Regions, NEW W \in Regions, NEW mu \in SeamCorrectionData
    PROVE  associator_defect(U, V, W, mu) =
             [primary  |-> Zeros,
              boundary |-> [p \in Points |-> IF p \in U \cap V \cap W THEN closed_form_delta(mu) ELSE 0]]
<1>1. mu.VW \in Int /\ mu.U_VvW \in Int /\ mu.UV \in Int /\ mu.UvV_W \in Int
  BY DEF SeamCorrectionData
<1> DEFINE right == right_product(U, V, W, mu)
           left  == left_product(U, V, W, mu)
<1>2. associator_defect(U, V, W, mu) =
        [primary  |-> [p \in Points |-> right.primary[p] + (-left.primary[p])],
         boundary |-> [p \in Points |-> right.boundary[p] + (-left.boundary[p])]]
  BY DEF associator_defect, _pointwise_sum
<1>3. ASSUME NEW p \in Points
      PROVE  right.primary[p] + (-left.primary[p]) = 0
  <2>1. right.primary[p] = IF p \in U \cap V \cap W THEN 1 ELSE 0
    BY RightProduct
  <2>2. left.primary[p] = IF p \in U \cap V \cap W THEN 1 ELSE 0
    BY LeftProduct
  <2> HIDE DEF right, left
  <2> QED
    BY <2>1, <2>2
<1>4. ASSUME NEW p \in Points
      PROVE  right.boundary[p] + (-left.boundary[p]) =
               IF p \in U \cap V \cap W THEN closed_form_delta(mu) ELSE 0
  <2>1. right.boundary[p] = IF p \in U \cap V \cap W THEN mu.VW + mu.U_VvW ELSE 0
    BY RightProduct
  <2>2. left.boundary[p] = IF p \in U \cap V \cap W THEN mu.UV + mu.UvV_W ELSE 0
    BY LeftProduct
  <2> HIDE DEF right, left
  <2> QED
    BY <1>1, <2>1, <2>2 DEF closed_form_delta
<1> HIDE DEF right, left
<1> QED
  BY <1>2, <1>3, <1>4 DEF Zeros

(***************************************************************************)
(* compute_seam_residue refuses a seam only for its overlap: the support   *)
(* is never outside the triple overlap, and the comparison with the closed *)
(* form never fails.                                                       *)
(***************************************************************************)
COROLLARY SupportInOverlap ==
    ASSUME NEW U \in Regions, NEW V \in Regions, NEW W \in Regions, NEW mu \in SeamCorrectionData
    PROVE  support(associator_defect(U, V, W, mu)) \subseteq U \cap V \cap W
BY Localised DEF support, Zeros

----------------------------------------------------------------------------
(* Exact data.                                                             *)

(***************************************************************************)
(* The checker's three layers, each with what it establishes of a legal    *)
(* certificate on which it does not crash.                                 *)
(***************************************************************************)

\* A correction that reproduces the residue: the system has a solution.
LEMMA RepairMeans ==
    ASSUME NEW c, LegalCertificate(c), ~Crashes(c), c.verdict = "globally_repairable", RepairLayer(c)
    PROVE  Solvable(c.coboundary_0, c.seam_residue)
<1> DEFINE D == c.coboundary_0
           r == c.seam_residue
           n == columns(D)
<1>1. Rectangular(D) /\ r \in Seq(Fractions) /\ Vector(r, Len(r))
  BY ExactMatrixIs, ExactVectorIs DEF LegalCertificate
<1>2. PICK b \in c.correction : mat_vec(D, b) = r
  BY DEF RepairLayer
<1>3. b \in Seq(Fractions) /\ Len(b) \in Nat
  BY ExactVectorIs DEF LegalCertificate
<1>4. \A i \in DOMAIN D : ~(Len(b) > Len(D[i]))
  BY DEF Crashes
<1>5. n \in Nat /\ Len(D) \in Nat
  BY <1>1, Shape
<1>6. Len(r) = Len(D)
  <2>1. mat_vec(D, b) = [i \in 1..Len(D) |-> SumProducts(D[i], b, Len(b))]
    BY DEF mat_vec
  <2> QED
    BY <1>1, <1>2, <1>5, <2>1
<1> HIDE DEF D, r, n
<1>7. CASE D = <<>>
  <2>1. D = <<>> /\ n = 0 /\ r = <<>>
    BY <1>1, <1>6, <1>7 DEF n, columns
  <2> DEFINE x == [k \in 1..0 |-> Zero]
  <2>2. x \in FractionRow(n) /\ mat_vec(D, x) = r
    BY <2>1 DEF FractionRow, mat_vec
  <2> QED
    BY <1>1, <1>6, <2>2, SolvesExactly DEF n, D, r
<1>8. CASE D # <<>>
  <2>1. Len(b) <= n
    <3>1. 1 \in DOMAIN D /\ n = Len(D[1])
      BY <1>1, <1>8 DEF Rectangular, n, columns
    <3> QED
      BY <1>3, <1>4, <1>5, <3>1
  <2> DEFINE x == [k \in 1..n |-> IF k <= Len(b) THEN b[k] ELSE Zero]
  <2>2. x \in FractionRow(n) /\ mat_vec(D, x) = mat_vec(D, b)
    BY <1>1, <1>3, <1>5, <2>1, Padded DEF n
  <2> HIDE DEF x
  <2> QED
    BY <1>1, <1>2, <1>6, <2>2, SolvesExactly DEF n, D, r
<1> QED
  BY <1>7, <1>8

\* A vector that kills the columns and pairs with the residue: as far as the
\* two go together, there is no correction.
LEMMA ObstructionMeans ==
    ASSUME NEW c, LegalCertificate(c), ~Crashes(c), c.verdict = "nontrivial_associator_obstruction",
           ObstructionLayer(c)
    PROVE  NoCorrection(c.coboundary_0, c.seam_residue)
<1> DEFINE D == c.coboundary_0
           r == c.seam_residue
           z == c.cycle
           m == Len(D)
           n == columns(D)
           h == IF Len(z) < Len(r) THEN Len(z) ELSE Len(r)
<1>1. /\ Rectangular(D)
      /\ r \in Seq(Fractions) /\ Len(r) \in Nat /\ Vector(r, Len(r))
      /\ z \in Seq(Fractions) /\ Len(z) \in Nat /\ Vector(z, Len(z))
  BY ExactMatrixIs, ExactVectorIs DEF LegalCertificate
<1>2. is_zero(row_vec_mat(z, D)) /\ SumProducts(z, r, h) # Zero
  BY DEF ObstructionLayer, dot
<1>3. n > 0 => Len(z) <= m
  <2>1. n > 0 => D # <<>> /\ columns(D) > 0
    BY DEF columns
  <2> QED
    BY <1>1, <2>1, Shape DEF Crashes
<1>4. n \in Nat /\ m \in Nat /\ h \in Nat /\ Matrix(D, m, n) /\ Transposes(transpose(D), D, m, n)
  BY <1>1, Shape
<1> HIDE DEF D, r, z, m, n, h
<1>5. CASE n = 0
  <2>1. ~is_zero(r)
    <3> SUFFICES ASSUME is_zero(r) PROVE FALSE
      OBVIOUS
    <3>1. \A k \in 1..h : r[k] = Zero /\ r[k] \in Fractions /\ z[k] \in Fractions
      BY <1>1, <1>4 DEF is_zero, h, Vector
    <3>2. SumProducts(z, r, h) = SumProducts(r, z, h)
      BY <1>4, <3>1, ProductsCommute
    <3> QED
      BY <1>2, <1>4, <3>1, <3>2, ProductsOfZero
  <2> QED
    BY <1>5, <2>1 DEF NoCorrection, D, r, n
<1>6. CASE n # 0
  <2> DEFINE f == Fit(r, m)
             y == [i \in 1..m |-> IF i <= Len(z) THEN z[i] ELSE Zero]
  <2>1. Len(z) <= m
    BY <1>3, <1>4, <1>6
  <2>2. /\ f \in Seq(Fractions) /\ Len(f) = m /\ Vector(f, m)
        /\ y \in Seq(Fractions) /\ Len(y) = m /\ Vector(y, m)
    BY <1>1, <1>4, ZeroOne DEF Fit, Vector
  <2>3. /\ \A i \in 1..m : i > h => f[i] = Zero \/ y[i] = Zero
        /\ \A i \in 1..m : i <= h => f[i] = r[i] /\ y[i] = z[i]
    BY <1>1, <1>4 DEF Fit, h
  <2>4. h <= m
    BY <1>1, <1>4, <2>1 DEF h
  <2>5. \A j \in 1..n : SumProducts(y, transpose(D)[j], m) = SumProducts(z, transpose(D)[j], Len(z))
    <3> SUFFICES ASSUME NEW j \in 1..n
                 PROVE  SumProducts(y, transpose(D)[j], m) = SumProducts(z, transpose(D)[j], Len(z))
      OBVIOUS
    <3> DEFINE u == transpose(D)[j]
    <3>1. \A i \in 1..m : y[i] \in Fractions /\ u[i] \in Fractions
      BY <1>4, <2>2 DEF Matrix, Vector, Transposes
    <3>2. \A i \in 1..m : i > Len(z) => Times(y[i], u[i]) = Zero
      <4> SUFFICES ASSUME NEW i \in 1..m, i > Len(z) PROVE Times(y[i], u[i]) = Zero
        OBVIOUS
      <4>1. y[i] = Zero
        OBVIOUS
      <4>2. u[i] \in Fractions
        BY <3>1
      <4> QED
        BY <4>1, <4>2, TimesZero, TimesCommutes, ZeroOne
    <3>3. \A i \in 1..Len(z) : Times(y[i], u[i]) = Times(z[i], u[i])
      BY <2>1, <1>1, <1>4
    <3> HIDE DEF y, u
    <3>4. SumProducts(y, u, m) = SumProducts(y, u, Len(z))
      BY <1>1, <1>4, <2>1, <3>1, <3>2, ProductsStop
    <3>5. SumProducts(y, u, Len(z)) = SumProducts(z, u, Len(z))
      BY <1>1, <3>3, ProductsCongruent
    <3> QED
      BY <3>4, <3>5 DEF u
  <2> HIDE DEF f, y
  <2>6. is_zero(row_vec_mat(y, D))
    <3>1. /\ row_vec_mat(y, D) = [j \in 1..n |-> SumProducts(y, transpose(D)[j], m)]
          /\ row_vec_mat(z, D) = [j \in 1..n |-> SumProducts(z, transpose(D)[j], Len(z))]
      BY <2>2 DEF row_vec_mat, n
    <3> QED
      BY <1>2, <1>4, <2>5, <3>1 DEF is_zero
  <2>7. dot(y, f) # Zero
    <3>1. dot(y, f) = SumProducts(y, f, m)
      BY <1>4, <2>2 DEF dot
    <3>2. SumProducts(y, f, m) = SumProducts(y, f, h)
      <4>1. \A i \in 1..m : y[i] \in Fractions /\ f[i] \in Fractions
        BY <2>2 DEF Vector
      <4>2. \A i \in 1..m : i > h => Times(y[i], f[i]) = Zero
        <5> SUFFICES ASSUME NEW i \in 1..m, i > h PROVE Times(y[i], f[i]) = Zero
          OBVIOUS
        <5>1. f[i] = Zero \/ y[i] = Zero
          BY <2>3
        <5>2. f[i] \in Fractions /\ y[i] \in Fractions
          BY <4>1
        <5>3. CASE f[i] = Zero
          BY ONLY <5>2, <5>3, TimesZero
        <5>4. CASE y[i] = Zero
          <6>1. Times(y[i], f[i]) = Times(f[i], y[i])
            BY ONLY <5>2, TimesCommutes
          <6> QED
            BY ONLY <5>2, <5>4, <6>1, TimesZero
        <5> QED
          BY ONLY <5>1, <5>3, <5>4
      <4>3. m \in Nat /\ h \in Nat
        BY <1>4
      <4> QED
        BY ONLY <4>1, <4>2, <4>3, <2>4, ProductsStop
    <3>3. SumProducts(y, f, h) = SumProducts(z, r, h)
      <4>1. \A i \in 1..h : Times(y[i], f[i]) = Times(z[i], r[i])
        BY <1>4, <2>3, <2>4
      <4> QED
        BY <1>4, <4>1, ProductsCongruent
    <3> QED
      BY <1>2, <3>1, <3>2, <3>3
  <2>8. ~Solvable(D, f)
    <3> SUFFICES ASSUME Solvable(D, f) PROVE FALSE
      OBVIOUS
    <3>1. PICK b \in FractionRow(n) : mat_vec(D, b) = f
      BY <1>1, <2>2, SolvesExactly DEF Solvable, m, n
    <3>2. Vector(b, n) /\ Len(b) = n
      BY <1>4 DEF FractionRow, Vector
    <3> QED
      BY <1>1, <2>2, <2>6, <2>7, <3>1, <3>2, SeparatorRefutes DEF m, n
  <2> QED
    BY <1>6, <2>8 DEF NoCorrection, D, r, n, m, f
<1> QED
  BY <1>5, <1>6

----------------------------------------------------------------------------
(* The residue of a source.                                                *)

LEMMA OnePoint ==
    ASSUME NEW i \in SeamInstance, Cardinality(triple_overlap(i)) = 1
    PROVE  \E p \in Points : triple_overlap(i) = {p}
<1>1. triple_overlap(i) \subseteq Points
  BY DEF triple_overlap, SeamInstance, Regions
<1>2. IsFiniteSet(triple_overlap(i))
  BY <1>1, PointsAssumption, FS_Subset
<1>3. PICK p : triple_overlap(i) = {p}
  BY <1>2, FS_Singleton
<1> QED
  BY <1>1, <1>3

LEMMA DeltaIs ==
    ASSUME NEW mu \in SeamCorrectionData
    PROVE  closed_form_delta(mu) \in Int /\ Delta(mu) = <<closed_form_delta(mu), 1>>
<1>1. mu.VW \in Int /\ mu.U_VvW \in Int /\ mu.UV \in Int /\ mu.UvV_W \in Int
  BY DEF SeamCorrectionData
<1> QED
  BY <1>1 DEF Delta, closed_form_delta

\* What the algebra makes of other constants on the regions of an instance.
LEMMA AlgebraIs ==
    ASSUME NEW i \in SeamInstance, Cardinality(triple_overlap(i)) = 1, NEW mu \in SeamCorrectionData
    PROVE  AlgebraResidue(i.U, i.V, i.W, mu) = {closed_form_delta(mu)}
<1>1. i.U \in Regions /\ i.V \in Regions /\ i.W \in Regions
  BY DEF SeamInstance
<1> DEFINE U == i.U
           V == i.V
           W == i.W
<1>2. PICK p \in Points : U \cap V \cap W = {p}
  BY OnePoint DEF triple_overlap
<1> HIDE DEF U, V, W
<1>3. associator_defect(U, V, W, mu).boundary =
        [q \in Points |-> IF q \in U \cap V \cap W THEN closed_form_delta(mu) ELSE 0]
  BY <1>1, Localised DEF U, V, W
<1>4. AlgebraResidue(U, V, W, mu) = {associator_defect(U, V, W, mu).boundary[q] : q \in {p}}
  BY <1>2 DEF AlgebraResidue
<1> QED
  BY <1>2, <1>3, <1>4 DEF U, V, W

\* A seam compiles exactly when three regions meet in one point, and then to
\* the closed form.
LEMMA SeamResidueIs ==
    ASSUME NEW i \in SeamInstance
    PROVE  compute_seam_residue(i) =
             IF Cardinality(triple_overlap(i)) = 1 THEN {closed_form_delta(i.mu)} ELSE {}
<1>1. i.U \in Regions /\ i.V \in Regions /\ i.W \in Regions /\ i.mu \in SeamCorrectionData
  BY DEF SeamInstance
<1> DEFINE d == defect_of(i)
           o == triple_overlap(i)
<1>2. CASE Cardinality(o) # 1
  BY <1>2 DEF compute_seam_residue, Coefficient
<1>3. CASE Cardinality(o) = 1
  <2>1. support(d) \subseteq o
    BY <1>1, SupportInOverlap DEF defect_of, triple_overlap
  <2>2. d.boundary = [q \in Points |-> IF q \in o THEN closed_form_delta(i.mu) ELSE 0]
    BY <1>1, Localised, SMTT(30) DEF defect_of, triple_overlap
  <2>3. PICK p \in Points : o = {p}
    BY <1>3, OnePoint
  <2> HIDE DEF d, o
  <2>4. d.boundary[p] = closed_form_delta(i.mu)
    BY <2>2, <2>3
  <2>5. compute_seam_residue(i) = {d.boundary[q] : q \in o}
    BY <1>3, <2>1, <2>3, <2>4 DEF compute_seam_residue, Coefficient, d, o
  <2> QED
    BY <1>3, <2>3, <2>4, <2>5 DEF o
<1> QED
  BY <1>2, <1>3

\* The last instance of a seam is the one that counts, and there is one last.
LEMMA InstanceIs ==
    ASSUME NEW S, NEW instances \in Seq(S), NEW seam, NEW i \in Instance(instances, seam)
    PROVE  Instance(instances, seam) = {i} /\ \E k \in DOMAIN instances : i = instances[k] /\ instances[k].seam = seam
<1> DEFINE ks == {k \in DOMAIN instances : instances[k].seam = seam}
           last == {k \in ks : \A j \in ks : j <= k}
<1>1. Instance(instances, seam) = {instances[k] : k \in last}
  BY DEF Instance
<1>2. ASSUME NEW k \in last, NEW l \in last PROVE k = l
  <2>1. k \in Nat /\ l \in Nat
    OBVIOUS
  <2>2. k <= l /\ l <= k
    BY <1>2
  <2> QED
    BY <2>1, <2>2
<1>3. PICK k \in last : i = instances[k]
  BY <1>1
<1>4. k \in DOMAIN instances /\ instances[k].seam = seam
  OBVIOUS
<1> HIDE DEF last
<1>5. last = {k}
  BY <1>2, <1>3
<1> QED
  BY <1>1, <1>3, <1>4, <1>5

\* The constants and the entry of the k-th seam.
EntryOf(s, r, k, i) ==
    /\ i \in SeamInstance /\ Instance(s.instances, s.seam_order[k]) = {i}
    /\ i.seam = s.seam_order[k] /\ i.seam \in {s.instances[j].seam : j \in DOMAIN s.instances}
    /\ r[k] = <<closed_form_delta(i.mu), 1>>

LEMMA ResidueIs ==
    ASSUME NEW s, LegalSource(s), NEW r \in residue_vector(s.instances, s.seam_order)
    PROVE  /\ DOMAIN r = 1..Len(s.seam_order) /\ Len(r) = Len(s.seam_order) /\ r \in Seq(Fractions)
           /\ \A k \in DOMAIN r : \E i : EntryOf(s, r, k, i)
<1>1. s.seam_order \in Seq(STRING) /\ s.instances \in Seq(SeamInstance) /\ Len(s.seam_order) \in Nat
  BY DEF LegalSource
<1> DEFINE values(k) == UNION {compute_seam_residue(i) : i \in Instance(s.instances, s.seam_order[k])}
<1>2. /\ Compiles(s.instances)
      /\ \A k \in DOMAIN s.seam_order : Instance(s.instances, s.seam_order[k]) # {}
      /\ r = [k \in DOMAIN s.seam_order |-> <<CHOOSE v \in values(k) : TRUE, 1>>]
  BY DEF residue_vector
<1>3. DOMAIN r = 1..Len(s.seam_order)
  BY <1>1, <1>2
<1>4. ASSUME NEW k \in DOMAIN r PROVE \E i : EntryOf(s, r, k, i)
  <2>1. PICK i : i \in Instance(s.instances, s.seam_order[k])
    BY <1>2
  <2>2. /\ Instance(s.instances, s.seam_order[k]) = {i}
        /\ \E j \in DOMAIN s.instances : i = s.instances[j] /\ s.instances[j].seam = s.seam_order[k]
    BY <1>1, <2>1, InstanceIs
  <2>3. i \in SeamInstance /\ compute_seam_residue(i) # {}
    BY <1>1, <1>2, <2>2 DEF Compiles
  <2>4. compute_seam_residue(i) = {closed_form_delta(i.mu)}
    BY <2>3, SeamResidueIs
  <2>5. values(k) = {closed_form_delta(i.mu)}
    BY <2>2, <2>4
  <2> HIDE DEF values
  <2>6. r[k] = <<closed_form_delta(i.mu), 1>>
    BY <1>2, <2>5
  <2> QED
    BY <2>2, <2>3, <2>6 DEF EntryOf
<1>5. \A k \in 1..Len(s.seam_order) : r[k] \in Fractions
  <2> SUFFICES ASSUME NEW k \in 1..Len(s.seam_order) PROVE r[k] \in Fractions
    OBVIOUS
  <2>1. PICK i : EntryOf(s, r, k, i)
    BY <1>3, <1>4
  <2>2. i.mu \in SeamCorrectionData
    BY <2>1 DEF EntryOf, SeamInstance
  <2> QED
    BY <2>1, <2>2, DeltaIs, IntegerIs DEF EntryOf
<1>6. r \in [1..Len(s.seam_order) -> Fractions]
  BY <1>2, <1>3, <1>5
<1> QED
  BY <1>1, <1>3, <1>4, <1>6

----------------------------------------------------------------------------
(* What the run writes.                                                    *)

\* The certificate for a residue, field by field.
WrittenFor(s, r, c) ==
    LET result == attempt_repair(s.d0, r, s.z, s.d1)
    IN /\ c.seam_order = s.seam_order /\ c.seam_residue = r
       /\ c.coboundary_1 = s.d1 /\ c.coboundary_0 = s.d0 /\ c.cycle = s.z
       /\ c.delta1_r = IF s.d1 = <<>> THEN <<>> ELSE mat_vec(s.d1, r)
       /\ c.closed = is_zero(c.delta1_r)
       /\ c.mu_by_seam = [seam \in {s.instances[k].seam : k \in DOMAIN s.instances} |->
                            (CHOOSE i \in Instance(s.instances, seam) : TRUE).mu]
       /\ c.defects = [seam \in {s.seam_order[k] : k \in DOMAIN s.seam_order} |->
                         r[CHOOSE k \in DOMAIN r : s.seam_order[k] = seam]]
       /\ c.pairing = result.obstruction_pairing /\ c.repairable = result.repairable
       /\ c.correction = result.correction /\ c.verdict = result.verdict

LEMMA WrittenIs ==
    ASSUME NEW s, NEW c \in build_certificate(s)
    PROVE  \E r \in residue_vector(s.instances, s.seam_order) : WrittenFor(s, r, c)
<1> DEFINE R == residue_vector(s.instances, s.seam_order)
           written(r) ==
             LET result == attempt_repair(s.d0, r, s.z, s.d1)
                 delta1r == IF s.d1 = <<>> THEN <<>> ELSE mat_vec(s.d1, r)
                 declared == {s.instances[k].seam : k \in DOMAIN s.instances}
             IN [seam_order |-> s.seam_order,
                 mu_by_seam |-> [seam \in declared |-> (CHOOSE i \in Instance(s.instances, seam) : TRUE).mu],
                 defects |-> [seam \in {s.seam_order[k] : k \in DOMAIN s.seam_order} |->
                                r[CHOOSE k \in DOMAIN r : s.seam_order[k] = seam]],
                 seam_residue |-> r, coboundary_1 |-> s.d1, delta1_r |-> delta1r, closed |-> is_zero(delta1r),
                 coboundary_0 |-> s.d0, cycle |-> s.z, pairing |-> result.obstruction_pairing,
                 repairable |-> result.repairable, correction |-> result.correction,
                 verdict |-> result.verdict]
<1>1. build_certificate(s) = {written(r) : r \in R}
  BY Zenon DEF build_certificate
<1>2. ASSUME NEW r \in R PROVE WrittenFor(s, r, written(r))
  BY DEF WrittenFor
<1> HIDE DEF written, R
<1>3. PICK r \in R : c = written(r)
  BY <1>1
<1> QED
  BY <1>2, <1>3 DEF R

\* The constants beside an entry, and the entry under the name of its seam.
LEMMA EntriesAgree ==
    ASSUME NEW s, LegalSource(s), NEW r \in residue_vector(s.instances, s.seam_order),
           NEW c, WrittenFor(s, r, c), NEW k \in DOMAIN r
    PROVE  /\ s.seam_order[k] \in DOMAIN c.mu_by_seam /\ s.seam_order[k] \in DOMAIN c.defects
           /\ c.defects[s.seam_order[k]] = r[k]
           /\ Delta(c.mu_by_seam[s.seam_order[k]]) = r[k]
<1> DEFINE seam == s.seam_order[k]
           l == CHOOSE j \in DOMAIN r : s.seam_order[j] = seam
<1>1. /\ DOMAIN r = 1..Len(s.seam_order) /\ \A j \in DOMAIN r : \E i : EntryOf(s, r, j, i)
      /\ DOMAIN s.seam_order = DOMAIN r
  BY ResidueIs DEF LegalSource
<1>2. PICK i : EntryOf(s, r, k, i)
  BY <1>1
<1>3. l \in DOMAIN r /\ s.seam_order[l] = seam
  OBVIOUS
<1>4. PICK j : EntryOf(s, r, l, j)
  BY <1>1, <1>3
<1>5. j = i
  BY <1>2, <1>3, <1>4 DEF EntryOf
<1>6. r[l] = r[k]
  BY <1>2, <1>4, <1>5 DEF EntryOf
<1>7. seam \in {s.seam_order[m] : m \in DOMAIN s.seam_order}
  BY <1>1
<1>8. c.defects[seam] = r[l] /\ seam \in DOMAIN c.defects
  BY <1>7 DEF WrittenFor
<1> HIDE DEF l
<1>9. seam \in DOMAIN c.mu_by_seam /\ c.mu_by_seam[seam] = i.mu
  <2>1. seam \in {s.instances[m].seam : m \in DOMAIN s.instances}
    BY <1>2 DEF EntryOf
  <2>2. (CHOOSE x \in Instance(s.instances, seam) : TRUE) = i
    BY <1>2 DEF EntryOf
  <2> QED
    BY <2>1, <2>2 DEF WrittenFor
<1>10. Delta(i.mu) = r[k]
  <2>1. i.mu \in SeamCorrectionData
    BY <1>2 DEF EntryOf, SeamInstance
  <2> QED
    BY <1>2, <2>1, DeltaIs DEF EntryOf
<1> QED
  BY <1>6, <1>8, <1>9, <1>10

\* A correction that the run writes solves its system.
LEMMA CorrectionIs ==
    ASSUME NEW s, LegalSource(s), NEW r \in residue_vector(s.instances, s.seam_order),
           NEW c, WrittenFor(s, r, c)
    PROVE  /\ \A b \in c.correction : b \in FractionRow(columns(s.d0)) /\ mat_vec(s.d0, b) = r
           /\ c.repairable <=> c.verdict = "globally_repairable"
           /\ c.verdict = IF Degenerate(s.d0, r, s.z) THEN "degenerate_input"
                          ELSE IF Open(s.d1, r) THEN "invalid_residue"
                          ELSE IF Solvable(s.d0, r) THEN "globally_repairable"
                          ELSE "nontrivial_associator_obstruction"
           /\ c.verdict = "globally_repairable" => c.correction # {}
           /\ c.verdict = "nontrivial_associator_obstruction" => c.pairing = {dot(s.z, r)}
<1>1. Rectangular(s.d0)
  BY ExactMatrixIs DEF LegalSource
<1>2. r \in Seq(Fractions) /\ Vector(r, Len(r))
  <2>1. r \in Seq(Fractions)
    BY ResidueIs
  <2> QED
    BY <2>1 DEF Vector
<1>3. CASE Degenerate(s.d0, r, s.z)
  BY <1>3 DEF WrittenFor, attempt_repair, Result
<1>4. CASE ~Degenerate(s.d0, r, s.z) /\ Open(s.d1, r)
  BY <1>4 DEF WrittenFor, attempt_repair, Result
<1>5. CASE ~Degenerate(s.d0, r, s.z) /\ ~Open(s.d1, r)
  <2>1. Len(r) = Len(s.d0)
    BY <1>5 DEF Degenerate
  <2>2. \A b \in solve_over_Q(s.d0, r) : b \in FractionRow(columns(s.d0)) /\ mat_vec(s.d0, b) = r
    BY <1>1, <1>2, <2>1, SolvesExactly
  <2>3. /\ c.correction = solve_over_Q(s.d0, r) /\ c.pairing = {dot(s.z, r)}
        /\ c.verdict = IF solve_over_Q(s.d0, r) # {} THEN "globally_repairable"
                                                   ELSE "nontrivial_associator_obstruction"
        /\ c.repairable <=> c.verdict = "globally_repairable"
    BY <1>5 DEF WrittenFor, attempt_repair, Result
  <2> QED
    BY <1>5, <2>2, <2>3 DEF Solvable
<1> QED
  BY <1>3, <1>4, <1>5

LEMMA WrittenLegal ==
    ASSUME NEW s, LegalSource(s), NEW c \in emitted(s)
    PROVE  LegalCertificate(c)
<1>1. c \in build_certificate(s)
  BY DEF emitted
<1>2. PICK r \in residue_vector(s.instances, s.seam_order) : WrittenFor(s, r, c)
  BY <1>1, WrittenIs
<1>3. /\ s.seam_order \in Seq(STRING) /\ s.instances \in Seq(SeamInstance)
      /\ ExactMatrix(s.d0) /\ ExactVector(s.z) /\ ExactMatrix(s.d1)
  BY DEF LegalSource
<1>4. ExactVector(r)
  BY <1>2, ResidueIs, FractionsExact
<1>5. ASSUME NEW seam \in DOMAIN c.mu_by_seam PROVE c.mu_by_seam[seam] \in SeamCorrectionData
  <2> DEFINE ks == {k \in DOMAIN s.instances : s.instances[k].seam = seam}
  <2>1. PICK k \in DOMAIN s.instances : s.instances[k].seam = seam
    BY <1>2 DEF WrittenFor
  <2>2. DOMAIN s.instances = 1..Len(s.instances) /\ Len(s.instances) \in Nat
    BY <1>3
  <2>3. \E l \in ks : \A j \in ks : j <= l
    <3>1. ks \in SUBSET (1..Len(s.instances)) /\ ks # {}
      BY <2>1, <2>2
    <3> HIDE DEF ks
    <3> QED
      BY <2>2, <3>1, GreatestOf
  <2>4. Instance(s.instances, seam) # {}
    BY <2>3 DEF Instance
  <2> DEFINE i == CHOOSE x \in Instance(s.instances, seam) : TRUE
  <2>5. i \in Instance(s.instances, seam)
    BY <2>4, Zenon
  <2>6. c.mu_by_seam[seam] = i.mu
    BY <1>2 DEF WrittenFor
  <2> HIDE DEF i
  <2>7. \E m \in DOMAIN s.instances : i = s.instances[m]
    BY <1>3, <2>5, InstanceIs
  <2>8. i \in SeamInstance
    BY <1>3, <2>7
  <2> QED
    BY <2>6, <2>8 DEF SeamInstance
<1>6. ASSUME NEW b \in c.correction PROVE ExactVector(b)
  <2>1. b \in FractionRow(columns(s.d0)) /\ columns(s.d0) \in Nat
    BY <1>2, <1>3, CorrectionIs, ExactMatrixIs, Shape
  <2>2. b \in Seq(Fractions)
    BY <2>1, RowIsSeq
  <2> QED
    BY <2>2, FractionsExact
<1> QED
  BY <1>2, <1>3, <1>4, <1>5, <1>6 DEF LegalCertificate, WrittenFor

----------------------------------------------------------------------------
(* The files. Whatever the path holds was written by the run, or is one of *)
(* the edits of that; and what the checker last said, it said of the file  *)
(* that it last read. This is inductive, and the two properties of the     *)
(* certificate are consequences of it.                                     *)

Held(f) == f \in {Absent, Torn} \/ (f = Saved(f.cert) /\ LegalCertificate(f.cert))

FilesInv ==
    /\ src \in Sources
    /\ Held(file) /\ Held(judged)
    /\ answer = check_file(judged) \/ (answer = "none" /\ judged = Absent)

LEMMA HeldSaved == ASSUME NEW c, LegalCertificate(c) PROVE Held(Saved(c))
<1>1. Saved(c).cert = c
  BY DEF Saved
<1> QED
  BY <1>1 DEF Held

\* No step of the run, of the checker or of those who replace the file leaves
\* the invariant, and the steps that follow an accepted certificate do not
\* touch what it speaks of.
THEOREM FilesKept == Spec => []FilesInv
<1>1. Init => FilesInv
  BY DEF Init, InitFirstOrder, FilesInv, Held
<1>2. FilesInv /\ [Next]_vars => FilesInv'
  <2> SUFFICES ASSUME FilesInv, [Next]_vars PROVE FilesInv'
    OBVIOUS
  <2>1. ASSUME NEW c \in emitted(src) PROVE LegalCertificate(c)
    BY FilesAssumption, WrittenLegal DEF FilesInv
  <2>2. CASE Raise
    BY <2>2 DEF Raise, FilesInv
  <2>3. CASE OpenFile
    BY <2>3 DEF OpenFile, FilesInv, Held
  <2>4. CASE Write
    <3>1. PICK c \in emitted(src) : file' = Saved(c)
      BY <2>4 DEF Write
    <3>2. Held(Saved(c))
      BY <2>1, HeldSaved
    <3>3. Held(file')
      BY <3>1, <3>2
    <3> QED
      BY <2>4, <3>3 DEF Write, FilesInv
  <2>5. CASE Die
    BY <2>5 DEF Die, FilesInv
  <2>6. CASE Replace
    <3>1. PICK c \in emitted(src) : \E other \in Edited(c) : file' = Saved(other)
      BY <2>6 DEF Replace
    <3>2. PICK other \in Edited(c) : file' = Saved(other)
      BY <3>1
    <3>3. Held(Saved(other))
      BY FilesAssumption, HeldSaved DEF FilesInv
    <3>4. Held(file')
      BY <3>2, <3>3
    <3> QED
      BY <2>6, <3>4 DEF Replace, FilesInv
  <2>7. CASE Check
    BY <2>7 DEF Check, FilesInv
  <2>8. CASE UNCHANGED foVars
    BY <2>8 DEF foVars, FilesInv
  <2> QED
    BY <2>2, <2>3, <2>4, <2>5, <2>6, <2>7, <2>8 DEF Next, FirstOrder, vars, foVars
<1> QED
  BY <1>1, <1>2, PTL DEF Spec

(***************************************************************************)
(* The residue layer re-derives each entry from the constants beside it by *)
(* the closed form; that this is what the algebra computes, on any three   *)
(* regions that meet in one point, is Localised.                           *)
(***************************************************************************)
LEMMA EntriesDerived ==
    ASSUME NEW c, LegalCertificate(c), ResidueLayer(c), NEW instances \in Seq(SeamInstance)
    PROVE  /\ Len(c.seam_order) = Len(c.seam_residue)
           /\ \A k \in DOMAIN c.seam_residue : \A i \in DOMAIN instances :
                Cardinality(triple_overlap(instances[i])) = 1 =>
                   {c.seam_residue[k]} =
                     {<<v, 1>> : v \in AlgebraResidue(instances[i].U, instances[i].V, instances[i].W,
                                                      c.mu_by_seam[c.seam_order[k]])}
<1>1. /\ c.seam_order \in Seq(STRING) /\ c.seam_residue \in Seq(Fractions)
      /\ [k \in DOMAIN c.seam_order |-> c.defects[c.seam_order[k]]] = c.seam_residue
  BY ExactVectorIs DEF LegalCertificate, ResidueLayer
<1>2. DOMAIN c.seam_order = DOMAIN c.seam_residue /\ Len(c.seam_order) = Len(c.seam_residue)
  BY <1>1
<1>3. ASSUME NEW k \in DOMAIN c.seam_residue, NEW i \in DOMAIN instances,
             Cardinality(triple_overlap(instances[i])) = 1
      PROVE  {c.seam_residue[k]} =
               {<<v, 1>> : v \in AlgebraResidue(instances[i].U, instances[i].V, instances[i].W,
                                                c.mu_by_seam[c.seam_order[k]])}
  <2> DEFINE mu == c.mu_by_seam[c.seam_order[k]]
             x == instances[i]
  <2>1. mu \in SeamCorrectionData /\ Delta(mu) = c.seam_residue[k]
    <3>1. /\ c.seam_order[k] \in DOMAIN c.mu_by_seam
          /\ Delta(mu) = c.defects[c.seam_order[k]]
      BY <1>2 DEF ResidueLayer
    <3>2. c.seam_residue[k] = c.defects[c.seam_order[k]]
      BY <1>1, <1>2
    <3> QED
      BY <3>1, <3>2 DEF LegalCertificate
  <2>2. x \in SeamInstance
    OBVIOUS
  <2> HIDE DEF mu, x
  <2>3. AlgebraResidue(x.U, x.V, x.W, mu) = {closed_form_delta(mu)}
    BY <1>3, <2>1, <2>2, AlgebraIs DEF x
  <2>4. c.seam_residue[k] = <<closed_form_delta(mu), 1>>
    BY <2>1, DeltaIs
  <2> QED
    BY <2>3, <2>4 DEF mu, x
<1> QED
  BY <1>2, <1>3

(***************************************************************************)
(* An accepted certificate is true, whoever wrote it and whenever it was   *)
(* read: first_order_certificate_checker.check_certificate solves nothing  *)
(* and compares no shapes.                                                 *)
(***************************************************************************)
THEOREM AcceptanceSound == Spec => []CertificateSound
<1>1. FilesInv => CertificateSound
  <2> SUFFICES ASSUME FilesInv, answer = "ACCEPT"
               PROVE  /\ judged.kind = "certificate"
                      /\ \E c \in {judged.cert} :
                           /\ Len(c.seam_order) = Len(c.seam_residue)
                           /\ \A k \in DOMAIN c.seam_residue : \A i \in DOMAIN src.instances :
                                Cardinality(triple_overlap(src.instances[i])) = 1 =>
                                   {c.seam_residue[k]} =
                                     {<<v, 1>> : v \in AlgebraResidue(src.instances[i].U, src.instances[i].V,
                                                        src.instances[i].W, c.mu_by_seam[c.seam_order[k]])}
                           /\ Open(c.coboundary_1, c.seam_residue) = FALSE
                           /\ \/ /\ c.verdict = "globally_repairable"
                                 /\ Solvable(c.coboundary_0, c.seam_residue)
                              \/ /\ c.verdict = "nontrivial_associator_obstruction"
                                 /\ NoCorrection(c.coboundary_0, c.seam_residue)
    BY DEF CertificateSound
  <2> DEFINE c == judged.cert
  <2>1. check_file(judged) = "ACCEPT"
    BY DEF FilesInv
  <2>2. judged.kind = "certificate" /\ ~Crashes(c) /\ check_certificate(c) = {}
    BY <2>1 DEF check_file
  <2>3. LegalCertificate(c)
    BY <2>2 DEF FilesInv, Held, Absent, Torn
  <2>4. src.instances \in Seq(SeamInstance)
    BY FilesAssumption DEF FilesInv, LegalSource
  <2> HIDE DEF c
  <2>5. ResidueLayer(c) /\ ClosedLayer(c) /\ VerdictLayer(c)
    BY <2>2 DEF check_certificate
  <2>6. Open(c.coboundary_1, c.seam_residue) = FALSE
    BY <2>5 DEF ClosedLayer, Open
  <2>7. \/ c.verdict = "globally_repairable" /\ Solvable(c.coboundary_0, c.seam_residue)
        \/ c.verdict = "nontrivial_associator_obstruction" /\ NoCorrection(c.coboundary_0, c.seam_residue)
    BY <2>2, <2>3, <2>5, RepairMeans, ObstructionMeans DEF VerdictLayer
  <2> DEFINE T(i, k) == {<<v, 1>> : v \in AlgebraResidue(src.instances[i].U, src.instances[i].V,
                                             src.instances[i].W, c.mu_by_seam[c.seam_order[k]])}
  <2>8. /\ Len(c.seam_order) = Len(c.seam_residue)
        /\ \A k \in DOMAIN c.seam_residue : \A i \in DOMAIN src.instances :
             Cardinality(triple_overlap(src.instances[i])) = 1 => {c.seam_residue[k]} = T(i, k)
    BY <2>3, <2>4, <2>5, EntriesDerived
  <2> HIDE DEF T
  <2> QED
    BY <2>2, <2>6, <2>7, <2>8 DEF c, T
<1> QED
  BY <1>1, FilesKept, PTL

\* The checker's layers, of the certificate that the run writes of a source.
LEMMA WrittenJudged ==
    ASSUME NEW s, LegalSource(s), NEW r \in residue_vector(s.instances, s.seam_order),
           NEW c, WrittenFor(s, r, c)
    PROVE  ~Crashes(c) /\ (check_certificate(c) = {} <=> Supported(s, r))
<1>1. /\ c.seam_residue = r /\ c.seam_order = s.seam_order /\ c.coboundary_1 = s.d1
      /\ c.coboundary_0 = s.d0 /\ c.cycle = s.z
      /\ c.delta1_r = IF s.d1 = <<>> THEN <<>> ELSE mat_vec(s.d1, r)
      /\ c.closed = is_zero(c.delta1_r)
  BY DEF WrittenFor
<1>2. /\ \A b \in c.correction : b \in FractionRow(columns(s.d0)) /\ mat_vec(s.d0, b) = r
      /\ c.repairable <=> c.verdict = "globally_repairable"
      /\ c.verdict = IF Degenerate(s.d0, r, s.z) THEN "degenerate_input"
                     ELSE IF Open(s.d1, r) THEN "invalid_residue"
                     ELSE IF Solvable(s.d0, r) THEN "globally_repairable"
                     ELSE "nontrivial_associator_obstruction"
      /\ c.verdict = "globally_repairable" => c.correction # {}
      /\ c.verdict = "nontrivial_associator_obstruction" => c.pairing = {dot(s.z, r)}
  BY CorrectionIs
<1>3. Rectangular(s.d0) /\ columns(s.d0) \in Nat /\ Rectangular(s.d1) /\ columns(s.d1) \in Nat
  BY ExactMatrixIs, Shape DEF LegalSource
<1>4. DOMAIN r = 1..Len(s.seam_order) /\ Len(r) = Len(s.seam_order) /\ r \in Seq(Fractions)
  BY ResidueIs
<1>5. ResidueLayer(c)
  <2>1. /\ s.seam_order \in Seq(STRING) /\ DOMAIN s.seam_order = DOMAIN r
    BY <1>4 DEF LegalSource
  <2>2. \A k \in DOMAIN r :
          /\ s.seam_order[k] \in DOMAIN c.mu_by_seam /\ s.seam_order[k] \in DOMAIN c.defects
          /\ c.defects[s.seam_order[k]] = r[k]
          /\ Delta(c.mu_by_seam[s.seam_order[k]]) = r[k]
    BY EntriesAgree
  <2>3. [k \in DOMAIN s.seam_order |-> c.defects[s.seam_order[k]]] = r
    BY <1>4, <2>1, <2>2
  <2> QED
    BY <1>1, <2>1, <2>2, <2>3 DEF ResidueLayer
<1>6. ClosedLayer(c) <=> ~Open(s.d1, r)
  BY <1>1 DEF ClosedLayer, Open, is_zero
<1>7. VerdictLayer(c) <=> Supported(s, r)
  <2>1. CASE c.verdict = "globally_repairable"
    BY <1>1, <1>2, <2>1 DEF VerdictLayer, RepairLayer, Supported
  <2>2. CASE c.verdict = "nontrivial_associator_obstruction"
    BY <1>1, <1>2, <2>2 DEF VerdictLayer, ObstructionLayer, Supported
  <2>3. CASE c.verdict \in {"degenerate_input", "invalid_residue"}
    BY <1>2, <2>3 DEF VerdictLayer, Supported
  <2> QED
    BY <1>2, <2>1, <2>2, <2>3
<1>8. Supported(s, r) => ~Open(s.d1, r)
  BY DEF Supported
<1>9. ~Crashes(c)
  <2>1. ASSUME NEW i \in DOMAIN s.d1 PROVE ~(Len(r) > Len(s.d1[i]))
    <3>1. i \in 1..Len(s.d1) /\ s.d1 # <<>>
      BY <1>3 DEF Rectangular
    <3>2. Len(s.d1[i]) = columns(s.d1) /\ columns(s.d1) >= Len(s.seam_order)
      BY <3>1 DEF LegalSource, ExactMatrix
    <3>3. Len(s.seam_order) \in Nat
      BY DEF LegalSource
    <3> QED
      BY <1>3, <1>4, <3>2, <3>3
  <2>2. ASSUME NEW b \in c.correction, NEW i \in DOMAIN s.d0 PROVE ~(Len(b) > Len(s.d0[i]))
    <3>1. Len(b) = columns(s.d0)
      BY <1>2, <1>3, RowIsSeq
    <3>2. i \in 1..Len(s.d0)
      BY <1>3 DEF Rectangular
    <3>3. Len(s.d0[i]) = columns(s.d0)
      BY <3>2 DEF LegalSource, ExactMatrix
    <3> QED
      BY <1>3, <3>1, <3>3
  <2>3. c.verdict = "nontrivial_associator_obstruction" => Len(s.z) = Len(s.d0)
    BY <1>2 DEF Degenerate
  <2>4. Len(s.d0) \in Nat
    BY <1>3, Shape
  <2> QED
    BY <1>1, <2>1, <2>2, <2>3, <2>4 DEF Crashes
<1> QED
  BY <1>5, <1>6, <1>7, <1>8, <1>9 DEF check_certificate

(***************************************************************************)
(* What the run wrote is accepted exactly when its source supports it, it  *)
(* never makes the checker crash, and the residue classifier calls the     *)
(* same sources obstructed: attempt_repair and check_certificate agree on  *)
(* every source, but for a declared vector that is no cycle.               *)
(***************************************************************************)
THEOREM RunJudged == Spec => []JudgedAsComputed
<1>1. FilesInv => JudgedAsComputed
  <2> SUFFICES ASSUME FilesInv, judged.kind = "certificate", NEW c \in emitted(src), judged = Saved(c)
               PROVE  /\ answer = IF Supported(src, judged.cert.seam_residue) THEN "ACCEPT" ELSE "REJECT"
                      /\ ~Degenerate(src.d0, judged.cert.seam_residue, src.z) =>
                           (is_obstruction(src.d0, judged.cert.seam_residue, src.d1)
                              <=> judged.cert.verdict = "nontrivial_associator_obstruction")
    BY DEF JudgedAsComputed
  <2>1. judged.cert = c
    BY DEF Saved
  <2>2. answer = check_file(judged)
    BY DEF FilesInv, Absent
  <2>3. LegalSource(src)
    BY FilesAssumption DEF FilesInv
  <2>4. PICK r \in residue_vector(src.instances, src.seam_order) : WrittenFor(src, r, c)
    BY WrittenIs DEF emitted
  <2>5. c.seam_residue = r
    BY <2>4 DEF WrittenFor
  <2>6. ~Crashes(c) /\ (check_certificate(c) = {} <=> Supported(src, r))
    BY <2>3, <2>4, WrittenJudged
  <2>7. answer = IF Supported(src, r) THEN "ACCEPT" ELSE "REJECT"
    BY <2>1, <2>2, <2>6 DEF check_file
  <2>8. ~Degenerate(src.d0, r, src.z) =>
          (is_obstruction(src.d0, r, src.d1) <=> c.verdict = "nontrivial_associator_obstruction")
    BY <2>3, <2>4, CorrectionIs DEF is_obstruction
  <2> QED
    BY <2>1, <2>5, <2>7, <2>8
<1> QED
  BY <1>1, FilesKept, PTL

----------------------------------------------------------------------------
(* Complexes, and the matrices made of them.                               *)

LEMMA SequenceIs ==
    ASSUME NEW s, IsSequence(s)
    PROVE  Len(s) \in Nat /\ DOMAIN s = 1..Len(s) /\ (s # <<>> => Len(s) > 0)
<1> DEFINE S == RangeOf(s)
<1>1. s \in Seq(S)
  BY DEF IsSequence
<1> HIDE DEF S
<1> QED
  BY <1>1

LEMMA ComplexIs ==
    ASSUME NEW c, LegalComplex(c)
    PROVE  /\ Len(c.vertices) \in Nat /\ Len(c.vertices) > 0 /\ DOMAIN c.vertices = 1..Len(c.vertices)
           /\ Len(c.edges) \in Nat /\ Len(c.edges) > 0 /\ DOMAIN c.edges = 1..Len(c.edges)
  BY SequenceIs DEF LegalComplex

LEMMA Delta0Is ==
    ASSUME NEW c, LegalComplex(c) PROVE delta0(c) \in Rows(Len(c.edges), Len(c.vertices))
<1> DEFINE m == Len(c.edges)
           n == Len(c.vertices)
           entry(i, j) == Minus(IF c.vertices[j] = c.edges[i].tgt THEN One ELSE Zero,
                                IF c.vertices[j] = c.edges[i].src THEN One ELSE Zero)
           row(i) == [j \in 1..n |-> entry(i, j)]
<1>1. m \in Nat /\ n \in Nat /\ DOMAIN c.edges = 1..m /\ DOMAIN c.vertices = 1..n
  BY ComplexIs
<1>2. \A i \in 1..m : row(i) \in FractionRow(n)
  <2>1. \A i \in 1..m, j \in 1..n : entry(i, j) \in Fractions
    BY ZeroOne, MinusIs, FractionsClosed, MinusOneIs
  <2> HIDE DEF entry
  <2> QED
    BY <2>1 DEF FractionRow
<1>3. delta0(c) = Computed([i \in 1..m |-> Computed(row(i))])
  BY <1>1 DEF delta0, coboundary_0
<1> HIDE DEF m, n, row
<1>4. \A i \in 1..m : Computed(row(i)) = row(i)
  BY <1>1, <1>2, RowIsSeq, ComputedIs
<1>5. [i \in 1..m |-> Computed(row(i))] = [i \in 1..m |-> row(i)]
  BY <1>4
<1>6. [i \in 1..m |-> row(i)] \in Rows(m, n)
  BY <1>2 DEF Rows
<1>7. [i \in 1..m |-> row(i)] \in Seq(FractionRow(n))
  BY <1>1, <1>2
<1>8. delta0(c) = [i \in 1..m |-> row(i)]
  BY <1>3, <1>5, <1>7, ComputedIs
<1> QED
  BY <1>6, <1>8 DEF m, n

\* The maps induced on edges and on vertices.
LEMMA PullbackIs ==
    ASSUME NEW c, LegalComplex(c), NEW w, LegalComplex(w)
    PROVE  /\ rho_star(c, w) \in Rows(Len(w.edges), Len(c.edges))
           /\ rho0_star(c, w) \in Rows(Len(w.vertices), Len(c.vertices))
<1>1. /\ DOMAIN w.edges = 1..Len(w.edges) /\ DOMAIN c.edges = 1..Len(c.edges)
      /\ DOMAIN w.vertices = 1..Len(w.vertices) /\ DOMAIN c.vertices = 1..Len(c.vertices)
  BY ComplexIs
<1>2. \A i \in DOMAIN w.edges : w.edges[i].sign \in Fractions
  BY ZeroOne, MinusOneIs DEF LegalComplex, LegalEdge, MinusOne
<1>3. rho_star(c, w) \in Rows(Len(w.edges), Len(c.edges))
  BY <1>1, <1>2, ZeroOne DEF rho_star, pullback_matrix, Rows, FractionRow
<1>4. rho0_star(c, w) \in Rows(Len(w.vertices), Len(c.vertices))
  BY <1>1, ZeroOne DEF rho0_star, vertex_pullback_matrix, Rows, FractionRow
<1> QED
  BY <1>3, <1>4

LEMMA CyclesAre ==
    ASSUME NEW c, LegalComplex(c)
    PROVE  KernelList(transpose(delta0(c)), Len(c.edges), Len(Z1(c)), Z1(c))
<1> DEFINE m == Len(c.edges)
           n == Len(c.vertices)
           T == transpose(delta0(c))
<1>1. m \in Nat /\ n \in Nat /\ m > 0 /\ n > 0 /\ delta0(c) \in Rows(m, n)
  BY ComplexIs, Delta0Is
<1>2. T \in Rows(n, m)
  BY <1>1, TransposeIs
<1>3. Rectangular(T) /\ columns(T) = m
  BY <1>1, <1>2, RowsRectangular
<1> QED
  BY <1>3, NullspaceIs DEF Z1

----------------------------------------------------------------------------
(* The cycle pairing. A cycle that pairs with a residue leaves no          *)
(* correction of it, for any matrix.                                       *)

----------------------------------------------------------------------------
(* What a comprehension that drops some members keeps.                     *)

\* t[k] is what the first k members leave.
Filters(t, s, drop, n) ==
    /\ t[0] = <<>>
    /\ \A k \in 1..n : t[k] = IF s[k] \in drop THEN t[k - 1] ELSE Append(t[k - 1], s[k])

LEMMA WithoutRuns ==
    ASSUME NEW s, NEW drop, Len(s) \in Nat
    PROVE  \E t : Filters(t, s, drop, Len(s)) /\ Without(s, drop) = t[Len(s)]
<1> DEFINE n == Len(s)
           R(t) == t = [k \in 0..n |-> IF k = 0 THEN <<>>
                                       ELSE IF s[k] \in drop THEN t[k - 1] ELSE Append(t[k - 1], s[k])]
           t == CHOOSE f : R(f)
           Starts(u, c) == /\ u[0] = <<>>
                           /\ \A k \in 1..c : u[k] = IF s[k] \in drop THEN u[k - 1] ELSE Append(u[k - 1], s[k])
           P == {c \in Nat : \E u : Starts(u, c)}
<1>0. n \in Nat
  OBVIOUS
<1>1. Without(s, drop) = t[n]
  BY Zenon DEF Without
<1> HIDE DEF n
<1>2. 0 \in P
  <2> DEFINE u == [k \in 0..0 |-> <<>>]
  <2>1. Starts(u, 0)
    OBVIOUS
  <2> HIDE DEF Starts, u
  <2> QED
    BY <2>1
<1>3. ASSUME NEW c \in P PROVE c + 1 \in P
  <2>1. c \in Nat /\ \E u : Starts(u, c)
    <3> HIDE DEF Starts
    <3> QED
      OBVIOUS
  <2>2. PICK u : Starts(u, c)
    BY <2>1
  <2> DEFINE d == IF s[c + 1] \in drop THEN u[c] ELSE Append(u[c], s[c + 1])
             g == [k \in 0..(c + 1) |-> IF k = c + 1 THEN d ELSE u[k]]
  <2>3. g[0] = <<>> /\ g[c + 1] = d
    BY <2>1, <2>2
  <2>4. ASSUME NEW k \in 1..(c + 1)
        PROVE  g[k] = IF s[k] \in drop THEN g[k - 1] ELSE Append(g[k - 1], s[k])
    <3>1. CASE k = c + 1
      <4>1. k - 1 = c /\ g[c] = u[c] /\ g[k] = d
        BY <2>1, <3>1
      <4> HIDE DEF g
      <4> QED
        BY <3>1, <4>1
    <3>2. CASE k # c + 1
      <4>1. k \in 1..c /\ g[k] = u[k] /\ g[k - 1] = u[k - 1]
        BY <2>1, <3>2
      <4> HIDE DEF g
      <4> QED
        BY <2>2, <4>1
    <3> QED
      BY <3>1, <3>2
  <2> HIDE DEF g, d
  <2>5. Starts(g, c + 1)
    BY <2>3, <2>4
  <2> HIDE DEF Starts
  <2> QED
    BY <2>1, <2>5
<1>4. P = Nat
  <2>1. P \in SUBSET Nat
    OBVIOUS
  <2> HIDE DEF P
  <2> QED
    BY <1>2, <1>3, <2>1, Induction
<1>5. PICK u : Starts(u, n)
  <2>1. n \in P
    <3> HIDE DEF P
    <3> QED
      BY <1>0, <1>4
  <2> HIDE DEF Starts
  <2> QED
    BY <2>1
<1>6. R([k \in 0..n |-> u[k]])
  <2> DEFINE h == [k \in 0..n |-> u[k]]
  <2>1. \A k \in 0..n : h[k] = IF k = 0 THEN <<>>
                               ELSE IF s[k] \in drop THEN h[k - 1] ELSE Append(h[k - 1], s[k])
    <3>1. ASSUME NEW k \in 0..n, k # 0
          PROVE  h[k] = IF s[k] \in drop THEN h[k - 1] ELSE Append(h[k - 1], s[k])
      <4>1. k - 1 \in 0..n /\ k \in 1..n
        BY <1>0, <3>1
      <4>2. h[k] = u[k] /\ h[k - 1] = u[k - 1]
        BY <4>1
      <4> HIDE DEF h
      <4> QED
        BY <1>5, <4>1, <4>2
    <3>2. h[0] = <<>>
      BY <1>0, <1>5
    <3> HIDE DEF h
    <3> QED
      BY <3>1, <3>2
  <2>2. h = [k \in 0..n |-> h[k]]
    OBVIOUS
  <2> HIDE DEF h
  <2>3. [k \in 0..n |-> h[k]]
          = [k \in 0..n |-> IF k = 0 THEN <<>>
                            ELSE IF s[k] \in drop THEN h[k - 1] ELSE Append(h[k - 1], s[k])]
    BY <2>1, Zenon
  <2>4. R(h)
    BY <2>2, <2>3, Zenon
  <2> QED
    BY <2>4 DEF h
<1>7. R(t)
  <2> HIDE DEF R
  <2> QED
    BY <1>6
<1>8. \A k \in 0..n : t[k] = IF k = 0 THEN <<>>
                             ELSE IF s[k] \in drop THEN t[k - 1] ELSE Append(t[k - 1], s[k])
  <2> HIDE DEF t
  <2> QED
    BY <1>7
<1> HIDE DEF R, t
<1>9. Filters(t, s, drop, n)
  <2>1. t[0] = <<>>
    <3>1. 0 \in 0..n
      BY <1>0
    <3> QED
      BY <1>8, <3>1
  <2>2. \A k \in 1..n : k \in 0..n /\ k # 0
    BY <1>0
  <2> QED
    BY <1>8, <2>1, <2>2 DEF Filters
<1> QED
  BY <1>1, <1>9 DEF n

LEMMA WithoutIs ==
    ASSUME NEW S, NEW s \in Seq(S), NEW drop PROVE Without(s, drop) \in Seq(S)
<1> DEFINE n == Len(s)
<1>0. n \in Nat /\ \A k \in 1..n : s[k] \in S
  OBVIOUS
<1>1. PICK t : Filters(t, s, drop, n) /\ Without(s, drop) = t[n]
  BY <1>0, WithoutRuns
<1>8. t[0] = <<>> /\ \A k \in 1..n : t[k] = IF s[k] \in drop THEN t[k - 1] ELSE Append(t[k - 1], s[k])
  BY <1>1 DEF Filters
<1> HIDE DEF n
<1> DEFINE Q == {k \in Nat : k <= n => t[k] \in Seq(S)}
<1>9. 0 \in Q
  <2>2. t[0] = <<>>
    BY <1>8
  <2>3. <<>> \in Seq(S)
    OBVIOUS
  <2>4. t[0] \in Seq(S)
    BY <2>2, <2>3
  <2> QED
    BY <2>4
<1>10. ASSUME NEW k \in Q PROVE k + 1 \in Q
  <2>1. SUFFICES ASSUME k + 1 <= n PROVE t[k + 1] \in Seq(S)
    OBVIOUS
  <2>2. k + 1 \in 1..n /\ k + 1 \in 0..n /\ k + 1 # 0 /\ (k + 1) - 1 = k /\ t[k] \in Seq(S)
    BY <1>0, <2>1
  <2>3. t[k + 1] = IF s[k + 1] \in drop THEN t[k] ELSE Append(t[k], s[k + 1])
    BY <1>8, <2>2
  <2>4. s[k + 1] \in S
    BY <1>0, <2>2
  <2> QED
    BY <2>2, <2>3, <2>4
<1>11. Q = Nat
  <2>1. Q \in SUBSET Nat
    OBVIOUS
  <2> HIDE DEF Q
  <2> QED
    BY <1>9, <1>10, <2>1, Induction
<1>12. t[n] \in Seq(S)
  BY <1>0, <1>11
<1> QED
  BY <1>1, <1>12

\* A sequence of anything is one of its own members.
LEMMA Sequences ==
    ASSUME NEW S, NEW s \in Seq(S) PROVE IsSequence(s)
<1>1. s = [k \in 1..Len(s) |-> s[k]] /\ Len(s) \in Nat /\ DOMAIN s = 1..Len(s)
  OBVIOUS
<1>2. \A k \in 1..Len(s) : s[k] \in RangeOf(s)
  BY <1>1 DEF RangeOf
<1> DEFINE T == RangeOf(s)
<1> HIDE DEF T
<1>3. s \in Seq(T)
  BY <1>1, <1>2 DEF T
<1> QED
  BY <1>3 DEF IsSequence, T

LEMMA Joined ==
    ASSUME NEW s, IsSequence(s), NEW t, IsSequence(t)
    PROVE  /\ IsSequence(s \o t)
           /\ DOMAIN (s \o t) = 1..(Len(s) + Len(t)) /\ Len(s \o t) = Len(s) + Len(t)
           /\ \A k \in 1..Len(s) : (s \o t)[k] = s[k]
           /\ \A k \in 1..Len(t) : (s \o t)[Len(s) + k] = t[k]
           /\ \A k \in DOMAIN (s \o t) : \/ k \in DOMAIN s /\ (s \o t)[k] = s[k]
                                         \/ k - Len(s) \in DOMAIN t /\ (s \o t)[k] = t[k - Len(s)]
<1> DEFINE S == RangeOf(s) \cup RangeOf(t)
<1>1. s \in Seq(S) /\ t \in Seq(S)
  <2>1. s \in Seq(RangeOf(s)) /\ t \in Seq(RangeOf(t))
    BY DEF IsSequence
  <2> QED
    BY <2>1, Retyped
<1> HIDE DEF S
<1>2. s \o t \in Seq(S)
  BY <1>1
<1>3. Len(s \o t) = Len(s) + Len(t) /\ Len(s) \in Nat /\ Len(t) \in Nat
      /\ \A k \in 1..Len(s) : (s \o t)[k] = s[k]
      /\ DOMAIN s = 1..Len(s) /\ DOMAIN t = 1..Len(t)
  BY <1>1
<1>4. \A k \in (Len(s) + 1)..(Len(s) + Len(t)) : (s \o t)[k] = t[k - Len(s)]
  BY <1>1
<1>5. DOMAIN (s \o t) = 1..(Len(s) + Len(t))
  BY <1>2, <1>3
<1>6. \A k \in 1..Len(t) : (s \o t)[Len(s) + k] = t[k]
  BY <1>3, <1>4
<1>7. \A k \in 1..(Len(s) + Len(t)) : k \in 1..Len(s) \/ (k \in (Len(s) + 1)..(Len(s) + Len(t)) /\ k - Len(s) \in 1..Len(t))
  BY <1>3
<1>8. \A k \in DOMAIN (s \o t) :
        \/ k \in DOMAIN s /\ (s \o t)[k] = s[k]
        \/ k - Len(s) \in DOMAIN t /\ (s \o t)[k] = t[k - Len(s)]
  <2> SUFFICES ASSUME NEW k \in 1..(Len(s) + Len(t))
               PROVE  \/ k \in DOMAIN s /\ (s \o t)[k] = s[k]
                      \/ k - Len(s) \in DOMAIN t /\ (s \o t)[k] = t[k - Len(s)]
    BY <1>5
  <2>1. CASE k \in 1..Len(s)
    BY <1>3, <2>1
  <2>2. CASE k \notin 1..Len(s)
    BY <1>3, <1>4, <1>7, <2>2
  <2> QED
    BY <2>1, <2>2
<1>9. IsSequence(s \o t)
  BY <1>2, Sequences
<1>10. Len(s \o t) = Len(s) + Len(t) /\ \A k \in 1..Len(s) : (s \o t)[k] = s[k]
  BY <1>3
<1> QED
  BY ONLY <1>5, <1>6, <1>8, <1>9, <1>10

LEMMA Listed ==
    ASSUME NEW n \in Nat, NEW s, s = [k \in 1..n |-> s[k]]
    PROVE  IsSequence(s) /\ Len(s) = n /\ DOMAIN s = 1..n
<1> DEFINE S == {s[k] : k \in 1..n}
<1>1. \A k \in 1..n : s[k] \in S
  OBVIOUS
<1> HIDE DEF S
<1>2. s \in Seq(S)
  BY <1>1
<1>3. DOMAIN s = 1..n
  OBVIOUS
<1>4. Len(s) = n
  BY <1>2, <1>3
<1> QED
  BY <1>2, <1>3, <1>4, Sequences

----------------------------------------------------------------------------
(* The complexes that the probes build are complexes.                      *)

LEMMA EdgeOver ==
    ASSUME NEW e, LegalEdge(e), NEW x
    PROVE  LegalEdge([e EXCEPT !.over = x, !.sign = One])
<1> DEFINE g == [e EXCEPT !.over = x, !.sign = One]
<1>1. DOMAIN g = DOMAIN e /\ g.sign = One
  BY DEF LegalEdge
<1>2. g = [f \in DOMAIN g |-> g[f]]
  OBVIOUS
<1> HIDE DEF g
<1> QED
  BY <1>1, <1>2 DEF LegalEdge, g

LEMMA EdgeMoved ==
    ASSUME NEW e, LegalEdge(e), NEW x, NEW y
    PROVE  LegalEdge([e EXCEPT !.src = x, !.tgt = y])
<1> DEFINE g == [e EXCEPT !.src = x, !.tgt = y]
<1>1. DOMAIN g = DOMAIN e /\ g.sign = e.sign
  BY DEF LegalEdge
<1>2. g = [f \in DOMAIN g |-> g[f]]
  OBVIOUS
<1> HIDE DEF g
<1> QED
  BY <1>1, <1>2 DEF LegalEdge, g

LEMMA EdgeRenamed ==
    ASSUME NEW e, LegalEdge(e), NEW x, NEW y, NEW z
    PROVE  LegalEdge([e EXCEPT !.name = x, !.src = y, !.tgt = z])
<1> DEFINE g == [e EXCEPT !.name = x, !.src = y, !.tgt = z]
<1>1. DOMAIN g = DOMAIN e /\ g.sign = e.sign
  BY DEF LegalEdge
<1>2. g = [f \in DOMAIN g |-> g[f]]
  OBVIOUS
<1> HIDE DEF g
<1> QED
  BY <1>1, <1>2 DEF LegalEdge, g

LEMMA EdgeMade ==
    ASSUME NEW n, NEW s, NEW t, NEW o, NEW i \in {1, -1} PROVE LegalEdge(Edge(n, s, t, o, i))
<1> DEFINE g == Edge(n, s, t, o, i)
<1>1. DOMAIN g = {"name", "src", "tgt", "over", "sign"} /\ g.sign = <<i, 1>>
  BY DEF Edge
<1>2. g = [f \in DOMAIN g |-> g[f]]
  BY DEF Edge
<1> HIDE DEF g
<1> QED
  BY <1>1, <1>2 DEF LegalEdge, One, g

LEMMA LiftedIs ==
    ASSUME NEW c, LegalComplex(c)
    PROVE  /\ IsSequence(Lifted(c.edges)) /\ Len(Lifted(c.edges)) = Len(c.edges)
           /\ DOMAIN Lifted(c.edges) = DOMAIN c.edges
           /\ \A k \in DOMAIN c.edges : LegalEdge(Lifted(c.edges)[k])
<1> DEFINE s == Lifted(c.edges)
           n == Len(c.edges)
<1>1. n \in Nat /\ DOMAIN c.edges = 1..n
  BY ComplexIs
<1>2. s = [k \in 1..n |-> s[k]]
  BY <1>1 DEF Lifted
<1>3. ASSUME NEW k \in DOMAIN c.edges PROVE LegalEdge(s[k])
  <2> DEFINE e == c.edges[k]
             x == c.edges[k].name
  <2>1. s[k] = [e EXCEPT !.over = x, !.sign = One]
    BY DEF Lifted
  <2>2. LegalEdge(e)
    BY DEF LegalComplex
  <2> HIDE DEF s, e, x
  <2>3. LegalEdge([e EXCEPT !.over = x, !.sign = One])
    BY <2>2, EdgeOver
  <2> QED
    BY ONLY <2>1, <2>3
<1> HIDE DEF s, n
<1>4. IsSequence(s) /\ Len(s) = n /\ DOMAIN s = 1..n
  BY <1>1, <1>2, Listed
<1> QED
  BY <1>1, <1>3, <1>4 DEF s, n

\* Edges of a complex, and one more.
LEMMA OneMore ==
    ASSUME NEW vs, IsSequence(vs), vs # <<>>, NEW es, IsSequence(es), \A k \in DOMAIN es : LegalEdge(es[k]),
           NEW e, LegalEdge(e), NEW c, c.vertices = vs, c.edges = es \o <<e>>
    PROVE  LegalComplex(c)
<1>1. IsSequence(<<e>>) /\ DOMAIN <<e>> = {1} /\ Len(<<e>>) = 1
  <2>1. <<e>> \in Seq({e}) /\ DOMAIN <<e>> = {1} /\ Len(<<e>>) = 1
    OBVIOUS
  <2>2. IsSequence(<<e>>)
    BY <2>1, Sequences
  <2> QED
    BY <2>1, <2>2
<1> DEFINE t == es \o <<e>>
           u == <<e>>
<1>2. u[1] = e
  OBVIOUS
<1>3. IsSequence(u) /\ DOMAIN u = {1} /\ Len(u) = 1
  BY <1>1
<1> HIDE DEF u
<1>4a. IsSequence(es \o u) /\ Len(es \o u) = Len(es) + Len(u)
  BY <1>3, Joined
<1>4b. \A k \in DOMAIN (es \o u) :
           \/ k \in DOMAIN es /\ (es \o u)[k] = es[k]
           \/ k - Len(es) \in DOMAIN u /\ (es \o u)[k] = u[k - Len(es)]
  BY <1>3, Joined
<1>4. IsSequence(es \o u) /\ Len(es \o u) = Len(es) + 1
  BY <1>3, <1>4a
<1>5. t = es \o u
  BY DEF u
<1>6. \A k \in DOMAIN t : LegalEdge(t[k])
  BY <1>2, <1>3, <1>4b, <1>5
<1>7. Len(t) > 0
  BY <1>4, <1>5, SequenceIs
<1>8. t # <<>>
  <2> HIDE DEF t
  <2> QED
    BY <1>7
<1>9. IsSequence(t)
  BY <1>4, <1>5, Zenon
<1> HIDE DEF t
<1> QED
  BY <1>6, <1>8, <1>9 DEF LegalComplex, t

LEMMA SubdividedIs == ASSUME NEW c, LegalComplex(c), NEW v PROVE LegalComplex(generic_subdivide(c, v))
<1> DEFINE a == v \o "_a"
           b == v \o "_b"
           vs == Without(c.vertices, {v}) \o <<a, b>>
           half(e) == [e EXCEPT !.src = IF @ = v THEN b ELSE @, !.tgt = IF @ = v THEN a ELSE @]
           es == [k \in DOMAIN c.edges |-> half(Lifted(c.edges)[k])]
           e1 == Edge("s_" \o v, a, b, None, 1)
           d == generic_subdivide(c, v)
<1>1. d.vertices = vs /\ d.edges = es \o <<e1>>
  BY Zenon DEF generic_subdivide
<1>2. IsSequence(vs) /\ vs # <<>>
  <2>1. c.vertices \in Seq(RangeOf(c.vertices))
    BY DEF LegalComplex, IsSequence
  <2>2. Without(c.vertices, {v}) \in Seq(RangeOf(c.vertices))
    BY <2>1, WithoutIs
  <2> DEFINE s == Without(c.vertices, {v})
             t == <<a, b>>
  <2>3. IsSequence(s)
    BY <2>2, Sequences
  <2>4. t \in Seq({a, b}) /\ Len(t) = 2
    <3> HIDE DEF a, b
    <3> QED
      OBVIOUS
  <2>5. IsSequence(t)
    BY <2>4, Sequences
  <2> HIDE DEF s, t
  <2>5a. Len(t) = 2
    BY <2>4
  <2>6a. IsSequence(s \o t) /\ Len(s \o t) = Len(s) + Len(t)
    BY ONLY <2>3, <2>5, Joined
  <2>6. IsSequence(s \o t) /\ Len(s \o t) = Len(s) + 2
    BY ONLY <2>5a, <2>6a
  <2>7. Len(s \o t) > 0
    BY <2>3, <2>6, SequenceIs
  <2> DEFINE q == s \o t
  <2>8. q # <<>>
    <3> HIDE DEF q
    <3>1. Len(q) > 0
      BY <2>7 DEF q
    <3> QED
      BY <3>1
  <2> QED
    BY <2>6, <2>8 DEF s, t
<1>3. IsSequence(es) /\ DOMAIN es = DOMAIN c.edges
  <2>1. Len(c.edges) \in Nat /\ DOMAIN c.edges = 1..Len(c.edges)
    BY ComplexIs
  <2>2. es = [k \in 1..Len(c.edges) |-> es[k]]
    BY <2>1
  <2> HIDE DEF es
  <2> QED
    BY <2>1, <2>2, Listed
<1>4. ASSUME NEW k \in DOMAIN es PROVE LegalEdge(es[k])
  <2> DEFINE e == Lifted(c.edges)[k]
             x == IF e.src = v THEN b ELSE e.src
             y == IF e.tgt = v THEN a ELSE e.tgt
  <2>1. es[k] = half(e)
    BY <1>3
  <2>2. LegalEdge(e)
    BY <1>3, LiftedIs
  <2> HIDE DEF e, a, b, es
  <2>3. half(e) = [e EXCEPT !.src = x, !.tgt = y]
    BY Zenon
  <2> HIDE DEF x, y, half
  <2>4. LegalEdge([e EXCEPT !.src = x, !.tgt = y])
    BY <2>2, EdgeMoved
  <2> QED
    BY ONLY <2>1, <2>3, <2>4
<1>5. LegalEdge(e1)
  BY EdgeMade
<1> HIDE DEF d, vs, es, e1
<1>6. LegalComplex(d)
  BY <1>1, <1>2, <1>3, <1>4, <1>5, OneMore
<1> QED
  BY <1>6 DEF d

LEMMA BridgedIs == ASSUME NEW c, LegalComplex(c), NEW v, NEW w PROVE LegalComplex(generic_insert_bridge(c, v, w))
<1> DEFINE es == Lifted(c.edges)
           e1 == Edge("bridge_" \o v \o "_" \o w, v, w, None, 1)
           d == generic_insert_bridge(c, v, w)
<1>1. d.vertices = c.vertices /\ d.edges = es \o <<e1>>
  BY DEF generic_insert_bridge
<1>2. IsSequence(c.vertices) /\ c.vertices # <<>>
  BY DEF LegalComplex
<1>3. IsSequence(es) /\ \A k \in DOMAIN es : LegalEdge(es[k])
  BY LiftedIs
<1>4. LegalEdge(e1)
  BY EdgeMade
<1> HIDE DEF d, es, e1
<1>5. LegalComplex(d)
  BY <1>1, <1>2, <1>3, <1>4, OneMore
<1> QED
  BY <1>5 DEF d

LEMMA SecondStepsAre == ASSUME NEW c, LegalComplex(c), NEW d \in SecondSteps(c) PROVE LegalComplex(d)
<1>1. \/ \E v \in RangeOf(c.vertices) : d = generic_subdivide(c, v)
      \/ \E v, w : d = generic_insert_bridge(c, v, w)
  BY DEF SecondSteps
<1> QED
  BY <1>1, SubdividedIs, BridgedIs

----------------------------------------------------------------------------
(* A complex with more edges than vertices has a cycle.                    *)

LEMMA CycleExists ==
    ASSUME NEW c, LegalComplex(c), Len(c.vertices) < Len(c.edges) PROVE Len(Z1(c)) > 0
<1> DEFINE m == Len(c.edges)
           n == Len(c.vertices)
           T == transpose(delta0(c))
<1>1. m \in Nat /\ n \in Nat /\ m > 0 /\ n > 0 /\ n < m /\ delta0(c) \in Rows(m, n)
  BY ComplexIs, Delta0Is
<1>2. T \in Rows(n, m)
  BY <1>1, TransposeIs
<1>3. columns(T) = m
  BY <1>1, <1>2, RowsRectangular
<1> HIDE DEF m, n, T
<1>4. Len(FreeColumns(Eliminated(T, m), m)) > 0
  BY <1>1, <1>2, FreeColumnExists DEF Rows
<1> DEFINE k == Len(FreeColumns(Eliminated(T, m), m))
           L == Z1(c)
<1>5. L = KernelBasis(Eliminated(T, m), m)
  BY <1>3 DEF Z1, nullspace_over_Q, T
<1>6. DOMAIN L = 1..k
  BY <1>5 DEF KernelBasis, Computed
<1>7. KernelList(T, m, Len(L), L)
  BY CyclesAre DEF T, m
<1>8. DOMAIN L = 1..Len(L) /\ Len(L) \in Nat
  BY <1>7 DEF KernelList, Rows
<1>9. 1 \in 1..k
  <2>1. k \in Nat
    <3>1. FreeColumns(Eliminated(T, m), m) \in Seq(1..m)
      BY <1>1, FreeColumnsAre
    <3> QED
      BY <3>1
  <2> QED
    BY <1>4, <2>1
<1> HIDE DEF k, L
<1>10. 1 \in 1..Len(L)
  BY <1>6, <1>8, <1>9
<1>11. Len(L) > 0
  BY <1>8, <1>10
<1> QED
  BY <1>11 DEF L

----------------------------------------------------------------------------
(* Declared and glued witnesses.                                           *)

LEMMA WitnessIs == ASSUME NEW w, LegalWitness(w) PROVE LegalComplex(w) /\ w.z \in FractionRow(Len(w.edges))
<1>1. LegalComplex(w) /\ ExactVector(w.z) /\ Len(w.z) = Len(w.edges)
  BY DEF LegalWitness
<1>2. w.z \in Seq(Fractions) /\ Len(w.z) \in Nat
  BY <1>1, ExactVectorIs
<1> QED
  BY <1>1, <1>2 DEF FractionRow

LEMMA GluedIs ==
    ASSUME NEW a, LegalWitness(a), NEW b, LegalWitness(b), NEW declared, NEW seam,
           NEW g \in build_coupled_shared_seam(a, b, declared, seam)
    PROVE  LegalComplex(g) /\ g.z \in FractionRow(Len(g.edges))
<1> DEFINE kept == Ends(a.edges[EdgeNamed(a, seam)])
           renamed == rename_except(b, seam, kept)
           new == Kept(renamed, seam)
           es == [k \in DOMAIN new |-> renamed.edges[new[k]]]
           zs == [k \in DOMAIN new |-> renamed.z[new[k]]]
           vs == Without(renamed.vertices, RangeOf(a.vertices))
           n == Len(b.edges)
<1>1. /\ g.vertices = a.vertices \o vs
      /\ g.edges = a.edges \o es
      /\ g.z = a.z \o zs
  <2> DEFINE over == [v \in RangeOf(a.vertices) \cup RangeOf(renamed.vertices) |->
                        IF v \in RangeOf(renamed.vertices) THEN renamed.vertex_over[v] ELSE a.vertex_over[v]]
             glued == [vertices |-> a.vertices \o vs, edges |-> a.edges \o es, vertex_over |-> over,
                       z |-> a.z \o zs]
  <2>1. g = glued
    BY Zenon DEF build_coupled_shared_seam
  <2> HIDE DEF vs, es, zs, over
  <2> QED
    BY <2>1
<1>2. LegalComplex(a) /\ a.z \in FractionRow(Len(a.edges)) /\ LegalComplex(b) /\ b.z \in FractionRow(n)
  BY WitnessIs
<1>3. n \in Nat /\ DOMAIN b.edges = 1..n /\ Len(b.vertices) \in Nat /\ DOMAIN b.vertices = 1..Len(b.vertices)
  BY <1>2, ComplexIs
<1>4. /\ DOMAIN renamed.vertices = DOMAIN b.vertices
      /\ renamed.vertices = [k \in DOMAIN b.vertices |-> renamed.vertices[k]]
      /\ DOMAIN renamed.edges = DOMAIN b.edges
      /\ renamed.z = b.z
  BY DEF rename_except
<1>5. ASSUME NEW k \in DOMAIN b.edges PROVE LegalEdge(renamed.edges[k])
  <2> DEFINE rv(v) == IF v \in kept THEN v ELSE Prefixed(v)
             e == b.edges[k]
             x == Prefixed(e.name)
             y == rv(e.src)
             z == rv(e.tgt)
  <2>1. LegalEdge(e)
    BY <1>2 DEF LegalComplex
  <2>2. renamed.edges[k] = IF e.name = seam THEN e
                           ELSE [e EXCEPT !.name = Prefixed(@), !.src = rv(@), !.tgt = rv(@)]
    <3> HIDE DEF kept
    <3> QED
      BY DEF rename_except
  <2> HIDE DEF renamed, rv, e
  <2>3. [e EXCEPT !.name = Prefixed(@), !.src = rv(@), !.tgt = rv(@)] = [e EXCEPT !.name = x, !.src = y, !.tgt = z]
    BY Zenon
  <2> HIDE DEF x, y, z
  <2>4. LegalEdge([e EXCEPT !.name = x, !.src = y, !.tgt = z])
    BY <2>1, EdgeRenamed
  <2> QED
    BY ONLY <2>1, <2>2, <2>3, <2>4
<1> HIDE DEF kept, renamed
<1>6. IsSequence(vs)
  <2>1. IsSequence(renamed.vertices)
    BY <1>3, <1>4, Listed
  <2>2. renamed.vertices \in Seq(RangeOf(renamed.vertices))
    BY <2>1 DEF IsSequence
  <2> QED
    BY <2>2, WithoutIs, Sequences
<1>7. new \in Seq(1..n)
  <2> DEFINE s == [k \in DOMAIN renamed.edges |-> k]
             S == 1..n
  <2>1. s \in Seq(S)
    BY <1>3, <1>4
  <2> HIDE DEF S, s
  <2>2. \A drop : Without(s, drop) \in Seq(S)
    BY <2>1, WithoutIs
  <2> QED
    BY <2>2 DEF Kept, s, S
<1> DEFINE h == Len(new)
<1>8. h \in Nat /\ DOMAIN new = 1..h /\ \A k \in 1..h : new[k] \in 1..n
  <2> DEFINE S == 1..n
  <2> HIDE DEF S, new
  <2>1. new \in Seq(S)
    BY <1>7 DEF S
  <2>2. Len(new) \in Nat /\ DOMAIN new = 1..Len(new) /\ \A k \in 1..Len(new) : new[k] \in S
    BY <2>1
  <2> QED
    BY <2>2 DEF S
<1> HIDE DEF new, h
<1>9. IsSequence(es) /\ Len(es) = h /\ DOMAIN es = 1..h
  <2>1. es = [k \in 1..h |-> es[k]]
    BY <1>8
  <2> HIDE DEF es
  <2> QED
    BY <1>8, <2>1, Listed
<1>10. \A k \in DOMAIN es : LegalEdge(es[k])
  BY <1>3, <1>5, <1>8
<1>11. zs \in FractionRow(h)
  <2>1. \A k \in 1..h : renamed.z[new[k]] \in Fractions
    BY <1>2, <1>4, <1>8 DEF FractionRow
  <2> QED
    BY <1>8, <2>1 DEF FractionRow
<1> DEFINE m == Len(a.edges)
<1>12. m \in Nat /\ m > 0 /\ IsSequence(a.edges) /\ IsSequence(a.vertices) /\ Len(a.vertices) \in Nat /\ Len(a.vertices) > 0
  BY <1>2, ComplexIs DEF LegalComplex
<1> HIDE DEF vs, es, zs
<1> DEFINE ge == a.edges \o es
           gv == a.vertices \o vs
           gz == a.z \o zs
<1>13. IsSequence(ge) /\ Len(ge) = m + h
  BY <1>9, <1>12, Joined
<1>14. \A k \in DOMAIN ge : \/ k \in DOMAIN a.edges /\ ge[k] = a.edges[k]
                            \/ k - Len(a.edges) \in DOMAIN es /\ ge[k] = es[k - Len(a.edges)]
  BY <1>9, <1>12, Joined
<1>15. IsSequence(gv) /\ Len(gv) = Len(a.vertices) + Len(vs) /\ Len(vs) \in Nat
  BY <1>6, <1>12, Joined, SequenceIs
<1>16. \A k \in DOMAIN ge : LegalEdge(ge[k])
  <2>1. \A k \in DOMAIN a.edges : LegalEdge(a.edges[k])
    BY <1>2 DEF LegalComplex
  <2> HIDE DEF ge
  <2> QED
    BY <1>10, <1>14, <2>1
<1>17. gz \in Seq(Fractions) /\ Len(gz) = m + h
  <2>1. a.z \in Seq(Fractions) /\ Len(a.z) = m /\ zs \in Seq(Fractions) /\ Len(zs) = h
    BY <1>2, <1>8, <1>11, <1>12, RowIsSeq
  <2> QED
    BY <2>1
<1> HIDE DEF ge, gv, gz, m
<1>18. ge # <<>> /\ gv # <<>>
  <2>1. Len(ge) > 0 /\ Len(gv) > 0
    BY <1>8, <1>12, <1>13, <1>15
  <2> QED
    BY <2>1
<1>19. LegalComplex(g)
  <2>1. g.vertices = gv /\ g.edges = ge
    BY <1>1 DEF ge, gv
  <2> QED
    BY <1>13, <1>15, <1>16, <1>18, <2>1 DEF LegalComplex
<1>20. g.z \in FractionRow(Len(g.edges))
  <2>1. g.z = gz /\ g.edges = ge
    BY <1>1 DEF ge, gz
  <2> QED
    BY <1>13, <1>17, <2>1 DEF FractionRow
<1> QED
  BY <1>19, <1>20

----------------------------------------------------------------------------
(* The probes. What a probe reports is what the code computes of complexes *)
(* that are complexes, of vectors with a coefficient for each edge, and of *)
(* matrices that can be multiplied. This is inductive; the properties of   *)
(* refinement follow from it.                                              *)

ProbeRight(p) ==
    /\ p.kind = "witness" => LegalWitness(p.w) /\ p.report = check_witness(Coarse, Coarse.residue, p.w)
    /\ p.kind = "second" =>
         /\ LegalComplex(p.first) /\ LegalComplex(p.fine) /\ p.z \in FractionRow(Len(p.fine.edges))
         /\ p.report \subseteq {in_a_row(Coarse, Coarse.residue, p.first, p.fine, p.z)}
    /\ p.kind = "coupled" =>
         /\ p.gluing \in Gluings
         /\ p.report = run_coupled(Coarse, Coarse.residue, p.gluing.a, p.gluing.b, p.gluing.declared, p.gluing.seam)
    /\ p.kind = "survivor" => p.step \in Steps
    /\ p.kind = "matrices" =>
         /\ p.step \in Steps /\ p.rho_QR \in SecondMaps
         /\ p.report = build_witness_and_check(p.step.delta_P, p.step.rho, p.rho_QR, p.step.r)

ProbeInv == ProbeRight(probe)

\* The scenarios written out in the composition probe.
LEMMA ScenariosAre ==
    ASSUME LegalComplex(SUBDIVIDE_U1), NEW d \in {_second_subdivision, _bridge_insertion}
    PROVE  LegalComplex(d) /\ d.z \in FractionRow(Len(d.edges))
<1>1. CASE d = _second_subdivision
  <2> DEFINE vs == <<"U1a", "U1b", "U2a", "U2b", "U3", "U4">>
             e1 == Edge("e12pp", "U1b", "U2a", "e12p", 1)
             e2 == Edge("s2p", "U2a", "U2b", None, 1)
             e3 == Edge("e23p", "U2b", "U3", "e23", 1)
             e4 == Edge("e34", "U3", "U4", "e34", 1)
             e5 == Edge("e14r", "U4", "U1a", "e14r", 1)
             e6 == Edge("s1", "U1a", "U1b", "s1", 1)
             es == <<e1, e2, e3, e4, e5, e6>>
             z == F(<<1, 1, 1, 1, 1, 1>>)
  <2>1. d.vertices = vs /\ d.edges = es /\ d.z = z
    BY <1>1 DEF _second_subdivision
  <2>2. LegalEdge(e1) /\ LegalEdge(e2) /\ LegalEdge(e3) /\ LegalEdge(e4) /\ LegalEdge(e5) /\ LegalEdge(e6)
    BY EdgeMade
  <2> HIDE DEF e1, e2, e3, e4, e5, e6
  <2>3. es \in Seq({e1, e2, e3, e4, e5, e6}) /\ Len(es) = 6 /\ DOMAIN es = 1..6
    OBVIOUS
  <2>4. vs \in Seq({"U1a", "U1b", "U2a", "U2b", "U3", "U4"}) /\ Len(vs) = 6
    OBVIOUS
  <2>5. \A k \in 1..6 : es[k] \in {e1, e2, e3, e4, e5, e6}
    OBVIOUS
  <2>6. z \in FractionRow(6)
    <3> DEFINE o == <<1, 1, 1, 1, 1, 1>>
    <3>1. DOMAIN o = 1..6 /\ \A k \in 1..6 : o[k] = 1
      OBVIOUS
    <3> HIDE DEF o
    <3> QED
      BY <3>1, ZeroOne DEF F, FractionRow, One
  <2> HIDE DEF es, vs, z
  <2>7. IsSequence(vs) /\ IsSequence(es) /\ vs # <<>> /\ es # <<>>
    <3>1. IsSequence(vs) /\ IsSequence(es)
      BY <2>3, <2>4, Sequences
    <3>2. Len(vs) = 6 /\ Len(es) = 6
      BY <2>3, <2>4
    <3>3. \A q : Len(q) = 6 => q # <<>>
      OBVIOUS
    <3> QED
      BY ONLY <3>1, <3>2, <3>3
  <2>8. \A k \in DOMAIN es : LegalEdge(es[k])
    BY <2>2, <2>3, <2>5
  <2> QED
    BY <2>1, <2>3, <2>6, <2>7, <2>8 DEF LegalComplex
<1>2. CASE d = _bridge_insertion
  <2> DEFINE e1 == Edge("b12", "U1b", "U2", None, 1)
             es == Lifted(SUBDIVIDE_U1.edges)
             bridged == [vertices |-> SUBDIVIDE_U1.vertices, edges |-> es \o <<e1>>,
                         vertex_over |-> [v \in RangeOf(SUBDIVIDE_U1.vertices) |-> v]]
  <2>1. d.vertices = bridged.vertices /\ d.edges = bridged.edges /\ d.z = Z1(bridged)[1]
    BY <1>2 DEF _bridge_insertion
  <2>2. IsSequence(SUBDIVIDE_U1.vertices) /\ SUBDIVIDE_U1.vertices # <<>> /\ LegalEdge(e1)
    BY EdgeMade DEF LegalComplex
  <2>3. IsSequence(es) /\ \A k \in DOMAIN es : LegalEdge(es[k])
    BY LiftedIs
  <2>4. Len(es) = Len(SUBDIVIDE_U1.edges)
    BY LiftedIs
  <2>5. Len(SUBDIVIDE_U1.vertices) = 5 /\ Len(SUBDIVIDE_U1.edges) = 5
    BY DEF SUBDIVIDE_U1
  <2>6. bridged.vertices = SUBDIVIDE_U1.vertices /\ bridged.edges = es \o <<e1>>
    OBVIOUS
  <2> HIDE DEF e1, es, bridged
  <2>7. LegalComplex(bridged) /\ LegalComplex(d)
    BY <2>1, <2>2, <2>3, <2>6, OneMore
  <2>8. Len(bridged.edges) = 6
    <3> DEFINE u == <<e1>>
    <3>1. IsSequence(u) /\ Len(u) = 1
      <4>1. u \in Seq({e1}) /\ Len(u) = 1
        OBVIOUS
      <4> QED
        BY <4>1, Sequences
    <3> HIDE DEF u
    <3>2. Len(es \o u) = Len(es) + Len(u)
      BY <2>3, <3>1, Joined
    <3> QED
      BY <2>4, <2>5, <2>6, <3>1, <3>2 DEF u
  <2>9. Len(Z1(bridged)) > 0
    <3>1. Len(bridged.vertices) = 5
      BY <2>5, <2>6
    <3>2. Len(bridged.vertices) < Len(bridged.edges)
      BY <2>8, <3>1
    <3> QED
      BY <2>7, <3>2, CycleExists
  <2>10. KernelList(transpose(delta0(bridged)), Len(bridged.edges), Len(Z1(bridged)), Z1(bridged))
    BY <2>7, CyclesAre
  <2>11. Z1(bridged)[1] \in FractionRow(Len(bridged.edges))
    BY <2>9, <2>10 DEF KernelList, Rows
  <2> QED
    BY <2>1, <2>7, <2>11
<1> QED
  BY <1>1, <1>2

THEOREM ProbesReport == Spec => []ProbeInv
<1>1. Init => ProbeInv
  BY DEF Init, InitProbe, Idle, ProbeInv, ProbeRight
<1>2. ProbeInv /\ [Next]_vars => ProbeInv'
  <2> SUFFICES ASSUME ProbeInv, [Next]_vars PROVE ProbeRight(probe')
    BY DEF ProbeInv
  <2>1. CASE UNCHANGED probe
    BY <2>1 DEF ProbeInv
  <2>2. \A p : p.kind \in {"idle", "disjoint", "cancelled", "measured", "crossed", "assembly"} => ProbeRight(p)
    BY DEF ProbeRight
  <2>3. CASE CheckWitness
    <3>1. PICK w \in Witnesses :
             probe' = [kind |-> "witness", w |-> w, report |-> check_witness(Coarse, Coarse.residue, w)]
      BY <2>3 DEF CheckWitness
    <3> DEFINE res == check_witness(Coarse, Coarse.residue, w)
    <3> HIDE DEF res
    <3>2. probe'.kind = "witness" /\ probe'.w = w /\ probe'.report = res
      BY <3>1 DEF res
    <3>3. LegalWitness(w)
      BY RefinementAssumption
    <3> QED
      BY <3>2, <3>3 DEF ProbeRight, res
  <2>4. CASE SecondStep
    <3>1. probe.kind = "witness"
      BY <2>4 DEF SecondStep
    <3>2. PICK fine \in SecondSteps(probe.w) : \E k \in DOMAIN Z1(fine) :
             probe' = [kind |-> "second", first |-> probe.w, fine |-> fine, z |-> Z1(fine)[k],
                       report |-> search_case(Coarse, Coarse.residue, probe.w, fine, Z1(fine)[k])]
      BY <2>4 DEF SecondStep
    <3>3. PICK k \in DOMAIN Z1(fine) :
             probe' = [kind |-> "second", first |-> probe.w, fine |-> fine, z |-> Z1(fine)[k],
                       report |-> search_case(Coarse, Coarse.residue, probe.w, fine, Z1(fine)[k])]
      BY <3>2
    <3> DEFINE z == Z1(fine)[k]
               res == search_case(Coarse, Coarse.residue, probe.w, fine, z)
    <3>4. LegalComplex(probe.w)
      BY <3>1, WitnessIs DEF ProbeInv, ProbeRight
    <3>5. LegalComplex(fine)
      BY <3>4, SecondStepsAre
    <3>6. z \in FractionRow(Len(fine.edges))
      <4>1. KernelList(transpose(delta0(fine)), Len(fine.edges), Len(Z1(fine)), Z1(fine))
        BY <3>5, CyclesAre
      <4> QED
        BY <4>1 DEF KernelList, Rows
    <3>7. res \subseteq {in_a_row(Coarse, Coarse.residue, probe.w, fine, z)}
      BY DEF search_case
    <3> HIDE DEF z, res
    <3>8. /\ probe'.kind = "second" /\ probe'.first = probe.w /\ probe'.fine = fine
          /\ probe'.z = z /\ probe'.report = res
      BY <3>3 DEF z, res
    <3> QED
      BY <3>4, <3>5, <3>6, <3>7, <3>8 DEF ProbeRight
  <2>5. CASE Scenario
    <3>1. probe.kind = "witness" /\ probe.w = SUBDIVIDE_U1
      BY <2>5 DEF Scenario
    <3>2. PICK fine \in {_second_subdivision, _bridge_insertion} :
             probe' = [kind |-> "second", first |-> probe.w, fine |-> fine, z |-> fine.z,
                       report |-> {in_a_row(Coarse, Coarse.residue, probe.w, fine, fine.z)}]
      BY <2>5 DEF Scenario
    <3> DEFINE res == {in_a_row(Coarse, Coarse.residue, probe.w, fine, fine.z)}
    <3>3. LegalComplex(probe.w)
      BY <3>1, WitnessIs DEF ProbeInv, ProbeRight
    <3>4. LegalComplex(fine) /\ fine.z \in FractionRow(Len(fine.edges))
      BY <3>1, <3>3, ScenariosAre
    <3>5. /\ probe'.kind = "second" /\ probe'.first = probe.w /\ probe'.fine = fine
          /\ probe'.z = fine.z /\ probe'.report = res
      <4> HIDE DEF res
      <4> QED
        BY <3>2 DEF res
    <3> QED
      BY <3>3, <3>4, <3>5 DEF ProbeRight
  <2>6. CASE SideBySide
    BY <2>2, <2>6 DEF SideBySide
  <2>7. CASE Glue
    <3>1. PICK g \in Gluings :
             probe' = [kind |-> "coupled", gluing |-> g,
                       report |-> run_coupled(Coarse, Coarse.residue, g.a, g.b, g.declared, g.seam)]
      BY <2>7 DEF Glue
    <3> DEFINE res == run_coupled(Coarse, Coarse.residue, g.a, g.b, g.declared, g.seam)
    <3> HIDE DEF res
    <3>2. probe'.kind = "coupled" /\ probe'.gluing = g /\ probe'.report = res
      BY <3>1 DEF res
    <3> QED
      BY <3>2 DEF ProbeRight, res
  <2>8. CASE Cancel
    BY <2>2, <2>8 DEF Cancel
  <2>9. CASE FirstMap
    <3>1. PICK s \in Steps : probe' = [kind |-> "survivor", step |-> s]
      BY <2>9 DEF FirstMap
    <3> QED
      BY <3>1 DEF ProbeRight
  <2>10. CASE SecondMap
    <3>1. probe.kind = "survivor"
      BY <2>10 DEF SecondMap
    <3>2. PICK rho_QR \in SecondMaps :
             probe' = [kind |-> "matrices", step |-> probe.step, rho_QR |-> rho_QR,
                       report |-> build_witness_and_check(probe.step.delta_P, probe.step.rho, rho_QR, probe.step.r)]
      BY <2>10 DEF SecondMap
    <3> DEFINE res == build_witness_and_check(probe.step.delta_P, probe.step.rho, rho_QR, probe.step.r)
    <3> HIDE DEF res
    <3>3. probe'.kind = "matrices" /\ probe'.step = probe.step /\ probe'.rho_QR = rho_QR /\ probe'.report = res
      BY <3>2 DEF res
    <3>4. probe.step \in Steps
      BY <3>1 DEF ProbeInv, ProbeRight
    <3> QED
      BY <3>3, <3>4 DEF ProbeRight, res
  <2>11. CASE NextTurn
    BY <2>2, <2>11 DEF NextTurn, Idle
  <2>12. CASE Beside
    <3>1. CASE Measure
      BY <2>2, <3>1 DEF Measure
    <3>2. CASE Cross
      BY <2>2, <3>2 DEF Cross
    <3>3. CASE BeginAssembly
      BY <2>2, <3>3 DEF BeginAssembly, Assembly
    <3>4. CASE Admit
      BY <2>2, <3>4 DEF Admit, Assembly
    <3>5. CASE Contribute
      <4>1. probe.kind = "assembly"
        BY <3>5 DEF Contribute
      <4>2. probe'.kind = "assembly"
        BY <3>5, <4>1 DEF Contribute, Assembly
      <4> QED
        BY <2>2, <4>2
    <3> QED
      BY <2>12, <3>1, <3>2, <3>3, <3>4, <3>5 DEF Beside
  <2> QED
    BY <2>1, <2>3, <2>4, <2>5, <2>6, <2>7, <2>8, <2>9, <2>10, <2>11, <2>12 DEF Next, Probe, vars
<1> QED
  BY <1>1, <1>2, PTL DEF Spec

----------------------------------------------------------------------------
(* The pairing, for one refinement and for two in a row.                   *)

LEMMA CoarseIs ==
    /\ LegalComplex(Coarse) /\ Len(Coarse.edges) \in Nat /\ Len(Coarse.edges) > 0
    /\ Coarse.residue \in FractionRow(Len(Coarse.edges))
<1>1. LegalComplex(Coarse) /\ ExactVector(Coarse.residue) /\ Len(Coarse.residue) = Len(Coarse.edges)
  BY RefinementAssumption
<1>2. Coarse.residue \in Seq(Fractions) /\ Len(Coarse.residue) \in Nat
  BY <1>1, ExactVectorIs
<1>3. Len(Coarse.edges) \in Nat /\ Len(Coarse.edges) > 0
  BY <1>1, ComplexIs
<1> QED
  BY <1>1, <1>2, <1>3 DEF FractionRow

LEMMA RefinedRefutes ==
    ASSUME NEW w, LegalComplex(w), NEW n \in Nat, NEW rho \in Rows(Len(w.edges), n), NEW r \in FractionRow(n),
           NEW z \in FractionRow(Len(w.edges)), is_zero(row_vec_mat(z, delta0(w))), dot(z, mat_vec(rho, r)) # Zero
    PROVE  ~Solvable(delta0(w), mat_vec(rho, r))
<1>1. Len(w.edges) \in Nat /\ Len(w.vertices) \in Nat /\ delta0(w) \in Rows(Len(w.edges), Len(w.vertices))
  BY ComplexIs, Delta0Is
<1>2. mat_vec(rho, r) \in FractionRow(Len(w.edges))
  BY <1>1, ApplyIs
<1> QED
  BY <1>1, <1>2, CycleRefutes

\* The maps of two steps in a row.
LEMMA CompositeIs ==
    ASSUME NEW c, LegalComplex(c), NEW q, LegalComplex(q), NEW w, LegalComplex(w)
    PROVE  /\ composite(c, q, w).rho \in Rows(Len(w.edges), Len(c.edges))
           /\ composite(c, q, w).rho0 \in Rows(Len(w.vertices), Len(c.vertices))
<1>1. /\ rho_star(q, w) \in Rows(Len(w.edges), Len(q.edges)) /\ rho_star(c, q) \in Rows(Len(q.edges), Len(c.edges))
      /\ rho0_star(q, w) \in Rows(Len(w.vertices), Len(q.vertices))
      /\ rho0_star(c, q) \in Rows(Len(q.vertices), Len(c.vertices))
  BY PullbackIs
<1>2. /\ Len(w.edges) \in Nat /\ Len(w.edges) > 0 /\ Len(q.edges) \in Nat /\ Len(q.edges) > 0
      /\ Len(w.vertices) \in Nat /\ Len(w.vertices) > 0 /\ Len(q.vertices) \in Nat /\ Len(q.vertices) > 0
      /\ Len(c.edges) \in Nat /\ Len(c.vertices) \in Nat
  BY ComplexIs
<1>3. mat_mat(rho_star(q, w), rho_star(c, q)) \in Rows(Len(w.edges), Len(c.edges))
  BY <1>1, <1>2, ProductIs
<1>4. mat_mat(rho0_star(q, w), rho0_star(c, q)) \in Rows(Len(w.vertices), Len(c.vertices))
  BY <1>1, <1>2, ProductIs
<1> QED
  BY <1>3, <1>4 DEF composite

(***************************************************************************)
(* A non-zero pairing with a cycle certifies, wherever the checker and the *)
(* probes compute one: for a declared witness, after two steps, and for    *)
(* two witnesses glued along a seam. refinement_checker.check_witness says *)
(* so by (A3) and (A4) without solving anything; that its cross-check by   *)
(* elimination can never differ is this.                                   *)
(***************************************************************************)
THEOREM PairingIsCertificate == Spec => []PairingCertifies
<1>1. ProbeInv => PairingCertifies
  <2> SUFFICES ASSUME ProbeInv PROVE PairingCertifies
    OBVIOUS
  <2> DEFINE r == Coarse.residue
  <2>1. ASSUME OneStep, probe.report.A3, probe.report.A4 PROVE probe.report.solver_not_coboundary
    <3> DEFINE w == probe.w
               rho == rho_star(Coarse, w)
    <3>1. LegalWitness(w) /\ probe.report = check_witness(Coarse, r, w)
      BY <2>1 DEF OneStep, ProbeInv, ProbeRight
    <3> HIDE DEF w
    <3>2. /\ probe.report.A3 = A3(w) /\ probe.report.A4 = A4(w, mat_vec(rho, r))
          /\ probe.report.solver_not_coboundary = ~Solvable(delta0(w), mat_vec(rho, r))
      <4> DEFINE a3 == A3(w)
                 a4 == A4(w, mat_vec(rho, r))
                 n0 == N0(Coarse, w, rho0_star(Coarse, w), rho)
                 e0 == E0(Coarse, w, rho)
                 p  == Pairing(w, mat_vec(rho, r))
                 s  == ~Solvable(delta0(w), mat_vec(rho, r))
      <4>1. probe.report = [A3 |-> a3, A4 |-> a4, N0 |-> n0, E0 |-> e0, pairing |-> p,
                            descent_safe |-> a3 /\ a4 /\ n0, verdict_safe |-> a3 /\ a4 /\ n0 /\ e0,
                            solver_not_coboundary |-> s]
        BY <3>1, Zenon DEF check_witness
      <4> HIDE DEF a3, a4, n0, e0, p, s
      <4>2. probe.report.A3 = a3 /\ probe.report.A4 = a4 /\ probe.report.solver_not_coboundary = s
        BY <4>1
      <4> QED
        BY <4>2 DEF a3, a4, s
    <3>3. LegalComplex(w) /\ w.z \in FractionRow(Len(w.edges))
      BY <3>1, WitnessIs
    <3>4. rho \in Rows(Len(w.edges), Len(Coarse.edges))
      BY <3>3, CoarseIs, PullbackIs
    <3>5. is_zero(row_vec_mat(w.z, delta0(w))) /\ dot(w.z, mat_vec(rho, r)) # Zero
      BY <2>1, <3>2 DEF A3, A4, Pairing
    <3> HIDE DEF rho, r
    <3>6. r \in FractionRow(Len(Coarse.edges)) /\ Len(Coarse.edges) \in Nat
      BY CoarseIs DEF r
    <3> QED
      BY <3>2, <3>3, <3>4, <3>5, <3>6, RefinedRefutes
  <2>2. ASSUME TwoSteps, Finding.step2.A3, Finding.A4
        PROVE  ~Solvable(delta0(probe.fine), mat_vec(composite(Coarse, probe.first, probe.fine).rho, Coarse.residue))
    <3> DEFINE w == probe.fine
               q == probe.first
               z == probe.z
               rho == composite(Coarse, q, w).rho
               res == in_a_row(Coarse, r, q, w, z)
    <3>1. LegalComplex(q) /\ LegalComplex(w) /\ z \in FractionRow(Len(w.edges)) /\ probe.report \subseteq {res}
      BY <2>2 DEF TwoSteps, ProbeInv, ProbeRight
    <3>2. Finding = res
      <4> HIDE DEF res
      <4>1. probe.report # {}
        BY <2>2 DEF TwoSteps
      <4>2. Finding \in probe.report
        BY <4>1 DEF Finding
      <4> QED
        BY <3>1, <4>2
    <3> HIDE DEF w, q, z
    <3>3. rho \in Rows(Len(w.edges), Len(Coarse.edges))
      BY <3>1, CoarseIs, CompositeIs
    <3>4. res.step2.A3 = is_zero(row_vec_mat(z, delta0(w))) /\ res.A4 = (dot(z, mat_vec(rho, r)) # Zero)
      BY DEF in_a_row, check_step
    <3>5. is_zero(row_vec_mat(z, delta0(w))) /\ dot(z, mat_vec(rho, r)) # Zero
      BY <2>2, <3>2, <3>4
    <3> HIDE DEF rho, r, res
    <3>6. r \in FractionRow(Len(Coarse.edges)) /\ Len(Coarse.edges) \in Nat
      BY CoarseIs DEF r
    <3>7. ~Solvable(delta0(w), mat_vec(rho, r))
      BY <3>1, <3>3, <3>5, <3>6, RefinedRefutes
    <3> QED
      BY <3>7 DEF w, q, rho, r
  <2>3. ASSUME probe.kind = "coupled",
               NEW g \in build_coupled_shared_seam(probe.gluing.a, probe.gluing.b, probe.gluing.declared,
                                                   probe.gluing.seam),
               NEW c \in probe.report.combined, c.A3, c.A4
        PROVE  ~Solvable(delta0(g), mat_vec(rho_star(Coarse, g), Coarse.residue))
    <3> DEFINE x == probe.gluing
               glued == build_coupled_shared_seam(x.a, x.b, x.declared, x.seam)
               rho == rho_star(Coarse, g)
    <3>1. x \in Gluings /\ probe.report = run_coupled(Coarse, r, x.a, x.b, x.declared, x.seam)
      BY <2>3 DEF ProbeInv, ProbeRight
    <3>2. LegalWitness(x.a) /\ LegalWitness(x.b)
      BY <3>1, RefinementAssumption
    <3> HIDE DEF x
    <3>3. LegalComplex(g) /\ g.z \in FractionRow(Len(g.edges))
      BY <2>3, <3>2, GluedIs DEF x
    <3>4. probe.report.combined = {check(Coarse, r, h) : h \in glued}
      BY <3>1, SMTT(40) DEF run_coupled
    <3>5. glued = {g}
      BY <2>3, Zenon DEF build_coupled_shared_seam, x
    <3>6. c = check(Coarse, r, g)
      <4> HIDE DEF glued
      <4> QED
        BY <3>4, <3>5
    <3>7. c.A3 = A3(g) /\ c.A4 = A4(g, mat_vec(rho, r))
      BY <3>6 DEF check
    <3>8. is_zero(row_vec_mat(g.z, delta0(g))) /\ dot(g.z, mat_vec(rho, r)) # Zero
      BY <2>3, <3>7 DEF A3, A4, Pairing
    <3>9. rho \in Rows(Len(g.edges), Len(Coarse.edges))
      BY <3>3, CoarseIs, PullbackIs
    <3> HIDE DEF rho, r
    <3>10. r \in FractionRow(Len(Coarse.edges)) /\ Len(Coarse.edges) \in Nat
      BY CoarseIs DEF r
    <3>11. ~Solvable(delta0(g), mat_vec(rho, r))
      BY <3>3, <3>8, <3>9, <3>10, RefinedRefutes
    <3> QED
      BY <3>11 DEF rho, r
  <2> QED
    BY <2>1, <2>2, <2>3 DEF PairingCertifies
<1> QED
  BY <1>1, ProbesReport, PTL

----------------------------------------------------------------------------
(* Composition.                                                            *)

\* The cycles brought back, as they are computed.
LEMMA BroughtBackIs ==
    ASSUME NEW m \in Nat, NEW n \in Nat, m > 0, NEW rho \in Rows(m, n), NEW h \in Nat, NEW S \in Rows(h, m)
    PROVE  Computed([k \in DOMAIN S |-> Computed(mat_vec(transpose(rho), S[k]))]) = PushedBack(rho, S)
<1> DEFINE P == PushedBack(rho, S)
<1>1. P \in Rows(h, n)
  BY PushedIs
<1>2. DOMAIN S = 1..h
  BY DEF Rows
<1>3. P = [k \in 1..h |-> mat_vec(transpose(rho), S[k])]
  BY <1>2 DEF PushedBack
<1> HIDE DEF P
<1>4. \A k \in 1..h : P[k] = mat_vec(transpose(rho), S[k]) /\ P[k] \in Seq(Fractions)
  <2>1. \A k \in 1..h : P[k] \in FractionRow(n)
    BY <1>1 DEF Rows
  <2> QED
    BY <1>3, <2>1, RowIsSeq
<1>5. \A k \in 1..h : Computed(mat_vec(transpose(rho), S[k])) = P[k]
  BY <1>4, ComputedIs
<1>6. [k \in DOMAIN S |-> Computed(mat_vec(transpose(rho), S[k]))] = [k \in 1..h |-> P[k]]
  BY <1>2, <1>5
<1>7. [k \in 1..h |-> P[k]] = P /\ P \in Seq(FractionRow(n))
  BY <1>1 DEF Rows
<1>8. Computed([k \in DOMAIN S |-> Computed(mat_vec(transpose(rho), S[k]))]) = P
  BY <1>6, <1>7, ComputedIs
<1> QED
  BY <1>8 DEF P

\* (E0) is reflection of every listed cycle.
LEMMA ReflectionIs ==
    ASSUME NEW c, LegalComplex(c), NEW w, LegalComplex(w), NEW rho \in Rows(Len(w.edges), Len(c.edges))
    PROVE  E0(c, w, rho) <=>
             \A k \in 1..Len(Z1(c)) : InSpan(PushedBack(rho, Z1(w)), Len(Z1(w)), Len(c.edges), Z1(c)[k])
<1> DEFINE m == Len(w.edges)
           n == Len(c.edges)
           S == Z1(w)
           C == Z1(c)
           h == Len(S)
           P == PushedBack(rho, S)
           pushed == Computed([k \in DOMAIN S |-> Computed(mat_vec(transpose(rho), S[k]))])
<1>1. m \in Nat /\ m > 0 /\ n \in Nat
  BY ComplexIs
<1>2. KernelList(transpose(delta0(w)), m, h, S) /\ KernelList(transpose(delta0(c)), n, Len(C), C)
  BY CyclesAre
<1>3. h \in Nat /\ S \in Rows(h, m) /\ Len(C) \in Nat /\ C \in Rows(Len(C), n)
  BY <1>2 DEF KernelList
<1> HIDE DEF m, n, S, C, h
<1>4. P \in Rows(h, n)
  BY <1>1, <1>3, PushedIs DEF m, n
<1>5. pushed = P
  BY <1>1, <1>3, BroughtBackIs DEF m, n
<1>6. E0(c, w, rho) <=> \A k \in DOMAIN C : in_span_over_Q(pushed, C[k])
  BY DEF E0, C, S
<1>7. DOMAIN C = 1..Len(C)
  BY <1>3 DEF Rows
<1> HIDE DEF P, pushed
<1>8. \A k \in 1..Len(C) : in_span_over_Q(P, C[k]) <=> InSpan(P, h, n, C[k])
  <2> SUFFICES ASSUME NEW k \in 1..Len(C) PROVE in_span_over_Q(P, C[k]) <=> InSpan(P, h, n, C[k])
    OBVIOUS
  <2>1. C[k] \in FractionRow(n)
    BY <1>3 DEF Rows
  <2> QED
    BY <1>1, <1>3, <1>4, <2>1, SpanDecided
<1>9. E0(c, w, rho) <=> \A k \in 1..Len(C) : InSpan(P, h, n, C[k])
  BY <1>5, <1>6, <1>7, <1>8
<1> QED
  BY <1>9 DEF P, h, n, S, C

LEMMA StepsReflect ==
    ASSUME NEW c, LegalComplex(c), NEW q, LegalComplex(q), NEW w, LegalComplex(w),
           E0(c, q, rho_star(c, q)), E0(q, w, rho_star(q, w))
    PROVE  E0(c, w, composite(c, q, w).rho)
<1> DEFINE p == Len(w.edges)
           m == Len(q.edges)
           n == Len(c.edges)
           A == rho_star(q, w)
           B == rho_star(c, q)
           S == Z1(w)
           Q == Z1(q)
           C == Z1(c)
<1>1. p \in Nat /\ p > 0 /\ m \in Nat /\ m > 0 /\ n \in Nat
  BY ComplexIs
<1>2. A \in Rows(p, m) /\ B \in Rows(m, n)
  BY PullbackIs
<1>3. KernelList(transpose(delta0(w)), p, Len(S), S) /\ KernelList(transpose(delta0(q)), m, Len(Q), Q)
  BY CyclesAre
<1>4. Len(S) \in Nat /\ S \in Rows(Len(S), p) /\ Len(Q) \in Nat /\ Q \in Rows(Len(Q), m)
  BY <1>3 DEF KernelList
<1>5. \A j \in 1..Len(Q) : InSpan(PushedBack(A, S), Len(S), m, Q[j])
  BY <1>2, ReflectionIs
<1>6. \A k \in 1..Len(C) : InSpan(PushedBack(B, Q), Len(Q), n, C[k])
  BY <1>2, ReflectionIs
<1> DEFINE AB == mat_mat(A, B)
<1>7. AB \in Rows(p, n) /\ composite(c, q, w).rho = AB
  BY CompositeIs DEF composite
<1> HIDE DEF p, m, n, A, B, S, Q, C
<1>8. \A k \in 1..Len(C) : InSpan(PushedBack(AB, S), Len(S), n, C[k])
  BY <1>1, <1>2, <1>4, <1>5, <1>6, ReflectionComposes
<1> HIDE DEF AB
<1>9. E0(c, w, AB)
  BY <1>7, <1>8, ReflectionIs DEF p, n, S, C
<1> QED
  BY <1>7, <1>9

LEMMA StepsCarry ==
    ASSUME NEW c, LegalComplex(c), NEW q, LegalComplex(q), NEW w, LegalComplex(w),
           N0(c, q, rho0_star(c, q), rho_star(c, q)), N0(q, w, rho0_star(q, w), rho_star(q, w))
    PROVE  N0(c, w, composite(c, q, w).rho0, composite(c, q, w).rho)
<1> DEFINE D3 == delta0(w)
           D2 == delta0(q)
           D1 == delta0(c)
           A == rho_star(q, w)
           B == rho_star(c, q)
           A0 == rho0_star(q, w)
           B0 == rho0_star(c, q)
           e3 == Len(w.edges)
           e2 == Len(q.edges)
           e1 == Len(c.edges)
           v3 == Len(w.vertices)
           v2 == Len(q.vertices)
           v1 == Len(c.vertices)
<1>1. e3 \in Nat /\ e2 \in Nat /\ e1 \in Nat /\ v3 \in Nat /\ v2 \in Nat /\ v1 \in Nat
  BY ComplexIs
<1>2. /\ D3 \in Rows(e3, v3) /\ D2 \in Rows(e2, v2) /\ D1 \in Rows(e1, v1)
      /\ A \in Rows(e3, e2) /\ B \in Rows(e2, e1) /\ A0 \in Rows(v3, v2) /\ B0 \in Rows(v2, v1)
  BY Delta0Is, PullbackIs
<1>3. mat_mat(D2, B0) = mat_mat(B, D1) /\ mat_mat(D3, A0) = mat_mat(A, D2)
  BY DEF N0
<1> HIDE DEF D3, D2, D1, A, B, A0, B0, e3, e2, e1, v3, v2, v1
<1>4. mat_mat(D3, mat_mat(A0, B0)) = mat_mat(mat_mat(D3, A0), B0)
  BY <1>1, <1>2, ProductAssociates
<1>5. mat_mat(mat_mat(A, D2), B0) = mat_mat(A, mat_mat(D2, B0))
  BY <1>1, <1>2, ProductAssociates
<1>6. mat_mat(A, mat_mat(B, D1)) = mat_mat(mat_mat(A, B), D1)
  BY <1>1, <1>2, ProductAssociates
<1>7. mat_mat(D3, mat_mat(A0, B0)) = mat_mat(mat_mat(A, B), D1)
  BY <1>3, <1>4, <1>5, <1>6
<1> QED
  BY <1>7 DEF N0, composite, D3, D1, A, B, A0, B0

LEMMA StepsPair ==
    ASSUME NEW c, LegalComplex(c), NEW q, LegalComplex(q), NEW w, LegalComplex(w),
           NEW r \in FractionRow(Len(c.edges))
    PROVE  mat_vec(composite(c, q, w).rho, r) = mat_vec(rho_star(q, w), mat_vec(rho_star(c, q), r))
<1> DEFINE A == rho_star(q, w)
           B == rho_star(c, q)
           p == Len(w.edges)
           m == Len(q.edges)
           n == Len(c.edges)
<1>1. p \in Nat /\ p > 0 /\ m \in Nat /\ m > 0 /\ n \in Nat /\ r \in FractionRow(n)
  BY ComplexIs
<1>2. A \in Rows(p, m) /\ B \in Rows(m, n)
  BY PullbackIs
<1> HIDE DEF A, B, p, m, n
<1>3. mat_vec(mat_mat(A, B), r) = mat_vec(A, mat_vec(B, r))
  BY <1>1, <1>2, ApplyProduct
<1> QED
  BY <1>3 DEF composite, A, B

----------------------------------------------------------------------------
(* Two steps given as matrices.                                            *)

LEMMA ConformIs ==
    ASSUME NEW A, Rectangular(A), NEW B, Rectangular(B), Conform(A, B) PROVE A \in Rows(Len(A), Len(B))
<1>1. Len(A) \in Nat /\ A \in Rows(Len(A), columns(A)) /\ (A = <<>> <=> Len(A) = 0)
  BY RectangularRows
<1>2. CASE A = <<>>
  BY <1>1, <1>2 DEF Rows
<1>3. CASE columns(A) = Len(B)
  BY <1>1, <1>3
<1> QED
  BY <1>2, <1>3 DEF Conform

\* The cycles of a matrix that is not empty, as the code lists them.
LEMMA CyclesOfIs ==
    ASSUME NEW m \in Nat, NEW n \in Nat, m > 0, n > 0, NEW D \in Rows(m, n)
    PROVE  KernelList(transpose(D), m, Len(CyclesOf(D)), CyclesOf(D))
<1> DEFINE T == transpose(D)
<1>1. T \in Rows(n, m)
  BY TransposeIs
<1> HIDE DEF T
<1>2. Rectangular(T) /\ columns(T) = m
  BY <1>1, RowsRectangular
<1> QED
  BY <1>2, NullspaceIs DEF CyclesOf, T

LEMMA ReflectsIs ==
    ASSUME NEW m \in Nat, NEW n \in Nat, m > 0, NEW rho \in Rows(m, n),
           NEW h \in Nat, NEW S \in Rows(h, m), NEW k \in Nat, NEW C \in Rows(k, n)
    PROVE  Reflects(rho, S, C) <=> \A j \in 1..k : InSpan(PushedBack(rho, S), h, n, C[j])
<1> DEFINE P == PushedBack(rho, S)
<1>1. P \in Rows(h, n)
  BY PushedIs
<1>2. DOMAIN C = 1..k
  BY DEF Rows
<1>3. Reflects(rho, S, C) <=> \A j \in 1..k : in_span_over_Q(P, C[j])
  BY <1>2 DEF Reflects, PushedBack
<1> HIDE DEF P
<1>4. \A j \in 1..k : in_span_over_Q(P, C[j]) <=> InSpan(P, h, n, C[j])
  <2> SUFFICES ASSUME NEW j \in 1..k PROVE in_span_over_Q(P, C[j]) <=> InSpan(P, h, n, C[j])
    OBVIOUS
  <2>1. C[j] \in FractionRow(n)
    BY DEF Rows
  <2> QED
    BY <1>1, <2>1, SpanDecided
<1>5. Reflects(rho, S, C) <=> \A j \in 1..k : InSpan(P, h, n, C[j])
  BY <1>3, <1>4
<1> QED
  BY <1>5 DEF P

LEMMA NoColumnsNoCycles == ASSUME NEW D, columns(D) = 0 PROVE DOMAIN CyclesOf(D) = {}
  BY EmptyHasNoKernel DEF CyclesOf, transpose

(***************************************************************************)
(* What survives both steps is obstructed on the coarsest complex, keeps   *)
(* its pairing under the product of the maps, and the product reflects     *)
(* every cycle: build_witness_and_check never finds a failure of (E0).     *)
(***************************************************************************)
LEMMA MatricesRight ==
    ASSUME NEW t \in Nat, NEW q \in Nat, NEW p \in Nat, NEW n \in Nat,
           NEW B \in Rows(t, q), NEW A \in Rows(q, p), NEW D \in Rows(p, n), NEW r \in FractionRow(p),
           NEW res \in build_witness_and_check(D, A, B, r)
    PROVE  res.A4 /\ res.E0 /\ ~Solvable(D, r)
<1> DEFINE DQ == mat_mat(A, D)
           rQ == mat_vec(A, r)
           DR == mat_mat(B, DQ)
           rho == mat_mat(B, A)
           paired == Pairs(DR, mat_vec(B, rQ))
           z == CyclesOf(DR)[CHOOSE k \in paired : \A j \in paired : k <= j]
           a4 == dot(z, mat_vec(rho, r)) # Zero
           e0 == Reflects(rho, CyclesOf(DR), CyclesOf(D))
<1>1. /\ Pairs(DQ, rQ) # {} /\ Reflects(A, CyclesOf(DQ), CyclesOf(D))
      /\ paired # {} /\ Reflects(B, CyclesOf(DR), CyclesOf(DQ))
      /\ res = [A4 |-> a4, E0 |-> e0, rho |-> rho, delta_R |-> DR]
  <2> DEFINE blocked == \/ Pairs(DQ, rQ) = {} \/ ~Reflects(A, CyclesOf(DQ), CyclesOf(D))
                        \/ paired = {} \/ ~Reflects(B, CyclesOf(DR), CyclesOf(DQ))
             found == [A4 |-> a4, E0 |-> e0, rho |-> rho, delta_R |-> DR]
  <2>1. build_witness_and_check(D, A, B, r) = IF blocked THEN {} ELSE {found}
    BY Zenon DEF build_witness_and_check
  <2>2. ~blocked /\ res = found
    <3> HIDE DEF blocked, found
    <3> QED
      BY <2>1
  <2> HIDE DEF DQ, rQ, DR, rho, paired, a4, e0
  <2> QED
    BY <2>2
<1>2. res.A4 = a4 /\ res.E0 = e0
  <2> HIDE DEF a4, e0, rho, DR
  <2> QED
    BY <1>1
<1> HIDE DEF DQ, rQ, DR, rho, paired, z, a4, e0
<1>3. columns(DQ) # 0 /\ columns(DR) # 0
  BY <1>1, NoColumnsNoCycles DEF Pairs, paired
<1>4. q > 0 /\ p > 0 /\ t > 0
  <2>1. columns(<<>>) = 0
    BY DEF columns
  <2>2. DQ # <<>> /\ DR # <<>>
    BY <1>3, <2>1
  <2>3. A # <<>> /\ D # <<>> /\ B # <<>>
    BY <2>2, EmptyProduct DEF DQ, DR
  <2> QED
    BY <2>3, RowsRectangular
<1>5. DQ \in Rows(q, n)
  BY <1>4, ProductIs DEF DQ
<1>6. n > 0
  <2>1. columns(DQ) = n
    BY <1>4, <1>5, RowsRectangular
  <2> QED
    BY <1>3, <2>1
<1>7. DR \in Rows(t, n) /\ rho \in Rows(t, p) /\ rQ \in FractionRow(q)
  BY <1>4, <1>5, ProductIs, ApplyIs DEF DR, rho, rQ
<1>8. /\ KernelList(transpose(DR), t, Len(CyclesOf(DR)), CyclesOf(DR))
      /\ KernelList(transpose(DQ), q, Len(CyclesOf(DQ)), CyclesOf(DQ))
      /\ KernelList(transpose(D), p, Len(CyclesOf(D)), CyclesOf(D))
  BY <1>4, <1>5, <1>6, <1>7, CyclesOfIs
<1> DEFINE S == CyclesOf(DR)
           Q == CyclesOf(DQ)
           C == CyclesOf(D)
<1>9. /\ Len(S) \in Nat /\ S \in Rows(Len(S), t) /\ Len(Q) \in Nat /\ Q \in Rows(Len(Q), q)
      /\ Len(C) \in Nat /\ C \in Rows(Len(C), p)
  BY <1>8 DEF KernelList
<1>10. Reflects(A, Q, C) /\ Reflects(B, S, Q)
  BY <1>1
<1> HIDE DEF S, Q, C
<1>11. e0
  <2>1. \A j \in 1..Len(Q) : InSpan(PushedBack(B, S), Len(S), q, Q[j])
    BY <1>4, <1>9, <1>10, ReflectsIs
  <2>2. \A j \in 1..Len(C) : InSpan(PushedBack(A, Q), Len(Q), p, C[j])
    BY <1>4, <1>9, <1>10, ReflectsIs
  <2>3. \A j \in 1..Len(C) : InSpan(PushedBack(mat_mat(B, A), S), Len(S), p, C[j])
    BY <1>4, <1>9, <2>1, <2>2, ReflectionComposes, ZenonT(40)
  <2>4. Reflects(rho, S, C)
    BY <1>4, <1>7, <1>9, <2>3, ReflectsIs DEF rho
  <2> QED
    BY <2>4 DEF e0, S, C
<1>12. a4
  <2>1. DOMAIN S = 1..Len(S)
    BY <1>9 DEF Rows
  <2>2. paired \in SUBSET (1..Len(S))
    BY <2>1 DEF Pairs, paired, S
  <2>3. \E k \in paired : \A j \in paired : k <= j
    <3>1. paired \in SUBSET Nat
      BY <1>9, <2>2
    <3> QED
      BY <1>1, <3>1, Least
  <2>4. dot(z, mat_vec(B, rQ)) # Zero
    <3> DEFINE k0 == CHOOSE k \in paired : \A j \in paired : k <= j
    <3>1. k0 \in paired
      BY <2>3
    <3> HIDE DEF k0
    <3>2. dot(CyclesOf(DR)[k0], mat_vec(B, rQ)) # Zero
      BY <3>1 DEF paired, Pairs
    <3> QED
      BY <3>2 DEF z, k0
  <2>5. mat_vec(rho, r) = mat_vec(B, rQ)
    BY <1>4, ApplyProduct DEF rho, rQ
  <2> QED
    BY <2>4, <2>5 DEF a4
<1>13. ~Solvable(D, r)
  <2>1. PICK k \in DOMAIN CyclesOf(DQ) :
           is_zero(row_vec_mat(CyclesOf(DQ)[k], DQ)) /\ dot(CyclesOf(DQ)[k], rQ) # Zero
    BY <1>1 DEF Pairs
  <2>2. CyclesOf(DQ)[k] \in FractionRow(q)
    BY <1>9 DEF Rows, Q
  <2>3. ~Solvable(DQ, rQ)
    BY <1>5, <1>7, <2>1, <2>2, CycleRefutes
  <2> QED
    BY <1>4, <2>3, ProductCarries DEF DQ, rQ
<1> QED
  BY <1>2, <1>11, <1>12, <1>13

(***************************************************************************)
(* Steps compose, for every complex, every two refinements and every two   *)
(* maps: the composition probes search for a counterexample that does not  *)
(* exist.                                                                  *)
(***************************************************************************)
THEOREM RefinementsCompose == Spec => []StepsCompose
<1>1. ProbeInv => StepsCompose
  <2> SUFFICES ASSUME ProbeInv PROVE StepsCompose
    OBVIOUS
  <2> DEFINE r == Coarse.residue
  <2>1. ASSUME TwoSteps
        PROVE  /\ verify_n0_theorem_consistency(Finding)
               /\ Finding.pairing = Finding.step2.pairing
               /\ E0(probe.first, probe.fine, rho_star(probe.first, probe.fine))
                    /\ E0(Coarse, probe.first, rho_star(Coarse, probe.first)) => Finding.E0
    <3> DEFINE w == probe.fine
               q == probe.first
               z == probe.z
               res == in_a_row(Coarse, r, q, w, z)
               maps == composite(Coarse, q, w)
    <3>1. LegalComplex(q) /\ LegalComplex(w) /\ probe.report \subseteq {res}
      BY <2>1 DEF TwoSteps, ProbeInv, ProbeRight
    <3>2. Finding = res
      <4> HIDE DEF res
      <4>1. probe.report # {}
        BY <2>1 DEF TwoSteps
      <4>2. Finding \in probe.report
        BY <4>1 DEF Finding
      <4> QED
        BY <3>1, <4>2
    <3> HIDE DEF w, q, z
    <3>3. LegalComplex(Coarse) /\ r \in FractionRow(Len(Coarse.edges))
      BY CoarseIs
    <3> HIDE DEF r
    <3>4. /\ res.N0 = N0(Coarse, w, maps.rho0, maps.rho)
          /\ res.step1_N0 = N0(Coarse, q, rho0_star(Coarse, q), rho_star(Coarse, q))
          /\ res.step2.N0 = N0(q, w, rho0_star(q, w), rho_star(q, w))
          /\ res.E0 = E0(Coarse, w, maps.rho)
          /\ res.pairing = dot(z, mat_vec(maps.rho, r))
          /\ res.step2.pairing = dot(z, mat_vec(rho_star(q, w), mat_vec(rho_star(Coarse, q), r)))
      BY DEF in_a_row, check_step
    <3> HIDE DEF res
    <3>5. verify_n0_theorem_consistency(res)
      BY <3>1, <3>3, <3>4, StepsCarry DEF verify_n0_theorem_consistency
    <3>6. res.pairing = res.step2.pairing
      BY <3>1, <3>3, <3>4, StepsPair
    <3>7. E0(q, w, rho_star(q, w)) /\ E0(Coarse, q, rho_star(Coarse, q)) => res.E0
      BY <3>1, <3>3, <3>4, StepsReflect
    <3> QED
      BY <3>2, <3>5, <3>6, <3>7 DEF w, q
  <2>2. ASSUME probe.kind = "matrices"
        PROVE  /\ associative(probe.rho_QR, probe.step.rho, probe.step.delta_P)
               /\ \A res \in probe.report : res.A4 /\ res.E0 /\ ~Solvable(probe.step.delta_P, probe.step.r)
    <3> DEFINE s == probe.step
               D == s.delta_P
               A == s.rho
               B == probe.rho_QR
               v == s.r
    <3>1. s \in Steps /\ B \in SecondMaps /\ probe.report = build_witness_and_check(D, A, B, v)
      BY <2>2 DEF ProbeInv, ProbeRight
    <3>2. /\ ExactMatrix(D) /\ ExactMatrix(A) /\ Conform(A, D) /\ ExactVector(v) /\ Len(v) = Len(D)
          /\ ExactMatrix(B) /\ Conform(B, A)
      BY <3>1, RefinementAssumption
    <3> HIDE DEF s, D, A, B, v
    <3>3. Rectangular(D) /\ Rectangular(A) /\ Rectangular(B)
      BY <3>2, ExactMatrixIs
    <3>4. /\ Len(D) \in Nat /\ columns(D) \in Nat /\ D \in Rows(Len(D), columns(D))
          /\ Len(A) \in Nat /\ Len(B) \in Nat
      BY <3>3, RectangularRows
    <3>5. A \in Rows(Len(A), Len(D)) /\ B \in Rows(Len(B), Len(A))
      BY <3>2, <3>3, ConformIs
    <3>6. v \in FractionRow(Len(D))
      BY <3>2, ExactVectorIs DEF FractionRow
    <3>7. associative(B, A, D)
      BY <3>4, <3>5, ProductAssociates DEF associative
    <3>8. \A res \in probe.report : res.A4 /\ res.E0 /\ ~Solvable(D, v)
      BY <3>1, <3>4, <3>5, <3>6, MatricesRight
    <3> QED
      BY <3>7, <3>8 DEF s, D, A, B, v
  <2> QED
    BY <2>1, <2>2 DEF StepsCompose
<1> QED
  BY <1>1, ProbesReport, PTL

----------------------------------------------------------------------------
(* What the cycles decide.                                                 *)

----------------------------------------------------------------------------
(* What the two conditions are for.                                        *)

\* (N0): a correction is carried to the refined complex.
LEMMA MapCarries ==
    ASSUME NEW c, LegalComplex(c), NEW w, LegalComplex(w), NEW rho \in Rows(Len(w.edges), Len(c.edges)),
           NEW rho0 \in Rows(Len(w.vertices), Len(c.vertices)), N0(c, w, rho0, rho),
           NEW r \in FractionRow(Len(c.edges)), Solvable(delta0(c), r)
    PROVE  Solvable(delta0(w), mat_vec(rho, r))
<1> DEFINE D == delta0(c)
           F1 == delta0(w)
           m == Len(w.edges)
           v == Len(w.vertices)
           n == Len(c.edges)
           u == Len(c.vertices)
<1>1. m \in Nat /\ m > 0 /\ v \in Nat /\ v > 0 /\ n \in Nat /\ n > 0 /\ u \in Nat
  BY ComplexIs
<1>2. D \in Rows(n, u) /\ F1 \in Rows(m, v) /\ mat_mat(F1, rho0) = mat_mat(rho, D)
  BY Delta0Is DEF N0
<1> HIDE DEF D, F1, m, v, n, u
<1>3. rho \in Rows(m, n) /\ rho0 \in Rows(v, u) /\ r \in FractionRow(n) /\ Solvable(D, r)
  BY DEF m, n, u, v, D
<1>4. PICK b \in FractionRow(u) : mat_vec(D, b) = r
  BY <1>1, <1>2, <1>3, SolvableIs
<1>5. mat_vec(F1, mat_vec(rho0, b)) = mat_vec(mat_mat(F1, rho0), b)
  BY <1>1, <1>2, <1>3, ApplyProduct
<1>6. mat_vec(mat_mat(rho, D), b) = mat_vec(rho, r)
  BY <1>1, <1>2, <1>3, <1>4, ApplyProduct
<1>7. mat_vec(rho0, b) \in FractionRow(v) /\ mat_vec(rho, r) \in FractionRow(m)
  BY <1>1, <1>3, ApplyIs
<1>8. Solvable(F1, mat_vec(rho, r))
  BY <1>1, <1>2, <1>5, <1>6, <1>7, SolvableIs
<1> QED
  BY <1>8 DEF F1

\* The residues that VerdictTransported tries, of any refinement.
LEMMA ResiduesAre ==
    ASSUME NEW w, LegalComplex(w), NEW rho \in Rows(Len(w.edges), Len(Coarse.edges))
    PROVE  /\ Residues(w, rho) \subseteq FractionRow(Len(Coarse.edges))
           /\ \A j \in 1..Len(Coarse.edges) : Units(j, Len(Coarse.edges)) \in Residues(w, rho)
           /\ \A i \in DOMAIN nullspace_over_Q(PushedBack(rho, Z1(w))) :
                Z1(w) # <<>> => nullspace_over_Q(PushedBack(rho, Z1(w)))[i] \in Residues(w, rho)
<1> DEFINE m == Len(w.edges)
           n == Len(Coarse.edges)
           S == Z1(w)
           h == Len(S)
           P == PushedBack(rho, S)
           N == nullspace_over_Q(P)
<1>1. m \in Nat /\ m > 0 /\ n \in Nat /\ Coarse.residue \in FractionRow(n)
  BY CoarseIs, ComplexIs
<1>2. h \in Nat /\ S \in Rows(h, m)
  BY CyclesAre DEF KernelList
<1>3. Unpaired(w, rho) = RangeOf(N)
  BY <1>1, <1>2, BroughtBackIs DEF Unpaired
<1> HIDE DEF m, n, S, h
<1>4. P \in Rows(h, n) /\ rho \in Rows(m, n)
  BY <1>1, <1>2, PushedIs DEF m, n
<1> HIDE DEF P
<1>5. N \in Rows(Len(N), columns(P)) /\ Len(N) \in Nat
  <2>1. Rectangular(P)
    BY <1>1, <1>2, <1>4, RowsRectangular
  <2> QED
    BY <2>1, NullspaceIs DEF KernelList
<1> HIDE DEF N
<1>6. RangeOf(N) \subseteq FractionRow(n)
  <2>1. CASE h > 0
    <3>1. columns(P) = n
      BY <1>1, <1>2, <1>4, <2>1, RowsRectangular
    <3> QED
      BY <1>5, <3>1 DEF RangeOf, Rows
  <2>2. CASE h = 0
    <3>1. P = <<>>
      BY <1>1, <1>4, <2>2, RowsRectangular
    <3> QED
      BY <3>1, EmptyHasNoKernel DEF N, RangeOf
  <2> QED
    BY <1>2, <2>1, <2>2
<1>7. EdgeSums \subseteq FractionRow(n)
  BY ZeroOne DEF EdgeSums, FractionRow, n
<1>8. \A j \in 1..n : Units(j, n) \in EdgeSums
  <2> SUFFICES ASSUME NEW j \in 1..n PROVE Units(j, n) \in EdgeSums
    OBVIOUS
  <2>1. {j} \in SUBSET (1..n) /\ Units(j, n) = [k \in 1..n |-> IF k \in {j} THEN One ELSE Zero]
    BY DEF Units
  <2> QED
    BY <2>1 DEF EdgeSums, n
<1>9. Residues(w, rho) = EdgeSums \cup {Coarse.residue} \cup RangeOf(N)
  BY <1>3 DEF Residues
<1> HIDE DEF EdgeSums
<1>10. Residues(w, rho) \subseteq FractionRow(n)
  BY <1>1, <1>6, <1>7, <1>9
<1>11. \A j \in 1..n : Units(j, n) \in Residues(w, rho)
  BY <1>8, <1>9
<1>12. \A i \in DOMAIN N : N[i] \in Residues(w, rho)
  BY <1>9 DEF RangeOf
<1> QED
  BY <1>10, <1>11, <1>12 DEF n, N, P, S

(***************************************************************************)
(* (E0): a correction on the refined complex comes from one on the coarse. *)
(* It is enough for every residue, and when it fails one of the residues   *)
(* that VerdictTransported tries shows it.                                 *)
(***************************************************************************)
LEMMA CyclesReflect ==
    ASSUME NEW w, LegalComplex(w), NEW rho \in Rows(Len(w.edges), Len(Coarse.edges))
    PROVE  /\ E0(Coarse, w, rho) =>
                \A r \in FractionRow(Len(Coarse.edges)) :
                   Solvable(delta0(w), mat_vec(rho, r)) => Solvable(delta0(Coarse), r)
           /\ ~E0(Coarse, w, rho) =>
                \E r \in Residues(w, rho) :
                   Solvable(delta0(w), mat_vec(rho, r)) /\ ~Solvable(delta0(Coarse), r)
<1> DEFINE D == delta0(Coarse)
           F1 == delta0(w)
           m == Len(w.edges)
           n == Len(Coarse.edges)
           S == Z1(w)
           C == Z1(Coarse)
           h == Len(S)
           k == Len(C)
           P == PushedBack(rho, S)
           R == Residues(w, rho)
<1>1. /\ m \in Nat /\ m > 0 /\ n \in Nat /\ n > 0
      /\ Len(w.vertices) \in Nat /\ Len(w.vertices) > 0
      /\ Len(Coarse.vertices) \in Nat /\ Len(Coarse.vertices) > 0
  BY CoarseIs, ComplexIs
<1>2. D \in Rows(n, Len(Coarse.vertices)) /\ F1 \in Rows(m, Len(w.vertices))
  BY CoarseIs, Delta0Is
<1>3. KernelList(transpose(F1), m, h, S) /\ KernelList(transpose(D), n, k, C)
  BY CoarseIs, CyclesAre
<1>4. h \in Nat /\ S \in Rows(h, m) /\ k \in Nat /\ C \in Rows(k, n)
  BY <1>3 DEF KernelList
<1>5. E0(Coarse, w, rho) <=> \A j \in 1..k : InSpan(P, h, n, C[j])
  BY CoarseIs, ReflectionIs
<1>6. /\ R \subseteq FractionRow(n)
      /\ \A j \in 1..n : Units(j, n) \in R
      /\ \A i \in DOMAIN nullspace_over_Q(P) : S # <<>> => nullspace_over_Q(P)[i] \in R
  BY ResiduesAre
<1> HIDE DEF D, F1, m, n, S, C, h, k, R
<1>7. P \in Rows(h, n) /\ rho \in Rows(m, n)
  BY <1>1, <1>4, PushedIs DEF m, n
<1>8. \A r \in FractionRow(n), j \in 1..h : SumProducts(P[j], r, n) = SumProducts(S[j], mat_vec(rho, r), m)
  BY <1>1, <1>4, <1>7, PushedPairs
<1> HIDE DEF P
<1>9. ASSUME NEW r \in FractionRow(n)
      PROVE  /\ Solvable(D, r) <=> \A j \in 1..k : SumProducts(C[j], r, n) = Zero
             /\ Solvable(F1, mat_vec(rho, r)) <=> \A j \in 1..h : SumProducts(P[j], r, n) = Zero
  <2>1. mat_vec(rho, r) \in FractionRow(m)
    BY <1>1, <1>7, ApplyIs
  <2>2. Solvable(D, r) <=> \A j \in 1..k : SumProducts(C[j], r, n) = Zero
    BY <1>1, <1>2, <1>3, CyclesDecide
  <2>3. Solvable(F1, mat_vec(rho, r)) <=> \A j \in 1..h : SumProducts(S[j], mat_vec(rho, r), m) = Zero
    BY <1>1, <1>2, <1>3, <2>1, CyclesDecide
  <2> QED
    BY <1>8, <2>2, <2>3
<1>10. ASSUME E0(Coarse, w, rho), NEW r \in FractionRow(n), Solvable(F1, mat_vec(rho, r)) PROVE Solvable(D, r)
  <2>1. \A j \in 1..h : SumProducts(P[j], r, n) = Zero
    BY <1>9, <1>10
  <2>2. ASSUME NEW j \in 1..k PROVE SumProducts(C[j], r, n) = Zero
    <3>1. C[j] \in FractionRow(n) /\ InSpan(P, h, n, C[j])
      BY <1>4, <1>5, <1>10 DEF Rows
    <3> QED
      BY <1>1, <1>4, <1>7, <2>1, <3>1, SpanPairs
  <2> QED
    BY <1>9, <2>2
<1>11. ASSUME ~E0(Coarse, w, rho)
       PROVE  \E r \in R : Solvable(F1, mat_vec(rho, r)) /\ ~Solvable(D, r)
  <2>1. PICK i \in 1..k : ~InSpan(P, h, n, C[i])
    BY <1>5, <1>11
  <2>2. C[i] \in FractionRow(n)
    BY <1>4 DEF Rows
  <2>3. PICK r \in FractionRow(n) :
           /\ (\E j \in 1..n : r = Units(j, n))
                \/ (\E l \in DOMAIN nullspace_over_Q(P) : r = nullspace_over_Q(P)[l])
           /\ \A j \in 1..h : SumProducts(P[j], r, n) = Zero
           /\ SumProducts(C[i], r, n) # Zero
    BY <1>1, <1>4, <1>7, <2>1, <2>2, Separated
  <2>4. r \in R
    <3>1. CASE S # <<>>
      BY <1>6, <2>3, <3>1
    <3>2. CASE S = <<>>
      <4>1. P = <<>>
        <5>1. h = 0
          BY <3>2 DEF h
        <5> QED
          BY <1>1, <1>7, <5>1, RowsRectangular
      <4>2. DOMAIN nullspace_over_Q(P) = {}
        BY <4>1, EmptyHasNoKernel
      <4> QED
        BY <1>6, <2>3, <4>2
    <3> QED
      BY <3>1, <3>2
  <2> QED
    BY <1>9, <2>3, <2>4
<1> QED
  BY <1>10, <1>11 DEF D, F1, n, R

(***************************************************************************)
(* Verdicts are transported, for every coarse complex and every            *)
(* refinement: what (N0) and (E0) decide by comparing matrices and null    *)
(* spaces is the statement about residues that the checker reports them    *)
(* as, and the finite set of residues of VerdictTransported never misses.  *)
(***************************************************************************)
THEOREM VerdictsTransported == Spec => []VerdictTransported
<1>1. ProbeInv => VerdictTransported
  <2> SUFFICES ASSUME ProbeInv PROVE VerdictTransported
    OBVIOUS
  <2>1. ASSUME NEW w, LegalComplex(w), NEW rho \in Rows(Len(w.edges), Len(Coarse.edges)),
               NEW rho0 \in Rows(Len(w.vertices), Len(Coarse.vertices))
        PROVE  /\ N0(Coarse, w, rho0, rho) => Carried(w, rho)
               /\ E0(Coarse, w, rho) <=> Reflected(w, rho)
    <3>1. Residues(w, rho) \subseteq FractionRow(Len(Coarse.edges))
      BY <2>1, ResiduesAre
    <3>2. N0(Coarse, w, rho0, rho) => Carried(w, rho)
      BY <2>1, <3>1, CoarseIs, MapCarries DEF Carried
    <3>3. E0(Coarse, w, rho) => Reflected(w, rho)
      BY <2>1, <3>1, CyclesReflect DEF Reflected
    <3>4. ~E0(Coarse, w, rho) => ~Reflected(w, rho)
      BY <2>1, CyclesReflect DEF Reflected
    <3> QED
      BY <3>2, <3>3, <3>4
  <2>2. ASSUME OneStep
        PROVE  /\ probe.report.N0 => Carried(probe.w, rho_star(Coarse, probe.w))
               /\ probe.report.E0 <=> Reflected(probe.w, rho_star(Coarse, probe.w))
    <3> DEFINE w == probe.w
               rho == rho_star(Coarse, w)
               rho0 == rho0_star(Coarse, w)
    <3>1. LegalWitness(w) /\ probe.report = check_witness(Coarse, Coarse.residue, w)
      BY <2>2 DEF OneStep, ProbeInv, ProbeRight
    <3> HIDE DEF w
    <3>2. LegalComplex(w) /\ rho \in Rows(Len(w.edges), Len(Coarse.edges))
          /\ rho0 \in Rows(Len(w.vertices), Len(Coarse.vertices))
      BY <3>1, WitnessIs, CoarseIs, PullbackIs
    <3>3. probe.report.N0 = N0(Coarse, w, rho0, rho) /\ probe.report.E0 = E0(Coarse, w, rho)
      BY <3>1 DEF check_witness
    <3> HIDE DEF rho, rho0
    <3> QED
      BY <2>1, <3>2, <3>3 DEF rho, w
  <2>3. ASSUME TwoSteps
        PROVE  /\ Finding.N0 => Carried(probe.fine, composite(Coarse, probe.first, probe.fine).rho)
               /\ Finding.E0 <=> Reflected(probe.fine, composite(Coarse, probe.first, probe.fine).rho)
    <3> DEFINE w == probe.fine
               q == probe.first
               z == probe.z
               r == Coarse.residue
               res == in_a_row(Coarse, r, q, w, z)
               rho == composite(Coarse, q, w).rho
               rho0 == composite(Coarse, q, w).rho0
    <3>1. LegalComplex(q) /\ LegalComplex(w) /\ probe.report \subseteq {res}
      BY <2>3 DEF TwoSteps, ProbeInv, ProbeRight
    <3>2. Finding = res
      <4> HIDE DEF res
      <4>1. probe.report # {}
        BY <2>3 DEF TwoSteps
      <4>2. Finding \in probe.report
        BY <4>1 DEF Finding
      <4> QED
        BY <3>1, <4>2
    <3> HIDE DEF w, q, z, r
    <3>3. res.N0 = N0(Coarse, w, rho0, rho) /\ res.E0 = E0(Coarse, w, rho)
      BY DEF in_a_row
    <3> HIDE DEF res
    <3>4. rho \in Rows(Len(w.edges), Len(Coarse.edges)) /\ rho0 \in Rows(Len(w.vertices), Len(Coarse.vertices))
      BY <3>1, CoarseIs, CompositeIs
    <3> HIDE DEF rho, rho0
    <3>5. /\ N0(Coarse, w, rho0, rho) => Carried(w, rho)
          /\ E0(Coarse, w, rho) <=> Reflected(w, rho)
      BY <2>1, <3>1, <3>4
    <3>6. /\ Finding.N0 => Carried(w, rho)
          /\ Finding.E0 <=> Reflected(w, rho)
      BY <3>2, <3>3, <3>5
    <3> QED
      BY <3>6 DEF w, rho, q
  <2>4. OneStep => \E rho \in {rho_star(Coarse, probe.w)} :
           /\ probe.report.N0 => Carried(probe.w, rho)
           /\ probe.report.E0 <=> Reflected(probe.w, rho)
    BY <2>2
  <2>5. TwoSteps => \E rho \in {composite(Coarse, probe.first, probe.fine).rho} :
           /\ Finding.N0 => Carried(probe.fine, rho)
           /\ Finding.E0 <=> Reflected(probe.fine, rho)
    BY <2>3
  <2> QED
    BY <2>4, <2>5 DEF VerdictTransported
<1> QED
  BY <1>1, ProbesReport, PTL

----------------------------------------------------------------------------
(* Assembly. What one interface's evidence comes to, as a statement about  *)
(* the places of its name in the two lists.                                *)

RequiredInterfaces == [id : STRING, digest : STRING]
AdmissionsOf       == [id : STRING, digest : STRING, kind : {"Compatible", "Incompatible", "Unresolved"}]
ContributionsOf    == [id : STRING, digest : STRING, value : Int \X Int]

\* The one admissibility certificate of an interface, of some kind.
Sole(req, adm, kind) ==
    \E k \in DOMAIN adm : For(req.id, adm) = {k} /\ adm[k] = [id |-> req.id, digest |-> req.digest, kind |-> kind]

SuppliedBy(req, adm, con) ==
    /\ Sole(req, adm, "Compatible")
    /\ \E k \in DOMAIN con : For(req.id, con) = {k} /\ con[k].digest = req.digest

OpposedBy(req, adm, con) ==
    (\A j, k \in For(req.id, con) : j = k) /\ Sole(req, adm, "Incompatible")

LEMMA FirstOfOne == ASSUME NEW k \in Nat PROVE First({k}) = k
  BY DEF First

LEMMA InterfaceIs ==
    ASSUME NEW req \in RequiredInterfaces, NEW adm \in Seq(AdmissionsOf), NEW con \in Seq(ContributionsOf)
    PROVE  /\ classify_interface(req, adm, con) = "Satisfied" <=> SuppliedBy(req, adm, con)
           /\ classify_interface(req, adm, con) = "Refused" <=> OpposedBy(req, adm, con)
<1> DEFINE As == For(req.id, adm)
           Cs == For(req.id, con)
           a == adm[First(As)]
           c == con[First(Cs)]
           word == IF Several(As) \/ Several(Cs) THEN "duplicate_interface_evidence"
                      ELSE IF As = {} THEN "missing_admissibility"
                      ELSE IF a.digest # req.digest THEN "coreference_mismatch"
                      ELSE IF a.kind = "Incompatible" THEN "Refused"
                      ELSE IF a.kind = "Unresolved" THEN "unresolved_admissibility"
                      ELSE IF Cs = {} THEN "missing_contribution"
                      ELSE IF c.digest # req.digest THEN "coreference_mismatch"
                      ELSE "Satisfied"
<1>1. classify_interface(req, adm, con) = word
  BY DEF classify_interface, matching, For
<1>2. As \subseteq DOMAIN adm /\ Cs \subseteq DOMAIN con /\ DOMAIN adm \subseteq Nat /\ DOMAIN con \subseteq Nat
  BY DEF For
<1>3. \A k \in As : adm[k] \in AdmissionsOf /\ adm[k].id = req.id
  BY DEF For
<1>4. \A k \in As : First({k}) = k
  BY <1>2, FirstOfOne
<1>5. \A k \in Cs : First({k}) = k
  BY <1>2, FirstOfOne
<1>6. ASSUME NEW kind, NEW k \in As
      PROVE  adm[k] = [id |-> req.id, digest |-> req.digest, kind |-> kind]
               <=> adm[k].digest = req.digest /\ adm[k].kind = kind
  BY <1>3 DEF AdmissionsOf
<1>7. \A kind : Sole(req, adm, kind) <=> \E k \in As : As = {k} /\ adm[k].digest = req.digest /\ adm[k].kind = kind
  <2> SUFFICES ASSUME NEW kind
               PROVE  Sole(req, adm, kind)
                        <=> \E k \in As : As = {k} /\ adm[k].digest = req.digest /\ adm[k].kind = kind
    OBVIOUS
  <2>1. Sole(req, adm, kind)
          <=> \E k \in DOMAIN adm : As = {k} /\ adm[k] = [id |-> req.id, digest |-> req.digest, kind |-> kind]
    BY DEF Sole
  <2> HIDE DEF As
  <2> QED
    BY <1>2, <1>6, <2>1
<1>8. \A k \in As : adm[k].kind \in {"Compatible", "Incompatible", "Unresolved"}
  BY <1>3 DEF AdmissionsOf
<1> HIDE DEF As, Cs
<1>9. SuppliedBy(req, adm, con) <=>
        /\ \E k \in As : As = {k} /\ adm[k].digest = req.digest /\ adm[k].kind = "Compatible"
        /\ \E k \in Cs : Cs = {k} /\ con[k].digest = req.digest
  BY <1>2, <1>7 DEF SuppliedBy, Cs
<1>10. OpposedBy(req, adm, con) <=>
        /\ \A j, k \in Cs : j = k
        /\ \E k \in As : As = {k} /\ adm[k].digest = req.digest /\ adm[k].kind = "Incompatible"
  BY <1>7 DEF OpposedBy, Cs
<1>11. word = "Satisfied" <=> SuppliedBy(req, adm, con)
  BY <1>4, <1>5, <1>8, <1>9 DEF Several
<1>12. word = "Refused" <=> OpposedBy(req, adm, con)
  BY <1>4, <1>5, <1>8, <1>10 DEF Several
<1> QED
  BY <1>1, <1>11, <1>12

\* The outcome of a list of requirements.
OutcomeOf(required, res, adm, con) ==
    /\ res.outcome = "Refused" <=> \E k \in DOMAIN required : OpposedBy(required[k], adm, con)
    /\ res.outcome = "Refused" =>
         res.ids = {required[k].id : k \in {i \in DOMAIN required : OpposedBy(required[i], adm, con)}}
    /\ res.outcome = "Complete" <=>
         /\ \A k \in DOMAIN required : SuppliedBy(required[k], adm, con)
         /\ Ids(adm) \cup Ids(con) \subseteq Ids(required)
    /\ res.outcome = "Complete" =>
         res.values = [k \in DOMAIN required |-> con[First(For(required[k].id, con))].value]
    /\ res.outcome \in {"Refused", "Unresolved", "Complete"}

LEMMA OutcomeIs ==
    ASSUME NEW required, \A k \in DOMAIN required : required[k] \in RequiredInterfaces,
           NEW adm \in Seq(AdmissionsOf), NEW con \in Seq(ContributionsOf), NEW res, res = assemble(required, adm, con)
    PROVE  OutcomeOf(required, res, adm, con)
<1> DEFINE status(k) == classify_interface(required[k], adm, con)
           R == {i \in DOMAIN required : status(i) = "Refused"}
           N == {i \in DOMAIN required : status(i) # "Satisfied"}
           refused == {required[k].id : k \in R}
           odd == unexpected_ids(required, adm) \cup unexpected_ids(required, con)
           unresolved == {<<required[k].id, status(k)>> : k \in N} \cup (odd \X {"unexpected_interface"})
           values == [k \in DOMAIN required |-> con[First(matching(required[k].id, con))].value]
<1>1. res = IF refused # {} THEN [outcome |-> "Refused", ids |-> refused]
            ELSE IF unresolved # {} THEN [outcome |-> "Unresolved", reasons |-> unresolved]
            ELSE [outcome |-> "Complete", values |-> values]
  BY Zenon DEF assemble
<1>2. \A k \in DOMAIN required : /\ status(k) = "Satisfied" <=> SuppliedBy(required[k], adm, con)
                                 /\ status(k) = "Refused" <=> OpposedBy(required[k], adm, con)
  BY InterfaceIs
<1>3. refused # {} <=> R # {}
  <2> HIDE DEF R
  <2> QED
    OBVIOUS
<1>4. R = {i \in DOMAIN required : OpposedBy(required[i], adm, con)}
  BY <1>2
<1>5. unresolved = {} <=> N = {} /\ odd = {}
  <2> HIDE DEF N, odd, status
  <2>1. {<<required[k].id, status(k)>> : k \in N} = {} <=> N = {}
    OBVIOUS
  <2>2. odd \X {"unexpected_interface"} = {} <=> odd = {}
    <3>1. ASSUME NEW x \in odd PROVE <<x, "unexpected_interface">> \in odd \X {"unexpected_interface"}
      OBVIOUS
    <3> QED
      BY <3>1
  <2> QED
    BY <2>1, <2>2
<1>6. N = {} <=> \A k \in DOMAIN required : SuppliedBy(required[k], adm, con)
  BY <1>2
<1>7. odd = {} <=> Ids(adm) \cup Ids(con) \subseteq Ids(required)
  BY DEF unexpected_ids
<1>8. N = {} => R = {}
  OBVIOUS
<1>9. values = [k \in DOMAIN required |-> con[First(For(required[k].id, con))].value]
  BY DEF matching, For
<1> HIDE DEF R, N, odd, unresolved, values
<1>10. refused = {required[k].id : k \in {i \in DOMAIN required : OpposedBy(required[i], adm, con)}}
  BY <1>4
<1> HIDE DEF refused
<1>11. res.outcome = "Refused" <=> refused # {}
  BY <1>1
<1>12. res.outcome = "Complete" <=> refused = {} /\ unresolved = {}
  BY <1>1
<1>13. res.outcome = "Refused" => res.ids = refused
  BY <1>1
<1>14. res.outcome = "Complete" => res.values = values
  BY <1>1
<1>15. res.outcome \in {"Refused", "Unresolved", "Complete"}
  BY <1>1
<1>16. R # {} <=> \E k \in DOMAIN required : OpposedBy(required[k], adm, con)
  BY <1>4
<1> QED
  BY <1>3, <1>5, <1>6, <1>7, <1>8, <1>9, <1>10, <1>11, <1>12, <1>13, <1>14, <1>15, <1>16
     DEF OutcomeOf

\* With one entry for each name, there is no other exactly when there are as
\* many entries as names.
LEMMA OneForEach ==
    ASSUME NEW S, NEW s \in Seq(S), NEW N, IsFiniteSet(N), \A n \in N : \E k \in DOMAIN s : For(n, s) = {k}
    PROVE  Len(s) = Cardinality(N) <=> Ids(s) \subseteq N
<1> DEFINE D == 1..Len(s)
           f == [n \in N |-> CHOOSE k \in D : For(n, s) = {k}]
<1>1. Len(s) \in Nat /\ DOMAIN s = D
  OBVIOUS
<1>2. IsFiniteSet(D) /\ Cardinality(D) = Len(s)
  BY <1>1, FS_Interval
<1> HIDE DEF D
<1>3. \A n \in N : f[n] \in D /\ For(n, s) = {f[n]}
  BY <1>1
<1> HIDE DEF f
<1>4. \A n \in N : s[f[n]].id = n
  <2> SUFFICES ASSUME NEW n \in N PROVE s[f[n]].id = n
    OBVIOUS
  <2>1. f[n] \in For(n, s)
    BY <1>3
  <2> QED
    BY <2>1 DEF For
<1>5. f \in [N -> D]
  BY <1>3 DEF f
<1>6. f \in Injection(N, D)
  BY <1>4, <1>5 DEF Injection, IsInjective
<1>7. Cardinality(N) = Cardinality(D) <=> f \in Surjection(N, D)
  BY <1>2, <1>6, FS_Injection
<1>8. f \in Surjection(N, D) <=> \A k \in D : \E n \in N : f[n] = k
  BY <1>5 DEF Surjection
<1>9. ASSUME NEW k \in D PROVE (\E n \in N : f[n] = k) <=> s[k].id \in N
  <2>1. ASSUME NEW n \in N, f[n] = k PROVE s[k].id \in N
    BY <1>4, <2>1
  <2>2. ASSUME s[k].id \in N PROVE \E n \in N : f[n] = k
    <3>1. k \in For(s[k].id, s)
      BY <1>1 DEF For
    <3>2. k = f[s[k].id]
      BY <1>3, <2>2, <3>1
    <3> QED
      BY <2>2, <3>2
  <2> QED
    BY <2>1, <2>2
<1>10. (\A k \in D : s[k].id \in N) <=> Ids(s) \subseteq N
  BY <1>1 DEF Ids
<1> QED
  BY <1>2, <1>7, <1>8, <1>9, <1>10

----------------------------------------------------------------------------
\* A contribution that verifies is the closed form of the constants its
\* certificate holds, and one term of it: the others are zero.
CertificatesOf == [interface_id : STRING, digest : [seam : SeamCorrectionData],
                   contribution : Int \X Nat, witness : SeamCorrectionData]

Backed(e, cert) ==
    /\ e.id = cert.interface_id /\ e.value = <<closed_form_delta(cert.witness), 1>>
    /\ \E r \in {Registry[i] : i \in DOMAIN Registry} :
         r.id = cert.interface_id /\ e.value = <<slot_coefficient[r.slot] * cert.witness[r.slot], 1>>

LEMMA OneTerm ==
    ASSUME NEW mu \in SeamCorrectionData, NEW slot \in Slots, other_slots_zero(slot, mu)
    PROVE  closed_form_delta(mu) = slot_coefficient[slot] * mu[slot]
<1>1. mu.VW \in Int /\ mu.U_VvW \in Int /\ mu.UV \in Int /\ mu.UvV_W \in Int
      /\ DOMAIN mu = {"VW", "UvV_W", "U_VvW", "UV"}
  BY DEF SeamCorrectionData
<1>2. /\ slot_coefficient["VW"] = 1 /\ slot_coefficient["UvV_W"] = -1
      /\ slot_coefficient["U_VvW"] = 1 /\ slot_coefficient["UV"] = -1
  BY DEF slot_coefficient
<1>3. CASE slot = "VW"
  <2>1. mu.UvV_W = 0 /\ mu.U_VvW = 0 /\ mu.UV = 0
    BY <1>1, <1>3 DEF other_slots_zero
  <2> QED
    BY <1>1, <1>2, <1>3, <2>1 DEF closed_form_delta
<1>4. CASE slot = "UvV_W"
  <2>1. mu.VW = 0 /\ mu.U_VvW = 0 /\ mu.UV = 0
    BY <1>1, <1>4 DEF other_slots_zero
  <2> QED
    BY <1>1, <1>2, <1>4, <2>1 DEF closed_form_delta
<1>5. CASE slot = "U_VvW"
  <2>1. mu.VW = 0 /\ mu.UvV_W = 0 /\ mu.UV = 0
    BY <1>1, <1>5 DEF other_slots_zero
  <2> QED
    BY <1>1, <1>2, <1>5, <2>1 DEF closed_form_delta
<1>6. CASE slot = "UV"
  <2>1. mu.VW = 0 /\ mu.UvV_W = 0 /\ mu.U_VvW = 0
    BY <1>1, <1>6 DEF other_slots_zero
  <2> QED
    BY <1>1, <1>2, <1>6, <2>1 DEF closed_form_delta
<1> QED
  BY <1>3, <1>4, <1>5, <1>6 DEF Slots

LEMMA RequiredAre == \A k \in DOMAIN Required : Required[k] \in RequiredInterfaces
<1> DEFINE S == [id : STRING, digest : STRING]
<1>1. Required \in Seq(S)
  BY EvidenceAssumption
<1> HIDE DEF S
<1>2. \A k \in DOMAIN Required : Required[k] \in S
  BY <1>1
<1> QED
  BY <1>2 DEF S, RequiredInterfaces

LEMMA RegisteredAre ==
    /\ \A i \in DOMAIN Registry : Registry[i] \in [id : STRING, slot : Slots]
    /\ DOMAIN Registry \subseteq Nat
<1> DEFINE S == [id : STRING, slot : Slots]
<1>1. Registry \in Seq(S)
  BY EvidenceAssumption
<1> HIDE DEF S
<1>2. (\A i \in DOMAIN Registry : Registry[i] \in S) /\ DOMAIN Registry \subseteq Nat
  BY <1>1
<1> QED
  BY <1>2 DEF S

LEMMA VerifiedIs ==
    ASSUME NEW cert, cert.witness \in SeamCorrectionData, verify_contribution(Registry, cert).verified,
           NEW e, e.id = cert.interface_id, e.value = verify_contribution(Registry, cert).value
    PROVE  /\ Backed(e, cert) /\ cert.interface_id \in STRING
           /\ cert.contribution = e.value /\ e.value \in Int \X Nat /\ cert.digest = [seam |-> cert.witness]
<1> DEFINE found == lookup(Registry, cert.interface_id)
           no(why) == [verified |-> FALSE, reason |-> why]
           slot == Registry[First(found)].slot
           result == IF found = {} THEN no("unknown interface identifier")
                     ELSE IF compute_digest(cert.witness) # cert.digest THEN no("digest mismatch")
                     ELSE IF ~other_slots_zero(slot, cert.witness) THEN no("slot violation")
                     ELSE IF cert.contribution # <<closed_form_delta(cert.witness), 1>> THEN no("value mismatch")
                     ELSE [verified |-> TRUE, value |-> cert.contribution]
<1>1. verify_contribution(Registry, cert) = result
  BY Zenon DEF verify_contribution
<1>2. found \subseteq DOMAIN Registry /\ DOMAIN Registry \subseteq Nat
  BY RegisteredAre DEF lookup
<1>3. \A i \in found : Registry[i] \in [id : STRING, slot : Slots] /\ Registry[i].id = cert.interface_id
  BY RegisteredAre DEF lookup
<1> HIDE DEF found
<1>4. /\ found # {} /\ compute_digest(cert.witness) = cert.digest
      /\ other_slots_zero(slot, cert.witness)
      /\ cert.contribution = <<closed_form_delta(cert.witness), 1>> /\ e.value = cert.contribution
  <2> DEFINE known == found # {}
             same == compute_digest(cert.witness) = cert.digest
             alone == other_slots_zero(slot, cert.witness)
             right == cert.contribution = <<closed_form_delta(cert.witness), 1>>
             yes == [verified |-> TRUE, value |-> cert.contribution]
  <2>1. result = yes \/ \E why : result = no(why)
    OBVIOUS
  <2>2. ~(known /\ same /\ alone /\ right) => \E why : result = no(why)
    <3> HIDE DEF no, slot
    <3> QED
      OBVIOUS
  <2>3. \A why : no(why).verified = FALSE
    OBVIOUS
  <2> HIDE DEF no, result, known, same, alone, right, yes
  <2>4. ASSUME NEW why, result = no(why) PROVE FALSE
    BY <1>1, <2>3, <2>4, Zenon
  <2>5. known /\ same /\ alone /\ right /\ result = yes
    BY <2>1, <2>2, <2>4
  <2>6. yes.value = cert.contribution
    BY DEF yes
  <2>7. e.value = cert.contribution
    BY <1>1, <2>5, <2>6
  <2> QED
    BY <2>5, <2>7 DEF known, same, alone, right
<1>5. First(found) \in found
  <2>1. \E k \in found : \A j \in found : k <= j
    BY <1>2, <1>4, Least
  <2> QED
    BY <2>1, Zenon DEF First
<1> DEFINE r == Registry[First(found)]
<1>6. r \in [id : STRING, slot : Slots] /\ r.id = cert.interface_id
  BY <1>3, <1>5
<1>7. r \in {Registry[i] : i \in DOMAIN Registry}
  BY <1>2, <1>5
<1>8. slot = r.slot
  OBVIOUS
<1> HIDE DEF r, slot
<1>9. closed_form_delta(cert.witness) = slot_coefficient[r.slot] * cert.witness[r.slot]
  BY <1>4, <1>6, <1>8, OneTerm
<1>10. closed_form_delta(cert.witness) \in Int
  BY DeltaIs
<1> QED
  BY <1>4, <1>6, <1>7, <1>9, <1>10 DEF Backed, compute_digest

----------------------------------------------------------------------------
(* The evidence at hand at any time. Every value in it is backed by the    *)
(* certificate beside it, and the report is of this evidence.              *)

EvidenceRight(p) ==
    /\ p.report = assemble(Required, p.adm, p.con)
    /\ p.adm \in Seq(AdmissionsOf) /\ p.con \in Seq(ContributionsOf) /\ p.certs \in Seq(CertificatesOf)
    /\ Len(p.certs) = Len(p.con)
    /\ \A k \in DOMAIN p.con : Backed(p.con[k], p.certs[k])

AssemblyInv == probe.kind = "assembly" => EvidenceRight(probe)

LEMMA AssemblyIs ==
    ASSUME NEW adm, NEW con, NEW certs
    PROVE  /\ Assembly(adm, con, certs).kind = "assembly"
           /\ Assembly(adm, con, certs).adm = adm
           /\ Assembly(adm, con, certs).con = con
           /\ Assembly(adm, con, certs).certs = certs
           /\ Assembly(adm, con, certs).report = assemble(Required, adm, con)
<1> DEFINE report == assemble(Required, adm, con)
<1>1. Assembly(adm, con, certs) = [kind |-> "assembly", adm |-> adm, con |-> con, certs |-> certs, report |-> report]
  BY Zenon DEF Assembly
<1> HIDE DEF report
<1> DEFINE p == Assembly(adm, con, certs)
<1> HIDE DEF p
<1>2. p.kind = "assembly" /\ p.adm = adm /\ p.con = con /\ p.certs = certs /\ p.report = report
  BY <1>1 DEF p
<1> QED
  BY <1>2 DEF report, p

\* The certificate of a submission, theirs or the accepted one.
LEMMA SubmittedIs ==
    ASSUME FilesInv, CoarseCertified, NEW c \in Others \cup {Certified(Required[k]) : k \in Certifiable},
           verify_contribution(Registry, c.cert).verified,
           NEW e, e = [id |-> c.cert.interface_id, digest |-> c.digest,
                       value |-> verify_contribution(Registry, c.cert).value]
    PROVE  e \in ContributionsOf /\ c.cert \in CertificatesOf /\ Backed(e, c.cert)
<1>0. e.id = c.cert.interface_id /\ e.value = verify_contribution(Registry, c.cert).value
  OBVIOUS
<1>1. /\ c.digest \in STRING /\ c.cert.witness \in SeamCorrectionData
      /\ c.cert = [interface_id |-> c.cert.interface_id, digest |-> c.cert.digest,
                   contribution |-> c.cert.contribution, witness |-> c.cert.witness]
  <2>1. CASE c \in Others
    BY <2>1, EvidenceAssumption DEF Submissions
  <2>2. CASE c \in {Certified(Required[k]) : k \in Certifiable}
    <3>1. PICK k \in DOMAIN Required :
            /\ Required[k].id \in DOMAIN judged.cert.mu_by_seam /\ c = Certified(Required[k])
      BY <2>2 DEF Certifiable
    <3>2. Required[k] \in RequiredInterfaces
      BY RequiredAre
    <3>2a. Required[k].id \in STRING /\ Required[k].digest \in STRING
      BY <3>2 DEF RequiredInterfaces
    <3> DEFINE mu == judged.cert.mu_by_seam[Required[k].id]
               d == compute_digest(mu)
               v == judged.cert.defects[Required[k].id]
    <3>3. c = [cert |-> [interface_id |-> Required[k].id, digest |-> d, contribution |-> v, witness |-> mu],
               digest |-> Required[k].digest]
      BY <3>1, Zenon DEF Certified
    <3>4. mu \in SeamCorrectionData
      <4>1. PICK w \in emitted(src) : judged = Saved(w)
        BY DEF CoarseCertified
      <4>2. judged.cert = w
        BY <4>1 DEF Saved
      <4>3. LegalCertificate(w)
        BY FilesAssumption, WrittenLegal DEF FilesInv
      <4> QED
        BY <3>1, <4>2, <4>3 DEF LegalCertificate
    <3> HIDE DEF mu, d, v
    <3> QED
      BY <3>2a, <3>3, <3>4
  <2> QED
    BY <2>1, <2>2
<1>2. /\ Backed(e, c.cert) /\ c.cert.interface_id \in STRING
      /\ c.cert.contribution = e.value /\ e.value \in Int \X Nat /\ c.cert.digest = [seam |-> c.cert.witness]
  BY <1>0, <1>1, VerifiedIs
<1>3. e \in ContributionsOf
  BY <1>0, <1>1, <1>2 DEF ContributionsOf
<1>4. c.cert \in CertificatesOf
  BY <1>1, <1>2 DEF CertificatesOf
<1> QED
  BY <1>2, <1>3, <1>4

\* One more entry at the end of a list.
LEMMA OneEntryMore ==
    ASSUME NEW S, NEW s \in Seq(S), NEW x \in S, NEW t, t = Append(s, x)
    PROVE  /\ t \in Seq(S) /\ Len(s) \in Nat /\ Len(t) = Len(s) + 1
           /\ DOMAIN s = 1..Len(s) /\ DOMAIN t = 1..(Len(s) + 1)
           /\ t[Len(s) + 1] = x /\ \A k \in 1..Len(s) : t[k] = s[k]
  OBVIOUS

\* What a step of an assembly to an assembly is.
Received(p, q) ==
    \/ q = p
    \/ \E a \in AdmissionsOf : /\ q.adm = Append(p.adm, a) /\ q.con = p.con /\ q.certs = p.certs
                               /\ q.report = assemble(Required, q.adm, q.con)
    \/ \E e \in ContributionsOf, cert \in CertificatesOf :
          /\ Backed(e, cert) /\ q.adm = p.adm /\ q.con = Append(p.con, e) /\ q.certs = Append(p.certs, cert)
          /\ q.report = assemble(Required, q.adm, q.con)

LEMMA AdmitIs == ASSUME Admit PROVE Received(probe, probe')
<1>1. PICK a \in Admissions : probe' = Assembly(Append(probe.adm, a), probe.con, probe.certs)
  BY DEF Admit
<1>2. a \in AdmissionsOf
  BY EvidenceAssumption DEF AdmissionsOf
<1> DEFINE adm == Append(probe.adm, a)
           con == probe.con
           certs == probe.certs
           new == Assembly(adm, con, certs)
           report == assemble(Required, adm, con)
<1>3. probe' = new
  BY <1>1
<1>4. /\ probe'.adm = adm /\ probe'.con = con /\ probe'.certs = certs /\ probe'.report = report
  <2>1. new.adm = adm /\ new.con = con /\ new.certs = certs /\ new.report = report
    <3> HIDE DEF adm, con, certs
    <3> QED
      BY AssemblyIs
  <2> HIDE DEF adm, con, certs, new, report
  <2> QED
    BY <1>3, <2>1
<1> QED
  BY <1>2, <1>4 DEF Received

LEMMA ContributeIs == ASSUME FilesInv, CoarseCertified, Contribute PROVE Received(probe, probe')
<1>1. PICK c \in Others \cup {Certified(Required[k]) : k \in Certifiable} :
        \E v \in {verify_contribution(Registry, c.cert)} :
         probe' = IF v.verified
                    THEN Assembly(probe.adm,
                                  Append(probe.con, [id |-> c.cert.interface_id, digest |-> c.digest, value |-> v.value]),
                                  Append(probe.certs, c.cert))
                    ELSE probe
  BY DEF Contribute
<1> DEFINE v == verify_contribution(Registry, c.cert)
           e == [id |-> c.cert.interface_id, digest |-> c.digest, value |-> v.value]
<1>2. probe' = IF v.verified THEN Assembly(probe.adm, Append(probe.con, e), Append(probe.certs, c.cert)) ELSE probe
  BY <1>1
<1>3. CASE v.verified
  <2>1. e \in ContributionsOf /\ c.cert \in CertificatesOf /\ Backed(e, c.cert)
    BY <1>3, SubmittedIs
  <2> HIDE DEF e, v
  <2>2. probe' = Assembly(probe.adm, Append(probe.con, e), Append(probe.certs, c.cert))
    BY <1>2, <1>3
  <2> DEFINE adm == probe.adm
             con == Append(probe.con, e)
             certs == Append(probe.certs, c.cert)
             new == Assembly(adm, con, certs)
             report == assemble(Required, adm, con)
  <2>4. /\ probe'.adm = adm /\ probe'.con = con /\ probe'.certs = certs /\ probe'.report = report
    <3>1. new.adm = adm /\ new.con = con /\ new.certs = certs /\ new.report = report
      <4> HIDE DEF adm, con, certs
      <4> QED
        BY AssemblyIs
    <3>2. probe' = new
      BY <2>2
    <3> HIDE DEF adm, con, certs, new, report
    <3> QED
      BY <3>1, <3>2
  <2> QED
    BY <2>1, <2>4 DEF Received
<1>4. CASE ~v.verified
  <2> HIDE DEF v
  <2>1. probe' = probe
    BY <1>2, <1>4
  <2> QED
    BY <2>1 DEF Received
<1> QED
  BY <1>3, <1>4

LEMMA ReceivedKeeps ==
    ASSUME NEW p, NEW q, EvidenceRight(p), Received(p, q)
    PROVE  EvidenceRight(q)
<1>0. /\ p.report = assemble(Required, p.adm, p.con)
      /\ p.adm \in Seq(AdmissionsOf) /\ p.con \in Seq(ContributionsOf) /\ p.certs \in Seq(CertificatesOf)
      /\ Len(p.certs) = Len(p.con)
      /\ \A k \in DOMAIN p.con : Backed(p.con[k], p.certs[k])
  BY DEF EvidenceRight
<1>1. CASE q = p
  BY <1>1
<1>2. ASSUME NEW a \in AdmissionsOf, q.adm = Append(p.adm, a), q.con = p.con, q.certs = p.certs,
             q.report = assemble(Required, q.adm, q.con)
      PROVE  EvidenceRight(q)
  <2>1. q.adm \in Seq(AdmissionsOf)
    BY <1>0, <1>2, OneEntryMore
  <2> QED
    BY <1>0, <1>2, <2>1 DEF EvidenceRight
<1>3. ASSUME NEW e \in ContributionsOf, NEW cert \in CertificatesOf, Backed(e, cert),
             q.adm = p.adm, q.con = Append(p.con, e), q.certs = Append(p.certs, cert),
             q.report = assemble(Required, q.adm, q.con)
      PROVE  EvidenceRight(q)
  <2> DEFINE n == Len(p.con)
  <2>1. /\ q.con \in Seq(ContributionsOf) /\ n \in Nat /\ Len(q.con) = n + 1
        /\ DOMAIN p.con = 1..n /\ DOMAIN q.con = 1..(n + 1)
        /\ q.con[n + 1] = e /\ \A k \in 1..n : q.con[k] = p.con[k]
    BY <1>0, <1>3, OneEntryMore
  <2>2. /\ q.certs \in Seq(CertificatesOf) /\ Len(q.certs) = n + 1
        /\ q.certs[n + 1] = cert /\ \A k \in 1..n : q.certs[k] = p.certs[k]
    BY <1>0, <1>3, OneEntryMore
  <2> HIDE DEF n
  <2>3. ASSUME NEW k \in 1..(n + 1) PROVE Backed(q.con[k], q.certs[k])
    <3>1. k \in 1..n \/ k = n + 1
      BY <2>1
    <3> QED
      BY <1>0, <1>3, <2>1, <2>2, <3>1
  <2> QED
    BY <1>0, <1>3, <2>1, <2>2, <2>3 DEF EvidenceRight
<1> QED
  BY <1>1, <1>2, <1>3 DEF Received

\* No other step leads into an assembly or goes on from one.
LEMMA IntoAssembly ==
    ASSUME [Next]_vars, probe'.kind = "assembly"
    PROVE  \/ probe' = probe
           \/ probe = Idle /\ BeginAssembly
           \/ probe.kind = "assembly" /\ Admit
           \/ probe.kind = "assembly" /\ CoarseCertified /\ Contribute
<1>1. CASE UNCHANGED probe
  BY <1>1
<1>2. CASE Probe
  <2> DEFINE others == {"witness", "second", "disjoint", "coupled", "cancelled", "survivor", "matrices", "idle"}
  <2>1. probe'.kind \in others
    <3>1. CASE CheckWitness
      <4>1. probe'.kind = "witness"
        BY <3>1 DEF CheckWitness
      <4> QED
        BY <4>1
    <3>2. CASE SecondStep
      <4>1. probe'.kind = "second"
        BY <3>2 DEF SecondStep
      <4> QED
        BY <4>1
    <3>3. CASE Scenario
      <4>1. probe'.kind = "second"
        BY <3>3 DEF Scenario
      <4> QED
        BY <4>1
    <3>4. CASE SideBySide
      <4>1. probe'.kind = "disjoint"
        BY <3>4 DEF SideBySide
      <4> QED
        BY <4>1
    <3>5. CASE Glue
      <4>1. probe'.kind = "coupled"
        BY <3>5 DEF Glue
      <4> QED
        BY <4>1
    <3>6. CASE Cancel
      <4>1. probe'.kind = "cancelled"
        BY <3>6 DEF Cancel
      <4> QED
        BY <4>1
    <3>7. CASE FirstMap
      <4>1. probe'.kind = "survivor"
        BY <3>7 DEF FirstMap
      <4> QED
        BY <4>1
    <3>8. CASE SecondMap
      <4>1. probe'.kind = "matrices"
        BY <3>8 DEF SecondMap
      <4> QED
        BY <4>1
    <3>9. CASE NextTurn
      <4>1. probe'.kind = "idle"
        BY <3>9 DEF NextTurn, Idle
      <4> QED
        BY <4>1
    <3> HIDE DEF others
    <3> QED
      BY <1>2, <3>1, <3>2, <3>3, <3>4, <3>5, <3>6, <3>7, <3>8, <3>9 DEF Probe
  <2> QED
    BY <2>1
<1>3. CASE CoarseCertified /\ Beside
  <2>1. CASE Measure
    <3>1. probe'.kind = "measured"
      BY <2>1 DEF Measure
    <3> QED
      BY <3>1
  <2>2. CASE Cross
    <3>1. probe'.kind = "crossed"
      BY <2>2 DEF Cross
    <3> QED
      BY <3>1
  <2>3. CASE BeginAssembly
    BY <2>3 DEF BeginAssembly
  <2>4. CASE Admit
    BY <2>4 DEF Admit
  <2>5. CASE Contribute
    BY <1>3, <2>5 DEF Contribute
  <2> QED
    BY <1>3, <2>1, <2>2, <2>3, <2>4, <2>5 DEF Beside
<1> QED
  BY <1>1, <1>2, <1>3 DEF Next, vars

\* Every value in an assembly has a certificate behind it.
THEOREM EvidenceKept == Spec => [](FilesInv /\ AssemblyInv)
<1>1. Init => AssemblyInv
  BY DEF Init, InitProbe, Idle, AssemblyInv
<1>2. FilesInv /\ AssemblyInv /\ [Next]_vars => AssemblyInv'
  <2> SUFFICES ASSUME FilesInv, AssemblyInv, [Next]_vars, probe'.kind = "assembly"
               PROVE  EvidenceRight(probe')
    BY DEF AssemblyInv
  <2>1. CASE probe' = probe
    BY <2>1 DEF AssemblyInv
  <2>2. CASE BeginAssembly
    <3>1. probe' = Assembly(<<>>, <<>>, <<>>)
      BY <2>2 DEF BeginAssembly
    <3>2. /\ probe'.adm = <<>> /\ probe'.con = <<>> /\ probe'.certs = <<>>
          /\ probe'.report = assemble(Required, <<>>, <<>>)
      BY <3>1, AssemblyIs
    <3>3. <<>> \in Seq(AdmissionsOf) /\ <<>> \in Seq(ContributionsOf) /\ <<>> \in Seq(CertificatesOf)
      OBVIOUS
    <3>4. DOMAIN <<>> = {}
      OBVIOUS
    <3> QED
      BY <3>2, <3>3, <3>4 DEF EvidenceRight
  <2>3. CASE probe.kind = "assembly" /\ Received(probe, probe')
    BY <2>3, ReceivedKeeps DEF AssemblyInv
  <2> QED
    BY <2>1, <2>2, <2>3, IntoAssembly, AdmitIs, ContributeIs
<1> QED
  BY <1>1, <1>2, FilesKept, PTL DEF Spec

----------------------------------------------------------------------------
(* The vector of a complete assembly.                                      *)

\* An interface's constants on the regions of the Venn picture.
OnVenn(cert) == [seam |-> cert.interface_id, U |-> {1, 4}, V |-> {2, 4}, W |-> {3, 4}, mu |-> cert.witness]

LEMMA OnVennIs ==
    ASSUME NEW cert \in CertificatesOf
    PROVE  /\ OnVenn(cert) \in SeamInstance /\ OnVenn(cert).seam = cert.interface_id
           /\ compute_seam_residue(OnVenn(cert)) = {closed_form_delta(cert.witness)}
<1> DEFINE i == OnVenn(cert)
<1>1. cert.interface_id \in STRING /\ cert.witness \in SeamCorrectionData
  BY DEF CertificatesOf
<1>2. {1, 4} \in Regions /\ {2, 4} \in Regions /\ {3, 4} \in Regions
  BY EvidenceAssumption DEF Regions
<1>3. i \in SeamInstance
  BY <1>1, <1>2 DEF SeamInstance, OnVenn
<1>4. triple_overlap(i) = {4}
  BY DEF triple_overlap, OnVenn
<1>5. i.seam = cert.interface_id /\ i.mu = cert.witness
  BY DEF OnVenn
<1> HIDE DEF i
<1>6. Cardinality(triple_overlap(i)) = 1
  BY <1>4, FS_Singleton
<1>7. compute_seam_residue(i) = {closed_form_delta(i.mu)}
  BY <1>3, <1>6, SeamResidueIs
<1> QED
  BY <1>3, <1>5, <1>7 DEF i

LEMMA VectorIs ==
    ASSUME NEW p, EvidenceRight(p), \A k \in DOMAIN Required : SuppliedBy(Required[k], p.adm, p.con)
    PROVE  residue_vector([k \in DOMAIN p.certs |-> OnVenn(p.certs[k])], [k \in DOMAIN Required |-> Required[k].id])
             = {[k \in DOMAIN Required |-> p.con[First(For(Required[k].id, p.con))].value]}
<1> DEFINE instances == [k \in DOMAIN p.certs |-> OnVenn(p.certs[k])]
           seams == [k \in DOMAIN Required |-> Required[k].id]
           values(k) == UNION {compute_seam_residue(i) : i \in Instance(instances, seams[k])}
           value(k) == p.con[First(For(Required[k].id, p.con))].value
<1>1. /\ p.certs \in Seq(CertificatesOf) /\ p.con \in Seq(ContributionsOf) /\ Len(p.certs) = Len(p.con)
      /\ \A k \in DOMAIN p.con : Backed(p.con[k], p.certs[k])
  BY DEF EvidenceRight
<1>2. /\ DOMAIN p.certs = DOMAIN p.con /\ DOMAIN p.con \subseteq Nat
      /\ \A k \in DOMAIN p.con : p.certs[k] \in CertificatesOf
  BY <1>1
<1>3. \A k \in DOMAIN p.con :
        /\ instances[k].seam = p.con[k].id
        /\ compute_seam_residue(instances[k]) = {closed_form_delta(p.certs[k].witness)}
        /\ p.con[k].value = <<closed_form_delta(p.certs[k].witness), 1>>
  <2> SUFFICES ASSUME NEW k \in DOMAIN p.con
               PROVE  /\ instances[k].seam = p.con[k].id
                      /\ compute_seam_residue(instances[k]) = {closed_form_delta(p.certs[k].witness)}
                      /\ p.con[k].value = <<closed_form_delta(p.certs[k].witness), 1>>
    OBVIOUS
  <2>1. instances[k] = OnVenn(p.certs[k])
    BY <1>2
  <2>2. Backed(p.con[k], p.certs[k]) /\ p.certs[k] \in CertificatesOf
    BY <1>1, <1>2
  <2> HIDE DEF instances
  <2>3. /\ OnVenn(p.certs[k]).seam = p.certs[k].interface_id
        /\ compute_seam_residue(OnVenn(p.certs[k])) = {closed_form_delta(p.certs[k].witness)}
    BY <2>2, OnVennIs
  <2>4. p.con[k].id = p.certs[k].interface_id /\ p.con[k].value = <<closed_form_delta(p.certs[k].witness), 1>>
    BY <2>2 DEF Backed
  <2> QED
    BY <2>1, <2>3, <2>4
<1>4. DOMAIN instances = DOMAIN p.con
  BY <1>2
<1>5. DOMAIN seams = DOMAIN Required /\ \A k \in DOMAIN Required : seams[k] = Required[k].id
  OBVIOUS
<1> HIDE DEF instances, seams
<1>6. Compiles(instances)
  BY <1>3, <1>4 DEF Compiles
<1>7. ASSUME NEW k \in DOMAIN Required
      PROVE  Instance(instances, seams[k]) # {} /\ value(k) = <<CHOOSE v \in values(k) : TRUE, 1>>
  <2>1. PICK j \in DOMAIN p.con : For(Required[k].id, p.con) = {j}
    BY DEF SuppliedBy
  <2>2. First({j}) = j
    BY <1>2, FirstOfOne
  <2>3. {l \in DOMAIN instances : instances[l].seam = seams[k]} = {j}
    BY <1>3, <1>4, <1>5, <2>1 DEF For
  <2> DEFINE ks == {l \in DOMAIN instances : instances[l].seam = seams[k]}
  <2>4. Instance(instances, seams[k]) = {instances[l] : l \in {i \in ks : \A m \in ks : m <= i}}
    BY DEF Instance
  <2>5. ks = {j} /\ j \in Nat
    BY <1>2, <2>3
  <2> HIDE DEF ks
  <2>6. {i \in ks : \A m \in ks : m <= i} = {j}
    BY <2>5
  <2>7. Instance(instances, seams[k]) = {instances[j]}
    BY <2>4, <2>6
  <2>8. values(k) = {closed_form_delta(p.certs[j].witness)}
    BY <1>3, <2>7
  <2>9. value(k) = <<closed_form_delta(p.certs[j].witness), 1>>
    BY <1>3, <2>1, <2>2
  <2> HIDE DEF values, value
  <2> QED
    BY <2>7, <2>8, <2>9
<1>8. \A k \in DOMAIN seams : Instance(instances, seams[k]) # {}
  BY <1>5, <1>7
<1>9. residue_vector(instances, seams) = {[k \in DOMAIN seams |-> <<CHOOSE v \in values(k) : TRUE, 1>>]}
  BY <1>6, <1>8 DEF residue_vector
<1> HIDE DEF values, value
<1>10. [k \in DOMAIN seams |-> <<CHOOSE v \in values(k) : TRUE, 1>>] = [k \in DOMAIN Required |-> value(k)]
  BY <1>5, <1>7
<1> QED
  BY <1>9, <1>10 DEF instances, seams, value

LEMMA ReportSupported == ASSUME EvidenceRight(probe) PROVE OutcomeSupported
<1> DEFINE required == {Required[k] : k \in DOMAIN Required}
           names == {req.id : req \in required}
           adm == probe.adm
           con == probe.con
           res == probe.report
<1>1. /\ res = assemble(Required, adm, con) /\ adm \in Seq(AdmissionsOf) /\ con \in Seq(ContributionsOf)
      /\ probe.certs \in Seq(CertificatesOf) /\ Len(probe.certs) = Len(con)
      /\ \A k \in DOMAIN con : Backed(con[k], probe.certs[k])
  BY DEF EvidenceRight
<1>2. \A req : Opposed(req) <=> OpposedBy(req, adm, con)
  BY DEF Opposed, OpposedBy, Sole
<1>3. \A req : Supplied(req) <=> SuppliedBy(req, adm, con)
  BY DEF Supplied, SuppliedBy, Sole
<1>4. names = Ids(Required) /\ IsFiniteSet(names)
  <2>1. names = Ids(Required)
    BY DEF Ids
  <2>2. IsFiniteSet(DOMAIN Required)
    <3>1. DOMAIN Required = 1..Len(Required) /\ Len(Required) \in Nat
      BY EvidenceAssumption
    <3> QED
      BY <3>1, FS_Interval
  <2>3. IsFiniteSet(Ids(Required))
    <3> DEFINE f == [k \in DOMAIN Required |-> Required[k].id]
    <3>1. f \in Surjection(DOMAIN Required, Ids(Required))
      BY DEF Surjection, Ids
    <3> HIDE DEF f
    <3> QED
      BY <2>2, <3>1, FS_Surjection
  <2> QED
    BY <2>1, <2>3
<1> HIDE DEF adm, con, res
<1>5. /\ res.outcome = "Refused" <=> \E k \in DOMAIN Required : OpposedBy(Required[k], adm, con)
      /\ res.outcome = "Refused" =>
           res.ids = {Required[k].id : k \in {i \in DOMAIN Required : OpposedBy(Required[i], adm, con)}}
      /\ res.outcome = "Complete" <=>
           /\ \A k \in DOMAIN Required : SuppliedBy(Required[k], adm, con)
           /\ Ids(adm) \cup Ids(con) \subseteq Ids(Required)
      /\ res.outcome = "Complete" =>
           res.values = [k \in DOMAIN Required |-> con[First(For(Required[k].id, con))].value]
  <2>1. OutcomeOf(Required, res, adm, con)
    BY <1>1, RequiredAre, OutcomeIs
  <2> QED
    BY <2>1 DEF OutcomeOf
<1>6. res.outcome = "Refused" <=> \E req \in required : Opposed(req)
  BY <1>2, <1>5
<1>7. {Required[k].id : k \in {i \in DOMAIN Required : OpposedBy(Required[i], adm, con)}}
        = {req.id : req \in {q \in required : Opposed(q)}}
  BY <1>2
<1>8. (\A k \in DOMAIN Required : SuppliedBy(Required[k], adm, con)) <=> \A req \in required : Supplied(req)
  BY <1>3
<1>9. ASSUME \A k \in DOMAIN Required : SuppliedBy(Required[k], adm, con)
      PROVE  Ids(adm) \cup Ids(con) \subseteq Ids(Required)
               <=> Len(adm) = Cardinality(names) /\ Len(con) = Cardinality(names)
  <2>1. \A n \in names : /\ \E k \in DOMAIN adm : For(n, adm) = {k}
                         /\ \E k \in DOMAIN con : For(n, con) = {k}
    BY <1>9 DEF SuppliedBy, Sole
  <2> HIDE DEF names
  <2>2. Len(adm) = Cardinality(names) <=> Ids(adm) \subseteq names
    BY <1>1, <1>4, <2>1, OneForEach
  <2>3. Len(con) = Cardinality(names) <=> Ids(con) \subseteq names
    BY <1>1, <1>4, <2>1, OneForEach
  <2> QED
    BY <1>4, <2>2, <2>3
<1>10. ASSUME \A k \in DOMAIN Required : SuppliedBy(Required[k], adm, con)
       PROVE  {[k \in DOMAIN Required |-> con[First(For(Required[k].id, con))].value]} =
                residue_vector([k \in DOMAIN probe.certs |->
                                  [seam |-> probe.certs[k].interface_id, U |-> {1, 4}, V |-> {2, 4}, W |-> {3, 4},
                                   mu |-> probe.certs[k].witness]], [k \in DOMAIN Required |-> Required[k].id])
  BY <1>10, VectorIs DEF OnVenn, adm, con
<1>11. \A k \in DOMAIN probe.certs :
         \E r \in {Registry[i] : i \in DOMAIN Registry} :
           /\ r.id = probe.certs[k].interface_id
           /\ probe.con[k].value = <<slot_coefficient[r.slot] * probe.certs[k].witness[r.slot], 1>>
  <2>1. DOMAIN probe.certs = DOMAIN con
    BY <1>1
  <2> QED
    BY <1>1, <2>1 DEF Backed, con
<1> QED
  BY <1>5, <1>6, <1>7, <1>8, <1>9, <1>10, <1>11 DEF OutcomeSupported, adm, con, res

----------------------------------------------------------------------------
(* What more evidence does.                                                *)

Prolongs(t, s) == DOMAIN s \subseteq DOMAIN t /\ \A k \in DOMAIN s : t[k] = s[k]

LEMMA PlacesKept ==
    ASSUME NEW s, NEW t, Prolongs(t, s), NEW id, NEW k \in For(id, s)
    PROVE  k \in For(id, t) /\ t[k] = s[k]
  BY DEF For, Prolongs

\* A piece that says one kind of an interface rules the others out for good.
LEMMA OneKind ==
    ASSUME NEW req, NEW s, NEW t, Prolongs(t, s), NEW kind, NEW other, Sole(req, s, kind), Sole(req, t, other)
    PROVE  kind = other
<1>1. PICK k \in DOMAIN s : For(req.id, s) = {k} /\ s[k] = [id |-> req.id, digest |-> req.digest, kind |-> kind]
  BY DEF Sole
<1>2. PICK l \in DOMAIN t : For(req.id, t) = {l} /\ t[l] = [id |-> req.id, digest |-> req.digest, kind |-> other]
  BY DEF Sole
<1>3. k \in For(req.id, t) /\ t[k] = s[k]
  BY <1>1, PlacesKept
<1>4. s[k].kind = kind /\ t[l].kind = other /\ k = l
  BY <1>1, <1>2, <1>3
<1> QED
  BY <1>3, <1>4

OneEach(N, s) == \A n \in N : \E k \in DOMAIN s : For(n, s) = {k}

\* One piece too many for a list that has one of each name and no other.
LEMMA NoRoom ==
    ASSUME NEW S, NEW s \in Seq(S), NEW x \in S, NEW t, t = Append(s, x), NEW N,
           OneEach(N, s), OneEach(N, t), Ids(t) \subseteq N
    PROVE  FALSE
<1>1. /\ Len(s) \in Nat /\ DOMAIN s = 1..Len(s) /\ DOMAIN t = 1..(Len(s) + 1)
      /\ t[Len(s) + 1] = x /\ \A k \in 1..Len(s) : t[k] = s[k]
  BY OneEntryMore
<1> DEFINE m == Len(s) + 1
<1>2. m \in DOMAIN t /\ m \notin DOMAIN s /\ Prolongs(t, s)
  BY <1>1 DEF Prolongs
<1> HIDE DEF m
<1>3. t[m].id \in N /\ m \in For(t[m].id, t)
  BY <1>2 DEF Ids, For
<1>4. PICK k \in DOMAIN s : For(t[m].id, s) = {k}
  BY <1>3 DEF OneEach
<1>5. k \in For(t[m].id, t)
  BY <1>2, <1>4, PlacesKept
<1>6. k = m
  <2>1. PICK l \in DOMAIN t : For(t[m].id, t) = {l}
    BY <1>3 DEF OneEach
  <2> QED
    BY <1>3, <1>5, <2>1
<1> QED
  BY <1>2, <1>6

LEMMA EachSupplied ==
    ASSUME NEW adm, NEW con, \A k \in DOMAIN Required : SuppliedBy(Required[k], adm, con)
    PROVE  OneEach(Ids(Required), adm) /\ OneEach(Ids(Required), con)
<1>1. \A k \in DOMAIN Required : /\ \E j \in DOMAIN adm : For(Required[k].id, adm) = {j}
                                 /\ \E j \in DOMAIN con : For(Required[k].id, con) = {j}
  BY DEF SuppliedBy, Sole
<1> QED
  BY <1>1 DEF Ids, OneEach

LEMMA AppendProlongs == ASSUME NEW S, NEW s \in Seq(S), NEW x \in S PROVE Prolongs(Append(s, x), s)
  BY OneEntryMore DEF Prolongs

LEMMA ReopensIs ==
    ASSUME NEW p, NEW q, EvidenceRight(p), EvidenceRight(q), Received(p, q), q # p
    PROVE  /\ p.report.outcome = "Refused" => q.report.outcome # "Complete"
           /\ p.report.outcome = "Complete" => q.report.outcome = "Unresolved"
<1>1. /\ p.report = assemble(Required, p.adm, p.con) /\ q.report = assemble(Required, q.adm, q.con)
      /\ p.adm \in Seq(AdmissionsOf) /\ p.con \in Seq(ContributionsOf)
      /\ q.adm \in Seq(AdmissionsOf) /\ q.con \in Seq(ContributionsOf)
  BY DEF EvidenceRight
<1>2. OutcomeOf(Required, p.report, p.adm, p.con)
  BY <1>1, RequiredAre, OutcomeIs
<1>3. OutcomeOf(Required, q.report, q.adm, q.con)
  BY <1>1, RequiredAre, OutcomeIs
<1>4. /\ q.adm = p.adm \/ \E a \in AdmissionsOf : q.adm = Append(p.adm, a)
      /\ q.con = p.con \/ \E e \in ContributionsOf : q.con = Append(p.con, e)
      /\ (\E a \in AdmissionsOf : q.adm = Append(p.adm, a)) \/ \E e \in ContributionsOf : q.con = Append(p.con, e)
  BY DEF Received
<1>5. Prolongs(q.adm, p.adm)
  BY <1>1, <1>4, AppendProlongs DEF Prolongs
<1>6. ASSUME p.report.outcome = "Refused", q.report.outcome = "Complete" PROVE FALSE
  <2>1. PICK k \in DOMAIN Required : OpposedBy(Required[k], p.adm, p.con)
    BY <1>2, <1>6 DEF OutcomeOf
  <2>2. SuppliedBy(Required[k], q.adm, q.con)
    BY <1>3, <1>6 DEF OutcomeOf
  <2>3. Sole(Required[k], p.adm, "Incompatible") /\ Sole(Required[k], q.adm, "Compatible")
    BY <2>1, <2>2 DEF OpposedBy, SuppliedBy
  <2>4. "Incompatible" = "Compatible"
    BY <1>5, <2>3, OneKind
  <2> QED
    BY <2>4
<1>7. ASSUME p.report.outcome = "Complete", q.report.outcome = "Refused" PROVE FALSE
  <2>1. PICK k \in DOMAIN Required : OpposedBy(Required[k], q.adm, q.con)
    BY <1>3, <1>7 DEF OutcomeOf
  <2>2. SuppliedBy(Required[k], p.adm, p.con)
    BY <1>2, <1>7 DEF OutcomeOf
  <2>3. Sole(Required[k], q.adm, "Incompatible") /\ Sole(Required[k], p.adm, "Compatible")
    BY <2>1, <2>2 DEF OpposedBy, SuppliedBy
  <2>4. "Incompatible" = "Compatible"
    BY <1>5, <2>3, OneKind
  <2> QED
    BY <2>4
<1>8. ASSUME p.report.outcome = "Complete", q.report.outcome = "Complete" PROVE FALSE
  <2> DEFINE N == Ids(Required)
  <2>1. OneEach(N, p.adm) /\ OneEach(N, p.con)
    <3>1. \A k \in DOMAIN Required : SuppliedBy(Required[k], p.adm, p.con)
      BY <1>2, <1>8 DEF OutcomeOf
    <3> QED
      BY <3>1, EachSupplied
  <2>2. OneEach(N, q.adm) /\ OneEach(N, q.con)
    <3>1. \A k \in DOMAIN Required : SuppliedBy(Required[k], q.adm, q.con)
      BY <1>3, <1>8 DEF OutcomeOf
    <3> QED
      BY <3>1, EachSupplied
  <2>3. Ids(q.adm) \subseteq N /\ Ids(q.con) \subseteq N
    BY <1>3, <1>8 DEF OutcomeOf
  <2> HIDE DEF N
  <2>4. ASSUME NEW a \in AdmissionsOf, q.adm = Append(p.adm, a) PROVE FALSE
    BY <1>1, <2>1, <2>2, <2>3, <2>4, NoRoom
  <2>5. ASSUME NEW e \in ContributionsOf, q.con = Append(p.con, e) PROVE FALSE
    BY <1>1, <2>1, <2>2, <2>3, <2>5, NoRoom
  <2> QED
    BY <1>4, <2>4, <2>5
<1> QED
  BY <1>3, <1>6, <1>7, <1>8 DEF OutcomeOf

(***************************************************************************)
(* The outcome is the one the evidence supports, in every order in which   *)
(* it can arrive, and what arrives later never turns a refusal into a      *)
(* vector nor leaves a vector standing.                                    *)
(***************************************************************************)
THEOREM AssemblySupported == Spec => AssembledAsSupported
<1>1. AssemblyInv => (probe.kind = "assembly" => OutcomeSupported)
  BY ReportSupported DEF AssemblyInv
<1>2. FilesInv /\ AssemblyInv /\ AssemblyInv' /\ [Next]_vars
        => [probe.kind = "assembly" /\ probe'.kind = "assembly" /\ probe' # probe => Reopened]_vars
  <2> SUFFICES ASSUME FilesInv, AssemblyInv, AssemblyInv', [Next]_vars,
                      probe.kind = "assembly", probe'.kind = "assembly", probe' # probe
               PROVE  Reopened
    OBVIOUS
  <2>1. EvidenceRight(probe) /\ EvidenceRight(probe')
    BY DEF AssemblyInv
  <2>2. probe # Idle
    BY DEF Idle
  <2>3. Received(probe, probe')
    BY <2>2, IntoAssembly, AdmitIs, ContributeIs
  <2>4. /\ probe.report.outcome = "Refused" => probe'.report.outcome # "Complete"
        /\ probe.report.outcome = "Complete" => probe'.report.outcome = "Unresolved"
    BY <2>1, <2>3, ReopensIs
  <2> QED
    BY <2>4 DEF Reopened
<1> QED
  BY <1>1, <1>2, EvidenceKept, PTL DEF Spec, AssembledAsSupported

----------------------------------------------------------------------------
(* Two branches at once. First what the conditions of refinement_checker   *)
(* say without matrices. At every vertex a vector on edges adds up to its  *)
(* boundary there, and it is a cycle when all of these are zero.           *)

\* What an edge adds to a vertex, what a vector on edges amounts to there, and
\* when it is a cycle.
Incidence(e, v)       == Minus(IF v = e.tgt THEN One ELSE Zero, IF v = e.src THEN One ELSE Zero)
Incidences(es, v, m)  == [i \in 1..m |-> Incidence(es[i], v)]
Boundary(x, es, v, m) == SumProducts(x, Incidences(es, v, m), m)
Closed(x, es, m)      == \A v : Boundary(x, es, v, m) = Zero

LEMMA IncidenceIs ==
    ASSUME NEW e, NEW v
    PROVE  /\ Incidence(e, v) \in Fractions
           /\ v \notin Ends(e) => Incidence(e, v) = Zero
           /\ e.src = e.tgt => Incidence(e, v) = Zero
           /\ v = e.tgt /\ v # e.src => Incidence(e, v) = One
           /\ v = e.src /\ v # e.tgt => Incidence(e, v) = MinusOne
<1>1. Zero \in Fractions /\ One \in Fractions /\ MinusOne \in Fractions
  BY ZeroOne, MinusOneIs
<1>2. Minus(Zero, Zero) = Zero /\ Minus(One, One) = Zero /\ Minus(One, Zero) = One
  BY <1>1, MinusSelf, MinusIs
<1>3. Minus(Zero, One) = MinusOne
  BY <1>1, MinusOneIs, TimesOne
<1> QED
  BY <1>1, <1>2, <1>3 DEF Incidence, Ends

LEMMA BoundaryIs ==
    ASSUME NEW m \in Nat, NEW x \in FractionRow(m), NEW es, NEW v
    PROVE  /\ Incidences(es, v, m) \in FractionRow(m)
           /\ Boundary(x, es, v, m) \in Fractions
           /\ (\A i \in 1..m : v \notin Ends(es[i])) => Boundary(x, es, v, m) = Zero
<1>1. \A i \in 1..m : Incidences(es, v, m)[i] = Incidence(es[i], v)
  BY DEF Incidences
<1>2. \A i \in 1..m : Incidences(es, v, m)[i] \in Fractions /\ x[i] \in Fractions
  BY <1>1, IncidenceIs DEF FractionRow
<1>3. Incidences(es, v, m) \in FractionRow(m)
  BY IncidenceIs DEF Incidences, FractionRow
<1>4. Boundary(x, es, v, m) \in Fractions
  BY <1>2, ProductsType DEF Boundary
<1>5. ASSUME \A i \in 1..m : v \notin Ends(es[i]) PROVE Boundary(x, es, v, m) = Zero
  <2>1. \A i \in 1..m : Incidences(es, v, m)[i] = Zero
    BY <1>1, <1>5, IncidenceIs
  <2>2. SumProducts(Incidences(es, v, m), x, m) = Zero
    BY <1>2, <2>1, ProductsOfZero
  <2> QED
    BY <1>2, <2>2, ProductsCommute DEF Boundary
<1> QED
  BY <1>3, <1>4, <1>5

PartsList(es, ea, m, eb, n) ==
    /\ \A i \in 1..m : es[i] = ea[i]
    /\ \A i \in 1..n : es[m + i] = eb[i]

\* On two lists of edges in a row a boundary is the sum of both.
LEMMA BoundaryJoined ==
    ASSUME NEW m \in Nat, NEW n \in Nat, NEW x, NEW a, NEW b, Parts(x, a, m, b, n),
           NEW es, NEW ea, NEW eb, PartsList(es, ea, m, eb, n), NEW v
    PROVE  Boundary(x, es, v, m + n) = Plus(Boundary(a, ea, v, m), Boundary(b, eb, v, n))
<1> DEFINE X == Incidences(es, v, m + n)
           A == Incidences(ea, v, m)
           B == Incidences(eb, v, n)
<1>1. \A k \in 1..(m + n) : x[k] \in Fractions /\ X[k] \in Fractions
  BY IncidenceIs DEF Incidences, FractionRow, Parts
<1>2. \A k \in 1..m : x[k] = a[k] /\ X[k] = A[k]
  <2>1. \A k \in 1..m : k \in 1..(m + n)
    OBVIOUS
  <2> QED
    BY <2>1 DEF Incidences, Parts, PartsList
<1>3. \A k \in 1..n : x[m + k] = b[k] /\ X[m + k] = B[k]
  <2>1. \A k \in 1..n : m + k \in 1..(m + n)
    OBVIOUS
  <2> QED
    BY <2>1 DEF Incidences, Parts, PartsList
<1> HIDE DEF X, A, B
<1>4. SumProducts(x, X, m + n) = Plus(SumProducts(a, A, m), SumProducts(b, B, n))
  <2>1. Splits(x, X, a, A, b, B, m, n)
    BY <1>1, <1>2, <1>3 DEF Splits
  <2> QED
    BY <2>1, ProductsSplit
<1> QED
  BY <1>4 DEF Boundary, X, A, B

\* Edges moved along a one-to-one map of the names of vertices.
Moves(moved, es, m, f) ==
    \A i \in 1..m : /\ es[i].src \in DOMAIN f /\ es[i].tgt \in DOMAIN f
                    /\ moved[i].src = f[es[i].src] /\ moved[i].tgt = f[es[i].tgt]

OneToOne(f) == \A a, b \in DOMAIN f : f[a] = f[b] => a = b

\* Giving the vertices other names, different ones to different ones, takes
\* the boundaries along.
LEMMA BoundaryMoved ==
    ASSUME NEW m \in Nat, NEW x \in FractionRow(m), NEW es, NEW moved, NEW f, Moves(moved, es, m, f), OneToOne(f)
    PROVE  /\ \A u \in DOMAIN f : Boundary(x, moved, f[u], m) = Boundary(x, es, u, m)
           /\ \A v : (\A u \in DOMAIN f : v # f[u]) => Boundary(x, moved, v, m) = Zero
<1>1. ASSUME NEW u \in DOMAIN f PROVE Boundary(x, moved, f[u], m) = Boundary(x, es, u, m)
  <2>1. \A i \in 1..m : (f[u] = moved[i].tgt <=> u = es[i].tgt) /\ (f[u] = moved[i].src <=> u = es[i].src)
    BY DEF Moves, OneToOne
  <2>2. \A i \in 1..m : Incidence(moved[i], f[u]) = Incidence(es[i], u)
    BY <2>1 DEF Incidence
  <2>3. Incidences(moved, f[u], m) = Incidences(es, u, m)
    BY <2>2 DEF Incidences
  <2> QED
    BY <2>3 DEF Boundary
<1>2. ASSUME NEW v, \A u \in DOMAIN f : v # f[u] PROVE Boundary(x, moved, v, m) = Zero
  <2>1. \A i \in 1..m : v \notin Ends(moved[i])
    BY <1>2 DEF Moves, Ends
  <2> QED
    BY <2>1, BoundaryIs
<1> QED
  BY <1>1, <1>2

\* The coboundary, entry by entry.
LEMMA Delta0Entries ==
    ASSUME NEW c, LegalComplex(c), NEW i \in 1..Len(c.edges), NEW j \in 1..Len(c.vertices)
    PROVE  delta0(c)[i][j] = Incidence(c.edges[i], c.vertices[j])
<1> DEFINE m == Len(c.edges)
           n == Len(c.vertices)
           row(h) == [k \in 1..n |-> Incidence(c.edges[h], c.vertices[k])]
<1>1. m \in Nat /\ n \in Nat /\ DOMAIN c.edges = 1..m /\ DOMAIN c.vertices = 1..n
  BY ComplexIs
<1>2. \A h \in 1..m : row(h) \in FractionRow(n)
  BY IncidenceIs DEF FractionRow
<1>3. delta0(c) = Computed([h \in 1..m |-> Computed(row(h))])
  BY <1>1 DEF delta0, coboundary_0, Incidence
<1>4. row(i)[j] = Incidence(c.edges[i], c.vertices[j])
  OBVIOUS
<1>5. i \in 1..m
  OBVIOUS
<1> HIDE DEF m, n, row
<1>6. \A h \in 1..m : Computed(row(h)) = row(h)
  BY <1>1, <1>2, RowIsSeq, ComputedIs
<1>7. [h \in 1..m |-> Computed(row(h))] = [h \in 1..m |-> row(h)]
  BY <1>6
<1>8. [h \in 1..m |-> row(h)] \in Seq(FractionRow(n))
  BY <1>1, <1>2
<1>9. delta0(c) = [h \in 1..m |-> row(h)]
  BY <1>3, <1>7, <1>8, ComputedIs
<1> QED
  BY <1>4, <1>5, <1>9

EndsIn(c) == \A k \in DOMAIN c.edges : Ends(c.edges[k]) \subseteq RangeOf(c.vertices)

\* A vector is a cycle when it is closed at every vertex.
LEMMA CycleIs ==
    ASSUME NEW c, LegalComplex(c), EndsIn(c), NEW x \in FractionRow(Len(c.edges))
    PROVE  /\ is_zero(row_vec_mat(x, delta0(c))) <=> Closed(x, c.edges, Len(c.edges))
           /\ is_zero(mat_vec(transpose(delta0(c)), x)) <=> Closed(x, c.edges, Len(c.edges))
<1> DEFINE m == Len(c.edges)
           n == Len(c.vertices)
           D == delta0(c)
<1>1. m \in Nat /\ n \in Nat /\ m > 0 /\ n > 0 /\ D \in Rows(m, n) /\ DOMAIN c.edges = 1..m /\ DOMAIN c.vertices = 1..n
  BY ComplexIs, Delta0Is
<1>2. Rectangular(D) /\ Len(D) = m /\ columns(D) = n
  BY <1>1, RowsRectangular
<1>3. x \in FractionRow(m) /\ Len(x) = m /\ Vector(x, m)
  <2>1. Len(x) = m
    BY <1>1, RowIsSeq
  <2> QED
    BY <2>1 DEF Vector, FractionRow
<1>4. \A j \in 1..n : transpose(D)[j] = Incidences(c.edges, c.vertices[j], m)
  <2> SUFFICES ASSUME NEW j \in 1..n PROVE transpose(D)[j] = Incidences(c.edges, c.vertices[j], m)
    OBVIOUS
  <2>1. transpose(D)[j] = [i \in 1..m |-> D[i][j]]
    <3> HIDE DEF m, n, D
    <3>1. transpose(D) = [k \in 1..n |-> Column(D, k, m)]
      BY <1>1, TransposeIs
    <3> QED
      BY <3>1 DEF Column
  <2>2. \A i \in 1..m : D[i][j] = Incidence(c.edges[i], c.vertices[j])
    BY Delta0Entries
  <2> QED
    BY <2>1, <2>2 DEF Incidences
<1>5. \A j \in 1..n : SumProducts(transpose(D)[j], x, m) = Boundary(x, c.edges, c.vertices[j], m)
  <2> SUFFICES ASSUME NEW j \in 1..n
               PROVE  SumProducts(transpose(D)[j], x, m) = Boundary(x, c.edges, c.vertices[j], m)
    OBVIOUS
  <2>1. \A i \in 1..m : Incidences(c.edges, c.vertices[j], m)[i] \in Fractions /\ x[i] \in Fractions
    BY <1>1, <1>3, BoundaryIs DEF FractionRow
  <2> QED
    BY <1>1, <1>4, <2>1, ProductsCommute DEF Boundary
<1>6. ASSUME \A j \in 1..n : Boundary(x, c.edges, c.vertices[j], m) = Zero PROVE Closed(x, c.edges, m)
  <2> SUFFICES ASSUME NEW v PROVE Boundary(x, c.edges, v, m) = Zero
    BY DEF Closed
  <2>1. CASE v \in RangeOf(c.vertices)
    BY <1>1, <1>6, <2>1 DEF RangeOf
  <2>2. CASE v \notin RangeOf(c.vertices)
    <3>1. \A i \in 1..m : v \notin Ends(c.edges[i])
      BY <1>1, <2>2 DEF EndsIn
    <3> QED
      BY <1>1, <1>3, <3>1, BoundaryIs
  <2> QED
    BY <2>1, <2>2
<1>7. (\A j \in 1..n : Boundary(x, c.edges, c.vertices[j], m) = Zero) <=> Closed(x, c.edges, m)
  BY <1>6 DEF Closed
<1> HIDE DEF m, n, D
<1>8. is_zero(row_vec_mat(x, D)) <=> is_zero(mat_vec(transpose(D), x))
  BY <1>2, <1>3, SeparatorForms
<1>9. is_zero(row_vec_mat(x, D)) <=> \A j \in 1..n : SumProducts(transpose(D)[j], x, m) = Zero
  BY <1>2, <1>3, SeparatorForms
<1>10. is_zero(row_vec_mat(x, D)) <=> Closed(x, c.edges, m)
  BY <1>5, <1>7, <1>9
<1> QED
  BY <1>8, <1>10 DEF m, D

----------------------------------------------------------------------------
(* How refined edges lie over coarse ones: (E0) says that every coarse     *)
(* cycle has a lift, and along a seam that it has two that make it         *)
(* together.                                                               *)

\* How an edge lies over a coarse one, and what a vector on refined edges amounts
\* to on the coarse edge of a name.
Lies(e, name)          == IF e.over = name THEN e.sign ELSE Zero
LiesOn(es, name, m)    == [i \in 1..m |-> Lies(es[i], name)]
Image(x, es, name, m)  == SumProducts(x, LiesOn(es, name, m), m)

\* x is a refined cycle over the coarse vector y; every coarse cycle has one.
Lifts(x, w, y, c) ==
    /\ x \in FractionRow(Len(w.edges)) /\ Closed(x, w.edges, Len(w.edges))
    /\ \A j \in 1..Len(c.edges) : y[j] = Image(x, w.edges, c.edges[j].name, Len(w.edges))

Reflecting(c, w) ==
    \A y \in FractionRow(Len(c.edges)) : Closed(y, c.edges, Len(c.edges)) => \E x : Lifts(x, w, y, c)

LEMMA SignIs ==
    ASSUME NEW w, LegalComplex(w), NEW i \in 1..Len(w.edges), NEW name
    PROVE  w.edges[i].sign \in Fractions /\ Lies(w.edges[i], name) \in Fractions
<1>1. i \in DOMAIN w.edges
  BY ComplexIs
<1>2. w.edges[i].sign \in Fractions
  BY <1>1, ZeroOne, MinusOneIs DEF LegalComplex, LegalEdge, MinusOne
<1> QED
  BY <1>2, ZeroOne DEF Lies

LEMMA LiesOnIs ==
    ASSUME NEW c, LegalComplex(c), NEW w, LegalComplex(w), NEW j \in 1..Len(c.edges)
    PROVE  /\ Column(rho_star(c, w), j, Len(w.edges)) = LiesOn(w.edges, c.edges[j].name, Len(w.edges))
           /\ \A i \in 1..Len(w.edges) : rho_star(c, w)[i][j] = Lies(w.edges[i], c.edges[j].name)
<1>1. DOMAIN w.edges = 1..Len(w.edges) /\ DOMAIN c.edges = 1..Len(c.edges)
  BY ComplexIs
<1>2. \A i \in 1..Len(w.edges) : rho_star(c, w)[i][j] = Lies(w.edges[i], c.edges[j].name)
  BY <1>1 DEF rho_star, pullback_matrix, Lies
<1> QED
  BY <1>2 DEF Column, LiesOn

LEMMA ImageIs ==
    ASSUME NEW w, LegalComplex(w), NEW x \in FractionRow(Len(w.edges)), NEW name
    PROVE  /\ \A i \in 1..Len(w.edges) : LiesOn(w.edges, name, Len(w.edges))[i] \in Fractions /\ x[i] \in Fractions
           /\ Image(x, w.edges, name, Len(w.edges)) \in Fractions
<1>1. Len(w.edges) \in Nat
  BY ComplexIs
<1>2. \A i \in 1..Len(w.edges) : LiesOn(w.edges, name, Len(w.edges))[i] \in Fractions /\ x[i] \in Fractions
  BY SignIs DEF LiesOn, FractionRow
<1> QED
  BY <1>1, <1>2, ProductsType DEF Image

\* What the code tests, that a vector is a combination of the cycles brought
\* back, is that it has a lift.
LEMMA LiftedBySpan ==
    ASSUME NEW c, LegalComplex(c), NEW w, LegalComplex(w), EndsIn(w), NEW y \in FractionRow(Len(c.edges))
    PROVE  InSpan(PushedBack(rho_star(c, w), Z1(w)), Len(Z1(w)), Len(c.edges), y) <=> \E x : Lifts(x, w, y, c)
<1> DEFINE m == Len(w.edges)
           n == Len(c.edges)
           rho == rho_star(c, w)
           Z == Z1(w)
           k == Len(Z)
           P == PushedBack(rho, Z)
           T == transpose(delta0(w))
<1>1. m \in Nat /\ n \in Nat /\ m > 0 /\ rho \in Rows(m, n)
  BY ComplexIs, PullbackIs
<1>2. k \in Nat /\ Z \in Rows(k, m) /\ KernelList(T, m, k, Z)
  BY CyclesAre DEF KernelList
<1>3. \A j \in 1..n : Column(rho, j, m) = LiesOn(w.edges, c.edges[j].name, m)
  BY LiesOnIs
<1>4. \A x \in FractionRow(m) : is_zero(mat_vec(T, x)) <=> Closed(x, w.edges, m)
  BY CycleIs
<1>5. \A x \in FractionRow(m), j \in 1..n :
          Image(x, w.edges, c.edges[j].name, m) = SumProducts(Column(rho, j, m), x, m)
  <2> SUFFICES ASSUME NEW x \in FractionRow(m), NEW j \in 1..n
               PROVE  Image(x, w.edges, c.edges[j].name, m) = SumProducts(Column(rho, j, m), x, m)
    OBVIOUS
  <2> DEFINE q == LiesOn(w.edges, c.edges[j].name, m)
  <2>1. \A i \in 1..m : q[i] \in Fractions /\ x[i] \in Fractions
    BY ImageIs
  <2>2. Image(x, w.edges, c.edges[j].name, m) = SumProducts(x, q, m)
    BY DEF Image
  <2>3. Column(rho, j, m) = q
    BY <1>3
  <2> HIDE DEF q, m, n, rho
  <2> QED
    BY <1>1, <2>1, <2>2, <2>3, ProductsCommute
<1> HIDE DEF m, n, rho, Z, k, P, T
<1>6. P \in Rows(k, n)
  BY <1>1, <1>2, PushedIs DEF P
<1>7. ASSUME InSpan(P, k, n, y) PROVE \E x : Lifts(x, w, y, c)
  <2>1. PICK a \in FractionRow(k) : \A j \in 1..n : y[j] = SumProducts(Column(P, j, k), a, k)
    BY <1>7 DEF InSpan
  <2> DEFINE x == [l \in 1..m |-> SumProducts(Column(Z, l, k), a, k)]
  <2>2. x \in FractionRow(m)
    <3> SUFFICES ASSUME NEW l \in 1..m PROVE SumProducts(Column(Z, l, k), a, k) \in Fractions
      BY DEF FractionRow
    <3>1. \A i \in 1..k : Column(Z, l, k)[i] \in Fractions /\ a[i] \in Fractions
      BY <1>2 DEF Column, Rows, FractionRow
    <3> QED
      BY <1>2, <3>1, ProductsType
  <2>3. \A l \in 1..m : x[l] = SumProducts(Column(Z, l, k), a, k)
    OBVIOUS
  <2> HIDE DEF x
  <2>4. InSpan(Z, k, m, x)
    BY <2>3 DEF InSpan
  <2>5. Closed(x, w.edges, m)
    <3> SUFFICES ASSUME NEW v PROVE Boundary(x, w.edges, v, m) = Zero
      BY DEF Closed
    <3> DEFINE r == Incidences(w.edges, v, m)
    <3>1. r \in FractionRow(m)
      BY <1>1, <2>2, BoundaryIs
    <3>2. \A j \in 1..k : SumProducts(Z[j], r, m) = Zero
      <4> SUFFICES ASSUME NEW j \in 1..k PROVE SumProducts(Z[j], r, m) = Zero
        OBVIOUS
      <4>1. Z[j] \in FractionRow(m) /\ is_zero(mat_vec(T, Z[j]))
        BY <1>2 DEF KernelList, Rows
      <4>2. Closed(Z[j], w.edges, m)
        BY <1>4, <4>1
      <4> QED
        BY <4>2 DEF Closed, Boundary
    <3>3. SumProducts(x, r, m) = Zero
      <4> HIDE DEF r
      <4> QED
        BY <1>1, <1>2, <2>2, <2>4, <3>1, <3>2, SpanPairs
    <3> QED
      BY <3>3 DEF Boundary
  <2>6. \A j \in 1..n : y[j] = Image(x, w.edges, c.edges[j].name, m)
    <3> SUFFICES ASSUME NEW j \in 1..n PROVE y[j] = Image(x, w.edges, c.edges[j].name, m)
      OBVIOUS
    <3>1. SumProducts(Column(rho, j, m), x, m) = SumProducts(Column(P, j, k), a, k)
      BY <1>1, <1>2, <2>2, <2>3, PushedCombines DEF P
    <3> QED
      BY <1>5, <2>1, <2>2, <3>1
  <2> QED
    BY <2>2, <2>5, <2>6 DEF Lifts, m, n
<1>8. ASSUME NEW x, Lifts(x, w, y, c) PROVE InSpan(P, k, n, y)
  <2>1. /\ x \in FractionRow(m) /\ Closed(x, w.edges, m)
        /\ \A j \in 1..n : y[j] = Image(x, w.edges, c.edges[j].name, m)
    BY <1>8 DEF Lifts, m, n
  <2>2. InSpan(Z, k, m, x)
    BY <1>2, <1>4, <2>1 DEF KernelList
  <2>3. PICK a \in FractionRow(k) : \A l \in 1..m : x[l] = SumProducts(Column(Z, l, k), a, k)
    BY <2>2 DEF InSpan
  <2>4. \A j \in 1..n : SumProducts(Column(rho, j, m), x, m) = SumProducts(Column(P, j, k), a, k)
    BY <1>1, <1>2, <2>1, <2>3, PushedCombines DEF P
  <2> QED
    BY <1>5, <2>1, <2>4 DEF InSpan
<1> QED
  BY <1>7, <1>8 DEF m, n, rho, Z, k, P

\* (E0) as the code decides it: every coarse cycle has a lift.
LEMMA ReflectingIs ==
    ASSUME NEW c, LegalComplex(c), EndsIn(c), NEW w, LegalComplex(w), EndsIn(w)
    PROVE  E0(c, w, rho_star(c, w)) <=> Reflecting(c, w)
<1> DEFINE n == Len(c.edges)
           Y == Z1(c)
           l == Len(Y)
           h == Len(Z1(w))
           P == PushedBack(rho_star(c, w), Z1(w))
<1>1. n \in Nat /\ KernelList(transpose(delta0(c)), n, l, Y)
  BY ComplexIs, CyclesAre
<1>2. \A y \in FractionRow(n) : InSpan(P, h, n, y) <=> \E x : Lifts(x, w, y, c)
  BY LiftedBySpan
<1>3. \A y \in FractionRow(n) : is_zero(mat_vec(transpose(delta0(c)), y)) <=> Closed(y, c.edges, n)
  BY CycleIs
<1>4. E0(c, w, rho_star(c, w)) <=> \A j \in 1..l : InSpan(P, h, n, Y[j])
  BY PullbackIs, ReflectionIs
<1>5. h \in Nat /\ P \in Rows(h, n)
  <2>1. h \in Nat /\ Z1(w) \in Rows(h, Len(w.edges))
    BY CyclesAre DEF KernelList
  <2>2. Len(w.edges) \in Nat /\ Len(w.edges) > 0 /\ rho_star(c, w) \in Rows(Len(w.edges), n)
    BY ComplexIs, PullbackIs
  <2> HIDE DEF h, n
  <2> QED
    BY <1>1, <2>1, <2>2, PushedIs
<1>6. l \in Nat /\ Y \in Rows(l, n)
  BY <1>1 DEF KernelList
<1>0. Reflecting(c, w) <=> \A y \in FractionRow(n) : Closed(y, c.edges, n) => \E x : Lifts(x, w, y, c)
  BY DEF Reflecting
<1> HIDE DEF n, Y, l, h, P
<1>7. ASSUME \A j \in 1..l : InSpan(P, h, n, Y[j]), NEW y \in FractionRow(n), Closed(y, c.edges, n)
      PROVE  \E x : Lifts(x, w, y, c)
  <2>1. InSpan(Y, l, n, y)
    BY <1>1, <1>3, <1>7 DEF KernelList
  <2>2. InSpan(P, h, n, y)
    BY <1>1, <1>5, <1>6, <1>7, <2>1, SpanOfSpan
  <2> QED
    BY <1>2, <2>2
<1>8. ASSUME Reflecting(c, w), NEW j \in 1..l PROVE InSpan(P, h, n, Y[j])
  <2>1. Y[j] \in FractionRow(n) /\ is_zero(mat_vec(transpose(delta0(c)), Y[j]))
    BY <1>1, <1>6 DEF KernelList, Rows
  <2> QED
    BY <1>0, <1>2, <1>3, <1>8, <2>1
<1> QED
  BY <1>0, <1>4, <1>7, <1>8

\* The same for two refinements together: what one brings back, and the other,
\* add up to the cycle.
LiftedTogether(c, a, b, y) ==
    \E u \in FractionRow(Len(c.edges)), v \in FractionRow(Len(c.edges)) :
        /\ \E x : Lifts(x, a, u, c)
        /\ \E x : Lifts(x, b, v, c)
        /\ \A j \in 1..Len(c.edges) : y[j] = Plus(u[j], v[j])

\* (E0) of a glued complex, as GluedAdds states it.
LEMMA TogetherIs ==
    ASSUME NEW a, LegalComplex(a), EndsIn(a), NEW b, LegalComplex(b), EndsIn(b), EndsIn(Coarse)
    PROVE  (\A cycle \in RangeOf(Z1(Coarse)) : in_span_over_Q(BroughtBack(a) \o BroughtBack(b), cycle))
             <=> \A y \in FractionRow(Len(Coarse.edges)) :
                    Closed(y, Coarse.edges, Len(Coarse.edges)) => LiftedTogether(Coarse, a, b, y)
<1> DEFINE n == Len(Coarse.edges)
           Y == Z1(Coarse)
           l == Len(Y)
           A == PushedBack(rho_star(Coarse, a), Z1(a))
           p == Len(Z1(a))
           B == PushedBack(rho_star(Coarse, b), Z1(b))
           q == Len(Z1(b))
           J == A \o B
<1>1. n \in Nat /\ KernelList(transpose(delta0(Coarse)), n, l, Y)
  BY CoarseIs, CyclesAre
<1>2. \A y \in FractionRow(n) : is_zero(mat_vec(transpose(delta0(Coarse)), y)) <=> Closed(y, Coarse.edges, n)
  BY CoarseIs, CycleIs
<1>3. ASSUME NEW w, LegalComplex(w)
      PROVE  /\ Len(Z1(w)) \in Nat
             /\ PushedBack(rho_star(Coarse, w), Z1(w)) \in Rows(Len(Z1(w)), n)
             /\ BroughtBack(w) = PushedBack(rho_star(Coarse, w), Z1(w))
  <2>1. Len(Z1(w)) \in Nat /\ Z1(w) \in Rows(Len(Z1(w)), Len(w.edges))
    BY <1>3, CyclesAre DEF KernelList
  <2>2. Len(w.edges) \in Nat /\ Len(w.edges) > 0 /\ rho_star(Coarse, w) \in Rows(Len(w.edges), n)
    BY <1>3, CoarseIs, ComplexIs, PullbackIs
  <2> DEFINE Z == Z1(w)
             rho == rho_star(Coarse, w)
  <2>3. BroughtBack(w) = Computed([k \in DOMAIN Z |-> Computed(mat_vec(transpose(rho), Z[k]))])
    BY DEF BroughtBack
  <2>4. Z \in Rows(Len(Z), Len(w.edges)) /\ rho \in Rows(Len(w.edges), n) /\ Len(Z) \in Nat
    BY <2>1, <2>2
  <2> HIDE DEF n, Z, rho
  <2>5. BroughtBack(w) = PushedBack(rho, Z) /\ PushedBack(rho, Z) \in Rows(Len(Z), n)
    BY <1>1, <2>2, <2>3, <2>4, BroughtBackIs, PushedIs
  <2> QED
    BY <2>4, <2>5 DEF Z, rho
<1>4. BroughtBack(a) \o BroughtBack(b) = J
  BY <1>3
<1>5. p \in Nat /\ q \in Nat /\ A \in Rows(p, n) /\ B \in Rows(q, n)
  BY <1>3
<1>6. \A y \in FractionRow(n) : InSpan(A, p, n, y) <=> \E x : Lifts(x, a, y, Coarse)
  BY CoarseIs, LiftedBySpan
<1>7. \A y \in FractionRow(n) : InSpan(B, q, n, y) <=> \E x : Lifts(x, b, y, Coarse)
  BY CoarseIs, LiftedBySpan
<1>0. \A y : LiftedTogether(Coarse, a, b, y) <=>
         \E u \in FractionRow(n), v \in FractionRow(n) :
            /\ \E x : Lifts(x, a, u, Coarse)
            /\ \E x : Lifts(x, b, v, Coarse)
            /\ \A j \in 1..n : y[j] = Plus(u[j], v[j])
  BY DEF LiftedTogether
<1> HIDE DEF n, Y, l, A, p, B, q
<1>8. /\ J \in Rows(p + q, n)
      /\ \A i \in 1..p : J[i] = A[i]
      /\ \A i \in 1..q : J[p + i] = B[i]
  <2>1. A \in Seq(FractionRow(n)) /\ Len(A) = p /\ B \in Seq(FractionRow(n)) /\ Len(B) = q
    BY <1>5 DEF Rows
  <2>2. Len(J) = p + q /\ DOMAIN J = 1..(p + q) /\ J \in Seq(FractionRow(n))
    BY <1>5, <2>1
  <2>4. J \in Rows(p + q, n)
    <3> HIDE DEF J
    <3> QED
      BY <2>2 DEF Rows
  <2> QED
    BY <1>5, <2>1, <2>4
<1> HIDE DEF J
<1>9. \A y \in FractionRow(n) : InSpan(J, p + q, n, y) <=> LiftedTogether(Coarse, a, b, y)
  <2> SUFFICES ASSUME NEW y \in FractionRow(n)
               PROVE  InSpan(J, p + q, n, y) <=> LiftedTogether(Coarse, a, b, y)
    OBVIOUS
  <2>1. InSpan(J, p + q, n, y) <=> SpanOfBoth(A, p, B, q, n, y)
    BY <1>1, <1>5, <1>8, SpanJoined
  <2> QED
    BY <1>0, <1>6, <1>7, <2>1 DEF SpanOfBoth
<1>10. l \in Nat /\ Y \in Rows(l, n) /\ RangeOf(Y) = {Y[j] : j \in 1..l}
  BY <1>1 DEF KernelList, Rows, RangeOf
<1>11. \A j \in 1..l : Y[j] \in FractionRow(n) /\ Closed(Y[j], Coarse.edges, n)
  BY <1>1, <1>2, <1>10 DEF KernelList, Rows
<1>12. \A y \in FractionRow(n) : in_span_over_Q(J, y) <=> InSpan(J, p + q, n, y)
  BY <1>1, <1>5, <1>8, SpanDecided
<1>13. ASSUME \A j \in 1..l : InSpan(J, p + q, n, Y[j]), NEW y \in FractionRow(n), Closed(y, Coarse.edges, n)
       PROVE  LiftedTogether(Coarse, a, b, y)
  <2>1. InSpan(Y, l, n, y)
    BY <1>1, <1>2, <1>13 DEF KernelList
  <2>2. p + q \in Nat
    BY <1>5
  <2>3. InSpan(J, p + q, n, y)
    BY <1>1, <1>8, <1>10, <1>13, <2>1, <2>2, SpanOfSpan
  <2> QED
    BY <1>9, <2>3
<1>14. (\A cycle \in RangeOf(Y) : in_span_over_Q(J, cycle)) <=> \A j \in 1..l : InSpan(J, p + q, n, Y[j])
  BY <1>10, <1>11, <1>12
<1>15. (\A j \in 1..l : InSpan(J, p + q, n, Y[j]))
          <=> \A y \in FractionRow(n) : Closed(y, Coarse.edges, n) => LiftedTogether(Coarse, a, b, y)
  BY <1>9, <1>11, <1>13
<1> QED
  BY <1>4, <1>14, <1>15 DEF n, Y

----------------------------------------------------------------------------
(* (N0) edge by edge: the ends of a refined edge lie over the ends of      *)
(* what it lies over. The pairing edge by edge: each has its share of it.  *)

\* What a coarse vector amounts to on a refined edge, and the square of an edge:
\* to take the edge's ends to the coarse complex, or what the edge lies over.
Share(e, c, r) == SumProducts([j \in 1..Len(c.edges) |-> Lies(e, c.edges[j].name)], r, Len(c.edges))

Parent(e, over) == [src |-> over[e.src], tgt |-> over[e.tgt]]

Natural(e, over, c) ==
    \A u \in RangeOf(c.vertices) :
        Incidence(Parent(e, over), u) = Share(e, c, Incidences(c.edges, u, Len(c.edges)))

\* A row of the coboundary takes the difference at the ends of its edge.
LEMMA RowApplied ==
    ASSUME NEW c, LegalComplex(c), Distinct(c.vertices), NEW i \in 1..Len(c.edges),
           NEW b \in FractionRow(Len(c.vertices)), NEW p \in 1..Len(c.vertices), NEW q \in 1..Len(c.vertices),
           c.vertices[p] = c.edges[i].tgt, c.vertices[q] = c.edges[i].src
    PROVE  SumProducts(delta0(c)[i], b, Len(c.vertices)) = Minus(b[p], b[q])
<1> DEFINE n == Len(c.vertices)
           x == delta0(c)[i]
           u == Units(p, n)
           w == Units(q, n)
<1>1. n \in Nat /\ DOMAIN c.vertices = 1..n
  BY ComplexIs
<1>2. \A k \in 1..n : c.vertices[k] = c.edges[i].tgt <=> k = p
  BY <1>1 DEF Distinct
<1>3. \A k \in 1..n : c.vertices[k] = c.edges[i].src <=> k = q
  BY <1>1 DEF Distinct
<1>4. \A k \in 1..n : u[k] = (IF k = p THEN One ELSE Zero) /\ w[k] = (IF k = q THEN One ELSE Zero)
  BY DEF Units
<1>5. \A k \in 1..n : x[k] = Incidence(c.edges[i], c.vertices[k])
  BY Delta0Entries
<1>6. \A k \in 1..n : x[k] = Minus(u[k], w[k])
  BY <1>2, <1>3, <1>4, <1>5 DEF Incidence
<1>7. \A k \in 1..n : u[k] \in Fractions /\ w[k] \in Fractions /\ b[k] \in Fractions
  BY <1>4, ZeroOne DEF FractionRow
<1>8. \A y \in Fractions : Times(One, y) = y
  BY ZeroOne, TimesCommutes, TimesOne
<1>9. b \in FractionRow(n) /\ Vector(b, n) /\ p \in 1..n /\ q \in 1..n
  BY <1>7 DEF Vector
<1> HIDE DEF n, x, u, w
<1>10. \A k \in 1..n : x[k] = Minus(u[k], Times(One, w[k]))
  BY <1>6, <1>7, <1>8
<1>11. SumProducts(x, b, n) = Minus(SumProducts(u, b, n), Times(One, SumProducts(w, b, n)))
  BY <1>1, <1>7, <1>10, ZeroOne, ProductsLess
<1>12. SumProducts(u, b, n) = b[p] /\ SumProducts(w, b, n) = b[q]
  BY <1>1, <1>9, UnitProducts DEF u, w
<1>13. b[p] \in Fractions /\ b[q] \in Fractions
  BY <1>7, <1>9
<1> QED
  BY <1>8, <1>11, <1>12, <1>13 DEF n, x

\* An entry of the refined residue is the share of its edge.
LEMMA ShareIs ==
    ASSUME NEW c, LegalComplex(c), NEW w, LegalComplex(w), NEW i \in 1..Len(w.edges),
           NEW r \in FractionRow(Len(c.edges))
    PROVE  /\ \A j \in 1..Len(c.edges) : Lies(w.edges[i], c.edges[j].name) \in Fractions /\ r[j] \in Fractions
           /\ Share(w.edges[i], c, r) \in Fractions
           /\ mat_vec(rho_star(c, w), r)[i] = Share(w.edges[i], c, r)
<1> DEFINE n == Len(c.edges)
           m == Len(w.edges)
           rho == rho_star(c, w)
           l == [j \in 1..n |-> Lies(w.edges[i], c.edges[j].name)]
<1>1. n \in Nat /\ m \in Nat /\ rho \in Rows(m, n) /\ i \in 1..m /\ r \in FractionRow(n)
  BY ComplexIs, PullbackIs
<1>2. \A j \in 1..n : Lies(w.edges[i], c.edges[j].name) \in Fractions /\ r[j] \in Fractions
  BY SignIs DEF FractionRow
<1>3. \A j \in 1..n : rho[i][j] = l[j] /\ l[j] \in Fractions
  BY <1>2, LiesOnIs
<1>4. Share(w.edges[i], c, r) = SumProducts(l, r, n)
  BY DEF Share
<1> HIDE DEF n, m, rho, l
<1>5. mat_vec(rho, r)[i] = SumProducts(rho[i], r, n)
  BY <1>1, ApplyIs
<1>6. SumProducts(rho[i], r, n) = SumProducts(l, r, n)
  BY <1>1, <1>3, ProductsCongruent
<1>7. SumProducts(l, r, n) \in Fractions
  BY <1>1, <1>2, <1>3, ProductsType
<1> QED
  BY <1>2, <1>4, <1>5, <1>6, <1>7 DEF n, rho

\* The pairing, edge by edge.
Shares(es, c, r, m) == [i \in 1..m |-> Share(es[i], c, r)]

\* The pairing, edge by edge.
LEMMA PairingIs ==
    ASSUME NEW c, LegalComplex(c), NEW w, LegalComplex(w), w.z \in FractionRow(Len(w.edges)),
           NEW r \in FractionRow(Len(c.edges))
    PROVE  /\ \A i \in 1..Len(w.edges) : w.z[i] \in Fractions /\ Shares(w.edges, c, r, Len(w.edges))[i] \in Fractions
           /\ Pairing(w, mat_vec(rho_star(c, w), r)) = SumProducts(w.z, Shares(w.edges, c, r, Len(w.edges)), Len(w.edges))
<1> DEFINE m == Len(w.edges)
           n == Len(c.edges)
           rho == rho_star(c, w)
           v == mat_vec(rho, r)
           s == Shares(w.edges, c, r, m)
           z == w.z
<1>1. n \in Nat /\ m \in Nat /\ rho \in Rows(m, n) /\ r \in FractionRow(n) /\ z \in FractionRow(m)
  <2>1. n \in Nat /\ m \in Nat
    BY ComplexIs
  <2>2. rho \in Rows(m, n)
    BY PullbackIs
  <2> QED
    BY <2>1, <2>2
<1>2. \A i \in 1..m : v[i] = s[i] /\ s[i] \in Fractions
  BY ShareIs DEF Shares
<1>3. \A i \in 1..m : z[i] \in Fractions
  BY DEF FractionRow
<1>4. Pairing(w, v) = dot(z, v)
  BY DEF Pairing
<1> HIDE DEF m, n, rho, v, s, z
<1>5. v \in FractionRow(m)
  BY <1>1, ApplyIs DEF v
<1>6. Len(z) = m /\ Len(v) = m
  BY <1>1, <1>5, RowIsSeq
<1>7. dot(z, v) = SumProducts(z, v, m)
  BY <1>6 DEF dot
<1>8. SumProducts(z, v, m) = SumProducts(z, s, m)
  BY <1>1, <1>2, ProductsCongruent
<1> QED
  BY <1>2, <1>3, <1>4, <1>7, <1>8 DEF m, v, rho, s, z

\* (N0) edge by edge.
LEMMA NaturalIs ==
    ASSUME NEW c, LegalComplex(c), NEW w, LegalComplex(w), Distinct(w.vertices), EndsIn(w)
    PROVE  N0(c, w, rho0_star(c, w), rho_star(c, w))
             <=> \A i \in 1..Len(w.edges) : Natural(w.edges[i], w.vertex_over, c)
<1> DEFINE m == Len(w.edges)
           k == Len(w.vertices)
           n == Len(c.edges)
           l == Len(c.vertices)
           rho == rho_star(c, w)
           rho0 == rho0_star(c, w)
           D == delta0(w)
           C == delta0(c)
           u(j) == c.vertices[j]
           left(i, j) == Incidence(Parent(w.edges[i], w.vertex_over), u(j))
           right(i, j) == Share(w.edges[i], c, Incidences(c.edges, u(j), n))
<1>1. /\ m \in Nat /\ k \in Nat /\ n \in Nat /\ l \in Nat /\ m > 0 /\ k > 0 /\ n > 0
      /\ rho \in Rows(m, n) /\ rho0 \in Rows(k, l) /\ D \in Rows(m, k) /\ C \in Rows(n, l)
      /\ DOMAIN c.vertices = 1..l /\ DOMAIN c.edges = 1..n /\ DOMAIN w.edges = 1..m /\ DOMAIN w.vertices = 1..k
  BY ComplexIs, PullbackIs, Delta0Is
<1>2. ASSUME NEW i \in 1..m, NEW j \in 1..l
      PROVE  SumProducts(D[i], Column(rho0, j, k), k) = left(i, j)
  <2> DEFINE b == Column(rho0, j, k)
             e == w.edges[i]
  <2>1. e.tgt \in RangeOf(w.vertices) /\ e.src \in RangeOf(w.vertices)
    BY <1>1 DEF EndsIn, Ends
  <2>2. PICK p \in 1..k : w.vertices[p] = e.tgt
    BY <1>1, <2>1 DEF RangeOf
  <2>3. PICK q \in 1..k : w.vertices[q] = e.src
    BY <1>1, <2>1 DEF RangeOf
  <2>4. \A h \in 1..k : b[h] = IF w.vertex_over[w.vertices[h]] = u(j) THEN One ELSE Zero
    BY <1>1 DEF Column, rho0_star, vertex_pullback_matrix
  <2>5. b \in FractionRow(k)
    <3>1. b = [h \in 1..k |-> rho0[h][j]]
      BY DEF Column
    <3> QED
      BY <1>1, <3>1 DEF Rows, FractionRow
  <2>6. b[p] = (IF u(j) = w.vertex_over[e.tgt] THEN One ELSE Zero)
    BY <2>2, <2>4
  <2>7. b[q] = (IF u(j) = w.vertex_over[e.src] THEN One ELSE Zero)
    BY <2>3, <2>4
  <2> HIDE DEF b
  <2>8. SumProducts(D[i], b, k) = Minus(b[p], b[q])
    BY <2>2, <2>3, <2>5, RowApplied
  <2>9. left(i, j) = Minus(IF u(j) = w.vertex_over[e.tgt] THEN One ELSE Zero,
                           IF u(j) = w.vertex_over[e.src] THEN One ELSE Zero)
    BY DEF Incidence, Parent
  <2> QED
    BY <2>6, <2>7, <2>8, <2>9 DEF b
<1>3. ASSUME NEW i \in 1..m, NEW j \in 1..l
      PROVE  SumProducts(rho[i], Column(C, j, n), n) = right(i, j)
  <2> DEFINE r == Incidences(c.edges, u(j), n)
             s == [h \in 1..n |-> Lies(w.edges[i], c.edges[h].name)]
  <2>1. \A h \in 1..n : rho[i][h] = s[h]
    BY LiesOnIs
  <2>2. \A h \in 1..n : Column(C, j, n)[h] = r[h]
    BY Delta0Entries DEF Column, Incidences
  <2>3. right(i, j) = SumProducts(s, r, n)
    BY DEF Share
  <2> HIDE DEF r, s, right, n, rho, C, m, l
  <2>4. \A h \in 1..n : Times(rho[i][h], Column(C, j, n)[h]) = Times(s[h], r[h])
    BY <2>1, <2>2
  <2>5. SumProducts(rho[i], Column(C, j, n), n) = SumProducts(s, r, n)
    BY <1>1, <2>4, ProductsCongruent
  <2> QED
    BY <2>3, <2>5
<1>4. (\A i \in 1..m, j \in 1..l : left(i, j) = right(i, j))
         <=> \A i \in 1..m : Natural(w.edges[i], w.vertex_over, c)
  BY <1>1 DEF Natural, RangeOf
<1>5. N0(c, w, rho0, rho) <=> mat_mat(D, rho0) = mat_mat(rho, C)
  BY DEF N0
<1> HIDE DEF m, k, n, l, rho, rho0, D, C, left, right
<1>6. mat_mat(D, rho0) \in Rows(m, l) /\ mat_mat(rho, C) \in Rows(m, l)
  BY <1>1, ProductIs
<1>7. \A i \in 1..m, j \in 1..l : mat_mat(D, rho0)[i][j] = left(i, j)
  BY <1>1, <1>2, ProductIs
<1>8. \A i \in 1..m, j \in 1..l : mat_mat(rho, C)[i][j] = right(i, j)
  BY <1>1, <1>3, ProductIs
<1>9. mat_mat(D, rho0) = mat_mat(rho, C)
         <=> \A i \in 1..m, j \in 1..l : mat_mat(D, rho0)[i][j] = mat_mat(rho, C)[i][j]
  BY <1>1, <1>6, RowsEqual
<1>10. mat_mat(D, rho0) = mat_mat(rho, C) <=> \A i \in 1..m, j \in 1..l : left(i, j) = right(i, j)
  BY <1>6, <1>7, <1>8, <1>9
<1> QED
  BY <1>4, <1>5, <1>10 DEF rho, rho0, m

----------------------------------------------------------------------------
(* Names. Branch b is renamed to stay apart from branch a; both the        *)
(* complex side by side and the doubled coarse complex are made so.        *)

\* A complex whose names are declared, and distinct.
Named(c) == LegalComplex(c) /\ WellNamed(c) /\ NamesIn(c) \subseteq DeclaredNames

Prefixing == [n \in DeclaredNames |-> Prefixed(n)]

\* What NamesAssumption says of the prefix, as a function.
LEMMA NamesApart ==
    /\ None \notin DeclaredNames /\ Prefixed(None) = None
    /\ OneToOne(Prefixing) /\ DOMAIN Prefixing = DeclaredNames
    /\ \A n \in DeclaredNames : Prefixing[n] = Prefixed(n) /\ Prefixed(n) \notin DeclaredNames /\ Prefixed(n) # None
    /\ \A m, n \in DeclaredNames \cup {None} : Prefixed(m) = Prefixed(n) => m = n
<1>1. /\ None \notin DeclaredNames
      /\ \A n \in DeclaredNames : Prefixed(n) \notin DeclaredNames \cup {None}
      /\ \A m, n \in DeclaredNames : Prefixed(m) = Prefixed(n) => m = n
  BY NamesAssumption
<1>2. Prefixed(None) = None
  BY DEF Prefixed
<1>3. \A n \in DeclaredNames : Prefixing[n] = Prefixed(n)
  BY DEF Prefixing
<1>4. DOMAIN Prefixing = DeclaredNames
  BY DEF Prefixing
<1> QED
  BY <1>1, <1>2, <1>3, <1>4 DEF OneToOne

LEMMA NamedIs ==
    ASSUME NEW c, Named(c)
    PROVE  /\ LegalComplex(c) /\ EndsIn(c) /\ Distinct(c.vertices) /\ Distinct(EdgeNames(c))
           /\ \A k \in 1..Len(c.edges) : /\ c.edges[k].src \in DeclaredNames /\ c.edges[k].tgt \in DeclaredNames
                                         /\ c.edges[k].name \in DeclaredNames
                                         /\ c.edges[k].src \in RangeOf(c.vertices) /\ c.edges[k].tgt \in RangeOf(c.vertices)
           /\ RangeOf(c.vertices) \subseteq DeclaredNames
           /\ \A j, k \in 1..Len(c.edges) : c.edges[j].name = c.edges[k].name => j = k
<1>1. LegalComplex(c) /\ DOMAIN c.edges = 1..Len(c.edges)
  BY ComplexIs DEF Named
<1>2. EndsIn(c) /\ Distinct(c.vertices) /\ Distinct(EdgeNames(c))
  BY DEF Named, WellNamed, EndsIn
<1>3. RangeOf(c.vertices) \subseteq DeclaredNames /\ RangeOf(EdgeNames(c)) \subseteq DeclaredNames
  BY DEF Named, NamesIn
<1>4. DOMAIN EdgeNames(c) = 1..Len(c.edges) /\ \A k \in 1..Len(c.edges) : EdgeNames(c)[k] = c.edges[k].name
  BY <1>1 DEF EdgeNames
<1>5. \A k \in 1..Len(c.edges) : c.edges[k].name \in DeclaredNames
  BY <1>3, <1>4 DEF RangeOf
<1>6. \A k \in 1..Len(c.edges) : c.edges[k].src \in RangeOf(c.vertices) /\ c.edges[k].tgt \in RangeOf(c.vertices)
  BY <1>1, <1>2 DEF EndsIn, Ends
<1>7. \A j, k \in 1..Len(c.edges) : c.edges[j].name = c.edges[k].name => j = k
  BY <1>2, <1>4 DEF Distinct
<1> QED
  BY <1>1, <1>2, <1>3, <1>5, <1>6, <1>7

\* What rename makes of a complex whose names are declared.
LEMMA RenamedIs ==
    ASSUME NEW c, Named(c)
    PROVE  /\ IsSequence(rename(c.edges)) /\ Len(rename(c.edges)) = Len(c.edges)
           /\ IsSequence(rename_all(c.vertices)) /\ Len(rename_all(c.vertices)) = Len(c.vertices)
           /\ Moves(rename(c.edges), c.edges, Len(c.edges), Prefixing)
           /\ \A k \in 1..Len(c.edges) :
                /\ LegalEdge(rename(c.edges)[k])
                /\ rename(c.edges)[k].name = Prefixed(c.edges[k].name)
                /\ rename(c.edges)[k].over = Prefixed(c.edges[k].over)
                /\ rename(c.edges)[k].sign = c.edges[k].sign
                /\ rename(c.edges)[k].src = Prefixed(c.edges[k].src)
                /\ rename(c.edges)[k].tgt = Prefixed(c.edges[k].tgt)
           /\ \A k \in 1..Len(c.vertices) : rename_all(c.vertices)[k] = Prefixed(c.vertices[k])
<1> DEFINE m == Len(c.edges)
           n == Len(c.vertices)
           es == rename(c.edges)
           vs == rename_all(c.vertices)
<1>1. m \in Nat /\ n \in Nat /\ DOMAIN c.edges = 1..m /\ DOMAIN c.vertices = 1..n
  BY NamedIs, ComplexIs
<1>2. es = [k \in 1..m |-> [name |-> Prefixed(c.edges[k].name), src |-> Prefixed(c.edges[k].src),
                            tgt |-> Prefixed(c.edges[k].tgt), over |-> Prefixed(c.edges[k].over),
                            sign |-> c.edges[k].sign]]
  BY <1>1 DEF rename
<1>3. vs = [k \in 1..n |-> Prefixed(c.vertices[k])]
  BY <1>1 DEF rename_all
<1>4. es = [k \in 1..m |-> es[k]] /\ vs = [k \in 1..n |-> vs[k]]
  BY <1>2, <1>3
<1>5. ASSUME NEW k \in 1..m
      PROVE  /\ LegalEdge(es[k])
             /\ es[k].name = Prefixed(c.edges[k].name) /\ es[k].over = Prefixed(c.edges[k].over)
             /\ es[k].sign = c.edges[k].sign
             /\ es[k].src = Prefixed(c.edges[k].src) /\ es[k].tgt = Prefixed(c.edges[k].tgt)
  <2> DEFINE na == Prefixed(c.edges[k].name)
             s == Prefixed(c.edges[k].src)
             t == Prefixed(c.edges[k].tgt)
             o == Prefixed(c.edges[k].over)
             g == c.edges[k].sign
             e == [name |-> na, src |-> s, tgt |-> t, over |-> o, sign |-> g]
  <2>1. es[k] = e
    BY <1>2
  <2>2. g \in {One, <<-1, 1>>}
    BY <1>1, NamedIs DEF LegalComplex, LegalEdge
  <2> HIDE DEF na, s, t, o, g
  <2>3. LegalEdge(e)
    BY <2>2 DEF LegalEdge
  <2>4. e.name = na /\ e.src = s /\ e.tgt = t /\ e.over = o /\ e.sign = g
    OBVIOUS
  <2> QED
    BY <2>1, <2>3, <2>4 DEF na, s, t, o, g
<1> HIDE DEF es, vs
<1>6. /\ IsSequence(es) /\ Len(es) = m
      /\ IsSequence(vs) /\ Len(vs) = n
  BY <1>1, <1>4, Listed
<1>7. Moves(es, c.edges, m, Prefixing)
  <2> SUFFICES ASSUME NEW i \in 1..m
               PROVE  /\ c.edges[i].src \in DOMAIN Prefixing /\ c.edges[i].tgt \in DOMAIN Prefixing
                      /\ es[i].src = Prefixing[c.edges[i].src] /\ es[i].tgt = Prefixing[c.edges[i].tgt]
    BY DEF Moves
  <2>1. c.edges[i].src \in DeclaredNames /\ c.edges[i].tgt \in DeclaredNames
    BY NamedIs
  <2> QED
    BY <1>5, <2>1, NamesApart
<1>8. \A k \in 1..n : vs[k] = Prefixed(c.vertices[k])
  BY <1>3
<1> QED
  BY <1>5, <1>6, <1>7, <1>8 DEF es, vs, m, n

\* One list after another.
Joins(u, s, t) ==
    /\ IsSequence(u) /\ Len(u) = Len(s) + Len(t) /\ DOMAIN u = 1..(Len(s) + Len(t))
    /\ \A i \in 1..Len(s) : i \in DOMAIN u /\ u[i] = s[i]
    /\ \A i \in 1..Len(t) : Len(s) + i \in DOMAIN u /\ u[Len(s) + i] = t[i]
    /\ \A i \in DOMAIN u : i \in 1..Len(s) \/ \E j \in 1..Len(t) : i = Len(s) + j

LEMMA JoinsIs ==
    ASSUME NEW s, IsSequence(s), NEW t, IsSequence(t) PROVE Joins(s \o t, s, t)
<1> DEFINE u == s \o t
           m == Len(s)
           n == Len(t)
<1>1. m \in Nat /\ n \in Nat
  BY SequenceIs
<1>2. /\ IsSequence(u) /\ DOMAIN u = 1..(m + n) /\ Len(u) = m + n
      /\ \A k \in 1..m : u[k] = s[k]
      /\ \A k \in 1..n : u[m + k] = t[k]
  BY Joined
<1> HIDE DEF u, m, n
<1>3. \A i \in 1..m : i \in 1..(m + n)
  BY <1>1
<1>4. \A i \in 1..n : m + i \in 1..(m + n)
  BY <1>1
<1>5. ASSUME NEW i \in 1..(m + n), i \notin 1..m PROVE \E j \in 1..n : i = m + j
  <2>1. i - m \in 1..n /\ i = m + (i - m)
    BY <1>1, <1>5
  <2> QED
    BY <2>1
<1> QED
  BY <1>2, <1>3, <1>4, <1>5 DEF Joins, u, m, n

LEMMA JoinsRange ==
    ASSUME NEW s, IsSequence(s), NEW t, IsSequence(t), NEW u, Joins(u, s, t)
    PROVE  RangeOf(u) = RangeOf(s) \cup RangeOf(t)
<1>1. DOMAIN s = 1..Len(s) /\ DOMAIN t = 1..Len(t)
  BY SequenceIs
<1>2. ASSUME NEW x \in RangeOf(u) PROVE x \in RangeOf(s) \cup RangeOf(t)
  <2>1. PICK i \in DOMAIN u : x = u[i]
    BY DEF RangeOf
  <2>2. CASE i \in 1..Len(s)
    BY <1>1, <2>1, <2>2 DEF RangeOf, Joins
  <2>3. CASE i \notin 1..Len(s)
    <3>1. PICK j \in 1..Len(t) : i = Len(s) + j
      BY <2>3 DEF Joins
    <3>2. x = t[j]
      BY <2>1, <3>1 DEF Joins
    <3> QED
      BY <1>1, <3>2 DEF RangeOf
  <2> QED
    BY <2>2, <2>3
<1>3. ASSUME NEW x \in RangeOf(s) PROVE x \in RangeOf(u)
  <2>1. PICK i \in 1..Len(s) : x = s[i]
    BY <1>1 DEF RangeOf
  <2>2. i \in DOMAIN u /\ x = u[i]
    BY <2>1 DEF Joins
  <2> QED
    BY <2>2 DEF RangeOf
<1>4. ASSUME NEW x \in RangeOf(t) PROVE x \in RangeOf(u)
  <2>1. PICK i \in 1..Len(t) : x = t[i]
    BY <1>1 DEF RangeOf
  <2>2. Len(s) + i \in DOMAIN u /\ x = u[Len(s) + i]
    BY <2>1 DEF Joins
  <2> QED
    BY <2>2 DEF RangeOf
<1> QED
  BY <1>2, <1>3, <1>4

LEMMA JoinsDistinct ==
    ASSUME NEW s, IsSequence(s), Distinct(s), NEW t, IsSequence(t), Distinct(t),
           RangeOf(s) \cap RangeOf(t) = {}, NEW u, Joins(u, s, t)
    PROVE  Distinct(u)
<1> SUFFICES ASSUME NEW i \in DOMAIN u, NEW j \in DOMAIN u, u[i] = u[j] PROVE i = j
  BY DEF Distinct
<1>1. DOMAIN s = 1..Len(s) /\ DOMAIN t = 1..Len(t)
  BY SequenceIs
<1>2. \A h \in 1..Len(s) : u[h] = s[h] /\ s[h] \in RangeOf(s)
  BY <1>1 DEF Joins, RangeOf
<1>3. \A h \in 1..Len(t) : u[Len(s) + h] = t[h] /\ t[h] \in RangeOf(t)
  BY <1>1 DEF Joins, RangeOf
<1>4. \A h \in DOMAIN u : h \in 1..Len(s) \/ \E g \in 1..Len(t) : h = Len(s) + g
  BY DEF Joins
<1>5. CASE i \in 1..Len(s) /\ j \in 1..Len(s)
  BY <1>1, <1>2, <1>5 DEF Distinct
<1>6. CASE i \in 1..Len(s) /\ j \notin 1..Len(s)
  <2>1. PICK g \in 1..Len(t) : j = Len(s) + g
    BY <1>4, <1>6
  <2> QED
    BY <1>2, <1>3, <1>6, <2>1
<1>7. CASE i \notin 1..Len(s) /\ j \in 1..Len(s)
  <2>1. PICK g \in 1..Len(t) : i = Len(s) + g
    BY <1>4, <1>7
  <2> QED
    BY <1>2, <1>3, <1>7, <2>1
<1>8. CASE i \notin 1..Len(s) /\ j \notin 1..Len(s)
  <2>1. PICK g \in 1..Len(t) : i = Len(s) + g
    BY <1>4, <1>8
  <2>2. PICK h \in 1..Len(t) : j = Len(s) + h
    BY <1>4, <1>8
  <2>3. t[g] = t[h]
    BY <1>3, <2>1, <2>2
  <2>4. g = h
    BY <1>1, <2>3 DEF Distinct
  <2> QED
    BY <2>1, <2>2, <2>4
<1> QED
  BY <1>5, <1>6, <1>7, <1>8

\* What is made of two lists of edges between the vertices of two lists.
LEMMA JoinedComplex ==
    ASSUME NEW vs, IsSequence(vs), vs # <<>>, NEW us, IsSequence(us),
           NEW es, IsSequence(es), es # <<>>, NEW fs, IsSequence(fs),
           \A i \in 1..Len(es) : LegalEdge(es[i]) /\ Ends(es[i]) \subseteq RangeOf(vs) \cup RangeOf(us),
           \A i \in 1..Len(fs) : LegalEdge(fs[i]) /\ Ends(fs[i]) \subseteq RangeOf(vs) \cup RangeOf(us),
           NEW d, d.vertices = vs \o us, d.edges = es \o fs
    PROVE  /\ LegalComplex(d) /\ EndsIn(d)
           /\ RangeOf(d.vertices) = RangeOf(vs) \cup RangeOf(us)
           /\ Joins(d.vertices, vs, us) /\ Joins(d.edges, es, fs)
<1> DEFINE V == d.vertices
           E == d.edges
<1>1. Joins(V, vs, us) /\ Joins(E, es, fs)
  BY JoinsIs
<1> HIDE DEF V, E
<1>2. RangeOf(V) = RangeOf(vs) \cup RangeOf(us)
  BY <1>1, JoinsRange
<1>3. \A i \in DOMAIN E : LegalEdge(E[i]) /\ Ends(E[i]) \subseteq RangeOf(V)
  <2> SUFFICES ASSUME NEW i \in DOMAIN E PROVE LegalEdge(E[i]) /\ Ends(E[i]) \subseteq RangeOf(V)
    OBVIOUS
  <2>1. CASE i \in 1..Len(es)
    BY <1>1, <1>2, <2>1 DEF Joins
  <2>2. CASE i \notin 1..Len(es)
    <3>1. PICK j \in 1..Len(fs) : i = Len(es) + j
      BY <1>1, <2>2 DEF Joins
    <3>2. E[i] = fs[j]
      BY <1>1, <3>1 DEF Joins
    <3> QED
      BY <1>2, <3>2
  <2> QED
    BY <2>1, <2>2
<1>4. V # <<>> /\ E # <<>>
  <2>1. Len(vs) \in Nat /\ Len(vs) > 0 /\ Len(es) \in Nat /\ Len(es) > 0
    BY SequenceIs
  <2>2. 1 \in DOMAIN V /\ 1 \in DOMAIN E
    BY <1>1, <2>1 DEF Joins
  <2>3. 1 \notin DOMAIN <<>>
    OBVIOUS
  <2> QED
    BY <2>2, <2>3
<1>5. IsSequence(V) /\ IsSequence(E)
  BY <1>1 DEF Joins
<1> QED
  BY <1>1, <1>2, <1>3, <1>4, <1>5 DEF LegalComplex, EndsIn, V, E

\* One complex beside a renamed other.
Alongside(d, a, b) ==
    /\ LegalComplex(d) /\ EndsIn(d) /\ Distinct(d.vertices)
    /\ Len(d.edges) = Len(a.edges) + Len(b.edges)
    /\ \A i \in 1..Len(a.edges) : d.edges[i] = a.edges[i]
    /\ \A i \in 1..Len(b.edges) : d.edges[Len(a.edges) + i] = rename(b.edges)[i]
    /\ RangeOf(d.vertices) = RangeOf(a.vertices) \cup {Prefixed(v) : v \in RangeOf(b.vertices)}

\* Both constructions put complexes side by side in the same way.
LEMMA AlongsideIs ==
    ASSUME NEW a, Named(a), NEW b, Named(b), NEW d,
           d.vertices = a.vertices \o rename_all(b.vertices), d.edges = a.edges \o rename(b.edges)
    PROVE  Alongside(d, a, b)
<1> DEFINE es == a.edges
           vs == a.vertices
           fs == rename(b.edges)
           us == rename_all(b.vertices)
<1>1. /\ DOMAIN es = 1..Len(es) /\ DOMAIN b.edges = 1..Len(b.edges)
      /\ DOMAIN vs = 1..Len(vs) /\ DOMAIN b.vertices = 1..Len(b.vertices)
  BY NamedIs, ComplexIs
<1>2. IsSequence(es) /\ es # <<>> /\ IsSequence(vs) /\ vs # <<>> /\ Distinct(vs) /\ Distinct(b.vertices)
  BY NamedIs DEF LegalComplex
<1>3. /\ IsSequence(fs) /\ Len(fs) = Len(b.edges) /\ IsSequence(us) /\ Len(us) = Len(b.vertices)
      /\ \A i \in 1..Len(fs) : LegalEdge(fs[i]) /\ fs[i].src = Prefixed(b.edges[i].src) /\ fs[i].tgt = Prefixed(b.edges[i].tgt)
      /\ \A i \in 1..Len(us) : us[i] = Prefixed(b.vertices[i])
  BY RenamedIs
<1>4. DOMAIN us = 1..Len(us)
  BY <1>3, SequenceIs
<1>5. RangeOf(us) = {Prefixed(v) : v \in RangeOf(b.vertices)}
  BY <1>1, <1>3, <1>4 DEF RangeOf
<1>6. \A i \in 1..Len(es) : LegalEdge(es[i]) /\ Ends(es[i]) \subseteq RangeOf(vs) \cup RangeOf(us)
  BY <1>1, NamedIs DEF LegalComplex, Ends
<1>7. \A i \in 1..Len(fs) : LegalEdge(fs[i]) /\ Ends(fs[i]) \subseteq RangeOf(vs) \cup RangeOf(us)
  <2>1. \A i \in 1..Len(b.edges) : b.edges[i].src \in RangeOf(b.vertices) /\ b.edges[i].tgt \in RangeOf(b.vertices)
    BY NamedIs
  <2> QED
    BY <1>3, <1>5, <2>1 DEF Ends
<1>8. RangeOf(vs) \cap RangeOf(us) = {}
  <2>1. RangeOf(vs) \subseteq DeclaredNames /\ RangeOf(b.vertices) \subseteq DeclaredNames
    BY NamedIs
  <2> HIDE DEF us, vs
  <2> QED
    BY <1>5, <2>1, NamesApart
<1>9. Distinct(us)
  <2> SUFFICES ASSUME NEW i \in 1..Len(us), NEW j \in 1..Len(us), us[i] = us[j] PROVE i = j
    BY <1>4 DEF Distinct
  <2>1. b.vertices[i] \in DeclaredNames /\ b.vertices[j] \in DeclaredNames
    BY <1>1, <1>3, NamedIs DEF RangeOf
  <2>2. b.vertices[i] = b.vertices[j]
    BY <1>3, <2>1, NamesApart
  <2> QED
    BY <1>1, <1>2, <1>3, <2>2 DEF Distinct
<1>10. d.vertices = vs \o us /\ d.edges = es \o fs
  OBVIOUS
<1>11. Len(fs) = Len(b.edges)
  BY <1>3
<1> HIDE DEF es, vs, fs, us
<1>12. /\ LegalComplex(d) /\ EndsIn(d)
       /\ RangeOf(d.vertices) = RangeOf(vs) \cup RangeOf(us)
       /\ Joins(d.vertices, vs, us) /\ Joins(d.edges, es, fs)
  BY ONLY <1>2, <1>3, <1>6, <1>7, <1>10, JoinedComplex
<1>13. Distinct(d.vertices)
  BY <1>2, <1>3, <1>8, <1>9, <1>12, JoinsDistinct
<1>14. /\ Len(d.edges) = Len(es) + Len(b.edges)
       /\ \A i \in 1..Len(es) : d.edges[i] = es[i]
       /\ \A i \in 1..Len(b.edges) : d.edges[Len(es) + i] = fs[i]
  BY <1>11, <1>12 DEF Joins
<1> QED
  BY <1>5, <1>12, <1>13, <1>14 DEF Alongside, es, vs, fs

----------------------------------------------------------------------------
(* A vector on two complexes side by side is one on each, and a cycle      *)
(* when both are.                                                          *)

\* A branch: a named witness over a named complex.
OverNamed(w, c) == \A k \in 1..Len(w.edges) : w.edges[k].over \in {None} \cup RangeOf(EdgeNames(c))

LEMMA OverIsNamed ==
    ASSUME NEW c, Named(c), NEW w, OverNamed(w, c), NEW k \in 1..Len(w.edges)
    PROVE  w.edges[k].over \in DeclaredNames \cup {None}
  BY DEF OverNamed, Named, NamesIn

LEMMA ClosedParts ==
    ASSUME NEW a, Named(a), NEW b, Named(b), NEW d, Alongside(d, a, b),
           NEW x, NEW u, NEW w, Parts(x, u, Len(a.edges), w, Len(b.edges))
    PROVE  Closed(x, d.edges, Len(d.edges)) <=> Closed(u, a.edges, Len(a.edges)) /\ Closed(w, b.edges, Len(b.edges))
<1> DEFINE m == Len(a.edges)
           n == Len(b.edges)
           eb == rename(b.edges)
<1>1. m \in Nat /\ n \in Nat /\ Len(d.edges) = m + n
  BY NamedIs, ComplexIs DEF Alongside
<1>2. /\ \A i \in 1..m : d.edges[i] = a.edges[i]
      /\ \A i \in 1..n : d.edges[m + i] = eb[i]
  BY DEF Alongside
<1>3. Moves(eb, b.edges, n, Prefixing)
  BY RenamedIs
<1>4. x \in FractionRow(m + n) /\ u \in FractionRow(m) /\ w \in FractionRow(n) /\ Parts(x, u, m, w, n)
  BY DEF Parts
<1>5. /\ \A i \in 1..m : a.edges[i].src \in DeclaredNames /\ a.edges[i].tgt \in DeclaredNames
      /\ \A i \in 1..n : b.edges[i].src \in DeclaredNames /\ b.edges[i].tgt \in DeclaredNames
  BY NamedIs
<1> HIDE DEF m, n, eb
<1>6. ASSUME NEW v
      PROVE  Boundary(x, d.edges, v, m + n) = Plus(Boundary(u, a.edges, v, m), Boundary(w, eb, v, n))
  <2> DEFINE es == d.edges
             ea == a.edges
  <2>1. PartsList(es, ea, m, eb, n)
    BY <1>2 DEF PartsList
  <2> HIDE DEF es, ea
  <2>2. Boundary(x, es, v, m + n) = Plus(Boundary(u, ea, v, m), Boundary(w, eb, v, n))
    BY ONLY <1>1, <1>4, <2>1, BoundaryJoined
  <2> QED
    BY <2>2 DEF es, ea
<1>7. ASSUME NEW v, v \notin DeclaredNames
      PROVE  Boundary(u, a.edges, v, m) = Zero /\ Boundary(w, b.edges, v, n) = Zero
  <2>1. \A i \in 1..m : v \notin Ends(a.edges[i])
    BY <1>5, <1>7 DEF Ends
  <2>2. \A i \in 1..n : v \notin Ends(b.edges[i])
    BY <1>5, <1>7 DEF Ends
  <2> QED
    BY <1>1, <1>4, <2>1, <2>2, BoundaryIs
<1>8. /\ \A v \in DeclaredNames : Boundary(w, eb, Prefixed(v), n) = Boundary(w, b.edges, v, n)
      /\ \A v : (\A g \in DeclaredNames : v # Prefixed(g)) => Boundary(w, eb, v, n) = Zero
  <2>1. /\ \A v \in DOMAIN Prefixing : Boundary(w, eb, Prefixing[v], n) = Boundary(w, b.edges, v, n)
        /\ \A v : (\A g \in DOMAIN Prefixing : v # Prefixing[g]) => Boundary(w, eb, v, n) = Zero
    BY <1>1, <1>3, <1>4, NamesApart, BoundaryMoved
  <2> QED
    BY <2>1, NamesApart
<1>9. \A v : Boundary(u, a.edges, v, m) \in Fractions /\ Boundary(w, eb, v, n) \in Fractions
  BY <1>1, <1>4, BoundaryIs
<1>10. \A v \in DeclaredNames :
          /\ Boundary(x, d.edges, v, m + n) = Boundary(u, a.edges, v, m)
          /\ Boundary(x, d.edges, Prefixed(v), m + n) = Boundary(w, b.edges, v, n)
  <2> SUFFICES ASSUME NEW v \in DeclaredNames
               PROVE  /\ Boundary(x, d.edges, v, m + n) = Boundary(u, a.edges, v, m)
                      /\ Boundary(x, d.edges, Prefixed(v), m + n) = Boundary(w, b.edges, v, n)
    OBVIOUS
  <2>1. Boundary(w, eb, v, n) = Zero
    BY <1>8, NamesApart
  <2>2. Boundary(u, a.edges, Prefixed(v), m) = Zero
    BY <1>7, NamesApart
  <2>3. Plus(Boundary(u, a.edges, v, m), Zero) = Boundary(u, a.edges, v, m)
    BY <1>9, PlusZero
  <2>4. Plus(Zero, Boundary(w, eb, Prefixed(v), n)) = Boundary(w, eb, Prefixed(v), n)
    BY <1>9, ZeroOne, PlusZero, PlusCommutes
  <2> QED
    BY <1>6, <1>8, <2>1, <2>2, <2>3, <2>4
<1>11. ASSUME Closed(x, d.edges, m + n), NEW v
       PROVE  Boundary(u, a.edges, v, m) = Zero /\ Boundary(w, b.edges, v, n) = Zero
  BY <1>7, <1>10, <1>11 DEF Closed
<1>12. ASSUME Closed(u, a.edges, m), Closed(w, b.edges, n), NEW v
       PROVE  Boundary(x, d.edges, v, m + n) = Zero
  <2>1. Boundary(u, a.edges, v, m) = Zero
    BY <1>12 DEF Closed
  <2>2. Boundary(w, eb, v, n) = Zero
    BY <1>8, <1>12 DEF Closed
  <2> QED
    BY <1>6, <2>1, <2>2, ZeroOne, PlusZero
<1>13. Closed(x, d.edges, m + n) <=> Closed(u, a.edges, m) /\ Closed(w, b.edges, n)
  BY <1>11, <1>12 DEF Closed
<1> QED
  BY <1>1, <1>13 DEF m, n

\* How the edges of either side lie over the names of either.
LEMMA LiesAcross ==
    ASSUME NEW c, Named(c), NEW w, LegalComplex(w), OverNamed(w, c), NEW k \in 1..Len(w.edges),
           NEW e, e.over = Prefixed(w.edges[k].over), e.sign = w.edges[k].sign, NEW name \in DeclaredNames
    PROVE  /\ Lies(w.edges[k], Prefixed(name)) = Zero
           /\ Lies(e, name) = Zero
           /\ Lies(e, Prefixed(name)) = Lies(w.edges[k], name)
<1>1. w.edges[k].over \in DeclaredNames \cup {None}
  BY OverIsNamed
<1>2. w.edges[k].over # Prefixed(name)
  BY <1>1, NamesApart
<1>3. e.over # name
  BY <1>1, NamesApart
<1>4. e.over = Prefixed(name) <=> w.edges[k].over = name
  BY <1>1, NamesApart
<1> QED
  BY <1>2, <1>3, <1>4 DEF Lies

\* A vector on two branches side by side, and a name of the coarse complex.
Split(x, u, w, c, a, b, d, name) ==
    /\ Named(c) /\ Named(a) /\ OverNamed(a, c) /\ Named(b) /\ OverNamed(b, c)
    /\ Alongside(d, a, b) /\ Parts(x, u, Len(a.edges), w, Len(b.edges)) /\ name \in DeclaredNames

LEMMA ImageParts ==
    ASSUME NEW c, NEW a, NEW b, NEW d, NEW x, NEW u, NEW w, NEW name, Split(x, u, w, c, a, b, d, name)
    PROVE  /\ Image(x, d.edges, name, Len(d.edges)) = Image(u, a.edges, name, Len(a.edges))
           /\ Image(x, d.edges, Prefixed(name), Len(d.edges)) = Image(w, b.edges, name, Len(b.edges))
<1>20. /\ Named(c) /\ Named(a) /\ OverNamed(a, c) /\ Named(b) /\ OverNamed(b, c)
       /\ Alongside(d, a, b) /\ Parts(x, u, Len(a.edges), w, Len(b.edges)) /\ name \in DeclaredNames
  BY DEF Split
<1> DEFINE m == Len(a.edges)
           n == Len(b.edges)
           eb == rename(b.edges)
           pn == Prefixed(name)
           zero(k) == [i \in 1..k |-> Zero]
<1>1. m \in Nat /\ n \in Nat /\ Len(d.edges) = m + n
  BY <1>20, NamedIs, ComplexIs DEF Alongside
<1>2. /\ \A i \in 1..m : d.edges[i] = a.edges[i]
      /\ \A i \in 1..n : d.edges[m + i] = eb[i]
  BY <1>20 DEF Alongside
<1>3. /\ \A i \in 1..m : Lies(a.edges[i], pn) = Zero
      /\ \A i \in 1..n : Lies(eb[i], name) = Zero /\ Lies(eb[i], pn) = Lies(b.edges[i], name)
  <2>1. \A i \in 1..n : eb[i].over = Prefixed(b.edges[i].over) /\ eb[i].sign = b.edges[i].sign
    BY <1>20, RenamedIs
  <2>2. \A i \in 1..m : \E e : e.over = Prefixed(a.edges[i].over) /\ e.sign = a.edges[i].sign
    <3> SUFFICES ASSUME NEW i \in 1..m PROVE \E e : e.over = Prefixed(a.edges[i].over) /\ e.sign = a.edges[i].sign
      OBVIOUS
    <3> WITNESS [over |-> Prefixed(a.edges[i].over), sign |-> a.edges[i].sign]
    <3> QED
      OBVIOUS
  <2> HIDE DEF eb
  <2> QED
    BY <1>20, <2>1, <2>2, NamedIs, LiesAcross
<1>4. Parts(x, u, m, w, n)
  BY <1>20
<1>5. /\ \A i \in 1..m : u[i] \in Fractions
      /\ \A i \in 1..n : w[i] \in Fractions
  BY <1>4 DEF Parts, FractionRow
<1>6. /\ \A i \in 1..m : Lies(a.edges[i], name) \in Fractions
      /\ \A i \in 1..n : Lies(b.edges[i], name) \in Fractions
  BY <1>20, NamedIs, SignIs
<1> DEFINE la == LiesOn(a.edges, name, m)
           lb == LiesOn(b.edges, name, n)
           ld == LiesOn(d.edges, name, m + n)
           lp == LiesOn(d.edges, pn, m + n)
<1>7. /\ \A i \in 1..m : la[i] = Lies(a.edges[i], name)
      /\ \A i \in 1..n : lb[i] = Lies(b.edges[i], name)
  BY DEF LiesOn
<1>8. \A i \in 1..m : ld[i] = la[i] /\ lp[i] = Zero
  <2>1. \A i \in 1..m : i \in 1..(m + n)
    <3> HIDE DEF m, n
    <3> QED
      BY <1>1
  <2> QED
    BY <1>2, <1>3, <2>1 DEF LiesOn
<1>9. \A i \in 1..n : ld[m + i] = Zero /\ lp[m + i] = lb[i]
  <2>1. \A i \in 1..n : m + i \in 1..(m + n)
    <3> HIDE DEF m, n
    <3> QED
      BY <1>1
  <2> QED
    BY <1>2, <1>3, <2>1 DEF LiesOn
<1> HIDE DEF m, n, eb, pn, la, lb, ld, lp, zero
<1>10. \A k \in Nat : \A i \in 1..k : zero(k)[i] = Zero
  BY DEF zero
<1>11. SumProducts(x, ld, m + n) = Plus(SumProducts(u, la, m), SumProducts(w, zero(n), n))
  <2>1. \A i \in 1..m : ld[i] = la[i] /\ la[i] \in Fractions
    BY <1>6, <1>7, <1>8
  <2>2. \A i \in 1..n : ld[m + i] = zero(n)[i] /\ zero(n)[i] \in Fractions
    BY <1>1, <1>9, <1>10, ZeroOne
  <2> QED
    BY ONLY <1>1, <1>4, <2>1, <2>2, PartsSum
<1>12. SumProducts(x, lp, m + n) = Plus(SumProducts(u, zero(m), m), SumProducts(w, lb, n))
  BY <1>1, <1>4, <1>6, <1>7, <1>8, <1>9, <1>10, ZeroOne, PartsSum
<1>13. SumProducts(w, zero(n), n) = Zero /\ SumProducts(u, zero(m), m) = Zero
  BY <1>1, <1>5, <1>10, ZeroSum
<1>14. SumProducts(u, la, m) \in Fractions /\ SumProducts(w, lb, n) \in Fractions
  BY <1>1, <1>5, <1>6, <1>7, ProductsType
<1>15. SumProducts(x, ld, m + n) = SumProducts(u, la, m)
  BY <1>11, <1>13, <1>14, PlusZero
<1>16. SumProducts(x, lp, m + n) = SumProducts(w, lb, n)
  BY <1>12, <1>13, <1>14, ZeroOne, PlusZero, PlusCommutes
<1> QED
  BY <1>1, <1>15, <1>16 DEF Image, la, lb, ld, lp, m, n, pn

----------------------------------------------------------------------------
(* What the edges of either branch do over the doubled coarse complex:     *)
(* what they do over their own copy, and nothing over the other.           *)

\* The doubled coarse complex e and two branches side by side over it.
Doubles(e, c, d, a, b) ==
    /\ Named(c) /\ Alongside(e, c, c)
    /\ Named(a) /\ OverNamed(a, c) /\ Named(b) /\ OverNamed(b, c) /\ Alongside(d, a, b)

NamesDouble(e, c) ==
    \A j \in 1..Len(c.edges) : /\ e.edges[j].name = c.edges[j].name
                               /\ e.edges[Len(c.edges) + j].name = Prefixed(c.edges[j].name)
                               /\ c.edges[j].name \in DeclaredNames

LEMMA DoublesIs ==
    ASSUME NEW e, NEW c, NEW d, NEW a, NEW b, Doubles(e, c, d, a, b)
    PROVE  /\ Named(c) /\ Named(a) /\ Named(b) /\ LegalComplex(d) /\ LegalComplex(e) /\ LegalComplex(c)
           /\ LegalComplex(a) /\ LegalComplex(b)
           /\ Len(c.edges) \in Nat /\ Len(a.edges) \in Nat /\ Len(b.edges) \in Nat
           /\ Len(e.edges) = Len(c.edges) + Len(c.edges) /\ Len(d.edges) = Len(a.edges) + Len(b.edges)
           /\ NamesDouble(e, c)
<1>1. Named(c) /\ Named(a) /\ Named(b) /\ Alongside(e, c, c) /\ Alongside(d, a, b)
  BY DEF Doubles
<1>2. LegalComplex(c) /\ LegalComplex(a) /\ LegalComplex(b) /\ LegalComplex(d) /\ LegalComplex(e)
  BY <1>1, NamedIs DEF Alongside
<1>3. /\ Len(c.edges) \in Nat /\ Len(a.edges) \in Nat /\ Len(b.edges) \in Nat
  BY <1>2, ComplexIs
<1>4. Len(e.edges) = Len(c.edges) + Len(c.edges) /\ Len(d.edges) = Len(a.edges) + Len(b.edges)
  BY <1>1 DEF Alongside
<1>5. \A j \in 1..Len(c.edges) : c.edges[j].name \in DeclaredNames
  BY <1>1, NamedIs
<1>6. \A j \in 1..Len(c.edges) : e.edges[j] = c.edges[j] /\ e.edges[Len(c.edges) + j] = rename(c.edges)[j]
  BY <1>1 DEF Alongside
<1>7. \A j \in 1..Len(c.edges) : rename(c.edges)[j].name = Prefixed(c.edges[j].name)
  BY <1>1, RenamedIs
<1>8. \A j \in 1..Len(c.edges) : /\ e.edges[j].name = c.edges[j].name
                                 /\ e.edges[Len(c.edges) + j].name = Prefixed(c.edges[j].name)
  BY <1>6, <1>7
<1>9. NamesDouble(e, c)
  BY <1>5, <1>8 DEF NamesDouble
<1> QED
  BY <1>1, <1>2, <1>3, <1>4, <1>9

LEMMA LiftsParts ==
    ASSUME NEW e, NEW c, NEW d, NEW a, NEW b, Doubles(e, c, d, a, b),
           NEW x, NEW u, NEW w, Parts(x, u, Len(a.edges), w, Len(b.edges)),
           NEW y, NEW p, NEW q, Parts(y, p, Len(c.edges), q, Len(c.edges))
    PROVE  Lifts(x, d, y, e) <=> Lifts(u, a, p, c) /\ Lifts(w, b, q, c)
<1>12. /\ Len(c.edges) \in Nat /\ Len(a.edges) \in Nat /\ Len(b.edges) \in Nat
       /\ Len(e.edges) = Len(c.edges) + Len(c.edges) /\ Len(d.edges) = Len(a.edges) + Len(b.edges)
  <2>1. /\ Named(c) /\ Named(a) /\ OverNamed(a, c) /\ Named(b) /\ OverNamed(b, c)
        /\ Alongside(d, a, b) /\ Alongside(e, c, c)
    BY DEF Doubles
  <2>2. Len(c.edges) \in Nat /\ Len(a.edges) \in Nat /\ Len(b.edges) \in Nat
    BY <2>1, NamedIs, ComplexIs
  <2>3. Len(e.edges) = Len(c.edges) + Len(c.edges) /\ Len(d.edges) = Len(a.edges) + Len(b.edges)
    BY <2>1 DEF Alongside
  <2> QED
    BY <2>2, <2>3
<1> DEFINE m == Len(a.edges)
           k == Len(b.edges)
           n == Len(c.edges)
           im(j) == Image(x, d.edges, e.edges[j].name, Len(d.edges))
           ia(j) == Image(u, a.edges, c.edges[j].name, m)
           ib(j) == Image(w, b.edges, c.edges[j].name, k)
<1>1. n \in Nat /\ Len(e.edges) = n + n /\ Len(d.edges) = m + k
  BY <1>12
<1>10. Named(c) /\ Named(a) /\ OverNamed(a, c) /\ Named(b) /\ OverNamed(b, c) /\ Alongside(d, a, b)
  BY DEF Doubles
<1>11. Parts(x, u, m, w, k)
  OBVIOUS
<1>2. \A j \in 1..n : im(j) = ia(j) /\ im(n + j) = ib(j)
  <2> SUFFICES ASSUME NEW j \in 1..n PROVE im(j) = ia(j) /\ im(n + j) = ib(j)
    OBVIOUS
  <2> DEFINE na == c.edges[j].name
  <2>1. na \in DeclaredNames /\ e.edges[j].name = na /\ e.edges[n + j].name = Prefixed(na)
    <3>1. NamesDouble(e, c)
      BY DoublesIs
    <3> QED
      BY <3>1 DEF NamesDouble
  <2>2. /\ Image(x, d.edges, na, Len(d.edges)) = Image(u, a.edges, na, m)
        /\ Image(x, d.edges, Prefixed(na), Len(d.edges)) = Image(w, b.edges, na, k)
    <3> HIDE DEF na, m, k
    <3> QED
      <4>1. Named(c) /\ Named(a) /\ OverNamed(a, c) /\ Named(b) /\ OverNamed(b, c) /\ Alongside(d, a, b)
        BY <1>10
      <4>2. na \in DeclaredNames /\ Parts(x, u, Len(a.edges), w, Len(b.edges))
        BY <2>1
      <4>3. Split(x, u, w, c, a, b, d, na)
        BY <4>1, <4>2 DEF Split
      <4> QED
        BY ONLY <4>3, ImageParts DEF m, k
  <2> QED
    BY <2>1, <2>2
<1>3. /\ x \in FractionRow(m + k) /\ u \in FractionRow(m) /\ w \in FractionRow(k)
      /\ (\A j \in 1..n : y[j] = p[j] /\ y[n + j] = q[j])
  BY DEF Parts
<1>4. Closed(x, d.edges, Len(d.edges)) <=> Closed(u, a.edges, m) /\ Closed(w, b.edges, k)
  BY ClosedParts DEF Doubles
<1>5. Lifts(x, d, y, e) <=> /\ x \in FractionRow(Len(d.edges)) /\ Closed(x, d.edges, Len(d.edges))
                            /\ \A j \in 1..Len(e.edges) : y[j] = im(j)
  BY DEF Lifts
<1>6. Lifts(u, a, p, c) <=> u \in FractionRow(m) /\ Closed(u, a.edges, m) /\ \A j \in 1..n : p[j] = ia(j)
  BY DEF Lifts
<1>7. Lifts(w, b, q, c) <=> w \in FractionRow(k) /\ Closed(w, b.edges, k) /\ \A j \in 1..n : q[j] = ib(j)
  BY DEF Lifts
<1> HIDE DEF m, k, n, im, ia, ib
<1>8. (\A j \in 1..(n + n) : y[j] = im(j)) <=> \A j \in 1..n : p[j] = ia(j) /\ q[j] = ib(j)
  <2>1. ASSUME \A j \in 1..(n + n) : y[j] = im(j), NEW j \in 1..n PROVE p[j] = ia(j) /\ q[j] = ib(j)
    <3>1. j \in 1..(n + n) /\ n + j \in 1..(n + n)
      BY <1>1
    <3> QED
      BY <1>2, <1>3, <2>1, <3>1
  <2>2. ASSUME \A j \in 1..n : p[j] = ia(j) /\ q[j] = ib(j), NEW j \in 1..(n + n) PROVE y[j] = im(j)
    <3>1. CASE j \in 1..n
      BY <1>2, <1>3, <2>2, <3>1
    <3>2. CASE j \notin 1..n
      <4>1. j - n \in 1..n /\ n + (j - n) = j
        BY <1>1, <3>2
      <4> QED
        BY <1>2, <1>3, <2>2, <4>1
    <3> QED
      BY <3>1, <3>2
  <2> QED
    BY <2>1, <2>2
<1> QED
  BY <1>1, <1>3, <1>4, <1>5, <1>6, <1>7, <1>8

LEMMA ZerosClosed ==
    ASSUME NEW m \in Nat, NEW es, NEW x, x = [i \in 1..m |-> Zero] PROVE x \in FractionRow(m) /\ Closed(x, es, m)
<1>1. x \in FractionRow(m)
  BY ZeroOne DEF FractionRow
<1>2. ASSUME NEW v PROVE Boundary(x, es, v, m) = Zero
  <2>1. \A i \in 1..m : x[i] = Zero /\ Incidences(es, v, m)[i] \in Fractions
    BY <1>1, BoundaryIs DEF FractionRow
  <2> QED
    BY <2>1, ProductsOfZero DEF Boundary
<1> QED
  BY <1>1, <1>2 DEF Closed

LEMMA ReflectingParts ==
    ASSUME NEW e, NEW c, NEW d, NEW a, NEW b, Doubles(e, c, d, a, b)
    PROVE  Reflecting(e, d) <=> Reflecting(c, a) /\ Reflecting(c, b)
<1>12. /\ Len(c.edges) \in Nat /\ Len(a.edges) \in Nat /\ Len(b.edges) \in Nat
       /\ Len(e.edges) = Len(c.edges) + Len(c.edges) /\ Len(d.edges) = Len(a.edges) + Len(b.edges)
  <2>1. /\ Named(c) /\ Named(a) /\ OverNamed(a, c) /\ Named(b) /\ OverNamed(b, c)
        /\ Alongside(d, a, b) /\ Alongside(e, c, c)
    BY DEF Doubles
  <2>2. Len(c.edges) \in Nat /\ Len(a.edges) \in Nat /\ Len(b.edges) \in Nat
    BY <2>1, NamedIs, ComplexIs
  <2>3. Len(e.edges) = Len(c.edges) + Len(c.edges) /\ Len(d.edges) = Len(a.edges) + Len(b.edges)
    BY <2>1 DEF Alongside
  <2> QED
    BY <2>2, <2>3
<1> DEFINE m == Len(a.edges)
           k == Len(b.edges)
           n == Len(c.edges)
           zero == [i \in 1..n |-> Zero]
<1>1. /\ m \in Nat /\ k \in Nat /\ n \in Nat /\ Len(e.edges) = n + n /\ Len(d.edges) = m + k
  BY <1>12
<1>2. \A y, p, q : Parts(y, p, n, q, n) =>
          (Closed(y, e.edges, n + n) <=> Closed(p, c.edges, n) /\ Closed(q, c.edges, n))
  <2> SUFFICES ASSUME NEW y, NEW p, NEW q, Parts(y, p, n, q, n)
               PROVE  Closed(y, e.edges, n + n) <=> Closed(p, c.edges, n) /\ Closed(q, c.edges, n)
    OBVIOUS
  <2>1. Named(c) /\ Alongside(e, c, c)
    BY DEF Doubles
  <2>2. Closed(y, e.edges, Len(e.edges)) <=> Closed(p, c.edges, n) /\ Closed(q, c.edges, n)
    BY ONLY <2>1, Parts(y, p, n, q, n), ClosedParts
  <2> QED
    BY <1>1, <2>2
<1>3. \A x, u, w, y, p, q : Parts(x, u, m, w, k) /\ Parts(y, p, n, q, n) =>
          (Lifts(x, d, y, e) <=> Lifts(u, a, p, c) /\ Lifts(w, b, q, c))
  BY LiftsParts
<1>4. zero \in FractionRow(n) /\ Closed(zero, c.edges, n)
  <2> HIDE DEF n
  <2> QED
    BY <1>1, ZerosClosed
<1>5. /\ Reflecting(e, d) <=> \A y \in FractionRow(n + n) : Closed(y, e.edges, n + n) => \E x : Lifts(x, d, y, e)
      /\ Reflecting(c, a) <=> \A y \in FractionRow(n) : Closed(y, c.edges, n) => \E x : Lifts(x, a, y, c)
      /\ Reflecting(c, b) <=> \A y \in FractionRow(n) : Closed(y, c.edges, n) => \E x : Lifts(x, b, y, c)
  BY <1>1 DEF Reflecting
<1>6. \A x, y : Lifts(x, d, y, e) => x \in FractionRow(m + k)
  BY <1>1 DEF Lifts
<1>7. /\ \A x, y : Lifts(x, a, y, c) => x \in FractionRow(m)
      /\ \A x, y : Lifts(x, b, y, c) => x \in FractionRow(k)
  BY DEF Lifts
<1>8. \A x, u, w, h, l : Parts(x, u, h, w, l) => x \in FractionRow(h + l) /\ u \in FractionRow(h) /\ w \in FractionRow(l)
  BY DEF Parts
<1> HIDE DEF m, k, n, zero
<1>9. ASSUME Reflecting(e, d), NEW p \in FractionRow(n), Closed(p, c.edges, n)
      PROVE  (\E x : Lifts(x, a, p, c)) /\ (\E x : Lifts(x, b, p, c))
  <2>1. PICK y : Parts(y, p, n, zero, n)
    BY <1>1, <1>4, PartsExist
  <2>2. PICK z : Parts(z, zero, n, p, n)
    BY <1>1, <1>4, <1>9, PartsExist
  <2>3. y \in FractionRow(n + n) /\ Closed(y, e.edges, n + n) /\ z \in FractionRow(n + n) /\ Closed(z, e.edges, n + n)
    BY <1>2, <1>4, <1>8, <1>9, <2>1, <2>2
  <2>4. PICK x : Lifts(x, d, y, e)
    BY <1>5, <1>9, <2>3
  <2>5. PICK u, w : Parts(x, u, m, w, k)
    BY <1>1, <1>6, <2>4, PartsExist
  <2>6. Lifts(u, a, p, c)
    BY <1>3, <2>1, <2>4, <2>5
  <2>7. PICK x2 : Lifts(x2, d, z, e)
    BY <1>5, <1>9, <2>3
  <2>8. PICK u2, w2 : Parts(x2, u2, m, w2, k)
    BY <1>1, <1>6, <2>7, PartsExist
  <2>9. Lifts(w2, b, p, c)
    BY <1>3, <2>2, <2>7, <2>8
  <2> QED
    BY <2>6, <2>9
<1>10. ASSUME Reflecting(c, a), Reflecting(c, b), NEW y \in FractionRow(n + n), Closed(y, e.edges, n + n)
       PROVE  \E x : Lifts(x, d, y, e)
  <2>1. PICK p, q : Parts(y, p, n, q, n)
    BY <1>1, PartsExist
  <2>2. p \in FractionRow(n) /\ q \in FractionRow(n) /\ Closed(p, c.edges, n) /\ Closed(q, c.edges, n)
    BY <1>2, <1>8, <1>10, <2>1
  <2>3. PICK u : Lifts(u, a, p, c)
    BY <1>5, <1>10, <2>2
  <2>4. PICK w : Lifts(w, b, q, c)
    BY <1>5, <1>10, <2>2
  <2>5. PICK x : Parts(x, u, m, w, k)
    BY <1>1, <1>7, <2>3, <2>4, PartsExist
  <2> QED
    BY <1>3, <2>1, <2>3, <2>4, <2>5
<1> QED
  BY <1>5, <1>9, <1>10

\* A coarse vector on the two copies, and what it amounts to on the branches.
DoublesWith(r, p, q, e, c, d, a, b) == Doubles(e, c, d, a, b) /\ Parts(r, p, Len(c.edges), q, Len(c.edges))

SharesAlike(r, p, q, e, c, d, a, b) ==
    /\ \A i \in 1..Len(a.edges) : Share(d.edges[i], e, r) = Share(a.edges[i], c, p)
    /\ \A i \in 1..Len(b.edges) : Share(d.edges[Len(a.edges) + i], e, r) = Share(b.edges[i], c, q)

LEMMA ShareParts ==
    ASSUME NEW r, NEW p, NEW q, NEW e, NEW c, NEW d, NEW a, NEW b, DoublesWith(r, p, q, e, c, d, a, b)
    PROVE  SharesAlike(r, p, q, e, c, d, a, b)
<1>20. Doubles(e, c, d, a, b) /\ Parts(r, p, Len(c.edges), q, Len(c.edges))
  BY DEF DoublesWith
<1> DEFINE n == Len(c.edges)
           m == Len(a.edges)
           zero == [j \in 1..n |-> Zero]
<1>1. n \in Nat /\ Len(e.edges) = n + n
  BY <1>20, DoublesIs
<1>2. \A j \in 1..n : /\ e.edges[j].name = c.edges[j].name /\ e.edges[n + j].name = Prefixed(c.edges[j].name)
                      /\ c.edges[j].name \in DeclaredNames
  <2>1. NamesDouble(e, c)
    BY <1>20, DoublesIs
  <2> QED
    BY <2>1 DEF NamesDouble
<1>3. \A j \in 1..n : zero[j] = Zero
  OBVIOUS
<1>4. Parts(r, p, n, q, n)
  BY <1>20
<1>5. \A i \in 1..m : d.edges[i] = a.edges[i]
  BY <1>20 DEF Doubles, Alongside
<1>6. \A i \in 1..Len(b.edges) : d.edges[m + i] = rename(b.edges)[i]
  BY <1>20 DEF Doubles, Alongside
<1>7. p \in FractionRow(n) /\ q \in FractionRow(n)
  BY <1>20 DEF Parts
<1> DEFINE over(f) == [j \in 1..Len(e.edges) |-> Lies(f, e.edges[j].name)]
           lies(f) == [j \in 1..n |-> Lies(f, c.edges[j].name)]
<1>8. ASSUME NEW f, NEW y, NEW z, \A j \in 1..n : y[j] \in Fractions /\ z[j] \in Fractions,
             \A j \in 1..n : Lies(f, c.edges[j].name) = y[j] /\ Lies(f, Prefixed(c.edges[j].name)) = z[j]
      PROVE  Share(f, e, r) = Plus(SumProducts(y, p, n), SumProducts(z, q, n))
  <2> DEFINE x == [j \in 1..(n + n) |-> Lies(f, e.edges[j].name)]
  <2>1. \A j \in 1..n : x[j] = y[j] /\ x[n + j] = z[j]
    <3>1. \A j \in 1..n : j \in 1..(n + n) /\ n + j \in 1..(n + n)
      <4> HIDE DEF n
      <4> QED
        BY <1>1
    <3> QED
      BY <1>2, <1>8, <3>1
  <2>2. Share(f, e, r) = SumProducts(x, r, n + n)
    BY <1>1 DEF Share
  <2> HIDE DEF x, n
  <2>3. (\A j \in 1..n : r[j] = p[j]) /\ (\A j \in 1..n : r[n + j] = q[j]) /\ r \in FractionRow(n + n)
    BY <1>4 DEF Parts
  <2>4. \A j \in 1..(n + n) : x[j] \in Fractions /\ r[j] \in Fractions
    <3> SUFFICES ASSUME NEW j \in 1..(n + n) PROVE x[j] \in Fractions /\ r[j] \in Fractions
      OBVIOUS
    <3>1. r[j] \in Fractions
      BY <2>3 DEF FractionRow
    <3>2. CASE j \in 1..n
      BY <1>8, <2>1, <3>1, <3>2
    <3>3. CASE j \notin 1..n
      <4>1. j - n \in 1..n /\ n + (j - n) = j
        BY <1>1, <3>3
      <4> QED
        BY <1>8, <2>1, <3>1, <4>1
    <3> QED
      BY <3>2, <3>3
  <2>6. \A j \in 1..n : x[j] = y[j] /\ r[j] = p[j]
    BY <2>1, <2>3
  <2>7. \A j \in 1..n : x[n + j] = z[j] /\ r[n + j] = q[j]
    BY <2>1, <2>3
  <2>5. SumProducts(x, r, n + n) = Plus(SumProducts(y, p, n), SumProducts(z, q, n))
    <3>1. n \in Nat
      BY <1>1
    <3> HIDE DEF x, n
    <3>2. Splits(x, r, y, p, z, q, n, n)
      BY <2>4, <2>6, <2>7, <3>1 DEF Splits
    <3> QED
      BY ONLY <3>2, ProductsSplit
  <2> QED
    BY <2>2, <2>5
<1>9. /\ \A j \in 1..n : p[j] \in Fractions /\ q[j] \in Fractions
  BY <1>7 DEF FractionRow
<1>10. SumProducts(zero, p, n) = Zero /\ SumProducts(zero, q, n) = Zero
  <2> HIDE DEF zero, n
  <2> QED
    BY <1>1, <1>3, <1>9, ProductsOfZero
<1>13. /\ Named(c) /\ LegalComplex(a) /\ OverNamed(a, c) /\ LegalComplex(b) /\ OverNamed(b, c)
  <2>1. /\ Named(c) /\ Named(a) /\ OverNamed(a, c) /\ Named(b) /\ OverNamed(b, c)
    BY <1>20 DEF Doubles
  <2> QED
    BY <2>1, NamedIs
<1>11. ASSUME NEW i \in 1..m PROVE Share(d.edges[i], e, r) = Share(a.edges[i], c, p)
  <2> DEFINE f == a.edges[i]
             l == lies(f)
  <2>1. \A j \in 1..n : l[j] = Lies(f, c.edges[j].name) /\ l[j] \in Fractions
    BY <1>20, DoublesIs, SignIs
  <2>2. \A j \in 1..n : Lies(f, Prefixed(c.edges[j].name)) = Zero
    <3>1. \E g : g.over = Prefixed(f.over) /\ g.sign = f.sign
      <4> WITNESS [over |-> Prefixed(f.over), sign |-> f.sign]
      <4> QED
        OBVIOUS
    <3> QED
      BY ONLY <1>2, <1>13, <3>1, LiesAcross
  <2>3. Share(f, c, p) = SumProducts(l, p, n)
    BY DEF Share
  <2> HIDE DEF l, f, zero
  <2>4. Share(f, e, r) = Plus(SumProducts(l, p, n), SumProducts(zero, q, n))
    BY <1>3, <1>8, <2>1, <2>2, ZeroOne
  <2>5. SumProducts(l, p, n) \in Fractions
    BY <1>1, <1>9, <2>1, ProductsType
  <2>6. Share(f, e, r) = Share(f, c, p)
    BY <1>10, <2>3, <2>4, <2>5, PlusZero
  <2> QED
    BY <1>5, <2>6 DEF f
<1>12. ASSUME NEW i \in 1..Len(b.edges) PROVE Share(d.edges[m + i], e, r) = Share(b.edges[i], c, q)
  <2> DEFINE f == b.edges[i]
             g == rename(b.edges)[i]
             l == lies(f)
  <2>1. \A j \in 1..n : l[j] = Lies(f, c.edges[j].name) /\ l[j] \in Fractions
    BY <1>20, DoublesIs, SignIs
  <2>2. \A j \in 1..n : Lies(g, c.edges[j].name) = Zero /\ Lies(g, Prefixed(c.edges[j].name)) = l[j]
    <3>1. g.over = Prefixed(f.over) /\ g.sign = f.sign
      BY <1>20, RenamedIs DEF Doubles
    <3> HIDE DEF g
    <3>2. \A j \in 1..n : /\ Lies(g, c.edges[j].name) = Zero
                          /\ Lies(g, Prefixed(c.edges[j].name)) = Lies(f, c.edges[j].name)
      BY ONLY <1>2, <1>13, <3>1, LiesAcross
    <3> HIDE DEF l
    <3> QED
      BY <2>1, <3>2
  <2>3. Share(f, c, q) = SumProducts(l, q, n)
    BY DEF Share
  <2> HIDE DEF l, f, g, zero
  <2>4. Share(g, e, r) = Plus(SumProducts(zero, p, n), SumProducts(l, q, n))
    BY <1>3, <1>8, <2>1, <2>2, ZeroOne
  <2>5. SumProducts(l, q, n) \in Fractions
    BY <1>1, <1>9, <2>1, ProductsType
  <2>6. Share(g, e, r) = Share(f, c, q)
    BY <1>10, <2>3, <2>4, <2>5, ZeroOne, PlusZero, PlusCommutes
  <2> QED
    BY <1>6, <2>6 DEF f, g
<1> QED
  BY <1>11, <1>12 DEF SharesAlike

\* An edge between declared names, and the same edge renamed.
Renames(f, e) ==
    /\ e.src \in DeclaredNames /\ e.tgt \in DeclaredNames
    /\ f.src = Prefixed(e.src) /\ f.tgt = Prefixed(e.tgt)

LEMMA IncidenceApart ==
    ASSUME NEW f, NEW e, Renames(f, e), NEW u \in DeclaredNames
    PROVE  /\ Incidence(e, Prefixed(u)) = Zero
           /\ Incidence(f, u) = Zero
           /\ Incidence(f, Prefixed(u)) = Incidence(e, u)
<1>1. /\ Prefixed(u) \notin DeclaredNames
      /\ f.src \notin DeclaredNames /\ f.tgt \notin DeclaredNames
      /\ e.src \in DeclaredNames /\ e.tgt \in DeclaredNames
  BY NamesApart DEF Renames
<1>2. (Prefixed(u) = f.src <=> u = e.src) /\ (Prefixed(u) = f.tgt <=> u = e.tgt)
  BY NamesApart DEF Renames
<1>3. Incidence(e, Prefixed(u)) = Zero /\ Incidence(f, u) = Zero
  BY <1>1, IncidenceIs DEF Ends
<1>4. Incidence(f, Prefixed(u)) = Incidence(e, u)
  BY <1>2 DEF Incidence
<1> QED
  BY <1>3, <1>4

LEMMA IncidenceParts ==
    ASSUME NEW e, NEW c, NEW d, NEW a, NEW b, Doubles(e, c, d, a, b), NEW u \in RangeOf(c.vertices),
           NEW zero, zero = [j \in 1..Len(c.edges) |-> Zero]
    PROVE  /\ Parts(Incidences(e.edges, u, Len(e.edges)), Incidences(c.edges, u, Len(c.edges)), Len(c.edges),
                    zero, Len(c.edges))
           /\ Parts(Incidences(e.edges, Prefixed(u), Len(e.edges)), zero, Len(c.edges),
                    Incidences(c.edges, u, Len(c.edges)), Len(c.edges))
<1>1. Named(c) /\ Alongside(e, c, c)
  BY DEF Doubles
<1>2. /\ Len(c.edges) \in Nat /\ Len(e.edges) = Len(c.edges) + Len(c.edges)
      /\ u \in DeclaredNames
  BY <1>1, NamedIs, ComplexIs DEF Alongside
<1>3. \A j \in 1..Len(c.edges) : /\ e.edges[j] = c.edges[j]
                                 /\ e.edges[Len(c.edges) + j] = rename(c.edges)[j]
                                 /\ Renames(rename(c.edges)[j], c.edges[j])
  <2>1. \A j \in 1..Len(c.edges) : Renames(rename(c.edges)[j], c.edges[j])
    BY <1>1, NamedIs, RenamedIs DEF Renames
  <2> QED
    BY <1>1, <2>1 DEF Alongside
<1> DEFINE n == Len(c.edges)
           i1 == Incidences(e.edges, u, n + n)
           i2 == Incidences(e.edges, Prefixed(u), n + n)
           ic == Incidences(c.edges, u, n)
<1>4. /\ i1 \in FractionRow(n + n) /\ i2 \in FractionRow(n + n) /\ ic \in FractionRow(n) /\ zero \in FractionRow(n)
  <2> HIDE DEF n
  <2>1. zero \in FractionRow(n)
    BY ZeroOne DEF FractionRow, n
  <2> QED
    BY <1>2, <2>1, IncidenceIs DEF FractionRow, Incidences
<1>5. \A j \in 1..n : j \in 1..(n + n) /\ n + j \in 1..(n + n)
  <2> HIDE DEF n
  <2> QED
    BY <1>2 DEF n
<1>6. \A j \in 1..n : i1[j] = ic[j] /\ i1[n + j] = zero[j] /\ i2[j] = zero[j] /\ i2[n + j] = ic[j]
  <2> SUFFICES ASSUME NEW j \in 1..n PROVE i1[j] = ic[j] /\ i1[n + j] = zero[j] /\ i2[j] = zero[j] /\ i2[n + j] = ic[j]
    OBVIOUS
  <2>1. j \in 1..(n + n) /\ n + j \in 1..(n + n) /\ zero[j] = Zero
    BY <1>5
  <2>2. /\ i1[j] = Incidence(e.edges[j], u) /\ i1[n + j] = Incidence(e.edges[n + j], u)
        /\ i2[j] = Incidence(e.edges[j], Prefixed(u)) /\ i2[n + j] = Incidence(e.edges[n + j], Prefixed(u))
        /\ ic[j] = Incidence(c.edges[j], u)
    BY <2>1 DEF Incidences
  <2>3. /\ e.edges[j] = c.edges[j] /\ e.edges[n + j] = rename(c.edges)[j]
        /\ Renames(rename(c.edges)[j], c.edges[j])
    BY <1>3
  <2> HIDE DEF n, i1, i2, ic
  <2>4. /\ Incidence(c.edges[j], Prefixed(u)) = Zero
        /\ Incidence(rename(c.edges)[j], u) = Zero
        /\ Incidence(rename(c.edges)[j], Prefixed(u)) = Incidence(c.edges[j], u)
    BY <1>2, <2>3, IncidenceApart
  <2> QED
    BY <2>1, <2>2, <2>3, <2>4
<1>7. Len(e.edges) = n + n
  BY <1>2
<1> HIDE DEF n, i1, i2, ic
<1>8. Parts(i1, ic, n, zero, n) /\ Parts(i2, zero, n, ic, n)
  BY <1>4, <1>6 DEF Parts
<1> QED
  BY <1>7, <1>8 DEF n, i1, i2, ic

\* What the vertices of two branches side by side lie over.
OverVertices(w, c) == \A v \in RangeOf(w.vertices) : w.vertex_over[v] \in RangeOf(c.vertices)

Parented(o, a, b) ==
    /\ \A v \in RangeOf(a.vertices) : o[v] = a.vertex_over[v]
    /\ \A v \in RangeOf(b.vertices) : o[Prefixed(v)] = Prefixed(b.vertex_over[v])

LEMMA NaturalParts ==
    ASSUME NEW e, NEW c, NEW d, NEW a, NEW b, Doubles(e, c, d, a, b),
           OverVertices(a, c), OverVertices(b, c), NEW o, Parented(o, a, b)
    PROVE  /\ \A i \in 1..Len(a.edges) : Natural(d.edges[i], o, e) <=> Natural(a.edges[i], a.vertex_over, c)
           /\ \A i \in 1..Len(b.edges) :
                Natural(d.edges[Len(a.edges) + i], o, e) <=> Natural(b.edges[i], b.vertex_over, c)
<1>1. Named(c) /\ Named(a) /\ Named(b) /\ Alongside(e, c, c) /\ Alongside(d, a, b)
  BY DEF Doubles
<1>2. /\ RangeOf(e.vertices) = RangeOf(c.vertices) \cup {Prefixed(u) : u \in RangeOf(c.vertices)}
      /\ RangeOf(c.vertices) \subseteq DeclaredNames
  BY <1>1, NamedIs DEF Alongside
<1> DEFINE zero == [j \in 1..Len(c.edges) |-> Zero]
           ie(u) == Incidences(e.edges, u, Len(e.edges))
           ic(u) == Incidences(c.edges, u, Len(c.edges))
<1>3. ASSUME NEW f, \A j \in 1..Len(c.edges) : Lies(f, c.edges[j].name) \in Fractions PROVE Share(f, c, zero) = Zero
  <2> DEFINE l == [j \in 1..Len(c.edges) |-> Lies(f, c.edges[j].name)]
             m == Len(c.edges)
  <2>1. m \in Nat
    BY <1>1, NamedIs, ComplexIs
  <2>2. \A j \in 1..m : l[j] \in Fractions /\ zero[j] = Zero
    BY <1>3
  <2> HIDE DEF l, m, zero
  <2>3. SumProducts(l, zero, m) = Zero
    BY <2>1, <2>2, ZeroSum
  <2> QED
    BY <2>3 DEF Share, l, m
<1>4. /\ \A i \in 1..Len(a.edges) : Share(a.edges[i], c, zero) = Zero
      /\ \A i \in 1..Len(b.edges) : Share(b.edges[i], c, zero) = Zero
  BY <1>1, <1>3, NamedIs, SignIs
<1> HIDE DEF zero, ie, ic
<1>5. ASSUME NEW u \in RangeOf(c.vertices)
      PROVE  /\ \A i \in 1..Len(a.edges) : /\ Share(d.edges[i], e, ie(u)) = Share(a.edges[i], c, ic(u))
                                           /\ Share(d.edges[i], e, ie(Prefixed(u))) = Zero
             /\ \A i \in 1..Len(b.edges) : /\ Share(d.edges[Len(a.edges) + i], e, ie(u)) = Zero
                                           /\ Share(d.edges[Len(a.edges) + i], e, ie(Prefixed(u)))
                                                = Share(b.edges[i], c, ic(u))
  <2>1. /\ Parts(ie(u), ic(u), Len(c.edges), zero, Len(c.edges))
        /\ Parts(ie(Prefixed(u)), zero, Len(c.edges), ic(u), Len(c.edges))
    BY <1>5, IncidenceParts DEF zero, ie, ic
  <2>2. \A r, p, q : Parts(r, p, Len(c.edges), q, Len(c.edges)) =>
          /\ \A i \in 1..Len(a.edges) : Share(d.edges[i], e, r) = Share(a.edges[i], c, p)
          /\ \A i \in 1..Len(b.edges) : Share(d.edges[Len(a.edges) + i], e, r) = Share(b.edges[i], c, q)
    <3> SUFFICES ASSUME NEW r, NEW p, NEW q, Parts(r, p, Len(c.edges), q, Len(c.edges))
                 PROVE  /\ \A i \in 1..Len(a.edges) : Share(d.edges[i], e, r) = Share(a.edges[i], c, p)
                        /\ \A i \in 1..Len(b.edges) : Share(d.edges[Len(a.edges) + i], e, r) = Share(b.edges[i], c, q)
      OBVIOUS
    <3>1. Doubles(e, c, d, a, b)
      OBVIOUS
    <3>2. DoublesWith(r, p, q, e, c, d, a, b)
      BY <3>1 DEF DoublesWith
    <3> QED
      BY <3>2, ShareParts DEF SharesAlike
  <2> QED
    BY <1>4, <2>1, <2>2
<1>6. \A i \in 1..Len(a.edges) : d.edges[i] = a.edges[i] /\ Parent(d.edges[i], o) = Parent(a.edges[i], a.vertex_over)
  BY <1>1, NamedIs DEF Alongside, Parented, Parent
<1>7. \A i \in 1..Len(a.edges) : \E f : Renames(f, Parent(a.edges[i], a.vertex_over))
  <2> SUFFICES ASSUME NEW i \in 1..Len(a.edges) PROVE \E f : Renames(f, Parent(a.edges[i], a.vertex_over))
    OBVIOUS
  <2> DEFINE p == Parent(a.edges[i], a.vertex_over)
  <2>1. p.src \in DeclaredNames /\ p.tgt \in DeclaredNames
    BY <1>1, <1>2, NamedIs DEF OverVertices, Parent
  <2> WITNESS [src |-> Prefixed(p.src), tgt |-> Prefixed(p.tgt)]
  <2> HIDE DEF p
  <2>2. Renames([src |-> Prefixed(p.src), tgt |-> Prefixed(p.tgt)], p)
    BY <2>1 DEF Renames
  <2> QED
    BY <2>2 DEF p
<1>8. \A i \in 1..Len(b.edges) : Renames(Parent(d.edges[Len(a.edges) + i], o), Parent(b.edges[i], b.vertex_over))
  <2> SUFFICES ASSUME NEW i \in 1..Len(b.edges)
               PROVE  Renames(Parent(d.edges[Len(a.edges) + i], o), Parent(b.edges[i], b.vertex_over))
    OBVIOUS
  <2> DEFINE f == d.edges[Len(a.edges) + i]
             g == b.edges[i]
  <2>1. f.src = Prefixed(g.src) /\ f.tgt = Prefixed(g.tgt)
    BY <1>1, RenamedIs DEF Alongside
  <2>2. g.src \in RangeOf(b.vertices) /\ g.tgt \in RangeOf(b.vertices)
    BY <1>1, NamedIs
  <2> HIDE DEF f, g
  <2>3. Renames(Parent(f, o), Parent(g, b.vertex_over))
    BY <1>2, <2>1, <2>2 DEF Renames, Parent, Parented, OverVertices
  <2> QED
    BY <2>3 DEF f, g
<1>9. ASSUME NEW i \in 1..Len(a.edges) PROVE Natural(d.edges[i], o, e) <=> Natural(a.edges[i], a.vertex_over, c)
  <2> DEFINE p == Parent(a.edges[i], a.vertex_over)
             f == d.edges[i]
  <2>1. \A u \in RangeOf(c.vertices) : Incidence(p, Prefixed(u)) = Zero
    BY <1>2, <1>7, IncidenceApart
  <2>2. Natural(f, o, e) <=> \A u \in RangeOf(e.vertices) : Incidence(p, u) = Share(f, e, ie(u))
    BY <1>6 DEF Natural, ie
  <2>3. Natural(a.edges[i], a.vertex_over, c) <=> \A u \in RangeOf(c.vertices) : Incidence(p, u) = Share(a.edges[i], c, ic(u))
    BY DEF Natural, ic
  <2>4. \A u \in RangeOf(c.vertices) : /\ Share(f, e, ie(u)) = Share(a.edges[i], c, ic(u))
                                       /\ Share(f, e, ie(Prefixed(u))) = Zero
    BY <1>5
  <2> HIDE DEF p, f
  <2>5. Natural(f, o, e) <=> Natural(a.edges[i], a.vertex_over, c)
    BY <1>2, <2>1, <2>2, <2>3, <2>4
  <2> QED
    BY <2>5 DEF f
<1>10. ASSUME NEW i \in 1..Len(b.edges)
       PROVE  Natural(d.edges[Len(a.edges) + i], o, e) <=> Natural(b.edges[i], b.vertex_over, c)
  <2> DEFINE p == Parent(b.edges[i], b.vertex_over)
             f == d.edges[Len(a.edges) + i]
             s == Parent(f, o)
  <2>1. \A u \in RangeOf(c.vertices) : Incidence(s, u) = Zero /\ Incidence(s, Prefixed(u)) = Incidence(p, u)
    BY <1>2, <1>8, IncidenceApart
  <2>2. Natural(f, o, e) <=> \A u \in RangeOf(e.vertices) : Incidence(s, u) = Share(f, e, ie(u))
    BY DEF Natural, ie
  <2>3. Natural(b.edges[i], b.vertex_over, c) <=> \A u \in RangeOf(c.vertices) : Incidence(p, u) = Share(b.edges[i], c, ic(u))
    BY DEF Natural, ic
  <2>4. \A u \in RangeOf(c.vertices) : /\ Share(f, e, ie(u)) = Zero
                                       /\ Share(f, e, ie(Prefixed(u))) = Share(b.edges[i], c, ic(u))
    BY <1>5
  <2> HIDE DEF p, f, s
  <2>5. Natural(f, o, e) <=> Natural(b.edges[i], b.vertex_over, c)
    BY <1>2, <2>1, <2>2, <2>3, <2>4
  <2> QED
    BY <2>5 DEF f
<1> QED
  BY <1>9, <1>10

----------------------------------------------------------------------------
(* The two branches side by side (DisjointAdds).                           *)

\* The fields of a check.
LEMMA CheckIs ==
    ASSUME NEW c, NEW r, NEW w
    PROVE  /\ check(c, r, w).A3 = A3(w) /\ A3(w) \in BOOLEAN
           /\ check(c, r, w).N0 = N0(c, w, rho0_star(c, w), rho_star(c, w))
           /\ N0(c, w, rho0_star(c, w), rho_star(c, w)) \in BOOLEAN
           /\ check(c, r, w).E0 = E0(c, w, rho_star(c, w)) /\ E0(c, w, rho_star(c, w)) \in BOOLEAN
           /\ check(c, r, w).pairing = Pairing(w, mat_vec(rho_star(c, w), r))
           /\ check(c, r, w).A4 = (Pairing(w, mat_vec(rho_star(c, w), r)) # Zero)
<1>1. A3(w) \in BOOLEAN
  BY DEF A3, is_zero
<1>2. N0(c, w, rho0_star(c, w), rho_star(c, w)) \in BOOLEAN
  BY DEF N0
<1>3. E0(c, w, rho_star(c, w)) \in BOOLEAN
  BY DEF E0
<1> QED
  BY <1>1, <1>2, <1>3 DEF check, A4

\* A refinement of c, with its declared vector, over c's names.
Branch(w, c) == LegalWitness(w) /\ Named(w) /\ OverNamed(w, c) /\ OverVertices(w, c)

\* What a check of a branch says, without matrices.
LEMMA BranchIs ==
    ASSUME NEW c, Named(c), NEW w, Branch(w, c), NEW r \in FractionRow(Len(c.edges))
    PROVE  /\ LegalComplex(w) /\ LegalComplex(c) /\ EndsIn(w) /\ EndsIn(c) /\ Distinct(w.vertices)
           /\ w.z \in FractionRow(Len(w.edges)) /\ Len(w.edges) \in Nat
           /\ A3(w) <=> Closed(w.z, w.edges, Len(w.edges))
           /\ E0(c, w, rho_star(c, w)) <=> Reflecting(c, w)
           /\ N0(c, w, rho0_star(c, w), rho_star(c, w))
                <=> \A i \in 1..Len(w.edges) : Natural(w.edges[i], w.vertex_over, c)
           /\ \A i \in 1..Len(w.edges) : w.z[i] \in Fractions /\ Shares(w.edges, c, r, Len(w.edges))[i] \in Fractions
           /\ Pairing(w, mat_vec(rho_star(c, w), r)) = SumProducts(w.z, Shares(w.edges, c, r, Len(w.edges)), Len(w.edges))
           /\ Pairing(w, mat_vec(rho_star(c, w), r)) \in Fractions
<1>1. /\ LegalComplex(w) /\ LegalComplex(c) /\ EndsIn(w) /\ EndsIn(c) /\ Distinct(w.vertices)
      /\ w.z \in FractionRow(Len(w.edges)) /\ Len(w.edges) \in Nat
  BY NamedIs, WitnessIs, ComplexIs DEF Branch
<1>2. A3(w) <=> Closed(w.z, w.edges, Len(w.edges))
  BY <1>1, CycleIs DEF A3
<1>3. E0(c, w, rho_star(c, w)) <=> Reflecting(c, w)
  BY <1>1, ReflectingIs
<1>4. N0(c, w, rho0_star(c, w), rho_star(c, w))
                <=> \A i \in 1..Len(w.edges) : Natural(w.edges[i], w.vertex_over, c)
  BY <1>1, NaturalIs
<1>5. /\ \A i \in 1..Len(w.edges) : w.z[i] \in Fractions /\ Shares(w.edges, c, r, Len(w.edges))[i] \in Fractions
      /\ Pairing(w, mat_vec(rho_star(c, w), r)) = SumProducts(w.z, Shares(w.edges, c, r, Len(w.edges)), Len(w.edges))
  BY <1>1, PairingIs
<1>6. Pairing(w, mat_vec(rho_star(c, w), r)) \in Fractions
  BY <1>1, <1>5, ProductsType
<1> QED
  BY <1>1, <1>2, <1>3, <1>4, <1>5, <1>6

\* The parents of both branches' vertices, as rename_vertex_over puts them.
LEMMA ParentsJoin ==
    ASSUME NEW a, Named(a), NEW b, Named(b) PROVE Parented(rename_vertex_over(a, b), a, b)
<1> DEFINE prefixed == RangeOf(rename_all(b.vertices))
<1>1. prefixed = {Prefixed(v) : v \in RangeOf(b.vertices)}
  <2>1. /\ DOMAIN rename_all(b.vertices) = DOMAIN b.vertices
        /\ \A k \in DOMAIN b.vertices : rename_all(b.vertices)[k] = Prefixed(b.vertices[k])
    BY DEF rename_all
  <2> QED
    BY <2>1 DEF RangeOf
<1>2. /\ RangeOf(a.vertices) \subseteq DeclaredNames /\ RangeOf(b.vertices) \subseteq DeclaredNames
  BY NamedIs
<1>3. ASSUME NEW v \in RangeOf(b.vertices) PROVE Unprefixed(Prefixed(v), b.vertices) = v
  BY <1>2, NamesApart DEF Unprefixed
<1> HIDE DEF prefixed
<1>4. \A v \in RangeOf(a.vertices) : v \notin prefixed
  BY <1>1, <1>2, NamesApart
<1>5. rename_vertex_over(a, b) =
        [v \in RangeOf(a.vertices) \cup prefixed |->
            IF v \in prefixed THEN Prefixed(b.vertex_over[Unprefixed(v, b.vertices)]) ELSE a.vertex_over[v]]
  BY DEF rename_vertex_over, prefixed
<1>6. \A v \in RangeOf(a.vertices) : rename_vertex_over(a, b)[v] = a.vertex_over[v]
  BY <1>4, <1>5
<1>7. \A v \in RangeOf(b.vertices) : rename_vertex_over(a, b)[Prefixed(v)] = Prefixed(b.vertex_over[v])
  BY <1>1, <1>3, <1>5
<1> QED
  BY <1>6, <1>7 DEF Parented

LEMMA Cancels ==
    ASSUME NEW p \in Fractions, NEW q \in Fractions PROVE Plus(p, q) = Zero <=> p = Minus(Zero, q)
  BY ZeroOne, PlusMinus, MinusPlus

\* Side by side everything is as it is for each branch, and the pairings add.
LEMMA SideBySideIs ==
    ASSUME NEW c, Named(c), NEW r \in FractionRow(Len(c.edges)), NEW a, Branch(a, c), NEW b, Branch(b, c)
    PROVE  DisjointAdds(check(c, r, a), check(c, r, b), check(Doubled(c), r \o r, build_disjoint_parallel(a, b)))
<1> DEFINE e == Doubled(c)
           d == build_disjoint_parallel(a, b)
           R == r \o r
           m == Len(a.edges)
           k == Len(b.edges)
           n == Len(c.edges)
<1>1. /\ d.vertices = a.vertices \o rename_all(b.vertices) /\ d.edges = a.edges \o rename(b.edges)
      /\ d.vertex_over = rename_vertex_over(a, b) /\ d.z = a.z \o b.z
  BY DEF build_disjoint_parallel
<1>2. e.vertices = c.vertices \o rename_all(c.vertices) /\ e.edges = c.edges \o rename(c.edges)
  BY DEF Doubled
<1>3. /\ Named(a) /\ Named(b) /\ OverNamed(a, c) /\ OverNamed(b, c) /\ OverVertices(a, c) /\ OverVertices(b, c)
  BY DEF Branch
<1>4. m \in Nat /\ k \in Nat /\ n \in Nat
  BY <1>3, NamedIs, ComplexIs
<1>5. r \in FractionRow(n)
  OBVIOUS
<1>6. a.z \in FractionRow(m) /\ b.z \in FractionRow(k)
  BY BranchIs
<1> HIDE DEF e, d
<1>7. Alongside(d, a, b) /\ Alongside(e, c, c)
  BY <1>1, <1>2, <1>3, AlongsideIs
<1>8. Doubles(e, c, d, a, b)
  BY <1>3, <1>7 DEF Doubles
<1>9. /\ LegalComplex(d) /\ LegalComplex(e) /\ EndsIn(d) /\ EndsIn(e) /\ Distinct(d.vertices)
      /\ Len(d.edges) = m + k /\ Len(e.edges) = n + n
  BY <1>7 DEF Alongside
<1>10. Parented(d.vertex_over, a, b)
  BY <1>1, <1>3, ParentsJoin
<1>11. Parts(d.z, a.z, m, b.z, k) /\ Parts(R, r, n, r, n)
  <2> HIDE DEF m, n, k
  <2> QED
    BY <1>1, <1>4, <1>5, <1>6, RowsJoin
<1>12. d.z \in FractionRow(Len(d.edges)) /\ R \in FractionRow(Len(e.edges))
  BY <1>9, <1>11 DEF Parts
<1>13. A3(d) <=> A3(a) /\ A3(b)
  <2>1. A3(d) <=> Closed(d.z, d.edges, Len(d.edges))
    BY <1>9, <1>12, CycleIs DEF A3
  <2>2. Closed(d.z, d.edges, Len(d.edges)) <=> Closed(a.z, a.edges, m) /\ Closed(b.z, b.edges, k)
    <3>1. Named(a) /\ Named(b) /\ Alongside(d, a, b) /\ Parts(d.z, a.z, Len(a.edges), b.z, Len(b.edges))
      BY <1>3, <1>7, <1>11
    <3> DEFINE x == d.z
               u == a.z
               w == b.z
    <3> HIDE DEF x, u, w
    <3>2. Parts(x, u, Len(a.edges), w, Len(b.edges))
      BY <3>1 DEF x, u, w
    <3>3. Closed(x, d.edges, Len(d.edges)) <=> Closed(u, a.edges, Len(a.edges)) /\ Closed(w, b.edges, Len(b.edges))
      BY ONLY <3>1, <3>2, ClosedParts
    <3> QED
      BY <3>3 DEF x, u, w
  <2> QED
    BY <2>1, <2>2, BranchIs
<1>14. E0(e, d, rho_star(e, d)) <=> E0(c, a, rho_star(c, a)) /\ E0(c, b, rho_star(c, b))
  <2>1. E0(e, d, rho_star(e, d)) <=> Reflecting(e, d)
    BY <1>9, ReflectingIs
  <2> QED
    BY <1>8, <2>1, BranchIs, ReflectingParts
<1>15. N0(e, d, rho0_star(e, d), rho_star(e, d))
          <=> N0(c, a, rho0_star(c, a), rho_star(c, a)) /\ N0(c, b, rho0_star(c, b), rho_star(c, b))
  <2> DEFINE nd(i) == Natural(d.edges[i], d.vertex_over, e)
             na(i) == Natural(a.edges[i], a.vertex_over, c)
             nb(i) == Natural(b.edges[i], b.vertex_over, c)
  <2>1. N0(e, d, rho0_star(e, d), rho_star(e, d)) <=> \A i \in 1..(m + k) : nd(i)
    BY <1>9, NaturalIs
  <2>2. N0(c, a, rho0_star(c, a), rho_star(c, a)) <=> \A i \in 1..m : na(i)
    BY BranchIs
  <2>3. N0(c, b, rho0_star(c, b), rho_star(c, b)) <=> \A i \in 1..k : nb(i)
    BY BranchIs
  <2>4. \A i \in 1..m : nd(i) <=> na(i)
    BY <1>3, <1>8, <1>10, NaturalParts
  <2>5. \A i \in 1..k : nd(m + i) <=> nb(i)
    BY <1>3, <1>8, <1>10, NaturalParts
  <2> HIDE DEF nd, na, nb, m, k
  <2>6. (\A i \in 1..(m + k) : nd(i)) <=> (\A i \in 1..m : nd(i)) /\ (\A i \in 1..k : nd(m + i))
    <3>1. \A i \in 1..m : i \in 1..(m + k)
      BY <1>4
    <3>2. \A i \in 1..k : m + i \in 1..(m + k)
      BY <1>4
    <3>3. \A i \in 1..(m + k) : i \in 1..m \/ \E j \in 1..k : i = m + j
      <4> SUFFICES ASSUME NEW i \in 1..(m + k), i \notin 1..m PROVE \E j \in 1..k : i = m + j
        OBVIOUS
      <4>1. i - m \in 1..k /\ i = m + (i - m)
        BY <1>4
      <4> QED
        BY <4>1
    <3> QED
      BY <3>1, <3>2, <3>3
  <2> QED
    BY <2>1, <2>2, <2>3, <2>4, <2>5, <2>6
<1> DEFINE pa == Pairing(a, mat_vec(rho_star(c, a), r))
           pb == Pairing(b, mat_vec(rho_star(c, b), r))
           pd == Pairing(d, mat_vec(rho_star(e, d), R))
           sa == Shares(a.edges, c, r, m)
           sb == Shares(b.edges, c, r, k)
           sd == Shares(d.edges, e, R, m + k)
<1>16. pa = SumProducts(a.z, sa, m) /\ pb = SumProducts(b.z, sb, k) /\ pa \in Fractions /\ pb \in Fractions
  BY BranchIs
<1>17. pd = SumProducts(d.z, sd, m + k)
  BY <1>9, <1>12, PairingIs
<1>18. (\A i \in 1..m : sd[i] = sa[i] /\ sa[i] \in Fractions) /\ (\A i \in 1..k : sd[m + i] = sb[i] /\ sb[i] \in Fractions)
  <2>1. DoublesWith(R, r, r, e, c, d, a, b)
    BY <1>8, <1>11 DEF DoublesWith
  <2>2. SharesAlike(R, r, r, e, c, d, a, b)
    BY <2>1, ShareParts
  <2>3. (\A i \in 1..m : i \in 1..(m + k)) /\ (\A i \in 1..k : m + i \in 1..(m + k))
    <3> HIDE DEF m, k
    <3> QED
      BY <1>4
  <2>4. (\A i \in 1..m : sa[i] \in Fractions) /\ (\A i \in 1..k : sb[i] \in Fractions)
    BY BranchIs
  <2> QED
    BY <2>2, <2>3, <2>4 DEF SharesAlike, Shares
<1>19. pd = Plus(pa, pb)
  <2> HIDE DEF m, k, n, sa, sb, sd, pa, pb, pd
  <2> QED
    BY <1>4, <1>11, <1>16, <1>17, <1>18, PartsSum
<1>20. pd # Zero <=> pa # Minus(Zero, pb)
  BY <1>16, <1>19, Cancels
<1> HIDE DEF R, m, k, n, sa, sb, sd
<1> DEFINE A == check(c, r, a)
           B == check(c, r, b)
           D == check(e, R, d)
<1>21. /\ D.A3 = (A.A3 /\ B.A3) /\ D.N0 = (A.N0 /\ B.N0) /\ D.E0 = (A.E0 /\ B.E0)
       /\ D.pairing = Plus(A.pairing, B.pairing) /\ (D.A4 <=> A.pairing # Minus(Zero, B.pairing))
  <2>1. D.A3 = A3(d) /\ A3(d) \in BOOLEAN /\ A.A3 = A3(a) /\ A3(a) \in BOOLEAN /\ B.A3 = A3(b) /\ A3(b) \in BOOLEAN
    BY CheckIs
  <2>2. D.N0 = N0(e, d, rho0_star(e, d), rho_star(e, d)) /\ N0(e, d, rho0_star(e, d), rho_star(e, d)) \in BOOLEAN
    BY CheckIs
  <2>3. /\ A.N0 = N0(c, a, rho0_star(c, a), rho_star(c, a)) /\ N0(c, a, rho0_star(c, a), rho_star(c, a)) \in BOOLEAN
        /\ B.N0 = N0(c, b, rho0_star(c, b), rho_star(c, b)) /\ N0(c, b, rho0_star(c, b), rho_star(c, b)) \in BOOLEAN
    BY CheckIs
  <2>4. /\ D.E0 = E0(e, d, rho_star(e, d)) /\ E0(e, d, rho_star(e, d)) \in BOOLEAN
        /\ A.E0 = E0(c, a, rho_star(c, a)) /\ E0(c, a, rho_star(c, a)) \in BOOLEAN
        /\ B.E0 = E0(c, b, rho_star(c, b)) /\ E0(c, b, rho_star(c, b)) \in BOOLEAN
    BY CheckIs
  <2>5. D.pairing = pd /\ A.pairing = pa /\ B.pairing = pb /\ D.A4 = (pd # Zero)
    BY CheckIs
  <2> HIDE DEF A, B, D, pa, pb, pd
  <2>6. D.A3 = (A.A3 /\ B.A3)
    BY <1>13, <2>1
  <2>7. D.N0 = (A.N0 /\ B.N0)
    BY <1>15, <2>2, <2>3
  <2>8. D.E0 = (A.E0 /\ B.E0)
    BY <1>14, <2>4
  <2> QED
    BY <1>19, <1>20, <2>5, <2>6, <2>7, <2>8
<1> QED
  BY <1>21 DEF DisjointAdds, R, e, d

----------------------------------------------------------------------------
(* Gluing. Branch b without its seam comes after branch a, under names of  *)
(* its own except at the ends of the seam.                                 *)

\* The members that remain, and that none of them is there twice if none was.
Rest(v, s, drop, k) ==
    /\ Len(v) \in Nat
    /\ \A i \in 1..Len(v) : \E j \in 1..k : v[i] = s[j] /\ s[j] \notin drop
    /\ \A j \in 1..k : s[j] \notin drop => \E i \in 1..Len(v) : v[i] = s[j]

LEMMA WithoutRest ==
    ASSUME NEW S, NEW s \in Seq(S), NEW drop
    PROVE  /\ Without(s, drop) \in Seq(S)
           /\ RangeOf(Without(s, drop)) = RangeOf(s) \ drop
           /\ Distinct(s) => Distinct(Without(s, drop))
<1> DEFINE n == Len(s)
<1>1. n \in Nat /\ DOMAIN s = 1..n /\ \A k \in 1..n : s[k] \in S
  OBVIOUS
<1>2. PICK t : Filters(t, s, drop, n) /\ Without(s, drop) = t[n]
  BY <1>1, WithoutRuns
<1>3. t[0] = <<>> /\ \A k \in 1..n : t[k] = IF s[k] \in drop THEN t[k - 1] ELSE Append(t[k - 1], s[k])
  BY <1>2 DEF Filters
<1>4. Distinct(s) <=> \A i, j \in 1..n : s[i] = s[j] => i = j
  BY <1>1 DEF Distinct
<1> HIDE DEF n
<1> DEFINE Apart(v) == \A i, j \in 1..Len(v) : v[i] = v[j] => i = j
           Q == {k \in Nat : k <= n => t[k] \in Seq(S) /\ Rest(t[k], s, drop, k) /\ (Distinct(s) => Apart(t[k]))}
<1>5. 0 \in Q
  <2>1. <<>> \in Seq(S) /\ Rest(<<>>, s, drop, 0) /\ Apart(<<>>)
    BY DEF Rest
  <2>2. t[0] = <<>> /\ 0 \in Nat
    BY <1>3
  <2> HIDE DEF Apart
  <2> QED
    BY <2>1, <2>2
<1>6. ASSUME NEW k \in Q PROVE k + 1 \in Q
  <2>1. SUFFICES ASSUME k + 1 <= n
                 PROVE  t[k + 1] \in Seq(S) /\ Rest(t[k + 1], s, drop, k + 1) /\ (Distinct(s) => Apart(t[k + 1]))
    OBVIOUS
  <2>2. k \in Nat /\ t[k] \in Seq(S) /\ Rest(t[k], s, drop, k) /\ (Distinct(s) => Apart(t[k]))
    BY <1>1, <2>1
  <2>3. k + 1 \in 1..n /\ (k + 1) - 1 = k /\ s[k + 1] \in S
    BY <1>1, <2>1, <2>2
  <2>4. t[k + 1] = IF s[k + 1] \in drop THEN t[k] ELSE Append(t[k], s[k + 1])
    BY <1>3, <2>3
  <2> DEFINE v == t[k]
             u == t[k + 1]
             h == Len(v)
  <2> HIDE DEF v, u
  <2>5. /\ h \in Nat
        /\ \A i \in 1..h : \E j \in 1..k : v[i] = s[j] /\ s[j] \notin drop
        /\ \A j \in 1..k : s[j] \notin drop => \E i \in 1..h : v[i] = s[j]
    BY <2>2 DEF Rest, v
  <2>6. \A j \in 1..(k + 1) : j \in 1..k \/ j = k + 1
    BY <2>2
  <2>7. \A j \in 1..k : j \in 1..(k + 1) /\ j # k + 1 /\ j \in 1..n
    <3> HIDE DEF h, Q
    <3> QED
      BY <1>1, <2>2, <2>3
  <2>8. CASE s[k + 1] \in drop
    <3>1. u = v
      BY <2>4, <2>8 DEF u, v
    <3>2. Rest(v, s, drop, k + 1)
      <4> HIDE DEF h
      <4>1. \A i \in 1..h : \E j \in 1..(k + 1) : v[i] = s[j] /\ s[j] \notin drop
        BY <2>5, <2>7
      <4>2. \A j \in 1..(k + 1) : s[j] \notin drop => \E i \in 1..h : v[i] = s[j]
        BY <2>5, <2>6, <2>8
      <4> QED
        BY <2>5, <4>1, <4>2 DEF Rest, h
    <3> QED
      BY <2>2, <3>1, <3>2 DEF u, v
  <2>9. CASE s[k + 1] \notin drop
    <3>1. /\ u = Append(v, s[k + 1]) /\ u \in Seq(S) /\ Len(u) = h + 1
          /\ u[h + 1] = s[k + 1] /\ \A i \in 1..h : u[i] = v[i]
      BY <2>2, <2>3, <2>4, <2>5, <2>9 DEF u, v
    <3> HIDE DEF h
    <3>2. \A i \in 1..(h + 1) : i \in 1..h \/ i = h + 1
      BY <2>5
    <3>3. \A i \in 1..h : i \in 1..(h + 1)
      BY <2>5
    <3>4. \A i \in 1..(h + 1) : \E j \in 1..(k + 1) : u[i] = s[j] /\ s[j] \notin drop
      <4>1. k + 1 \in 1..(k + 1)
        BY <2>2
      <4> QED
        <5> SUFFICES ASSUME NEW i \in 1..(h + 1)
                     PROVE  \E j \in 1..(k + 1) : u[i] = s[j] /\ s[j] \notin drop
          OBVIOUS
        <5>1. CASE i \in 1..h
          BY <2>5, <2>7, <3>1, <5>1
        <5>2. CASE i = h + 1
          BY <2>9, <3>1, <4>1, <5>2
        <5> QED
          BY <3>2, <5>1, <5>2
    <3>5. \A j \in 1..(k + 1) : s[j] \notin drop => \E i \in 1..(h + 1) : u[i] = s[j]
      <4>1. h + 1 \in 1..(h + 1)
        BY <2>5
      <4> QED
        BY <2>5, <2>6, <3>1, <3>3, <4>1
    <3>6. Distinct(s) => Apart(u)
      <4> SUFFICES ASSUME Distinct(s), NEW i \in 1..(h + 1), NEW j \in 1..(h + 1), u[i] = u[j] PROVE i = j
        BY <3>1
      <4>1. \A l \in 1..h : v[l] # s[k + 1]
        BY <1>4, <2>3, <2>5, <2>7
      <4>2. \A l, m \in 1..h : v[l] = v[m] => l = m
        BY <2>2 DEF v, h
      <4> QED
        BY <3>1, <3>2, <4>1, <4>2
    <3>7. Rest(u, s, drop, k + 1)
      <4>1. h + 1 \in Nat
        BY <2>5
      <4> QED
        BY <3>1, <3>4, <3>5, <4>1 DEF Rest
    <3> QED
      BY <3>1, <3>6, <3>7 DEF u
  <2> QED
    BY <2>8, <2>9
<1>7. Q = Nat
  <2>1. Q \in SUBSET Nat
    OBVIOUS
  <2> HIDE DEF Q
  <2> QED
    BY <1>5, <1>6, <2>1, Induction
<1> DEFINE w == Without(s, drop)
<1>8. w \in Seq(S) /\ Rest(w, s, drop, n) /\ (Distinct(s) => Apart(w))
  BY <1>1, <1>2, <1>7
<1> HIDE DEF w, Q
<1>9. DOMAIN w = 1..Len(w)
  BY <1>8
<1>10. RangeOf(w) = RangeOf(s) \ drop
  <2>1. RangeOf(w) = {w[i] : i \in 1..Len(w)} /\ RangeOf(s) = {s[j] : j \in 1..n}
    BY <1>1, <1>9 DEF RangeOf
  <2>2. /\ \A i \in 1..Len(w) : \E j \in 1..n : w[i] = s[j] /\ s[j] \notin drop
        /\ \A j \in 1..n : s[j] \notin drop => \E i \in 1..Len(w) : w[i] = s[j]
    BY <1>8 DEF Rest
  <2>3. ASSUME NEW x \in RangeOf(w) PROVE x \in RangeOf(s) \ drop
    BY <2>1, <2>2
  <2>4. ASSUME NEW x \in RangeOf(s) \ drop PROVE x \in RangeOf(w)
    BY <2>1, <2>2
  <2> QED
    BY <2>3, <2>4
<1>11. Distinct(s) => Distinct(w)
  BY <1>8, <1>9 DEF Distinct
<1> QED
  BY <1>8, <1>10, <1>11 DEF w

\* One place left out of all places.
LEMMA WithoutOne ==
    ASSUME NEW n \in Nat, NEW k \in 1..n, NEW drop, \A j \in 1..n : j \in drop <=> j = k
    PROVE  /\ Len(Without([j \in 1..n |-> j], drop)) = n - 1
           /\ DOMAIN Without([j \in 1..n |-> j], drop) = 1..(n - 1)
           /\ \A i \in 1..(n - 1) : Without([j \in 1..n |-> j], drop)[i] = Skip(k)[i]
<1> DEFINE s == [j \in 1..n |-> j]
<1>1. Len(s) = n /\ \A j \in 1..n : s[j] = j
  OBVIOUS
<1>2. PICK t : Filters(t, s, drop, n) /\ Without(s, drop) = t[n]
  <2> HIDE DEF s
  <2> QED
    BY <1>1, WithoutRuns
<1>3. t[0] = <<>> /\ \A j \in 1..n : t[j] = IF j = k THEN t[j - 1] ELSE Append(t[j - 1], j)
  <2> HIDE DEF s
  <2> QED
    BY <1>1, <1>2 DEF Filters
<1> DEFINE L(j) == IF j < k THEN j ELSE j - 1
           Q == {j \in Nat : j <= n => t[j] \in Seq(Nat) /\ Len(t[j]) = L(j) /\ \A i \in 1..L(j) : t[j][i] = Skip(k)[i]}
<1>4. 0 \in Q
  <2>1. t[0] \in Seq(Nat) /\ Len(t[0]) = 0
    BY <1>3
  <2>2. L(0) = 0 /\ 0 \in Nat
    OBVIOUS
  <2> QED
    BY <2>1, <2>2
<1>5. ASSUME NEW j \in Q PROVE j + 1 \in Q
  <2>1. SUFFICES ASSUME j + 1 <= n
                 PROVE  /\ t[j + 1] \in Seq(Nat) /\ Len(t[j + 1]) = L(j + 1)
                        /\ \A i \in 1..L(j + 1) : t[j + 1][i] = Skip(k)[i]
    OBVIOUS
  <2>2. j \in Nat /\ t[j] \in Seq(Nat) /\ Len(t[j]) = L(j) /\ \A i \in 1..L(j) : t[j][i] = Skip(k)[i]
    BY <2>1
  <2>3. j + 1 \in 1..n /\ (j + 1) - 1 = j
    BY <2>1, <2>2
  <2>4. t[j + 1] = IF j + 1 = k THEN t[j] ELSE Append(t[j], j + 1)
    BY <1>3, <2>3
  <2>5. CASE j + 1 = k
    <3>1. L(j + 1) = L(j)
      BY <2>2, <2>5
    <3> QED
      BY <2>2, <2>4, <2>5, <3>1
  <2>6. CASE j + 1 # k
    <3>1. L(j + 1) = L(j) + 1 /\ L(j) \in Nat
      BY <2>2, <2>6
    <3>2. Skip(k)[L(j) + 1] = j + 1
      BY <2>2, <2>6 DEF Skip
    <3> DEFINE h == L(j)
    <3>3. h \in Nat /\ L(j + 1) = h + 1 /\ Skip(k)[h + 1] = j + 1 /\ Len(t[j]) = h
          /\ \A i \in 1..h : t[j][i] = Skip(k)[i]
      BY <2>2, <3>1, <3>2
    <3> HIDE DEF h, L
    <3>4. /\ t[j + 1] \in Seq(Nat) /\ Len(t[j + 1]) = h + 1 /\ t[j + 1][h + 1] = j + 1
          /\ \A i \in 1..h : t[j + 1][i] = t[j][i]
      BY <2>2, <2>4, <2>6, <3>3
    <3>5. \A i \in 1..(h + 1) : i \in 1..h \/ i = h + 1
      BY <3>3
    <3> QED
      BY <3>3, <3>4, <3>5
  <2> QED
    BY <2>5, <2>6
<1>6. Q = Nat
  <2>1. Q \in SUBSET Nat
    OBVIOUS
  <2> HIDE DEF Q
  <2> QED
    BY <1>4, <1>5, <2>1, Induction
<1>7. n \in Q /\ L(n) = n - 1
  <2>1. n \in Q
    BY <1>6
  <2> QED
    BY <2>1
<1>8. t[n] \in Seq(Nat) /\ Len(t[n]) = n - 1 /\ \A i \in 1..(n - 1) : t[n][i] = Skip(k)[i]
  BY <1>7
<1>9. DOMAIN t[n] = 1..(n - 1)
  BY <1>8
<1> QED
  BY <1>2, <1>8, <1>9

\* The seam is one edge, found by its name.
LEMMA EdgeNamedIs ==
    ASSUME NEW w, Named(w), NEW seam \in RangeOf(EdgeNames(w))
    PROVE  /\ EdgeNamed(w, seam) \in 1..Len(w.edges)
           /\ \A j \in 1..Len(w.edges) : w.edges[j].name = seam <=> j = EdgeNamed(w, seam)
<1>1. DOMAIN w.edges = 1..Len(w.edges)
  BY NamedIs, ComplexIs
<1>2. \E j \in DOMAIN w.edges : w.edges[j].name = seam
  BY DEF RangeOf, EdgeNames
<1>3. EdgeNamed(w, seam) \in DOMAIN w.edges /\ w.edges[EdgeNamed(w, seam)].name = seam
  BY <1>2 DEF EdgeNamed
<1>4. \A i, j \in 1..Len(w.edges) : w.edges[i].name = w.edges[j].name => i = j
  BY NamedIs
<1> HIDE DEF Named
<1> QED
  BY <1>1, <1>3, <1>4

\* What rename_except makes of a name.
Keeping(kept) == [v \in DeclaredNames |-> IF v \in kept THEN v ELSE Prefixed(v)]

LEMMA KeepingIs ==
    ASSUME NEW kept, kept \subseteq DeclaredNames
    PROVE  /\ DOMAIN Keeping(kept) = DeclaredNames /\ OneToOne(Keeping(kept))
           /\ \A v \in DeclaredNames : /\ Keeping(kept)[v] = IF v \in kept THEN v ELSE Prefixed(v)
                                       /\ Keeping(kept)[v] \in DeclaredNames <=> v \in kept
                                       /\ Keeping(kept)[v] \in kept <=> v \in kept
  BY NamesApart DEF Keeping, OneToOne

RenamesExcept(re, b, seam, kept) ==
    /\ re.z = b.z /\ DOMAIN re.edges = 1..Len(b.edges) /\ Len(re.edges) = Len(b.edges)
    /\ \A i \in 1..Len(b.edges) :
         /\ re.edges[i].over = b.edges[i].over /\ re.edges[i].sign = b.edges[i].sign
         /\ re.edges[i].name = seam <=> b.edges[i].name = seam
         /\ b.edges[i].name = seam => re.edges[i] = b.edges[i]
         /\ b.edges[i].name # seam => /\ re.edges[i].src = Keeping(kept)[b.edges[i].src]
                                      /\ re.edges[i].tgt = Keeping(kept)[b.edges[i].tgt]
    /\ IsSequence(re.vertices) /\ Distinct(re.vertices)
    /\ RangeOf(re.vertices) = {Keeping(kept)[v] : v \in RangeOf(b.vertices)}
    /\ \A v \in RangeOf(b.vertices) : re.vertex_over[Keeping(kept)[v]] = b.vertex_over[v]

\* What rename_except makes of branch b.
LEMMA RenamedExcept ==
    ASSUME NEW b, Named(b), NEW seam \in DeclaredNames, NEW kept, kept \subseteq DeclaredNames
    PROVE  RenamesExcept(rename_except(b, seam, kept), b, seam, kept)
<1> DEFINE re == rename_except(b, seam, kept)
           f == Keeping(kept)
           n == Len(b.edges)
           rv(v) == IF v \in kept THEN v ELSE Prefixed(v)
           back(v) == IF v \in kept THEN v ELSE Unprefixed(v, b.vertices)
           vs == [k \in DOMAIN b.vertices |-> rv(b.vertices[k])]
           edge(k) == IF b.edges[k].name = seam THEN b.edges[k]
                      ELSE [b.edges[k] EXCEPT !.name = Prefixed(@), !.src = rv(@), !.tgt = rv(@)]
           es == [k \in DOMAIN b.edges |-> edge(k)]
           over == [v \in {rv(u) : u \in RangeOf(b.vertices)} |-> b.vertex_over[back(v)]]
<1>1. re = [vertices |-> vs, edges |-> es, vertex_over |-> over, z |-> b.z]
  BY Zenon DEF rename_except
<1>2. /\ LegalComplex(b) /\ DOMAIN b.edges = 1..n /\ n \in Nat
      /\ DOMAIN b.vertices = 1..Len(b.vertices) /\ Len(b.vertices) \in Nat
      /\ RangeOf(b.vertices) \subseteq DeclaredNames /\ Distinct(b.vertices)
      /\ \A i \in 1..n : b.edges[i].name \in DeclaredNames /\ b.edges[i].src \in DeclaredNames /\ b.edges[i].tgt \in DeclaredNames
  BY NamedIs, ComplexIs
<1>3. \A v \in DeclaredNames : f[v] = rv(v)
  BY DEF Keeping
<1> HIDE DEF re, f, vs, es, over
<1>4. re.vertices = vs /\ re.edges = es /\ re.vertex_over = over /\ re.z = b.z
  BY <1>1
<1>5. ASSUME NEW i \in 1..n
      PROVE  /\ re.edges[i].over = b.edges[i].over /\ re.edges[i].sign = b.edges[i].sign
             /\ re.edges[i].name = seam <=> b.edges[i].name = seam
             /\ b.edges[i].name = seam => re.edges[i] = b.edges[i]
             /\ b.edges[i].name # seam => re.edges[i].src = f[b.edges[i].src] /\ re.edges[i].tgt = f[b.edges[i].tgt]
  <2> DEFINE e == b.edges[i]
             x == Prefixed(e.name)
             y == rv(e.src)
             z == rv(e.tgt)
  <2>1. LegalEdge(e) /\ e.name \in DeclaredNames /\ f[e.src] = y /\ f[e.tgt] = z
    BY <1>2, <1>3 DEF LegalComplex
  <2>2. re.edges[i] = IF e.name = seam THEN e
                      ELSE [e EXCEPT !.name = Prefixed(@), !.src = rv(@), !.tgt = rv(@)]
    BY <1>2, <1>4 DEF es
  <2> HIDE DEF e, rv
  <2>3. [e EXCEPT !.name = Prefixed(@), !.src = rv(@), !.tgt = rv(@)] = [e EXCEPT !.name = x, !.src = y, !.tgt = z]
    BY Zenon
  <2>4. x # seam
    BY <2>1, NamesApart
  <2> HIDE DEF x, y, z
  <2>5. CASE e.name = seam
    BY <2>2, <2>5 DEF e
  <2>6. CASE e.name # seam
    <3> DEFINE h == [e EXCEPT !.name = x, !.src = y, !.tgt = z]
    <3>1. re.edges[i] = h
      BY <2>2, <2>3, <2>6
    <3>2. h.name = x /\ h.src = y /\ h.tgt = z /\ h.over = e.over /\ h.sign = e.sign
      <4>1. DOMAIN e = {"name", "src", "tgt", "over", "sign"}
        BY <2>1 DEF LegalEdge
      <4> QED
        BY <4>1
    <3> HIDE DEF h
    <3> QED
      BY <2>1, <2>4, <2>6, <3>1, <3>2 DEF e
  <2> QED
    BY <2>5, <2>6
<1>6. DOMAIN es = 1..n /\ Len(es) = n
  <2>1. DOMAIN es = 1..n /\ es = [k \in 1..n |-> es[k]]
    BY <1>2 DEF es
  <2> QED
    BY <1>2, <2>1, Listed
<1>7. DOMAIN vs = DOMAIN b.vertices /\ \A k \in DOMAIN b.vertices : vs[k] = f[b.vertices[k]]
  BY <1>2, <1>3 DEF vs, RangeOf
<1>8. IsSequence(vs)
  <2>1. vs = [k \in 1..Len(b.vertices) |-> vs[k]]
    BY <1>2 DEF vs
  <2> QED
    BY <1>2, <2>1, Listed
<1>9. RangeOf(vs) = {f[v] : v \in RangeOf(b.vertices)}
  BY <1>7 DEF RangeOf
<1>10. OneToOne(f) /\ DOMAIN f = DeclaredNames /\ \A v \in DeclaredNames : f[v] \in kept <=> v \in kept
  BY KeepingIs DEF f
<1>11. Distinct(vs)
  BY <1>2, <1>7, <1>10 DEF Distinct, OneToOne, RangeOf
<1>12. ASSUME NEW v \in RangeOf(b.vertices) PROVE over[f[v]] = b.vertex_over[v]
  <2>1. f[v] = rv(v) /\ v \in DeclaredNames
    BY <1>2, <1>3
  <2>2. f[v] \in {rv(u) : u \in RangeOf(b.vertices)}
    BY <2>1
  <2>3. over[f[v]] = b.vertex_over[back(f[v])]
    BY <2>2 DEF over
  <2>4. back(f[v]) = v
    <3>1. CASE v \in kept
      BY <2>1, <3>1
    <3>2. CASE v \notin kept
      <4>1. f[v] = Prefixed(v) /\ f[v] \notin kept
        BY <1>10, <2>1, <3>2
      <4>2. Unprefixed(Prefixed(v), b.vertices) = v
        BY <1>2, NamesApart DEF Unprefixed
      <4> QED
        BY <4>1, <4>2
    <3> QED
      BY <3>1, <3>2
  <2> QED
    BY <2>3, <2>4
<1> HIDE DEF n, rv, back
<1>13. RenamesExcept(re, b, seam, kept)
  BY <1>4, <1>5, <1>6, <1>8, <1>9, <1>11, <1>12 DEF RenamesExcept, n, f
<1> QED
  BY <1>13 DEF re

\* g is a with what is left of the renamed branch, its edge number k being the seam.
GluedUp(g, a, re, k, es, zs) ==
    /\ Len(g.edges) = Len(a.edges) + (Len(re.edges) - 1)
    /\ PartsList(g.edges, a.edges, Len(a.edges), es, Len(re.edges) - 1)
    /\ Parts(g.z, a.z, Len(a.edges), zs, Len(re.edges) - 1)
    /\ \A i \in 1..(Len(re.edges) - 1) : es[i] = re.edges[Skip(k)[i]] /\ zs[i] = re.z[Skip(k)[i]]
    /\ g.vertices = a.vertices \o Without(re.vertices, RangeOf(a.vertices))
    /\ \A v \in RangeOf(re.vertices) : g.vertex_over[v] = re.vertex_over[v]
    /\ \A v \in RangeOf(a.vertices) : v \notin RangeOf(re.vertices) => g.vertex_over[v] = a.vertex_over[v]

\* Both branches have the seam.
Seamed(a, b, seam) ==
    /\ LegalWitness(a) /\ Named(a) /\ LegalWitness(b) /\ Named(b)
    /\ seam \in RangeOf(EdgeNames(a)) /\ seam \in RangeOf(EdgeNames(b))

Remade(a, b, seam) == rename_except(b, seam, Ends(a.edges[EdgeNamed(a, seam)]))

LEMMA SeamedIs ==
    ASSUME NEW a, NEW b, NEW seam, Seamed(a, b, seam)
    PROVE  /\ RenamesExcept(Remade(a, b, seam), b, seam, Ends(a.edges[EdgeNamed(a, seam)]))
           /\ Ends(a.edges[EdgeNamed(a, seam)]) \subseteq DeclaredNames
<1>1. Named(a) /\ Named(b) /\ EdgeNamed(a, seam) \in 1..Len(a.edges)
  BY EdgeNamedIs DEF Seamed
<1>2. Ends(a.edges[EdgeNamed(a, seam)]) \subseteq DeclaredNames
  BY <1>1, NamedIs DEF Ends
<1>3. EdgeNamed(b, seam) \in 1..Len(b.edges) /\ b.edges[EdgeNamed(b, seam)].name = seam
  BY EdgeNamedIs DEF Seamed
<1>4. seam \in DeclaredNames
  BY <1>1, <1>3, NamedIs
<1> QED
  BY <1>1, <1>2, <1>4, RenamedExcept DEF Remade

\* What build_coupled_shared_seam makes, if it makes anything.
LEMMA GluedUpIs ==
    ASSUME NEW a, NEW b, NEW seam, Seamed(a, b, seam), NEW declared,
           NEW g \in build_coupled_shared_seam(a, b, declared, seam)
    PROVE  /\ Compatible(a, declared, seam)
           /\ \E es, zs : GluedUp(g, a, Remade(a, b, seam), EdgeNamed(b, seam), es, zs)
<1> DEFINE re == Remade(a, b, seam)
           k == EdgeNamed(b, seam)
           new == Kept(re, seam)
           es == [i \in DOMAIN new |-> re.edges[new[i]]]
           zs == [i \in DOMAIN new |-> re.z[new[i]]]
           vs == Without(re.vertices, RangeOf(a.vertices))
           n == Len(b.edges)
           m == Len(a.edges)
           over == [v \in RangeOf(a.vertices) \cup RangeOf(re.vertices) |->
                      IF v \in RangeOf(re.vertices) THEN re.vertex_over[v] ELSE a.vertex_over[v]]
<1>1. Compatible(a, declared, seam)
  BY DEF build_coupled_shared_seam
<1>2. /\ g.vertices = a.vertices \o vs /\ g.edges = a.edges \o es
      /\ g.z = a.z \o zs /\ g.vertex_over = over
  <2> DEFINE glued == [vertices |-> a.vertices \o vs, edges |-> a.edges \o es, vertex_over |-> over,
                       z |-> a.z \o zs]
  <2>1. g = glued
    BY <1>1, Zenon DEF build_coupled_shared_seam, Remade
  <2> HIDE DEF vs, es, zs, over
  <2> QED
    BY <2>1
<1>3. RenamesExcept(re, b, seam, Ends(a.edges[EdgeNamed(a, seam)]))
  BY SeamedIs
<1>4. k \in 1..n /\ \A j \in 1..n : b.edges[j].name = seam <=> j = k
  BY EdgeNamedIs DEF Seamed
<1>5. /\ n \in Nat /\ m \in Nat /\ IsSequence(a.edges) /\ LegalComplex(a)
      /\ a.z \in FractionRow(m) /\ b.z \in FractionRow(n)
  BY WitnessIs, ComplexIs DEF Seamed, LegalComplex
<1> HIDE DEF re, k, over, n, m
<1>6. /\ re.z = b.z /\ DOMAIN re.edges = 1..n /\ Len(re.edges) = n
      /\ \A j \in 1..n : re.edges[j].name = seam <=> j = k
  BY <1>3, <1>4 DEF RenamesExcept, n
<1>7. DOMAIN new = 1..(n - 1) /\ Len(new) = n - 1 /\ \A i \in 1..(n - 1) : new[i] = Skip(k)[i]
  <2> DEFINE drop == {j \in DOMAIN re.edges : re.edges[j].name = seam}
             s == [j \in 1..n |-> j]
  <2>1. \A j \in 1..n : j \in drop <=> j = k
    BY <1>6
  <2>2. new = Without(s, drop)
    BY <1>6 DEF Kept
  <2> HIDE DEF drop, new
  <2> QED
    BY <1>4, <1>5, <2>1, <2>2, WithoutOne
<1> DEFINE h == n - 1
<1>8. h \in Nat /\ h = n - 1 /\ \A i \in 1..h : Skip(k)[i] \in 1..n
  BY <1>4, <1>5 DEF Skip
<1> HIDE DEF new, h
<1>9. IsSequence(es) /\ Len(es) = h /\ DOMAIN es = 1..h /\ \A i \in 1..h : es[i] = re.edges[Skip(k)[i]]
  <2>1. es = [i \in 1..h |-> es[i]] /\ \A i \in 1..h : es[i] = re.edges[Skip(k)[i]]
    BY <1>7, <1>8
  <2> HIDE DEF es
  <2> QED
    BY <1>8, <2>1, Listed
<1>10. zs \in FractionRow(h) /\ \A i \in 1..h : zs[i] = re.z[Skip(k)[i]]
  <2>1. \A i \in 1..h : zs[i] = re.z[Skip(k)[i]] /\ zs[i] \in Fractions
    BY <1>5, <1>6, <1>7, <1>8 DEF FractionRow
  <2> QED
    BY <1>7, <1>8, <2>1 DEF FractionRow
<1> HIDE DEF es, zs, vs
<1>11. Parts(g.z, a.z, m, zs, h)
  BY <1>2, <1>5, <1>8, <1>10, RowsJoin
<1>12. /\ Len(a.edges \o es) = m + h
       /\ \A i \in 1..m : (a.edges \o es)[i] = a.edges[i]
       /\ \A i \in 1..h : (a.edges \o es)[m + i] = es[i]
  <2> DEFINE s == a.edges
  <2>1. IsSequence(s) /\ Len(s) = m
    BY <1>5 DEF m
  <2> HIDE DEF s
  <2>2. /\ Len(s \o es) = Len(s) + Len(es)
        /\ \A i \in 1..Len(s) : (s \o es)[i] = s[i]
        /\ \A i \in 1..Len(es) : (s \o es)[Len(s) + i] = es[i]
    <3>1. Joins(s \o es, s, es)
      BY <1>9, <2>1, JoinsIs
    <3> QED
      BY <3>1 DEF Joins
  <2>3. /\ Len(s \o es) = m + h
        /\ \A i \in 1..m : (s \o es)[i] = s[i]
        /\ \A i \in 1..h : (s \o es)[m + i] = es[i]
    BY <1>9, <2>1, <2>2
  <2> QED
    BY <2>3 DEF s
<1>13. PartsList(g.edges, a.edges, m, es, h) /\ Len(g.edges) = m + h
  BY <1>2, <1>12 DEF PartsList
<1>14. /\ \A v \in RangeOf(re.vertices) : g.vertex_over[v] = re.vertex_over[v]
       /\ \A v \in RangeOf(a.vertices) : v \notin RangeOf(re.vertices) => g.vertex_over[v] = a.vertex_over[v]
  BY <1>2 DEF over
<1>15. GluedUp(g, a, re, k, es, zs)
  BY <1>2, <1>6, <1>8, <1>9, <1>10, <1>11, <1>13, <1>14 DEF GluedUp, vs, m
<1> QED
  BY <1>1, <1>15 DEF re, k

----------------------------------------------------------------------------
(* The pairing along a seam: the seam's share is counted once.             *)

\* What an edge lies over decides its share.
LEMMA ShareSame ==
    ASSUME NEW e, NEW f, e.over = f.over, e.sign = f.sign
    PROVE  /\ \A name : Lies(e, name) = Lies(f, name)
           /\ \A c, r : Share(e, c, r) = Share(f, c, r)
<1>1. \A name : Lies(e, name) = Lies(f, name)
  BY DEF Lies
<1> QED
  BY <1>1, Zenon DEF Share

LEMMA LessOne ==
    ASSUME NEW p \in Fractions, NEW q \in Fractions, NEW s \in Fractions, NEW t \in Fractions, Plus(q, t) = s
    PROVE  Plus(p, q) = Minus(Plus(p, s), t)
<1>1. Plus(p, s) = Plus(Plus(p, q), t)
  BY PlusAssociates
<1> QED
  BY <1>1, FractionsClosed, MinusPlus

\* The pairing of what is glued.
LEMMA GluedPairing ==
    ASSUME NEW c, Named(c), NEW r \in FractionRow(Len(c.edges)), NEW a, Branch(a, c), NEW b, Branch(b, c),
           NEW seam, Seamed(a, b, seam), NEW declared, NEW g \in build_coupled_shared_seam(a, b, declared, seam)
    PROVE  check(c, r, g).pairing
             = Minus(Plus(check(c, r, a).pairing, check(c, r, b).pairing),
                     Times(b.z[EdgeNamed(b, seam)], mat_vec(rho_star(c, b), r)[EdgeNamed(b, seam)]))
<1> DEFINE re == Remade(a, b, seam)
           k == EdgeNamed(b, seam)
           m == Len(a.edges)
           n == Len(b.edges)
           sa == Shares(a.edges, c, r, m)
           sb == Shares(b.edges, c, r, n)
           sg == Shares(g.edges, c, r, m + (n - 1))
           pa == Pairing(a, mat_vec(rho_star(c, a), r))
           pb == Pairing(b, mat_vec(rho_star(c, b), r))
           pg == Pairing(g, mat_vec(rho_star(c, g), r))
<1>1. PICK es, zs : GluedUp(g, a, re, k, es, zs)
  BY GluedUpIs
<1>2. RenamesExcept(re, b, seam, Ends(a.edges[EdgeNamed(a, seam)]))
  BY SeamedIs
<1>3. k \in 1..n /\ m \in Nat /\ n \in Nat /\ LegalComplex(c) /\ LegalComplex(b)
  BY EdgeNamedIs, NamedIs, ComplexIs DEF Seamed
<1>4. LegalComplex(g) /\ g.z \in FractionRow(Len(g.edges))
  BY GluedIs DEF Seamed
<1>5. /\ pa = SumProducts(a.z, sa, m) /\ pa \in Fractions /\ pb = SumProducts(b.z, sb, n) /\ pb \in Fractions
      /\ b.z \in FractionRow(n) /\ \A i \in 1..n : sb[i] \in Fractions
  BY BranchIs
<1>6. \A i \in 1..m : sa[i] \in Fractions
  BY BranchIs
<1>7. Len(re.edges) = n /\ re.z = b.z /\ \A i \in 1..n : re.edges[i].over = b.edges[i].over /\ re.edges[i].sign = b.edges[i].sign
  BY <1>2 DEF RenamesExcept
<1>8. sb[k] = mat_vec(rho_star(c, b), r)[k]
  BY <1>3, ShareIs DEF Shares
<1> HIDE DEF re, k, n, m
<1>9. /\ Len(g.edges) = m + (n - 1) /\ PartsList(g.edges, a.edges, m, es, n - 1) /\ Parts(g.z, a.z, m, zs, n - 1)
      /\ \A i \in 1..(n - 1) : es[i] = re.edges[Skip(k)[i]] /\ zs[i] = b.z[Skip(k)[i]]
  BY <1>1, <1>7 DEF GluedUp, m
<1>10. pg = SumProducts(g.z, sg, m + (n - 1))
  BY <1>3, <1>4, <1>9, PairingIs
<1> DEFINE h == n - 1
           v == [i \in 1..h |-> sb[Skip(k)[i]]]
<1>11. h \in Nat /\ h = n - 1 /\ \A i \in 1..h : Skip(k)[i] \in 1..n
  BY <1>3 DEF Skip
<1>12. Skipped(zs, b.z, k, n) /\ Skipped(v, sb, k, n) /\ sb \in FractionRow(n)
  <2>1. sb \in FractionRow(n)
    BY <1>5 DEF Shares, FractionRow
  <2> HIDE DEF sb
  <2> QED
    BY <1>9, <2>1 DEF Skipped
<1>13. /\ Plus(SumProducts(zs, v, h), Times(b.z[k], sb[k])) = pb
       /\ SumProducts(zs, v, h) \in Fractions /\ Times(b.z[k], sb[k]) \in Fractions
       /\ \A i \in 1..h : v[i] \in Fractions
  <2> HIDE DEF v, sb
  <2> QED
    BY <1>3, <1>5, <1>12, SkippedSum
<1>14. \A i \in 1..m : sg[i] = sa[i]
  <2>1. \A i \in 1..m : i \in 1..(m + (n - 1)) /\ g.edges[i] = a.edges[i]
    BY <1>3, <1>9 DEF PartsList
  <2> QED
    BY <2>1 DEF Shares
<1>15. \A i \in 1..h : sg[m + i] = v[i]
  <2> SUFFICES ASSUME NEW i \in 1..h PROVE sg[m + i] = v[i]
    OBVIOUS
  <2>1. m + i \in 1..(m + (n - 1)) /\ g.edges[m + i] = es[i] /\ es[i] = re.edges[Skip(k)[i]] /\ Skip(k)[i] \in 1..n
    <3>1. i \in 1..(n - 1) /\ Skip(k)[i] \in 1..n
      BY <1>11
    <3>2. m + i \in 1..(m + (n - 1))
      BY <1>3, <3>1
    <3>3. g.edges[m + i] = es[i]
      BY <1>9, <3>1 DEF PartsList
    <3>4. es[i] = re.edges[Skip(k)[i]]
      BY <1>9, <3>1
    <3> QED
      BY <3>1, <3>2, <3>3, <3>4
  <2>2. sg[m + i] = Share(re.edges[Skip(k)[i]], c, r)
    BY <2>1 DEF Shares
  <2>3. Share(re.edges[Skip(k)[i]], c, r) = Share(b.edges[Skip(k)[i]], c, r)
    BY <1>7, <2>1, ShareSame
  <2> QED
    BY <2>1, <2>2, <2>3 DEF Shares
<1> HIDE DEF v, sa, sb, sg, h, pa, pb, pg
<1>16. pg = Plus(pa, SumProducts(zs, v, h))
  <2>1. Parts(g.z, a.z, m, zs, h) /\ pg = SumProducts(g.z, sg, m + h)
    BY <1>9, <1>10, <1>11
  <2>2. \A i \in 1..m : sg[i] = sa[i] /\ sa[i] \in Fractions
    BY <1>6, <1>14
  <2>3. \A i \in 1..h : sg[m + i] = v[i] /\ v[i] \in Fractions
    BY <1>13, <1>15
  <2>4. SumProducts(g.z, sg, m + h) = Plus(SumProducts(a.z, sa, m), SumProducts(zs, v, h))
    <3> DEFINE x == g.z
               u == a.z
    <3>1. Parts(x, u, m, zs, h) /\ m \in Nat /\ h \in Nat
      BY <1>3, <1>11, <2>1
    <3> HIDE DEF x, u
    <3>2. SumProducts(x, sg, m + h) = Plus(SumProducts(u, sa, m), SumProducts(zs, v, h))
      BY ONLY <2>2, <2>3, <3>1, PartsSum
    <3> QED
      BY <3>2 DEF x, u
  <2> QED
    BY <1>5, <2>1, <2>4
<1>17. pg = Minus(Plus(pa, pb), Times(b.z[k], sb[k]))
  BY <1>5, <1>13, <1>16, LessOne
<1>18. check(c, r, g).pairing = pg /\ check(c, r, a).pairing = pa /\ check(c, r, b).pairing = pb
  BY CheckIs DEF pg, pa, pb
<1> QED
  BY <1>8, <1>17, <1>18 DEF k

----------------------------------------------------------------------------
(* A vector on the glued complex is a vector on each branch, the second    *)
(* with any coefficient on the seam. What it is short of there is made up  *)
(* by what the first has on its own seam.                                  *)

\* g is a and b sewn together along a's edge ka, b's edge k: `moved` is b's edges
\* under the names f gives their ends, es those of them that are not the seam.
SewnEdges(g, a, b, ka, k, f, moved, es) ==
    /\ ka \in 1..Len(a.edges) /\ k \in 1..Len(b.edges)
    /\ a.edges[ka] = b.edges[k] /\ moved[k] = a.edges[ka]
    /\ Moves(moved, b.edges, Len(b.edges), f) /\ OneToOne(f)
    /\ \A i \in 1..Len(b.edges) : moved[i].over = b.edges[i].over /\ moved[i].sign = b.edges[i].sign
    /\ Len(g.edges) = Len(a.edges) + (Len(b.edges) - 1)
    /\ PartsList(g.edges, a.edges, Len(a.edges), es, Len(b.edges) - 1) /\ Skipped(es, moved, k, Len(b.edges))
    /\ \A v \in RangeOf(a.vertices), u \in DOMAIN f : v = f[u] => v \in Ends(a.edges[ka])
    /\ RangeOf(b.vertices) \subseteq DOMAIN f

SewnVertices(g, a, b, f) ==
    /\ LegalComplex(g) /\ EndsIn(g) /\ Distinct(g.vertices)
    /\ \A v \in RangeOf(a.vertices) : g.vertex_over[v] = a.vertex_over[v]
    /\ \A u \in RangeOf(b.vertices) : g.vertex_over[f[u]] = b.vertex_over[u]

SewnVector(g, a, b, ka, k, zs) ==
    /\ g.z \in FractionRow(Len(g.edges)) /\ Parts(g.z, a.z, Len(a.edges), zs, Len(b.edges) - 1)
    /\ Skipped(zs, b.z, k, Len(b.edges)) /\ a.z[ka] = b.z[k]

\* The glued complex and its branches, by their edges and vertices.
LEMMA SewnIs ==
    ASSUME NEW a, NEW b, NEW seam, Seamed(a, b, seam), NEW g \in build_coupled_shared_seam(a, b, b, seam)
    PROVE  \E f, moved, es, zs :
              /\ SewnEdges(g, a, b, EdgeNamed(a, seam), EdgeNamed(b, seam), f, moved, es)
              /\ SewnVertices(g, a, b, f)
              /\ SewnVector(g, a, b, EdgeNamed(a, seam), EdgeNamed(b, seam), zs)
<1> DEFINE re == Remade(a, b, seam)
           k == EdgeNamed(b, seam)
           ka == EdgeNamed(a, seam)
           e == a.edges[ka]
           kept == Ends(e)
           m == Len(a.edges)
           n == Len(b.edges)
           f == Keeping(kept)
<1>1. PICK es, zs : GluedUp(g, a, re, k, es, zs)
  BY GluedUpIs
<1>2. Compatible(a, b, seam)
  BY GluedUpIs
<1>3. e = b.edges[k] /\ a.z[ka] = b.z[k] /\ \A v \in kept : a.vertex_over[v] = b.vertex_over[v]
  BY <1>2 DEF Compatible
<1>4. RenamesExcept(re, b, seam, kept) /\ kept \subseteq DeclaredNames
  BY SeamedIs
<1>5. ka \in 1..m /\ k \in 1..n /\ \A j \in 1..n : b.edges[j].name = seam <=> j = k
  BY EdgeNamedIs DEF Seamed
<1>6. /\ LegalComplex(a) /\ LegalComplex(b) /\ m \in Nat /\ n \in Nat
      /\ RangeOf(a.vertices) \subseteq DeclaredNames /\ RangeOf(b.vertices) \subseteq DeclaredNames
      /\ Distinct(a.vertices) /\ EndsIn(a)
  BY NamedIs, ComplexIs DEF Seamed
<1>7. LegalComplex(g) /\ g.z \in FractionRow(Len(g.edges))
  BY GluedIs DEF Seamed
<1>8. /\ DOMAIN f = DeclaredNames /\ OneToOne(f)
      /\ \A v \in DeclaredNames : /\ f[v] = IF v \in kept THEN v ELSE Prefixed(v)
                                  /\ f[v] \in DeclaredNames <=> v \in kept
  BY <1>4, KeepingIs
<1>9. /\ \A i \in 1..n : b.edges[i].src \in DeclaredNames /\ b.edges[i].tgt \in DeclaredNames
      /\ \A i \in 1..n : b.edges[i].src \in RangeOf(b.vertices) /\ b.edges[i].tgt \in RangeOf(b.vertices)
  BY NamedIs DEF Seamed
<1>19. e.src \in kept /\ e.tgt \in kept
  BY DEF Ends
<1>20. \A i \in 1..m : a.edges[i].src \in RangeOf(a.vertices) /\ a.edges[i].tgt \in RangeOf(a.vertices)
  BY NamedIs DEF Seamed
<1> HIDE DEF re, k, ka, e, f, m, n
<1>10. /\ re.z = b.z /\ Len(re.edges) = n
       /\ \A i \in 1..n : re.edges[i].over = b.edges[i].over /\ re.edges[i].sign = b.edges[i].sign
       /\ re.edges[k] = e
       /\ \A i \in 1..n : i # k => re.edges[i].src = f[b.edges[i].src] /\ re.edges[i].tgt = f[b.edges[i].tgt]
       /\ IsSequence(re.vertices) /\ Distinct(re.vertices)
       /\ RangeOf(re.vertices) = {f[v] : v \in RangeOf(b.vertices)}
       /\ \A v \in RangeOf(b.vertices) : re.vertex_over[f[v]] = b.vertex_over[v]
  BY <1>3, <1>4, <1>5 DEF RenamesExcept, f, n
<1>11. Moves(re.edges, b.edges, n, f)
  <2> SUFFICES ASSUME NEW i \in 1..n
               PROVE  /\ b.edges[i].src \in DOMAIN f /\ b.edges[i].tgt \in DOMAIN f
                      /\ re.edges[i].src = f[b.edges[i].src] /\ re.edges[i].tgt = f[b.edges[i].tgt]
    BY DEF Moves
  <2>1. CASE i = k
    BY <1>3, <1>4, <1>8, <1>10, <1>19, <2>1
  <2>2. CASE i # k
    BY <1>8, <1>9, <1>10, <2>2
  <2> QED
    BY <2>1, <2>2
<1>12. /\ Len(g.edges) = m + (n - 1) /\ PartsList(g.edges, a.edges, m, es, n - 1) /\ Skipped(es, re.edges, k, n)
       /\ Parts(g.z, a.z, m, zs, n - 1) /\ Skipped(zs, b.z, k, n)
  BY <1>1, <1>10 DEF GluedUp, Skipped, m
<1>13. \A v \in RangeOf(a.vertices), u \in DOMAIN f : v = f[u] => v \in kept /\ v = u
  BY <1>4, <1>6, <1>8
<1>14. SewnEdges(g, a, b, ka, k, f, re.edges, es)
  <2>1. \A v \in RangeOf(a.vertices), u \in DOMAIN f : v = f[u] => v \in Ends(a.edges[ka])
    BY <1>13 DEF e
  <2>2. RangeOf(b.vertices) \subseteq DOMAIN f /\ a.edges[ka] = b.edges[k] /\ re.edges[k] = a.edges[ka]
    BY <1>3, <1>6, <1>8, <1>10 DEF e
  <2> QED
    BY <1>5, <1>8, <1>10, <1>11, <1>12, <2>1, <2>2 DEF SewnEdges, m, n
<1>15. SewnVector(g, a, b, ka, k, zs)
  BY <1>3, <1>7, <1>12 DEF SewnVector, m, n
<1> DEFINE vs == Without(re.vertices, RangeOf(a.vertices))
<1>16. /\ g.vertices = a.vertices \o vs
       /\ \A v \in RangeOf(re.vertices) : g.vertex_over[v] = re.vertex_over[v]
       /\ \A v \in RangeOf(a.vertices) : v \notin RangeOf(re.vertices) => g.vertex_over[v] = a.vertex_over[v]
  BY <1>1 DEF GluedUp
<1>17. /\ IsSequence(vs) /\ Distinct(vs) /\ RangeOf(vs) = RangeOf(re.vertices) \ RangeOf(a.vertices)
  <2>1. re.vertices \in Seq(RangeOf(re.vertices))
    BY <1>10 DEF IsSequence
  <2>2. /\ vs \in Seq(RangeOf(re.vertices)) /\ RangeOf(vs) = RangeOf(re.vertices) \ RangeOf(a.vertices)
        /\ Distinct(re.vertices) => Distinct(vs)
    BY <2>1, WithoutRest
  <2> HIDE DEF vs
  <2> QED
    BY <1>10, <2>2, Sequences
<1> HIDE DEF vs
<1>18. SewnVertices(g, a, b, f)
  <2>1. IsSequence(a.vertices)
    BY <1>6 DEF LegalComplex
  <2>2. Joins(g.vertices, a.vertices, vs)
    BY <1>16, <1>17, <2>1, JoinsIs
  <2>3. Distinct(g.vertices)
    <3>1. RangeOf(a.vertices) \cap RangeOf(vs) = {}
      BY <1>17
    <3> QED
      BY <1>6, <1>17, <2>1, <2>2, <3>1, JoinsDistinct
  <2>4. RangeOf(g.vertices) = RangeOf(a.vertices) \cup RangeOf(re.vertices)
    <3>1. RangeOf(g.vertices) = RangeOf(a.vertices) \cup RangeOf(vs)
      BY <1>17, <2>1, <2>2, JoinsRange
    <3> QED
      BY <1>17, <3>1
  <2>5. EndsIn(g)
    <3> SUFFICES ASSUME NEW i \in 1..(m + (n - 1))
                 PROVE  g.edges[i].src \in RangeOf(g.vertices) /\ g.edges[i].tgt \in RangeOf(g.vertices)
      BY <1>7, <1>12, ComplexIs DEF EndsIn, Ends
    <3>1. CASE i \in 1..m
      <4>1. g.edges[i] = a.edges[i]
        BY <1>12, <3>1 DEF PartsList
      <4> QED
        BY <1>20, <2>4, <3>1, <4>1
    <3>2. CASE i \notin 1..m
      <4>1. i - m \in 1..(n - 1) /\ m + (i - m) = i
        BY <1>5, <1>6, <3>2
      <4>2. g.edges[i] = es[i - m] /\ es[i - m] = re.edges[Skip(k)[i - m]]
        BY <1>12, <4>1 DEF PartsList, Skipped
      <4>3. Skip(k)[i - m] \in 1..n
        BY <1>5, <1>6, <4>1 DEF Skip
      <4> DEFINE j == Skip(k)[i - m]
      <4> HIDE DEF j
      <4>4. j \in 1..n /\ g.edges[i] = re.edges[j]
        BY <4>2, <4>3 DEF j
      <4>5. re.edges[j].src = f[b.edges[j].src] /\ re.edges[j].tgt = f[b.edges[j].tgt]
        BY <1>11, <4>4 DEF Moves
      <4> QED
        BY <1>9, <1>10, <2>4, <4>4, <4>5
    <3> QED
      BY <3>1, <3>2
  <2>6. \A u \in RangeOf(b.vertices) : g.vertex_over[f[u]] = b.vertex_over[u]
    BY <1>10, <1>16
  <2>7. ASSUME NEW v \in RangeOf(a.vertices) PROVE g.vertex_over[v] = a.vertex_over[v]
    <3>1. CASE v \notin RangeOf(re.vertices)
      BY <1>16, <3>1
    <3>2. CASE v \in RangeOf(re.vertices)
      <4>1. PICK u \in RangeOf(b.vertices) : v = f[u]
        BY <1>10, <3>2
      <4>2. u \in DOMAIN f
        BY <1>6, <1>8
      <4>3. v = u /\ v \in kept
        BY <1>13, <4>1, <4>2
      <4> QED
        BY <1>3, <2>6, <4>1, <4>3
    <3> QED
      BY <3>1, <3>2
  <2> QED
    BY <1>7, <2>3, <2>5, <2>6, <2>7 DEF SewnVertices
<1> QED
  BY <1>14, <1>15, <1>18 DEF ka, k

\* A vector on a glued complex: u on the one branch, and w on the other but for
\* the seam, its k-th edge.
SewnRow(x, u, w, ws, m, k, n) ==
    /\ m \in Nat /\ n \in Nat /\ k \in 1..n
    /\ Parts(x, u, m, ws, n - 1) /\ w \in FractionRow(n) /\ Skipped(ws, w, k, n)

\* And what it is multiplied with: p on the one branch, q on the other.
SewnFactors(y, p, q, qs, m, k, n) ==
    /\ q \in FractionRow(n) /\ Skipped(qs, q, k, n)
    /\ \A i \in 1..m : y[i] = p[i] /\ p[i] \in Fractions
    /\ \A i \in 1..(n - 1) : y[m + i] = qs[i]

LEMMA SewnSum ==
    ASSUME NEW x, NEW u, NEW w, NEW ws, NEW m, NEW k, NEW n, SewnRow(x, u, w, ws, m, k, n),
           NEW y, NEW p, NEW q, NEW qs, SewnFactors(y, p, q, qs, m, k, n)
    PROVE  /\ Plus(SumProducts(x, y, m + (n - 1)), Times(w[k], q[k])) = Plus(SumProducts(u, p, m), SumProducts(w, q, n))
           /\ SumProducts(u, p, m) \in Fractions /\ SumProducts(w, q, n) \in Fractions
           /\ SumProducts(x, y, m + (n - 1)) \in Fractions /\ Times(w[k], q[k]) \in Fractions
<1>1. /\ m \in Nat /\ n \in Nat /\ k \in 1..n /\ n - 1 \in Nat
      /\ Parts(x, u, m, ws, n - 1) /\ w \in FractionRow(n) /\ Skipped(ws, w, k, n)
  BY DEF SewnRow
<1>20. /\ q \in FractionRow(n) /\ Skipped(qs, q, k, n)
       /\ \A i \in 1..m : y[i] = p[i] /\ p[i] \in Fractions
       /\ \A i \in 1..(n - 1) : y[m + i] = qs[i]
  BY DEF SewnFactors
<1>2. /\ Plus(SumProducts(ws, qs, n - 1), Times(w[k], q[k])) = SumProducts(w, q, n)
      /\ \A i \in 1..(n - 1) : qs[i] \in Fractions
      /\ SumProducts(ws, qs, n - 1) \in Fractions /\ SumProducts(w, q, n) \in Fractions
      /\ Times(w[k], q[k]) \in Fractions
  BY ONLY <1>1, <1>20, SkippedSum
<1> DEFINE l == n - 1
<1>3. l \in Nat /\ \A i \in 1..l : y[m + i] = qs[i] /\ qs[i] \in Fractions
  BY <1>1, <1>20, <1>2
<1>4. Parts(x, u, m, ws, l)
  BY <1>1
<1>5. SumProducts(ws, qs, l) \in Fractions /\ Plus(SumProducts(ws, qs, l), Times(w[k], q[k])) = SumProducts(w, q, n)
  BY <1>2
<1>6. SUFFICES /\ Plus(SumProducts(x, y, m + l), Times(w[k], q[k])) = Plus(SumProducts(u, p, m), SumProducts(w, q, n))
               /\ SumProducts(u, p, m) \in Fractions /\ SumProducts(w, q, n) \in Fractions
               /\ SumProducts(x, y, m + l) \in Fractions /\ Times(w[k], q[k]) \in Fractions
  OBVIOUS
<1> HIDE DEF l
<1>7. SumProducts(x, y, m + l) = Plus(SumProducts(u, p, m), SumProducts(ws, qs, l))
  BY <1>1, <1>20, <1>3, <1>4, PartsSum
<1>8. \A i \in 1..m : u[i] \in Fractions /\ p[i] \in Fractions
  BY <1>20, <1>4 DEF Parts, FractionRow
<1>9. SumProducts(u, p, m) \in Fractions
  BY <1>1, <1>8, ProductsType
<1> QED
  BY <1>2, <1>5, <1>7, <1>9, PlusAssociates, FractionsClosed

\* The same with the edges of a glued complex.
SewnWith(x, u, w, ws, g, a, b, ka, k, f, moved, es) ==
    /\ LegalComplex(a) /\ LegalComplex(b) /\ LegalComplex(g)
    /\ SewnEdges(g, a, b, ka, k, f, moved, es)
    /\ SewnRow(x, u, w, ws, Len(a.edges), k, Len(b.edges))

SewnBoundary(x, u, w, g, a, b, ka, k, moved, v) ==
    /\ Plus(Boundary(x, g.edges, v, Len(g.edges)), Times(w[k], Incidence(a.edges[ka], v)))
         = Plus(Boundary(u, a.edges, v, Len(a.edges)), Boundary(w, moved, v, Len(b.edges)))
    /\ Boundary(x, g.edges, v, Len(g.edges)) \in Fractions /\ Times(w[k], Incidence(a.edges[ka], v)) \in Fractions
    /\ Boundary(u, a.edges, v, Len(a.edges)) \in Fractions /\ Boundary(w, moved, v, Len(b.edges)) \in Fractions

LEMMA SewnBoundaryIs ==
    ASSUME NEW x, NEW u, NEW w, NEW ws, NEW g, NEW a, NEW b, NEW ka, NEW k, NEW f, NEW moved, NEW es,
           SewnWith(x, u, w, ws, g, a, b, ka, k, f, moved, es), NEW v
    PROVE  SewnBoundary(x, u, w, g, a, b, ka, k, moved, v)
<1> DEFINE m == Len(a.edges)
           n == Len(b.edges)
           ga == g.edges
           ea == a.edges
           y == Incidences(ga, v, m + (n - 1))
           p == Incidences(ea, v, m)
           q == Incidences(moved, v, n)
           qs == Incidences(es, v, n - 1)
<1>1. /\ SewnRow(x, u, w, ws, m, k, n) /\ m \in Nat /\ n \in Nat /\ k \in 1..n /\ n - 1 \in Nat
      /\ moved[k] = ea[ka] /\ Len(ga) = m + (n - 1)
      /\ PartsList(ga, ea, m, es, n - 1) /\ Skipped(es, moved, k, n)
  BY DEF SewnWith, SewnEdges, SewnRow
<1>2. /\ SewnBoundary(x, u, w, g, a, b, ka, k, moved, v) <=>
           /\ Plus(SumProducts(x, y, m + (n - 1)), Times(w[k], Incidence(ea[ka], v)))
                = Plus(SumProducts(u, p, m), SumProducts(w, q, n))
           /\ SumProducts(x, y, m + (n - 1)) \in Fractions /\ Times(w[k], Incidence(ea[ka], v)) \in Fractions
           /\ SumProducts(u, p, m) \in Fractions /\ SumProducts(w, q, n) \in Fractions
  BY <1>1, Zenon DEF SewnBoundary, Boundary
<1> HIDE DEF m, n, ga, ea
<1>3. \A i \in 1..m : y[i] = p[i] /\ p[i] \in Fractions
  <2>1. \A i \in 1..m : i \in 1..(m + (n - 1))
    BY <1>1
  <2> QED
    BY <1>1, <2>1, IncidenceIs DEF PartsList, Incidences
<1>4. \A i \in 1..(n - 1) : y[m + i] = qs[i]
  <2>1. \A i \in 1..(n - 1) : m + i \in 1..(m + (n - 1))
    BY <1>1
  <2> QED
    BY <1>1, <2>1 DEF PartsList, Incidences
<1>5. q \in FractionRow(n) /\ q[k] = Incidence(ea[ka], v)
  BY <1>1, IncidenceIs DEF FractionRow, Incidences
<1>6. Skipped(qs, q, k, n)
  <2>1. \A i \in 1..(n - 1) : Skip(k)[i] \in 1..n
    BY <1>1 DEF Skip
  <2> QED
    BY <1>1, <2>1 DEF Skipped, Incidences
<1> HIDE DEF y, p, q, qs
<1>7. /\ Plus(SumProducts(x, y, m + (n - 1)), Times(w[k], q[k])) = Plus(SumProducts(u, p, m), SumProducts(w, q, n))
      /\ SumProducts(u, p, m) \in Fractions /\ SumProducts(w, q, n) \in Fractions
      /\ SumProducts(x, y, m + (n - 1)) \in Fractions /\ Times(w[k], q[k]) \in Fractions
  <2>1. SewnRow(x, u, w, ws, m, k, n)
    BY <1>1
  <2>2. SewnFactors(y, p, q, qs, m, k, n)
    BY ONLY <1>3, <1>4, <1>5, <1>6 DEF SewnFactors
  <2> QED
    BY ONLY <2>1, <2>2, SewnSum
<1> QED
  BY ONLY <1>2, <1>5, <1>7

SewnImage(x, u, w, g, a, b, ka, k, name) ==
    /\ Plus(Image(x, g.edges, name, Len(g.edges)), Times(w[k], Lies(a.edges[ka], name)))
         = Plus(Image(u, a.edges, name, Len(a.edges)), Image(w, b.edges, name, Len(b.edges)))
    /\ Image(x, g.edges, name, Len(g.edges)) \in Fractions /\ Times(w[k], Lies(a.edges[ka], name)) \in Fractions
    /\ Image(u, a.edges, name, Len(a.edges)) \in Fractions /\ Image(w, b.edges, name, Len(b.edges)) \in Fractions

LEMMA SewnImageIs ==
    ASSUME NEW x, NEW u, NEW w, NEW ws, NEW g, NEW a, NEW b, NEW ka, NEW k, NEW f, NEW moved, NEW es,
           SewnWith(x, u, w, ws, g, a, b, ka, k, f, moved, es), NEW name
    PROVE  SewnImage(x, u, w, g, a, b, ka, k, name)
<1> DEFINE m == Len(a.edges)
           n == Len(b.edges)
           ga == g.edges
           ea == a.edges
           eb == b.edges
           y == LiesOn(ga, name, m + (n - 1))
           p == LiesOn(ea, name, m)
           q == LiesOn(eb, name, n)
           qs == LiesOn(es, name, n - 1)
<1>1. /\ SewnRow(x, u, w, ws, m, k, n) /\ m \in Nat /\ n \in Nat /\ k \in 1..n /\ n - 1 \in Nat
      /\ moved[k] = ea[ka] /\ Len(ga) = m + (n - 1) /\ ea[ka] = eb[k]
      /\ \A i \in 1..n : moved[i].over = eb[i].over /\ moved[i].sign = eb[i].sign
      /\ PartsList(ga, ea, m, es, n - 1) /\ Skipped(es, moved, k, n)
  BY DEF SewnWith, SewnEdges, SewnRow
<1>2. /\ SewnImage(x, u, w, g, a, b, ka, k, name) <=>
           /\ Plus(SumProducts(x, y, m + (n - 1)), Times(w[k], Lies(ea[ka], name)))
                = Plus(SumProducts(u, p, m), SumProducts(w, q, n))
           /\ SumProducts(x, y, m + (n - 1)) \in Fractions /\ Times(w[k], Lies(ea[ka], name)) \in Fractions
           /\ SumProducts(u, p, m) \in Fractions /\ SumProducts(w, q, n) \in Fractions
  BY <1>1, Zenon DEF SewnImage, Image
<1>8. /\ \A i \in 1..m : Lies(ea[i], name) \in Fractions
      /\ \A i \in 1..n : Lies(eb[i], name) \in Fractions
  BY SignIs DEF SewnWith
<1> HIDE DEF m, n, ga, ea, eb
<1>3. \A i \in 1..m : y[i] = p[i] /\ p[i] \in Fractions
  <2>1. \A i \in 1..m : i \in 1..(m + (n - 1))
    BY <1>1
  <2> QED
    BY <1>1, <1>8, <2>1 DEF PartsList, LiesOn
<1>4. \A i \in 1..(n - 1) : y[m + i] = qs[i]
  <2>1. \A i \in 1..(n - 1) : m + i \in 1..(m + (n - 1))
    BY <1>1
  <2> QED
    BY <1>1, <2>1 DEF PartsList, LiesOn
<1>5. q \in FractionRow(n) /\ q[k] = Lies(ea[ka], name)
  BY <1>1, <1>8 DEF FractionRow, LiesOn
<1>6. Skipped(qs, q, k, n)
  <2>1. \A i \in 1..(n - 1) : Skip(k)[i] \in 1..n
    BY <1>1 DEF Skip
  <2>2. \A i \in 1..n : Lies(moved[i], name) = Lies(eb[i], name)
    BY <1>1 DEF Lies
  <2> QED
    BY <1>1, <2>1, <2>2 DEF Skipped, LiesOn
<1> HIDE DEF y, p, q, qs
<1>7. /\ Plus(SumProducts(x, y, m + (n - 1)), Times(w[k], q[k])) = Plus(SumProducts(u, p, m), SumProducts(w, q, n))
      /\ SumProducts(u, p, m) \in Fractions /\ SumProducts(w, q, n) \in Fractions
      /\ SumProducts(x, y, m + (n - 1)) \in Fractions /\ Times(w[k], q[k]) \in Fractions
  <2>1. SewnRow(x, u, w, ws, m, k, n)
    BY <1>1
  <2>2. SewnFactors(y, p, q, qs, m, k, n)
    BY ONLY <1>3, <1>4, <1>5, <1>6 DEF SewnFactors
  <2> QED
    BY ONLY <2>1, <2>2, SewnSum
<1> QED
  BY ONLY <1>2, <1>5, <1>7

\* b's edges under their new names have the same cycles.
LEMMA ClosedMoved ==
    ASSUME NEW g, NEW a, NEW b, NEW ka, NEW k, NEW f, NEW moved, NEW es, SewnEdges(g, a, b, ka, k, f, moved, es),
           LegalComplex(b), EndsIn(b), NEW w \in FractionRow(Len(b.edges))
    PROVE  Closed(w, b.edges, Len(b.edges)) <=> \A v : Boundary(w, moved, v, Len(b.edges)) = Zero
<1> DEFINE n == Len(b.edges)
           eb == b.edges
<1>1. /\ n \in Nat /\ DOMAIN eb = 1..n
      /\ Moves(moved, eb, n, f) /\ OneToOne(f) /\ RangeOf(b.vertices) \subseteq DOMAIN f
      /\ \A i \in 1..n : Ends(eb[i]) \subseteq RangeOf(b.vertices)
  BY ComplexIs DEF SewnEdges, EndsIn
<1>2. w \in FractionRow(n) /\ (Closed(w, eb, n) <=> Closed(w, b.edges, Len(b.edges)))
  OBVIOUS
<1>7. SUFFICES Closed(w, eb, n) <=> \A v : Boundary(w, moved, v, n) = Zero
  OBVIOUS
<1> HIDE DEF n, eb
<1>3. /\ \A u \in DOMAIN f : Boundary(w, moved, f[u], n) = Boundary(w, eb, u, n)
      /\ \A v : (\A u \in DOMAIN f : v # f[u]) => Boundary(w, moved, v, n) = Zero
  BY <1>1, <1>2, BoundaryMoved
<1>4. ASSUME NEW u, u \notin DOMAIN f PROVE Boundary(w, eb, u, n) = Zero
  BY <1>1, <1>2, <1>4, BoundaryIs
<1>5. ASSUME Closed(w, eb, n), NEW v PROVE Boundary(w, moved, v, n) = Zero
  <2>1. \A u \in DOMAIN f : Boundary(w, moved, f[u], n) = Zero
    BY <1>3, <1>5 DEF Closed
  <2> QED
    BY <1>3, <2>1
<1>6. ASSUME \A v : Boundary(w, moved, v, n) = Zero PROVE Closed(w, eb, n)
  BY <1>3, <1>4, <1>6 DEF Closed
<1> QED
  BY <1>5, <1>6

LEMMA NothingAdded ==
    ASSUME NEW p, NEW q, p \in Fractions, q \in Fractions, Plus(p, q) = Zero
    PROVE  p = Zero <=> q = Zero
<1>1. ASSUME p = Zero PROVE q = Zero
  BY <1>1, ZeroOne, PlusCommutes, PlusZero
<1>2. ASSUME q = Zero PROVE p = Zero
  BY <1>2, PlusZero
<1> QED
  BY <1>1, <1>2

\* The vector of two cycles glued: at every vertex the seam is missing once.
LEMMA SewnClosed ==
    ASSUME NEW x, NEW u, NEW w, NEW ws, NEW g, NEW a, NEW b, NEW ka, NEW k, NEW f, NEW moved, NEW es,
           SewnWith(x, u, w, ws, g, a, b, ka, k, f, moved, es), EndsIn(b),
           Closed(u, a.edges, Len(a.edges)), Closed(w, b.edges, Len(b.edges))
    PROVE  Closed(x, g.edges, Len(g.edges)) <=> Unmoved(w[k], b.edges[k])
<1> DEFINE e == a.edges[ka]
           t == w[k]
           B(v) == Boundary(x, g.edges, v, Len(g.edges))
<1>1. /\ w \in FractionRow(Len(b.edges)) /\ k \in 1..Len(b.edges) /\ e = b.edges[k] /\ t \in Fractions
      /\ SewnEdges(g, a, b, ka, k, f, moved, es) /\ LegalComplex(b)
  BY DEF SewnWith, SewnRow, SewnEdges, FractionRow
<1>2. \A v : Boundary(w, moved, v, Len(b.edges)) = Zero
  BY ONLY <1>1, ClosedMoved, EndsIn(b), Closed(w, b.edges, Len(b.edges))
<1>3. \A v : /\ Plus(B(v), Times(t, Incidence(e, v))) = Zero
             /\ B(v) \in Fractions /\ Times(t, Incidence(e, v)) \in Fractions
  <2> TAKE v
  <2>1. SewnBoundary(x, u, w, g, a, b, ka, k, moved, v)
    BY SewnBoundaryIs
  <2>2. Boundary(u, a.edges, v, Len(a.edges)) = Zero
    BY DEF Closed
  <2>3. Plus(Zero, Zero) = Zero
    BY ZeroOne, PlusZero
  <2> QED
    BY ONLY <1>2, <2>1, <2>2, <2>3 DEF SewnBoundary
<1>4. \A v : B(v) = Zero <=> Times(t, Incidence(e, v)) = Zero
  BY ONLY <1>3, NothingAdded
<1>5. ASSUME t = Zero PROVE \A v : Times(t, Incidence(e, v)) = Zero
  BY <1>5, IncidenceIs, ZeroOne, TimesCommutes, TimesZero
<1>6. ASSUME e.src = e.tgt PROVE \A v : Times(t, Incidence(e, v)) = Zero
  BY <1>1, <1>6, IncidenceIs, TimesZero
<1>7. ASSUME e.src # e.tgt, Times(t, Incidence(e, e.tgt)) = Zero PROVE t = Zero
  BY <1>1, <1>7, IncidenceIs, TimesOne
<1>8. Closed(x, g.edges, Len(g.edges)) <=> \A v : B(v) = Zero
  BY DEF Closed
<1>9. Unmoved(w[k], b.edges[k]) <=> t = Zero \/ e.src = e.tgt
  BY <1>1 DEF Unmoved
<1> HIDE DEF e, t, B
<1> QED
  BY <1>4, <1>5, <1>6, <1>7, <1>8, <1>9

----------------------------------------------------------------------------
(* The amount that is moved from one branch's seam to the other's. The     *)
(* boundary of a branch adds up to zero over all vertices, so that of a    *)
(* vector which closes outside two vertices is opposite at them.           *)

\* What a vector amounts to at all vertices together is nothing.
LEMMA TotalZero ==
    ASSUME NEW c, LegalComplex(c), EndsIn(c), Distinct(c.vertices), NEW x \in FractionRow(Len(c.edges)),
           NEW w \in FractionRow(Len(c.vertices)),
           \A j \in 1..Len(c.vertices) : w[j] = Boundary(x, c.edges, c.vertices[j], Len(c.edges)),
           NEW ones, ones = [j \in 1..Len(c.vertices) |-> One]
    PROVE  SumProducts(w, ones, Len(c.vertices)) = Zero
<1> DEFINE m == Len(c.edges)
           n == Len(c.vertices)
           D == delta0(c)
           C == [j \in 1..n |-> Incidences(c.edges, c.vertices[j], m)]
           v == [i \in 1..m |-> SumProducts(D[i], ones, n)]
<1>1. /\ m \in Nat /\ n \in Nat /\ DOMAIN c.edges = 1..m /\ DOMAIN c.vertices = 1..n
      /\ D \in Rows(m, n)
  BY ComplexIs, Delta0Is
<1>2. ones \in FractionRow(n) /\ \A j \in 1..n : ones[j] = One
  BY ZeroOne DEF FractionRow
<1>3. \A i \in 1..m, j \in 1..n : D[i][j] = C[j][i] /\ D[i][j] \in Fractions
  BY Delta0Entries, IncidenceIs DEF Incidences
<1>4. ASSUME NEW i \in 1..m PROVE v[i] = Zero
  <2>1. PICK p \in 1..n, q \in 1..n : c.vertices[p] = c.edges[i].tgt /\ c.vertices[q] = c.edges[i].src
    BY <1>1 DEF EndsIn, Ends, RangeOf
  <2>2. SumProducts(D[i], ones, n) = Minus(ones[p], ones[q])
    BY <1>2, <2>1, RowApplied
  <2> QED
    BY <1>2, <2>2, ZeroOne, MinusSelf
<1>5. ASSUME NEW j \in 1..n PROVE w[j] = SumProducts(C[j], x, m)
  <2>1. \A i \in 1..m : Incidences(c.edges, c.vertices[j], m)[i] \in Fractions /\ x[i] \in Fractions
    BY <1>1, BoundaryIs DEF FractionRow
  <2> QED
    BY <1>1, <2>1, ProductsCommute DEF Boundary
<1>6. /\ \A i \in 1..m : x[i] \in Fractions
      /\ \A j \in 1..n : ones[j] \in Fractions
  BY <1>2 DEF FractionRow
<1>7. \A i \in 1..m : v[i] = SumProducts(D[i], ones, n)
  OBVIOUS
<1> HIDE DEF m, n, D, C, v
<1>10. Matrix(D, m, n) /\ Transposes(C, D, m, n) /\ Vector(x, m) /\ Vector(ones, n)
  BY <1>3, <1>6 DEF Vector, Matrix, Transposes
<1>11. Applies(v, D, ones, m, n) /\ Applies(w, C, x, n, m)
  BY <1>5, <1>7 DEF Applies
<1>8. SumProducts(x, v, m) = SumProducts(w, ones, n)
  BY ONLY <1>1, <1>10, <1>11, ProductsAssociate
<1>9. SumProducts(x, v, m) = Zero
  BY <1>1, <1>4, <1>6, ZeroSum
<1> QED
  BY <1>8, <1>9 DEF n

\* A vector that amounts to nothing but at the ends of an edge amounts to so much
\* of that edge.
LEMMA AlongAnEdge ==
    ASSUME NEW c, LegalComplex(c), EndsIn(c), Distinct(c.vertices), NEW x \in FractionRow(Len(c.edges)),
           NEW k \in 1..Len(c.edges),
           \A v : v \notin Ends(c.edges[k]) => Boundary(x, c.edges, v, Len(c.edges)) = Zero
    PROVE  \E t \in Fractions : \A v : Boundary(x, c.edges, v, Len(c.edges)) = Times(t, Incidence(c.edges[k], v))
<1> DEFINE m == Len(c.edges)
           n == Len(c.vertices)
           e == c.edges[k]
           B(v) == Boundary(x, c.edges, v, m)
           w == [j \in 1..n |-> B(c.vertices[j])]
           ones == [j \in 1..n |-> One]
<1>1. m \in Nat /\ n \in Nat /\ DOMAIN c.edges = 1..m /\ DOMAIN c.vertices = 1..n /\ \A v : B(v) \in Fractions
  <2>1. m \in Nat /\ n \in Nat /\ DOMAIN c.edges = 1..m /\ DOMAIN c.vertices = 1..n
    BY ComplexIs
  <2> HIDE DEF m
  <2>2. \A v : B(v) \in Fractions
    BY <2>1, BoundaryIs DEF m
  <2> QED
    BY <2>1, <2>2
<1>2. PICK p \in 1..n, q \in 1..n : c.vertices[p] = e.tgt /\ c.vertices[q] = e.src
  <2>1. e.tgt \in RangeOf(c.vertices) /\ e.src \in RangeOf(c.vertices)
    BY DEF EndsIn, Ends
  <2> HIDE DEF e, m, n
  <2>2. (\E p \in 1..n : c.vertices[p] = e.tgt) /\ (\E q \in 1..n : c.vertices[q] = e.src)
    BY <1>1, <2>1 DEF RangeOf
  <2> QED
    BY <2>2
<1>3. w \in FractionRow(n) /\ \A j \in 1..n : w[j] = B(c.vertices[j])
  BY <1>1 DEF FractionRow
<1>4. SumProducts(w, ones, n) = Zero
  BY <1>3, TotalZero
<1>5. \A j \in 1..n : j # p /\ j # q => w[j] = Zero
  BY <1>1, <1>2, <1>3 DEF Distinct, Ends
<1>6. /\ p = q => w[p] = Zero
      /\ p # q => w[q] = Times(w[p], MinusOne)
  BY <1>1, <1>3, <1>4, <1>5, TwoPlaces
<1>7. w[p] = B(e.tgt) /\ w[q] = B(e.src) /\ w[p] \in Fractions /\ (e.tgt = e.src => p = q)
  BY <1>1, <1>2, <1>3 DEF Distinct
<1>8. ASSUME NEW v PROVE B(v) = Times(w[p], Incidence(e, v))
  <2>1. CASE v \notin Ends(e)
    BY <1>7, <2>1, IncidenceIs, TimesZero
  <2>2. CASE e.tgt = e.src /\ v \in Ends(e)
    BY <1>6, <1>7, <2>2, IncidenceIs, TimesZero DEF Ends
  <2>3. CASE e.tgt # e.src /\ v = e.tgt
    BY <1>7, <2>3, IncidenceIs, TimesOne
  <2>4. CASE e.tgt # e.src /\ v = e.src
    BY <1>2, <1>6, <1>7, <2>4, IncidenceIs
  <2> QED
    BY <2>1, <2>2, <2>3, <2>4 DEF Ends
<1> QED
  BY <1>7, <1>8

LEMMA BumpedBoundary ==
    ASSUME NEW n \in Nat, NEW k \in 1..n, NEW x \in FractionRow(n), NEW t \in Fractions, NEW es, NEW v
    PROVE  Boundary(Bumped(x, k, t), es, v, n) = Plus(Boundary(x, es, v, n), Times(t, Incidence(es[k], v)))
<1>1. Incidences(es, v, n) \in FractionRow(n)
  BY BoundaryIs
<1>2. Incidences(es, v, n)[k] = Incidence(es[k], v)
  BY DEF Incidences
<1> QED
  BY <1>1, <1>2, BumpedSum DEF Boundary

LEMMA BumpedImage ==
    ASSUME NEW w, LegalComplex(w), NEW k \in 1..Len(w.edges), NEW x \in FractionRow(Len(w.edges)), NEW t \in Fractions,
           NEW name
    PROVE  Image(Bumped(x, k, t), w.edges, name, Len(w.edges))
             = Plus(Image(x, w.edges, name, Len(w.edges)), Times(t, Lies(w.edges[k], name)))
<1> DEFINE n == Len(w.edges)
           y == LiesOn(w.edges, name, n)
<1>1. n \in Nat /\ k \in 1..n /\ y[k] = Lies(w.edges[k], name) /\ x \in FractionRow(n)
  BY ComplexIs DEF LiesOn
<1>2. y \in FractionRow(n)
  BY SignIs DEF LiesOn, FractionRow
<1>4. SUFFICES SumProducts(Bumped(x, k, t), y, n) = Plus(SumProducts(x, y, n), Times(t, y[k]))
  BY <1>1 DEF Image
<1> HIDE DEF n, y
<1> QED
  BY <1>1, <1>2, BumpedSum

\* Sums in which what is added to one side is taken off the other.
LEMMA Opposite ==
    ASSUME NEW t \in Fractions, NEW i \in Fractions
    PROVE  /\ Times(MinusOne, t) \in Fractions
           /\ Plus(Times(t, i), Times(Times(MinusOne, t), i)) = Zero
<1>1. MinusOne \in Fractions /\ Times(MinusOne, t) \in Fractions /\ Times(t, i) \in Fractions
  BY MinusOneIs, FractionsClosed
<1>2. Times(Times(MinusOne, t), i) = Times(MinusOne, Times(t, i))
  BY <1>1, TimesAssociates
<1>3. Times(MinusOne, Times(t, i)) \in Fractions
  BY <1>1, FractionsClosed
<1>4. Plus(Times(MinusOne, Times(t, i)), Times(t, i)) = Zero
  BY <1>1, MinusOneIs
<1> QED
  BY <1>1, <1>2, <1>3, <1>4, PlusCommutes

LEMMA Shifted ==
    ASSUME NEW p \in Fractions, NEW q \in Fractions, NEW s \in Fractions, NEW t \in Fractions
    PROVE  Plus(Plus(p, s), Plus(q, t)) = Plus(Plus(p, q), Plus(s, t))
<1>1. Plus(Plus(p, s), Plus(q, t)) = Plus(p, Plus(s, Plus(q, t)))
  BY PlusAssociates, FractionsClosed
<1>2. Plus(s, Plus(q, t)) = Plus(Plus(s, q), t)
  BY PlusAssociates
<1>3. Plus(s, q) = Plus(q, s)
  BY PlusCommutes
<1>4. Plus(Plus(q, s), t) = Plus(q, Plus(s, t))
  BY PlusAssociates
<1>5. Plus(p, Plus(q, Plus(s, t))) = Plus(Plus(p, q), Plus(s, t))
  BY PlusAssociates, FractionsClosed
<1> QED
  BY <1>1, <1>2, <1>3, <1>4, <1>5

----------------------------------------------------------------------------
(* Cycles of the glued complex and pairs of cycles of the branches: each   *)
(* is made of the other by moving the amount along the seam, and over the  *)
(* coarse complex they lie over the same.                                  *)

\* Two branches sewn together.
Sewn(g, a, b, ka, k, f, moved, es) ==
    /\ LegalComplex(g) /\ LegalComplex(a) /\ EndsIn(a) /\ Distinct(a.vertices) /\ LegalComplex(b) /\ EndsIn(b)
    /\ SewnEdges(g, a, b, ka, k, f, moved, es)

LEMMA SewnIsWith ==
    ASSUME NEW g, NEW a, NEW b, NEW ka, NEW k, NEW f, NEW moved, NEW es, Sewn(g, a, b, ka, k, f, moved, es)
    PROVE  /\ Len(a.edges) \in Nat /\ Len(b.edges) \in Nat /\ Len(b.edges) - 1 \in Nat
           /\ ka \in 1..Len(a.edges) /\ k \in 1..Len(b.edges)
           /\ a.edges[ka] = b.edges[k] /\ moved[k] = a.edges[ka]
           /\ \A x, u, w, ws : SewnRow(x, u, w, ws, Len(a.edges), k, Len(b.edges))
                => SewnWith(x, u, w, ws, g, a, b, ka, k, f, moved, es)
<1>1. /\ LegalComplex(g) /\ LegalComplex(a) /\ EndsIn(a) /\ Distinct(a.vertices) /\ LegalComplex(b) /\ EndsIn(b)
      /\ SewnEdges(g, a, b, ka, k, f, moved, es)
  BY DEF Sewn
<1>2. Len(a.edges) \in Nat /\ Len(b.edges) \in Nat
  BY <1>1, ComplexIs
<1>3. /\ ka \in 1..Len(a.edges) /\ k \in 1..Len(b.edges)
      /\ a.edges[ka] = b.edges[k] /\ moved[k] = a.edges[ka]
  BY <1>1 DEF SewnEdges
<1>4. Len(b.edges) - 1 \in Nat
  BY <1>2, <1>3
<1>5. ASSUME NEW x, NEW u, NEW w, NEW ws, SewnRow(x, u, w, ws, Len(a.edges), k, Len(b.edges))
      PROVE  SewnWith(x, u, w, ws, g, a, b, ka, k, f, moved, es)
  BY <1>1, <1>5 DEF SewnWith
<1> QED
  BY <1>2, <1>3, <1>4, <1>5

\* A cycle of the glued complex is a cycle of either branch, the seam shared out.
Shared(x, xa, xb, g, a, b) ==
    /\ xa \in FractionRow(Len(a.edges)) /\ Closed(xa, a.edges, Len(a.edges))
    /\ xb \in FractionRow(Len(b.edges)) /\ Closed(xb, b.edges, Len(b.edges))
    /\ \A name : /\ Image(xa, a.edges, name, Len(a.edges)) \in Fractions
                 /\ Image(xb, b.edges, name, Len(b.edges)) \in Fractions
                 /\ Image(x, g.edges, name, Len(g.edges))
                      = Plus(Image(xa, a.edges, name, Len(a.edges)), Image(xb, b.edges, name, Len(b.edges)))

LEMMA SharedFrom ==
    ASSUME NEW g, NEW a, NEW b, NEW ka, NEW k, NEW f, NEW moved, NEW es, Sewn(g, a, b, ka, k, f, moved, es),
           NEW xa \in FractionRow(Len(a.edges)), Closed(xa, a.edges, Len(a.edges)),
           NEW xb \in FractionRow(Len(b.edges)), Closed(xb, b.edges, Len(b.edges))
    PROVE  \E x \in FractionRow(Len(g.edges)) : Closed(x, g.edges, Len(g.edges)) /\ Shared(x, xa, xb, g, a, b)
<1> DEFINE m == Len(a.edges)
           n == Len(b.edges)
           t == xb[k]
           u == Bumped(xa, ka, t)
           e == a.edges[ka]
<1>1. /\ m \in Nat /\ n \in Nat /\ n - 1 \in Nat /\ ka \in 1..m /\ k \in 1..n /\ Len(g.edges) = m + (n - 1)
      /\ \A x, w, ws : SewnRow(x, u, w, ws, m, k, n) => SewnWith(x, u, w, ws, g, a, b, ka, k, f, moved, es)
      /\ LegalComplex(a) /\ LegalComplex(b) /\ EndsIn(b) /\ SewnEdges(g, a, b, ka, k, f, moved, es)
  <2>1. LegalComplex(a) /\ LegalComplex(b) /\ EndsIn(b) /\ SewnEdges(g, a, b, ka, k, f, moved, es)
    BY DEF Sewn
  <2>2. \A x, v, w, ws : SewnRow(x, v, w, ws, m, k, n) => SewnWith(x, v, w, ws, g, a, b, ka, k, f, moved, es)
    BY ONLY SewnIsWith, Sewn(g, a, b, ka, k, f, moved, es)
  <2>3. m \in Nat /\ n \in Nat /\ n - 1 \in Nat /\ ka \in 1..m /\ k \in 1..n /\ Len(g.edges) = m + (n - 1)
    <3>1. m \in Nat /\ n \in Nat
      BY <2>1, ComplexIs
    <3>2. ka \in 1..m /\ k \in 1..n /\ Len(g.edges) = m + (n - 1)
      BY <2>1 DEF SewnEdges
    <3> QED
      BY <3>1, <3>2
  <2> QED
    BY <2>1, <2>2, <2>3
<1>2. t \in Fractions /\ u \in FractionRow(m) /\ xa \in FractionRow(m) /\ xb \in FractionRow(n)
  <2>1. t \in Fractions
    BY <1>1 DEF FractionRow
  <2>2. \A i \in 1..m : xa[i] \in Fractions
    BY DEF FractionRow
  <2> QED
    BY <2>1, <2>2, FractionsClosed DEF Bumped, FractionRow
<1>3. PICK ws \in FractionRow(n - 1) : Skipped(ws, xb, k, n)
  BY <1>1, <1>2, SkippedExists
<1>4. PICK x : Parts(x, u, m, ws, n - 1)
  BY <1>1, <1>2, <1>3, PartsExist
<1>5. SewnWith(x, u, xb, ws, g, a, b, ka, k, f, moved, es)
  BY <1>1, <1>2, <1>3, <1>4 DEF SewnRow
<1>6. x \in FractionRow(Len(g.edges))
  BY <1>1, <1>4 DEF Parts
<1>7. ASSUME NEW v PROVE Boundary(x, g.edges, v, Len(g.edges)) = Zero
  <2>1. SewnBoundary(x, u, xb, g, a, b, ka, k, moved, v)
    BY <1>5, SewnBoundaryIs
  <2>2. Boundary(u, a.edges, v, m) = Plus(Boundary(xa, a.edges, v, m), Times(t, Incidence(e, v)))
    BY <1>1, <1>2, BumpedBoundary
  <2>3. Boundary(xa, a.edges, v, m) = Zero
    BY DEF Closed
  <2>4. Boundary(xb, moved, v, n) = Zero
    BY <1>1, <1>2, ClosedMoved
  <2> DEFINE G == Boundary(x, g.edges, v, Len(g.edges))
             T == Times(t, Incidence(e, v))
  <2>5. G \in Fractions /\ T \in Fractions /\ Plus(G, T) = Plus(Plus(Zero, T), Zero)
    BY ONLY <2>1, <2>2, <2>3, <2>4 DEF SewnBoundary
  <2> HIDE DEF G, T
  <2>6. G = Plus(Zero, Zero)
    BY <2>5, ZeroOne, LeftOut
  <2> QED
    BY <2>6, ZeroOne, PlusZero DEF G
<1>8. ASSUME NEW name
      PROVE  /\ Image(xa, a.edges, name, m) \in Fractions /\ Image(xb, b.edges, name, n) \in Fractions
             /\ Image(x, g.edges, name, Len(g.edges)) = Plus(Image(xa, a.edges, name, m), Image(xb, b.edges, name, n))
  <2>1. SewnImage(x, u, xb, g, a, b, ka, k, name)
    BY <1>5, SewnImageIs
  <2>2. Image(u, a.edges, name, m) = Plus(Image(xa, a.edges, name, m), Times(t, Lies(e, name)))
    BY <1>1, <1>2, BumpedImage
  <2>3. Image(xa, a.edges, name, m) \in Fractions
    BY <1>1, <1>2, ImageIs
  <2> DEFINE G == Image(x, g.edges, name, Len(g.edges))
             T == Times(t, Lies(e, name))
             P == Image(xa, a.edges, name, m)
             Q == Image(xb, b.edges, name, n)
  <2>5. G \in Fractions /\ T \in Fractions /\ P \in Fractions /\ Q \in Fractions /\ Plus(G, T) = Plus(Plus(P, T), Q)
    BY ONLY <2>1, <2>2, <2>3 DEF SewnImage
  <2> HIDE DEF G, T, P, Q
  <2>6. G = Plus(P, Q)
    BY <2>5, LeftOut
  <2> QED
    BY <2>5, <2>6 DEF G, P, Q
<1>9. Closed(x, g.edges, Len(g.edges))
  BY <1>7 DEF Closed
<1>10. Shared(x, xa, xb, g, a, b)
  BY <1>8 DEF Shared
<1> QED
  BY <1>6, <1>9, <1>10

Cancelling(u, w, a, b, moved) ==
    \A v : Plus(Boundary(u, a.edges, v, Len(a.edges)), Boundary(w, moved, v, Len(b.edges))) = Zero

Amounts(u, a, ka) ==
    \E t \in Fractions : \A v : Boundary(u, a.edges, v, Len(a.edges)) = Times(t, Incidence(a.edges[ka], v))

\* Where the two branches cancel each other, either amounts to some of the seam.
LEMMA SewnAlong ==
    ASSUME NEW g, NEW a, NEW b, NEW ka, NEW k, NEW f, NEW moved, NEW es, Sewn(g, a, b, ka, k, f, moved, es),
           NEW u \in FractionRow(Len(a.edges)), NEW w \in FractionRow(Len(b.edges)),
           Cancelling(u, w, a, b, moved)
    PROVE  Amounts(u, a, ka)
<1> DEFINE m == Len(a.edges)
           n == Len(b.edges)
           e == a.edges[ka]
<1>1. /\ LegalComplex(a) /\ EndsIn(a) /\ Distinct(a.vertices) /\ LegalComplex(b)
      /\ SewnEdges(g, a, b, ka, k, f, moved, es)
  BY DEF Sewn
<1>2. m \in Nat /\ n \in Nat /\ DOMAIN a.edges = 1..m
  BY <1>1, ComplexIs
<1>3. /\ ka \in 1..m /\ Moves(moved, b.edges, n, f) /\ OneToOne(f)
      /\ \A v \in RangeOf(a.vertices), i \in DOMAIN f : v = f[i] => v \in Ends(e)
  BY <1>1 DEF SewnEdges
<1>4. u \in FractionRow(m) /\ w \in FractionRow(n)
  OBVIOUS
<1>5. ASSUME NEW v, v \notin Ends(e) PROVE Boundary(u, a.edges, v, m) = Zero
  <2>1. CASE v \notin RangeOf(a.vertices)
    <3>1. \A i \in 1..m : v \notin Ends(a.edges[i])
      BY <1>1, <1>2, <2>1 DEF EndsIn
    <3> QED
      BY <1>2, <1>4, <3>1, BoundaryIs
  <2>2. CASE v \in RangeOf(a.vertices)
    <3>1. \A i \in DOMAIN f : v # f[i]
      BY <1>3, <1>5, <2>2
    <3>2. Boundary(w, moved, v, n) = Zero
      BY <1>2, <1>3, <1>4, <3>1, BoundaryMoved
    <3>3. Boundary(u, a.edges, v, m) \in Fractions /\ Boundary(w, moved, v, n) \in Fractions
      BY <1>2, <1>4, BoundaryIs
    <3>4. Plus(Boundary(u, a.edges, v, m), Boundary(w, moved, v, n)) = Zero
      BY DEF Cancelling
    <3> QED
      BY <3>2, <3>3, <3>4, PlusZero
  <2> QED
    BY <2>1, <2>2
<1>6. \E t \in Fractions : \A v : Boundary(u, a.edges, v, m) = Times(t, Incidence(e, v))
  BY <1>1, <1>3, <1>4, <1>5, AlongAnEdge
<1> QED
  BY <1>6 DEF Amounts

LEMMA SharedOut ==
    ASSUME NEW g, NEW a, NEW b, NEW ka, NEW k, NEW f, NEW moved, NEW es, Sewn(g, a, b, ka, k, f, moved, es),
           NEW x \in FractionRow(Len(g.edges)), Closed(x, g.edges, Len(g.edges))
    PROVE  \E xa, xb : Shared(x, xa, xb, g, a, b)
<1> DEFINE m == Len(a.edges)
           n == Len(b.edges)
           e == a.edges[ka]
<1>1. /\ LegalComplex(a) /\ EndsIn(a) /\ Distinct(a.vertices) /\ LegalComplex(b) /\ EndsIn(b)
      /\ SewnEdges(g, a, b, ka, k, f, moved, es)
  BY DEF Sewn
<1>2. /\ m \in Nat /\ n \in Nat /\ n - 1 \in Nat /\ ka \in 1..m /\ k \in 1..n
      /\ Len(g.edges) = m + (n - 1) /\ moved[k] = e /\ b.edges[k] = e
  <2>1. m \in Nat /\ n \in Nat
    BY <1>1, ComplexIs
  <2>2. ka \in 1..m /\ k \in 1..n /\ Len(g.edges) = m + (n - 1) /\ moved[k] = e /\ b.edges[k] = e
    BY <1>1 DEF SewnEdges
  <2> QED
    BY <2>1, <2>2
<1>3. \A y, u, w, ws : SewnRow(y, u, w, ws, m, k, n) => SewnWith(y, u, w, ws, g, a, b, ka, k, f, moved, es)
  BY ONLY SewnIsWith, Sewn(g, a, b, ka, k, f, moved, es)
<1>4. PICK u, ws : Parts(x, u, m, ws, n - 1)
  BY <1>2, PartsExist
<1>5. u \in FractionRow(m) /\ ws \in FractionRow(n - 1)
  BY <1>4 DEF Parts
<1>6. PICK w \in FractionRow(n) : Skipped(ws, w, k, n) /\ w[k] = Zero
  BY <1>2, <1>5, ZeroOne, Unskipped
<1>7. SewnWith(x, u, w, ws, g, a, b, ka, k, f, moved, es)
  BY <1>2, <1>3, <1>4, <1>6 DEF SewnRow
<1>8. ASSUME NEW v PROVE Plus(Boundary(u, a.edges, v, m), Boundary(w, moved, v, n)) = Zero
  <2>1. SewnBoundary(x, u, w, g, a, b, ka, k, moved, v)
    BY <1>7, SewnBoundaryIs
  <2>2. Boundary(x, g.edges, v, Len(g.edges)) = Zero
    BY DEF Closed
  <2>3. Times(w[k], Incidence(e, v)) = Zero
    BY <1>6, IncidenceIs, ZeroOne, TimesCommutes, TimesZero
  <2> QED
    BY ONLY <2>1, <2>2, <2>3, ZeroOne, PlusZero DEF SewnBoundary
<1>9. PICK t \in Fractions : \A v : Boundary(u, a.edges, v, m) = Times(t, Incidence(e, v))
  <2>1. u \in FractionRow(Len(a.edges)) /\ w \in FractionRow(Len(b.edges))
    BY <1>5, <1>6
  <2>2. Cancelling(u, w, a, b, moved)
    BY <1>8 DEF Cancelling
  <2>3. Amounts(u, a, ka)
    BY ONLY <2>1, <2>2, SewnAlong, Sewn(g, a, b, ka, k, f, moved, es)
  <2> QED
    BY <2>3 DEF Amounts
<1> DEFINE s == Times(MinusOne, t)
           xa == Bumped(u, ka, s)
           xb == Bumped(w, k, t)
<1>10. s \in Fractions /\ \A i \in Fractions : Plus(Times(t, i), Times(s, i)) = Zero
  BY <1>9, Opposite
<1>11. xa \in FractionRow(m) /\ xb \in FractionRow(n)
  <2>1. \A i \in 1..m : u[i] \in Fractions
    BY <1>5 DEF FractionRow
  <2>2. \A i \in 1..n : w[i] \in Fractions
    BY <1>6 DEF FractionRow
  <2> QED
    BY <1>5, <1>6, <1>9, <1>10, <2>1, <2>2, FractionsClosed DEF Bumped, FractionRow
<1> HIDE DEF s
<1>12. Closed(xa, a.edges, m)
  <2>1. SUFFICES ASSUME NEW v PROVE Boundary(xa, a.edges, v, m) = Zero
    BY DEF Closed
  <2>2. Boundary(xa, a.edges, v, m) = Plus(Boundary(u, a.edges, v, m), Times(s, Incidence(e, v)))
    BY <1>2, <1>5, <1>10, BumpedBoundary
  <2>3. Incidence(e, v) \in Fractions
    BY IncidenceIs
  <2> QED
    BY <1>9, <1>10, <2>2, <2>3
<1>13. Closed(xb, b.edges, n)
  <2>1. SUFFICES ASSUME NEW v PROVE Boundary(xb, moved, v, n) = Zero
    BY <1>1, <1>11, ClosedMoved
  <2>2. Boundary(xb, moved, v, n) = Plus(Boundary(w, moved, v, n), Times(t, Incidence(e, v)))
    BY <1>2, <1>6, <1>9, BumpedBoundary
  <2>3. Boundary(w, moved, v, n) \in Fractions /\ Boundary(u, a.edges, v, m) \in Fractions
    BY <1>2, <1>5, <1>6, BoundaryIs
  <2> QED
    BY <1>8, <1>9, <2>2, <2>3, PlusCommutes
<1>14. ASSUME NEW name
       PROVE  /\ Image(xa, a.edges, name, m) \in Fractions /\ Image(xb, b.edges, name, n) \in Fractions
              /\ Image(x, g.edges, name, Len(g.edges)) = Plus(Image(xa, a.edges, name, m), Image(xb, b.edges, name, n))
  <2> DEFINE G == Image(x, g.edges, name, Len(g.edges))
             P == Image(u, a.edges, name, m)
             Q == Image(w, b.edges, name, n)
             L == Lies(e, name)
  <2>1. SewnImage(x, u, w, g, a, b, ka, k, name)
    BY <1>7, SewnImageIs
  <2>2. L \in Fractions
    BY <1>1, <1>2, SignIs
  <2>3. Times(w[k], L) = Zero
    BY <1>6, <2>2, ZeroOne, TimesCommutes, TimesZero
  <2>4. Plus(G, Zero) = Plus(P, Q) /\ G \in Fractions /\ P \in Fractions /\ Q \in Fractions
    BY ONLY <2>1, <2>3 DEF SewnImage
  <2>5. Image(xa, a.edges, name, m) = Plus(P, Times(s, L))
    BY <1>1, <1>2, <1>5, <1>10, BumpedImage
  <2>6. Image(xb, b.edges, name, n) = Plus(Q, Times(t, L))
    <3>1. Image(xb, b.edges, name, n) = Plus(Q, Times(t, Lies(b.edges[k], name)))
      BY <1>1, <1>2, <1>6, <1>9, BumpedImage
    <3> QED
      BY <1>2, <3>1
  <2>7. Times(s, L) \in Fractions /\ Times(t, L) \in Fractions /\ Plus(Times(s, L), Times(t, L)) = Zero
    BY <1>9, <1>10, <2>2, FractionsClosed, PlusCommutes
  <2> HIDE DEF G, P, Q, L
  <2>8. Plus(Plus(P, Times(s, L)), Plus(Q, Times(t, L))) = Plus(Plus(P, Q), Zero)
    BY <2>4, <2>7, Shifted
  <2>9. G = Plus(P, Q) /\ Plus(Plus(P, Q), Zero) = Plus(P, Q)
    BY <2>4, FractionsClosed, PlusZero
  <2>10. Plus(P, Times(s, L)) \in Fractions /\ Plus(Q, Times(t, L)) \in Fractions
    BY <2>4, <2>7, FractionsClosed
  <2> QED
    BY <2>5, <2>6, <2>8, <2>9, <2>10 DEF G
<1>15. Shared(x, xa, xb, g, a, b)
  BY <1>11, <1>12, <1>13, <1>14 DEF Shared
<1> QED
  BY <1>15

\* What has a lift on the glued complex is what has one on both branches
\* together.
LEMMA SewnLifts ==
    ASSUME NEW g, NEW a, NEW b, NEW ka, NEW k, NEW f, NEW moved, NEW es, Sewn(g, a, b, ka, k, f, moved, es),
           NEW c, NEW y
    PROVE  (\E x : Lifts(x, g, y, c)) <=> LiftedTogether(c, a, b, y)
<1> DEFINE n == Len(c.edges)
           name(j) == c.edges[j].name
<1>1. ASSUME NEW x, Lifts(x, g, y, c) PROVE LiftedTogether(c, a, b, y)
  <2>1. x \in FractionRow(Len(g.edges)) /\ Closed(x, g.edges, Len(g.edges))
        /\ \A j \in 1..n : y[j] = Image(x, g.edges, name(j), Len(g.edges))
    BY <1>1 DEF Lifts
  <2>2. PICK xa, xb : Shared(x, xa, xb, g, a, b)
    BY <2>1, SharedOut
  <2> DEFINE u == [j \in 1..n |-> Image(xa, a.edges, name(j), Len(a.edges))]
             v == [j \in 1..n |-> Image(xb, b.edges, name(j), Len(b.edges))]
  <2>3. u \in FractionRow(n) /\ v \in FractionRow(n)
    BY <2>2 DEF Shared, FractionRow
  <2>4. Lifts(xa, a, u, c) /\ Lifts(xb, b, v, c)
    BY <2>2 DEF Shared, Lifts
  <2>5. \A j \in 1..n : y[j] = Plus(u[j], v[j])
    BY <2>1, <2>2 DEF Shared
  <2> HIDE DEF u, v
  <2> QED
    BY <2>3, <2>4, <2>5 DEF LiftedTogether
<1>2. ASSUME LiftedTogether(c, a, b, y) PROVE \E x : Lifts(x, g, y, c)
  <2>1. PICK u \in FractionRow(n), v \in FractionRow(n) :
          /\ \E x : Lifts(x, a, u, c)
          /\ \E x : Lifts(x, b, v, c)
          /\ \A j \in 1..n : y[j] = Plus(u[j], v[j])
    BY <1>2 DEF LiftedTogether
  <2>2. PICK xa : Lifts(xa, a, u, c)
    BY <2>1
  <2>3. PICK xb : Lifts(xb, b, v, c)
    BY <2>1
  <2>4. /\ xa \in FractionRow(Len(a.edges)) /\ Closed(xa, a.edges, Len(a.edges))
        /\ xb \in FractionRow(Len(b.edges)) /\ Closed(xb, b.edges, Len(b.edges))
    BY <2>2, <2>3 DEF Lifts
  <2>5. PICK x \in FractionRow(Len(g.edges)) : Closed(x, g.edges, Len(g.edges)) /\ Shared(x, xa, xb, g, a, b)
    BY <2>4, SharedFrom
  <2>6. ASSUME NEW j \in 1..n PROVE y[j] = Image(x, g.edges, c.edges[j].name, Len(g.edges))
    <3>1. y[j] = Plus(u[j], v[j])
      BY <2>1
    <3>2. u[j] = Image(xa, a.edges, c.edges[j].name, Len(a.edges))
      BY <2>2 DEF Lifts
    <3>3. v[j] = Image(xb, b.edges, c.edges[j].name, Len(b.edges))
      BY <2>3 DEF Lifts
    <3> QED
      BY <2>5, <3>1, <3>2, <3>3 DEF Shared
  <2>7. Lifts(x, g, y, c)
    BY <2>5, <2>6 DEF Lifts
  <2> QED
    BY <2>7
<1> QED
  BY <1>1, <1>2

\* (N0) of what is sewn together is (N0) of both.
LEMMA SewnNatural ==
    ASSUME NEW g, NEW a, NEW b, NEW ka, NEW k, NEW f, NEW moved, NEW es, Sewn(g, a, b, ka, k, f, moved, es),
           SewnVertices(g, a, b, f), NEW c
    PROVE  (\A i \in 1..Len(g.edges) : Natural(g.edges[i], g.vertex_over, c))
             <=> /\ \A i \in 1..Len(a.edges) : Natural(a.edges[i], a.vertex_over, c)
                 /\ \A i \in 1..Len(b.edges) : Natural(b.edges[i], b.vertex_over, c)
<1> DEFINE m == Len(a.edges)
           n == Len(b.edges)
           l == n - 1
           o == g.vertex_over
           G(i) == Natural(g.edges[i], o, c)
           A(i) == Natural(a.edges[i], a.vertex_over, c)
           B(i) == Natural(b.edges[i], b.vertex_over, c)
<1>1. /\ LegalComplex(g) /\ LegalComplex(a) /\ EndsIn(a) /\ LegalComplex(b) /\ EndsIn(b)
      /\ SewnEdges(g, a, b, ka, k, f, moved, es)
  BY DEF Sewn
<1>2. /\ m \in Nat /\ n \in Nat /\ DOMAIN a.edges = 1..m /\ DOMAIN b.edges = 1..n
  BY <1>1, ComplexIs
<1>3. /\ ka \in 1..m /\ k \in 1..n /\ a.edges[ka] = b.edges[k] /\ moved[k] = a.edges[ka]
      /\ Moves(moved, b.edges, n, f)
      /\ \A i \in 1..n : moved[i].over = b.edges[i].over /\ moved[i].sign = b.edges[i].sign
      /\ Len(g.edges) = m + l
      /\ PartsList(g.edges, a.edges, m, es, l) /\ Skipped(es, moved, k, n)
  BY <1>1 DEF SewnEdges
<1>4. /\ \A v \in RangeOf(a.vertices) : o[v] = a.vertex_over[v]
      /\ \A u \in RangeOf(b.vertices) : o[f[u]] = b.vertex_over[u]
  BY DEF SewnVertices
<1>5. ASSUME NEW e, NEW h, NEW p, NEW q, Parent(e, p) = Parent(h, q), e.over = h.over, e.sign = h.sign
      PROVE  Natural(e, p, c) <=> Natural(h, q, c)
  <2>1. \A r : Share(e, c, r) = Share(h, c, r)
    BY <1>5, ShareSame
  <2> QED
    BY <1>5, <2>1 DEF Natural
<1>6. ASSUME NEW i \in 1..m PROVE Natural(a.edges[i], o, c) <=> A(i)
  <2>1. a.edges[i].src \in RangeOf(a.vertices) /\ a.edges[i].tgt \in RangeOf(a.vertices)
    BY <1>1, <1>2 DEF EndsIn, Ends
  <2>2. Parent(a.edges[i], o) = Parent(a.edges[i], a.vertex_over)
    BY <1>4, <2>1 DEF Parent
  <2> QED
    BY <1>5, <2>2
<1>7. ASSUME NEW i \in 1..n PROVE Natural(moved[i], o, c) <=> B(i)
  <2>1. b.edges[i].src \in RangeOf(b.vertices) /\ b.edges[i].tgt \in RangeOf(b.vertices)
    BY <1>1, <1>2 DEF EndsIn, Ends
  <2>2. moved[i].src = f[b.edges[i].src] /\ moved[i].tgt = f[b.edges[i].tgt]
    BY <1>3 DEF Moves
  <2>3. Parent(moved[i], o) = Parent(b.edges[i], b.vertex_over)
    BY <1>4, <2>1, <2>2 DEF Parent
  <2> QED
    BY <1>3, <1>5, <2>3
<1>8. /\ \A i \in 1..m : g.edges[i] = a.edges[i]
      /\ \A i \in 1..l : g.edges[m + i] = moved[Skip(k)[i]]
  BY <1>3 DEF PartsList, Skipped
<1>9. B(k) <=> A(ka)
  BY <1>3, <1>6, <1>7
<1>12. l \in Nat
  BY <1>2, <1>3
<1>10. \A i \in 1..l : Skip(k)[i] \in 1..n
  BY <1>2, <1>3, PlacesSkip
<1>11. \A j \in 1..n : j = k \/ \E i \in 1..l : j = Skip(k)[i]
  BY <1>2, <1>3, PlacesSkip
<1>13. SUFFICES (\A i \in 1..(m + l) : G(i)) <=> (\A i \in 1..m : A(i)) /\ (\A i \in 1..n : B(i))
  BY <1>3
<1> HIDE DEF m, n, l
<1>14. \A i \in 1..m : i \in 1..(m + l) /\ (G(i) <=> A(i))
  <2>1. \A i \in 1..m : i \in 1..(m + l)
    BY <1>2, <1>12, PlacesJoin
  <2> QED
    BY <1>6, <1>8, <2>1
<1>15. \A i \in 1..l : m + i \in 1..(m + l) /\ (G(m + i) <=> B(Skip(k)[i]))
  <2>1. \A i \in 1..l : m + i \in 1..(m + l)
    BY <1>2, <1>12, PlacesJoin
  <2> QED
    BY <1>7, <1>8, <1>10, <2>1
<1>16. \A i \in 1..(m + l) : i \in 1..m \/ \E j \in 1..l : i = m + j
  BY <1>2, <1>12, PlacesJoin
<1> HIDE DEF G, A, B
<1>17. ASSUME \A i \in 1..(m + l) : G(i) PROVE (\A i \in 1..m : A(i)) /\ (\A i \in 1..n : B(i))
  <2>1. \A i \in 1..m : A(i)
    BY <1>14, <1>17
  <2>2. \A i \in 1..l : B(Skip(k)[i])
    BY <1>15, <1>17
  <2> QED
    BY <1>3, <1>9, <1>11, <2>1, <2>2
<1>18. ASSUME \A i \in 1..m : A(i), \A i \in 1..n : B(i) PROVE \A i \in 1..(m + l) : G(i)
  BY <1>10, <1>14, <1>15, <1>16, <1>18
<1> QED
  BY <1>17, <1>18

----------------------------------------------------------------------------
(* The conditions of a glued complex, from those of its branches           *)
(* (GluedAdds).                                                            *)

\* Two branches with a seam they declare alike, glued.
Matched(g, a, b, seam) ==
    /\ Branch(a, Coarse) /\ Branch(b, Coarse) /\ Seamed(a, b, seam)
    /\ g \in build_coupled_shared_seam(a, b, b, seam)

LEMMA MatchedIs ==
    ASSUME NEW g, NEW a, NEW b, NEW seam, Matched(g, a, b, seam)
    PROVE  \E f, moved, es, zs :
              /\ Sewn(g, a, b, EdgeNamed(a, seam), EdgeNamed(b, seam), f, moved, es)
              /\ SewnVertices(g, a, b, f)
              /\ SewnRow(g.z, a.z, b.z, zs, Len(a.edges), EdgeNamed(b, seam), Len(b.edges))
<1> DEFINE ka == EdgeNamed(a, seam)
           k == EdgeNamed(b, seam)
<1>1. Branch(a, Coarse) /\ Branch(b, Coarse) /\ Seamed(a, b, seam) /\ g \in build_coupled_shared_seam(a, b, b, seam)
  BY DEF Matched
<1> HIDE DEF ka, k
<1>2. PICK f, moved, es, zs : SewnEdges(g, a, b, ka, k, f, moved, es) /\ SewnVertices(g, a, b, f) /\ SewnVector(g, a, b, ka, k, zs)
  BY <1>1, SewnIs DEF ka, k
<1>3. /\ LegalComplex(a) /\ EndsIn(a) /\ Distinct(a.vertices) /\ LegalComplex(b) /\ EndsIn(b) /\ LegalComplex(g)
  BY <1>1, <1>2, NamedIs DEF Branch, SewnVertices
<1>4. Sewn(g, a, b, ka, k, f, moved, es)
  BY <1>2, <1>3 DEF Sewn
<1>5. Len(a.edges) \in Nat /\ Len(b.edges) \in Nat
  BY <1>3, ComplexIs
<1>6. b.z \in FractionRow(Len(b.edges))
  BY <1>1, WitnessIs DEF Branch
<1>7. SewnRow(g.z, a.z, b.z, zs, Len(a.edges), k, Len(b.edges))
  BY <1>2, <1>5, <1>6 DEF SewnRow, SewnVector, SewnEdges
<1> QED
  BY <1>2, <1>4, <1>7 DEF ka, k

\* The conditions of what is glued along a seam declared as it is.
LEMMA MatchedConditions ==
    ASSUME NEW g, NEW a, NEW b, NEW seam, Matched(g, a, b, seam), Named(Coarse)
    PROVE  /\ N0(Coarse, g, rho0_star(Coarse, g), rho_star(Coarse, g))
                <=> /\ N0(Coarse, a, rho0_star(Coarse, a), rho_star(Coarse, a))
                    /\ N0(Coarse, b, rho0_star(Coarse, b), rho_star(Coarse, b))
           /\ E0(Coarse, g, rho_star(Coarse, g))
                <=> \A cycle \in RangeOf(Z1(Coarse)) : in_span_over_Q(BroughtBack(a) \o BroughtBack(b), cycle)
           /\ A3(a) /\ A3(b) => (A3(g) <=> Unmoved(b.z[EdgeNamed(b, seam)], b.edges[EdgeNamed(b, seam)]))
<1> DEFINE ka == EdgeNamed(a, seam)
           k == EdgeNamed(b, seam)
<1>1. PICK f, moved, es, zs :
        /\ Sewn(g, a, b, ka, k, f, moved, es) /\ SewnVertices(g, a, b, f)
        /\ SewnRow(g.z, a.z, b.z, zs, Len(a.edges), k, Len(b.edges))
  BY MatchedIs
<1> HIDE DEF ka, k
<1>2. Branch(a, Coarse) /\ Branch(b, Coarse)
  BY DEF Matched
<1>3. /\ LegalComplex(Coarse) /\ EndsIn(Coarse)
      /\ LegalComplex(g) /\ EndsIn(g) /\ Distinct(g.vertices)
  BY <1>1, NamedIs DEF SewnVertices
<1>4. /\ LegalComplex(a) /\ EndsIn(a) /\ Distinct(a.vertices) /\ LegalComplex(b) /\ EndsIn(b) /\ Distinct(b.vertices)
  BY <1>2, NamedIs DEF Branch
<1>5. /\ a.z \in FractionRow(Len(a.edges)) /\ b.z \in FractionRow(Len(b.edges)) /\ g.z \in FractionRow(Len(g.edges))
  <2>1. g.z \in FractionRow(Len(g.edges))
    BY <1>1 DEF SewnRow, Parts, Sewn, SewnEdges
  <2> QED
    BY <1>2, <2>1, WitnessIs DEF Branch
<1>6. N0(Coarse, g, rho0_star(Coarse, g), rho_star(Coarse, g))
        <=> /\ N0(Coarse, a, rho0_star(Coarse, a), rho_star(Coarse, a))
            /\ N0(Coarse, b, rho0_star(Coarse, b), rho_star(Coarse, b))
  <2>1. N0(Coarse, g, rho0_star(Coarse, g), rho_star(Coarse, g))
          <=> \A i \in 1..Len(g.edges) : Natural(g.edges[i], g.vertex_over, Coarse)
    BY <1>3, NaturalIs
  <2>2. N0(Coarse, a, rho0_star(Coarse, a), rho_star(Coarse, a))
          <=> \A i \in 1..Len(a.edges) : Natural(a.edges[i], a.vertex_over, Coarse)
    BY <1>3, <1>4, NaturalIs
  <2>3. N0(Coarse, b, rho0_star(Coarse, b), rho_star(Coarse, b))
          <=> \A i \in 1..Len(b.edges) : Natural(b.edges[i], b.vertex_over, Coarse)
    BY <1>3, <1>4, NaturalIs
  <2>4. (\A i \in 1..Len(g.edges) : Natural(g.edges[i], g.vertex_over, Coarse))
           <=> /\ \A i \in 1..Len(a.edges) : Natural(a.edges[i], a.vertex_over, Coarse)
               /\ \A i \in 1..Len(b.edges) : Natural(b.edges[i], b.vertex_over, Coarse)
    BY <1>1, SewnNatural
  <2> QED
    BY ONLY <2>1, <2>2, <2>3, <2>4
<1>7. E0(Coarse, g, rho_star(Coarse, g))
        <=> \A cycle \in RangeOf(Z1(Coarse)) : in_span_over_Q(BroughtBack(a) \o BroughtBack(b), cycle)
  <2>1. E0(Coarse, g, rho_star(Coarse, g)) <=> Reflecting(Coarse, g)
    BY <1>3, ReflectingIs
  <2>2. \A y : (\E x : Lifts(x, g, y, Coarse)) <=> LiftedTogether(Coarse, a, b, y)
    BY <1>1, SewnLifts
  <2>3. Reflecting(Coarse, g) <=> \A y \in FractionRow(Len(Coarse.edges)) :
              Closed(y, Coarse.edges, Len(Coarse.edges)) => LiftedTogether(Coarse, a, b, y)
    BY ONLY <2>2 DEF Reflecting
  <2>4. (\A cycle \in RangeOf(Z1(Coarse)) : in_span_over_Q(BroughtBack(a) \o BroughtBack(b), cycle))
           <=> \A y \in FractionRow(Len(Coarse.edges)) :
                  Closed(y, Coarse.edges, Len(Coarse.edges)) => LiftedTogether(Coarse, a, b, y)
    BY <1>3, <1>4, TogetherIs
  <2> QED
    BY ONLY <2>1, <2>3, <2>4
<1>8. ASSUME A3(a), A3(b) PROVE A3(g) <=> Unmoved(b.z[k], b.edges[k])
  <2>1. /\ A3(a) <=> Closed(a.z, a.edges, Len(a.edges))
        /\ A3(b) <=> Closed(b.z, b.edges, Len(b.edges))
        /\ A3(g) <=> Closed(g.z, g.edges, Len(g.edges))
    BY <1>3, <1>4, <1>5, CycleIs DEF A3
  <2>2. SewnWith(g.z, a.z, b.z, zs, g, a, b, ka, k, f, moved, es)
    BY <1>1 DEF Sewn, SewnWith
  <2> DEFINE x == g.z
             u == a.z
             w == b.z
  <2>3. SewnWith(x, u, w, zs, g, a, b, ka, k, f, moved, es)
    BY <2>2
  <2>4. Closed(u, a.edges, Len(a.edges)) /\ Closed(w, b.edges, Len(b.edges))
    BY <1>8, <2>1
  <2>5. SUFFICES Closed(x, g.edges, Len(g.edges)) <=> Unmoved(w[k], b.edges[k])
    BY <2>1
  <2> HIDE DEF x, u, w
  <2> QED
    BY <1>4, <2>3, <2>4, SewnClosed
<1> QED
  BY <1>6, <1>7, <1>8 DEF k

\* Whatever is glued has the pairing it should; and the conditions too, when the
\* seam is declared as it is.
LEMMA GluedAsBranches ==
    ASSUME Named(Coarse), Coarse.residue \in FractionRow(Len(Coarse.edges)),
           NEW q, Branch(q.a, Coarse), Branch(q.b, Coarse), Seamed(q.a, q.b, q.seam),
           NEW g \in build_coupled_shared_seam(q.a, q.b, q.declared, q.seam)
    PROVE  GluedAdds(q, EdgeNamed(q.b, q.seam), check(Coarse, Coarse.residue, q.a),
                     check(Coarse, Coarse.residue, q.b), check(Coarse, Coarse.residue, g))
<1> DEFINE a == q.a
           b == q.b
           seam == q.seam
           r == Coarse.residue
           k == EdgeNamed(b, seam)
           ca == check(Coarse, r, a)
           cb == check(Coarse, r, b)
           cg == check(Coarse, r, g)
           spanned == \A cycle \in RangeOf(Z1(Coarse)) : in_span_over_Q(BroughtBack(a) \o BroughtBack(b), cycle)
<1>1. cg.pairing = Minus(Plus(ca.pairing, cb.pairing), Times(b.z[k], mat_vec(rho_star(Coarse, b), r)[k]))
  <2> DEFINE dec == q.declared
             co == Coarse
  <2>1. /\ Branch(a, co) /\ Branch(b, co) /\ Seamed(a, b, seam) /\ Named(co) /\ r \in FractionRow(Len(co.edges))
        /\ g \in build_coupled_shared_seam(a, b, dec, seam)
    OBVIOUS
  <2>2. SUFFICES check(co, r, g).pairing
                  = Minus(Plus(check(co, r, a).pairing, check(co, r, b).pairing),
                          Times(b.z[EdgeNamed(b, seam)], mat_vec(rho_star(co, b), r)[EdgeNamed(b, seam)]))
    OBVIOUS
  <2> HIDE DEF a, b, seam, r, dec, co
  <2> QED
    BY ONLY <2>1, GluedPairing
<1>2. ASSUME q.declared = q.b
      PROVE  /\ cg.N0 = (ca.N0 /\ cb.N0) /\ (cg.E0 <=> spanned)
             /\ ca.A3 /\ cb.A3 => (cg.A3 <=> Unmoved(b.z[k], b.edges[k]))
  <2>1. Matched(g, a, b, seam)
    BY <1>2 DEF Matched
  <2> HIDE DEF a, b, seam
  <2>2. /\ N0(Coarse, g, rho0_star(Coarse, g), rho_star(Coarse, g))
              <=> /\ N0(Coarse, a, rho0_star(Coarse, a), rho_star(Coarse, a))
                  /\ N0(Coarse, b, rho0_star(Coarse, b), rho_star(Coarse, b))
        /\ E0(Coarse, g, rho_star(Coarse, g)) <=> spanned
        /\ A3(a) /\ A3(b) => (A3(g) <=> Unmoved(b.z[k], b.edges[k]))
    BY <2>1, MatchedConditions
  <2>3. ca.A3 = A3(a) /\ cb.A3 = A3(b) /\ cg.A3 = A3(g)
    BY CheckIs
  <2>4. /\ cg.N0 = N0(Coarse, g, rho0_star(Coarse, g), rho_star(Coarse, g))
        /\ ca.N0 = N0(Coarse, a, rho0_star(Coarse, a), rho_star(Coarse, a))
        /\ cb.N0 = N0(Coarse, b, rho0_star(Coarse, b), rho_star(Coarse, b))
        /\ cg.N0 \in BOOLEAN /\ ca.N0 \in BOOLEAN /\ cb.N0 \in BOOLEAN
    BY CheckIs
  <2>5. cg.E0 = E0(Coarse, g, rho_star(Coarse, g))
    BY CheckIs
  <2> HIDE DEF ca, cb, cg, spanned, k
  <2> QED
    BY ONLY <2>2, <2>3, <2>4, <2>5
<1> QED
  BY <1>1, <1>2 DEF GluedAdds

\* A branch with another vector.
LEMMA OtherVector ==
    ASSUME NEW c, NEW w, Branch(w, c), NEW z \in FractionRow(Len(w.edges)), NEW b, b = [w EXCEPT !.z = z]
    PROVE  /\ Branch(b, c) /\ b.z = z
           /\ b.vertices = w.vertices /\ b.edges = w.edges /\ b.vertex_over = w.vertex_over
<1>1. LegalWitness(w) /\ Named(w) /\ OverNamed(w, c) /\ OverVertices(w, c)
  BY DEF Branch
<1>2. {"vertices", "edges", "vertex_over", "z"} \subseteq DOMAIN w /\ LegalComplex(w)
  BY <1>1 DEF LegalWitness
<1>3. /\ b.z = z /\ b.vertices = w.vertices /\ b.edges = w.edges /\ b.vertex_over = w.vertex_over
      /\ DOMAIN b = DOMAIN w
  BY <1>2
<1>4. Len(w.edges) \in Nat
  BY <1>2, ComplexIs
<1>5. ExactVector(b.z) /\ Len(b.z) = Len(b.edges)
  BY <1>3, <1>4, RowIsSeq, FractionsExact
<1>6. LegalComplex(b)
  BY <1>2, <1>3 DEF LegalComplex
<1>7. LegalWitness(b)
  BY <1>1, <1>3, <1>5, <1>6 DEF LegalWitness
<1>8. EdgeNames(b) = EdgeNames(w)
  BY <1>3 DEF EdgeNames
<1>9. WellNamed(b) /\ NamesIn(b) = NamesIn(w)
  BY <1>1, <1>3, <1>8 DEF Named, WellNamed, NamesIn
<1>10. Named(b)
  BY <1>1, <1>6, <1>9 DEF Named
<1>11. OverNamed(b, c) /\ OverVertices(b, c)
  BY <1>1, <1>3 DEF OverNamed, OverVertices
<1> QED
  BY <1>3, <1>7, <1>10, <1>11 DEF Branch

----------------------------------------------------------------------------
(* The cancellation search. A direction is a cycle that leaves the seam    *)
(* alone, and the partner is the witness with a direction added.           *)

\* A direction of the search along an edge: a cycle that leaves the edge alone.
Aside(d, w, e) ==
    /\ d \in FractionRow(Len(w.edges)) /\ d[e] = Zero
    /\ Closed(d, w.edges, Len(w.edges))

\* A combination of vectors, as the code adds it up.
LEMMA CombinedIs ==
    ASSUME NEW k \in Nat, k > 0, NEW m \in Nat, NEW L \in Rows(k, m), NEW a \in FractionRow(k)
    PROVE  /\ Combined(a, L) \in FractionRow(m)
           /\ \A i \in 1..m : Combined(a, L)[i] = SumProducts(Column(L, i, k), a, k)
<1>1. DOMAIN L = 1..k /\ L[1] \in FractionRow(m) /\ DOMAIN L[1] = 1..m
  BY DEF Rows, FractionRow
<1>2. Len(a) = k
  BY RowIsSeq
<1>3. \A i \in 1..m : /\ Column(L, i, k) \in FractionRow(k) /\ Len(Column(L, i, k)) = k
                      /\ [j \in DOMAIN L |-> L[j][i]] = Column(L, i, k)
  <2> SUFFICES ASSUME NEW i \in 1..m
               PROVE  /\ Column(L, i, k) \in FractionRow(k) /\ Len(Column(L, i, k)) = k
                      /\ [j \in DOMAIN L |-> L[j][i]] = Column(L, i, k)
    OBVIOUS
  <2>1. Column(L, i, k) \in FractionRow(k)
    BY DEF Column, Rows, FractionRow
  <2>2. Len(Column(L, i, k)) = k
    BY <2>1, RowIsSeq
  <2> QED
    BY <1>1, <2>1, <2>2 DEF Column
<1>4. \A i \in 1..m : /\ Combined(a, L)[i] = SumProducts(Column(L, i, k), a, k)
                      /\ SumProducts(Column(L, i, k), a, k) \in Fractions
  <2> SUFFICES ASSUME NEW i \in 1..m
               PROVE  /\ Combined(a, L)[i] = SumProducts(Column(L, i, k), a, k)
                      /\ SumProducts(Column(L, i, k), a, k) \in Fractions
    OBVIOUS
  <2> DEFINE q == Column(L, i, k)
  <2>1. q \in FractionRow(k) /\ Len(q) = k /\ [j \in DOMAIN L |-> L[j][i]] = q
    BY <1>3
  <2>2. Combined(a, L)[i] = dot(a, [j \in DOMAIN L |-> L[j][i]])
    BY <1>1 DEF Combined
  <2> HIDE DEF q
  <2>3. Combined(a, L)[i] = SumProducts(a, q, k)
    BY <1>2, <2>1, <2>2 DEF dot
  <2>4. \A j \in 1..k : q[j] \in Fractions /\ a[j] \in Fractions
    BY <2>1 DEF FractionRow
  <2>5. SumProducts(a, q, k) = SumProducts(q, a, k) /\ SumProducts(q, a, k) \in Fractions
    BY <2>4, ProductsCommute, ProductsType
  <2> QED
    BY <2>3, <2>5 DEF q
<1>5. Combined(a, L) = [i \in 1..m |-> Combined(a, L)[i]]
  BY <1>1 DEF Combined
<1> QED
  BY <1>4, <1>5 DEF FractionRow

\* What the cycles of a basis make together is a cycle.
LEMMA CombinedCloses ==
    ASSUME NEW w, LegalComplex(w), EndsIn(w), NEW a \in FractionRow(Len(Z1(w))), Len(Z1(w)) > 0
    PROVE  /\ Combined(a, Z1(w)) \in FractionRow(Len(w.edges))
           /\ Closed(Combined(a, Z1(w)), w.edges, Len(w.edges))
           /\ \A i \in 1..Len(w.edges) :
                Combined(a, Z1(w))[i] = SumProducts(Column(Z1(w), i, Len(Z1(w))), a, Len(Z1(w)))
<1> DEFINE m == Len(w.edges)
           L == Z1(w)
           k == Len(L)
           d == Combined(a, L)
           T == transpose(delta0(w))
<1>1. m \in Nat
  BY ComplexIs
<1>2. KernelList(T, m, k, L)
  BY CyclesAre
<1>3. k \in Nat /\ L \in Rows(k, m) /\ \A j \in 1..k : is_zero(mat_vec(T, L[j]))
  BY <1>2 DEF KernelList
<1>4. \A x \in FractionRow(m) : is_zero(mat_vec(T, x)) <=> Closed(x, w.edges, m)
  BY CycleIs
<1>5. k > 0 /\ a \in FractionRow(k)
  OBVIOUS
<1> HIDE DEF m, L, k, T
<1>6. /\ d \in FractionRow(m)
      /\ \A i \in 1..m : d[i] = SumProducts(Column(L, i, k), a, k)
  BY <1>1, <1>3, <1>5, CombinedIs
<1> HIDE DEF d
<1>7. InSpan(L, k, m, d)
  BY <1>5, <1>6 DEF InSpan
<1>8. Closed(d, w.edges, m)
  <2> SUFFICES ASSUME NEW v PROVE Boundary(d, w.edges, v, m) = Zero
    BY DEF Closed
  <2> DEFINE r == Incidences(w.edges, v, m)
  <2>1. r \in FractionRow(m)
    BY <1>1, <1>6, BoundaryIs
  <2>2. \A j \in 1..k : SumProducts(L[j], r, m) = Zero
    <3> SUFFICES ASSUME NEW j \in 1..k PROVE SumProducts(L[j], r, m) = Zero
      OBVIOUS
    <3>1. L[j] \in FractionRow(m) /\ is_zero(mat_vec(T, L[j]))
      BY <1>3 DEF Rows
    <3>2. Closed(L[j], w.edges, m)
      BY <1>4, <3>1
    <3> QED
      BY <3>2 DEF Closed, Boundary
  <2>3. SumProducts(d, r, m) = Zero
    <3> HIDE DEF r
    <3> QED
      BY <1>1, <1>3, <1>6, <1>7, <2>1, <2>2, SpanPairs
  <2> QED
    BY <2>3 DEF Boundary
<1> QED
  BY <1>6, <1>8 DEF m, L, k, d

\* All that off_seam_directions returns are directions aside from the seam.
LEMMA DirectionIs ==
    ASSUME NEW w, LegalComplex(w), EndsIn(w), NEW e \in 1..Len(w.edges),
           NEW j \in DOMAIN off_seam_directions(Z1(w), e)
    PROVE  Aside(off_seam_directions(Z1(w), e)[j], w, e)
<1> DEFINE m == Len(w.edges)
           L == Z1(w)
           k == Len(L)
           q == Column(L, e, k)
           M == <<q>>
           A == nullspace_over_Q(M)
           n == Len(A)
           S == [i \in DOMAIN A |-> Computed(Combined(A[i], L))]
<1>1. m \in Nat
  BY ComplexIs
<1>2. k \in Nat /\ L \in Rows(k, m)
  BY CyclesAre DEF KernelList
<1>3. ~(k < 2) /\ k > 0
  <2>1. k < 2 => off_seam_directions(L, e) = <<>>
    BY DEF off_seam_directions
  <2> HIDE DEF k
  <2> QED
    BY <1>2, <2>1
<1>4. DOMAIN L = 1..k
  BY <1>2 DEF Rows
<1>5. off_seam_directions(L, e) = Computed(S)
  <2>1. [i \in DOMAIN L |-> L[i][e]] = q
    BY <1>4 DEF Column
  <2> QED
    BY <1>3, <2>1 DEF off_seam_directions
<1>6. q \in FractionRow(k) /\ M \in Rows(1, k)
  <2>1. q \in FractionRow(k)
    BY <1>2 DEF Column, Rows, FractionRow
  <2> HIDE DEF q
  <2> QED
    BY <2>1 DEF Rows
<1>7. M[1] = q
  OBVIOUS
<1> HIDE DEF M
<1>8. Rectangular(M) /\ columns(M) = k
  BY <1>2, <1>6, RowsRectangular
<1>9. KernelList(M, k, n, A)
  BY <1>8, NullspaceIs
<1>10. n \in Nat /\ A \in Rows(n, k) /\ \A i \in 1..n : is_zero(mat_vec(M, A[i]))
  BY <1>9 DEF KernelList
<1>11. ASSUME NEW i \in 1..n PROVE Aside(Combined(A[i], L), w, e)
  <2> DEFINE a == A[i]
             d == Combined(a, L)
  <2>1. a \in FractionRow(k)
    BY <1>10 DEF Rows
  <2>2. is_zero(mat_vec(M, a))
    BY <1>10
  <2> HIDE DEF a, q, A
  <2>3. /\ d \in FractionRow(m) /\ Closed(d, w.edges, m)
        /\ \A f \in 1..m : d[f] = SumProducts(Column(L, f, k), a, k)
    BY <1>3, <2>1, CombinedCloses
  <2>4. mat_vec(M, a) \in FractionRow(1) /\ mat_vec(M, a)[1] = SumProducts(q, a, k)
    <3>1. \A f \in 1..1 : mat_vec(M, a)[f] = SumProducts(M[f], a, k)
      BY <1>2, <1>6, <2>1, ApplyIs
    <3>2. mat_vec(M, a) \in FractionRow(1)
      BY <1>2, <1>6, <2>1, ApplyIs
    <3> QED
      BY <1>7, <3>1, <3>2
  <2>5. mat_vec(M, a)[1] = Zero
    <3>1. Len(mat_vec(M, a)) = 1
      BY <2>4, RowIsSeq
    <3> QED
      BY <2>2, <3>1 DEF is_zero
  <2>6. d[e] = Zero
    BY <2>3, <2>4, <2>5 DEF q
  <2> QED
    BY <2>3, <2>6 DEF Aside, a
<1>12. Computed(S) = S /\ \A i \in 1..n : S[i] = Combined(A[i], L) /\ DOMAIN S = 1..n
  <2>1. ASSUME NEW i \in 1..n PROVE Computed(Combined(A[i], L)) = Combined(A[i], L) /\ Combined(A[i], L) \in FractionRow(m)
    <3>1. Combined(A[i], L) \in FractionRow(m)
      BY <1>11 DEF Aside
    <3>2. Combined(A[i], L) \in Seq(Fractions)
      BY <1>1, <3>1, RowIsSeq
    <3> QED
      BY <3>1, <3>2, ComputedIs
  <2>2. DOMAIN A = 1..n
    BY <1>10 DEF Rows
  <2> HIDE DEF A, L, n, m
  <2>3. S = [i \in 1..n |-> Combined(A[i], L)]
    BY <2>1, <2>2
  <2>4. S \in Seq(FractionRow(m))
    BY <1>10, <2>1, <2>3
  <2>5. Computed(S) = S
    <3> HIDE DEF S
    <3> QED
      BY <2>4, ComputedIs
  <2> QED
    BY <2>3, <2>5
<1> QED
  <2>1. j \in DOMAIN S
    BY <1>5, <1>12
  <2>2. DOMAIN S = 1..n
    BY <1>10 DEF Rows
  <2>3. Aside(S[j], w, e)
    <3> HIDE DEF S, n, A, L
    <3> QED
      BY <1>11, <1>12, <2>1, <2>2
  <2> QED
    BY <1>5, <1>12, <2>3

LEMMA Reaches ==
    ASSUME NEW p \in Fractions, NEW s \in Fractions
    PROVE  Plus(p, Minus(s, Plus(p, p))) = Minus(s, p)
<1> DEFINE t == Minus(s, Plus(p, p))
<1>1. Plus(p, p) \in Fractions /\ t \in Fractions
  BY FractionsClosed
<1>2. Plus(t, Plus(p, p)) = s
  BY <1>1, PlusMinus
<1> HIDE DEF t
<1>3. Plus(Plus(p, t), p) = s
  <2>1. Plus(t, Plus(p, p)) = Plus(Plus(t, p), p)
    BY <1>1, PlusAssociates
  <2>2. Plus(t, p) = Plus(p, t)
    BY <1>1, PlusCommutes
  <2> QED
    BY <1>2, <2>1, <2>2
<1>4. Minus(Plus(Plus(p, t), p), p) = Plus(p, t)
  BY <1>1, FractionsClosed, MinusPlus
<1> QED
  BY <1>3, <1>4 DEF t

\* What is added along a direction, so that the pairing becomes what it must.
Along(x, w, R, e, d, m) ==
    /\ m \in Nat /\ e \in 1..m /\ w.z \in FractionRow(m) /\ R \in FractionRow(m)
    /\ d \in FractionRow(m) /\ d[e] = Zero /\ dot(d, R) # Zero
    /\ x = [k \in DOMAIN w.z |-> Plus(w.z[k], Times(lambda(w, R, e, d), d[k]))]

\* The code's lambda makes the pairing what cancels, and nothing else changes:
\* not the seam's coefficient, nor what the direction pairs to zero with.
LEMMA MovedAlong ==
    ASSUME NEW x, NEW w, NEW R, NEW e, NEW d, NEW m, Along(x, w, R, e, d, m)
    PROVE  /\ x \in FractionRow(m) /\ x[e] = w.z[e]
           /\ SumProducts(x, R, m) = Minus(Times(w.z[e], R[e]), SumProducts(w.z, R, m))
           /\ \A v \in FractionRow(m) : SumProducts(d, v, m) = Zero => SumProducts(x, v, m) = SumProducts(w.z, v, m)
<1> DEFINE z == w.z
           l == lambda(w, R, e, d)
           p == SumProducts(z, R, m)
           f == SumProducts(d, R, m)
           s == Times(z[e], R[e])
<1>0. /\ m \in Nat /\ e \in 1..m /\ w.z \in FractionRow(m) /\ R \in FractionRow(m)
      /\ d \in FractionRow(m) /\ d[e] = Zero /\ dot(d, R) # Zero
      /\ x = [k \in DOMAIN w.z |-> Plus(w.z[k], Times(lambda(w, R, e, d), d[k]))]
  BY DEF Along
<1>1. z \in FractionRow(m) /\ DOMAIN z = 1..m /\ Len(z) = m /\ Len(R) = m /\ Len(d) = m
  BY <1>0, RowIsSeq
<1>2. \A k \in 1..m : z[k] \in Fractions /\ R[k] \in Fractions /\ d[k] \in Fractions
  BY <1>0, <1>1 DEF FractionRow
<1>3. p \in Fractions /\ f \in Fractions
  BY <1>0, <1>2, ProductsType
<1>4. s \in Fractions /\ Minus(s, Plus(p, p)) \in Fractions
  BY <1>0, <1>2, <1>3, FractionsClosed
<1>5. f # Zero /\ l = Over(Minus(s, Plus(p, p)), f)
  <2>1. dot(d, R) = f /\ dot(w.z, R) = p
    BY <1>0, <1>1 DEF dot
  <2>2. dot(d, R) # Zero
    BY <1>0
  <2>3. l = Over(Minus(Times(w.z[e], R[e]), Plus(dot(w.z, R), dot(w.z, R))), dot(d, R))
    BY DEF lambda
  <2> HIDE DEF f, p, l
  <2> QED
    BY ONLY <2>1, <2>2, <2>3
<1> HIDE DEF l, p, f, s, z
<1>6. l \in Fractions /\ Times(f, l) = Minus(s, Plus(p, p))
  BY <1>0, <1>3, <1>4, <1>5, OverIs
<1>7. Times(l, f) = Minus(s, Plus(p, p))
  BY <1>0, <1>3, <1>6, TimesCommutes
<1>8. /\ DOMAIN x = 1..m
      /\ \A k \in 1..m : x[k] = Plus(z[k], Times(l, d[k])) /\ x[k] \in Fractions
  <2>1. x = [k \in 1..m |-> Plus(z[k], Times(l, d[k]))]
    BY <1>0, <1>1 DEF z, l
  <2>2. \A k \in 1..m : Plus(z[k], Times(l, d[k])) \in Fractions
    BY <1>0, <1>2, <1>6, FractionsClosed
  <2> QED
    BY <2>1, <2>2
<1>9. x \in FractionRow(m)
  <2>1. x = [k \in 1..m |-> Plus(z[k], Times(l, d[k]))]
    BY <1>0, <1>1 DEF z, l
  <2> QED
    BY <1>0, <1>8, <2>1 DEF FractionRow
<1>10. x[e] = z[e]
  <2>1. x[e] = Plus(z[e], Times(l, Zero))
    BY <1>0, <1>8
  <2> QED
    BY <1>0, <1>2, <1>6, <2>1, TimesZero, PlusZero
<1>11. \A v \in FractionRow(m) :
          SumProducts(x, v, m) = Plus(SumProducts(z, v, m), Times(l, SumProducts(d, v, m)))
  <2> SUFFICES ASSUME NEW v \in FractionRow(m)
               PROVE  SumProducts(x, v, m) = Plus(SumProducts(z, v, m), Times(l, SumProducts(d, v, m)))
    OBVIOUS
  <2>1. \A k \in 1..m : /\ z[k] \in Fractions /\ d[k] \in Fractions /\ v[k] \in Fractions
                        /\ x[k] = Plus(z[k], Times(l, d[k]))
    BY <1>0, <1>2, <1>8 DEF FractionRow
  <2>2. m \in Nat /\ l \in Fractions
    BY <1>0, <1>6
  <2> QED
    BY ONLY <2>1, <2>2, ProductsMore
<1>12. SumProducts(x, R, m) = Minus(s, p)
  <2>1. SumProducts(x, R, m) = Plus(p, Times(l, f))
    BY <1>0, <1>11 DEF p, f
  <2> QED
    BY <1>0, <1>3, <1>4, <1>7, <2>1, Reaches
<1>13. ASSUME NEW v \in FractionRow(m), SumProducts(d, v, m) = Zero
       PROVE  SumProducts(x, v, m) = SumProducts(z, v, m)
  <2>1. SumProducts(z, v, m) \in Fractions
    BY <1>0, <1>2, ProductsType DEF FractionRow
  <2>2. SumProducts(x, v, m) = Plus(SumProducts(z, v, m), Times(l, Zero))
    BY <1>0, <1>11, <1>13
  <2> QED
    BY <1>0, <1>6, <2>1, <2>2, TimesZero, PlusZero
<1> QED
  BY <1>0, <1>9, <1>10, <1>12, <1>13 DEF z, s, p

\* The partner of a witness along edge e.
Partnered(b, w, c, r, e) ==
    /\ Branch(b, c) /\ b.edges = w.edges /\ b.vertices = w.vertices /\ b.vertex_over = w.vertex_over
    /\ b.z[e] = w.z[e]
    /\ Closed(b.z, w.edges, Len(w.edges)) <=> Closed(w.z, w.edges, Len(w.edges))
    /\ Pairing(b, mat_vec(rho_star(c, w), r))
         = Minus(Times(w.z[e], mat_vec(rho_star(c, w), r)[e]), Pairing(w, mat_vec(rho_star(c, w), r)))

\* Every partner that is found is one.
LEMMA PartnerIs ==
    ASSUME NEW c, Named(c), NEW r \in FractionRow(Len(c.edges)), NEW w, Branch(w, c), NEW e \in 1..Len(w.edges),
           NEW b \in Partner(w, mat_vec(rho_star(c, w), r), e)
    PROVE  Partnered(b, w, c, r, e)
<1> DEFINE m == Len(w.edges)
           R == mat_vec(rho_star(c, w), r)
           D == off_seam_directions(Z1(w), e)
<1>1. /\ LegalComplex(w) /\ LegalComplex(c) /\ EndsIn(w) /\ w.z \in FractionRow(m) /\ m \in Nat
  BY BranchIs
<1>2. R \in FractionRow(m)
  <2>1. rho_star(c, w) \in Rows(m, Len(c.edges)) /\ Len(c.edges) \in Nat
    BY <1>1, PullbackIs, ComplexIs
  <2> HIDE DEF m
  <2> QED
    BY <1>1, <2>1, ApplyIs
<1>3. PICK j \in DOMAIN D : /\ dot(D[j], R) # Zero
                            /\ b = [w EXCEPT !.z = [k \in DOMAIN w.z |-> Plus(w.z[k], Times(lambda(w, R, e, D[j]), D[j][k]))]]
  BY DEF Partner
<1> DEFINE d == D[j]
           x == [k \in DOMAIN w.z |-> Plus(w.z[k], Times(lambda(w, R, e, d), d[k]))]
<1>4. Aside(d, w, e)
  BY <1>1, DirectionIs
<1>5. d \in FractionRow(m) /\ d[e] = Zero /\ Closed(d, w.edges, m)
  BY <1>4 DEF Aside
<1>6. dot(d, R) # Zero /\ b = [w EXCEPT !.z = x]
  BY <1>3
<1> HIDE DEF d, D, R, m
<1>7. x = [k \in DOMAIN w.z |-> Plus(w.z[k], Times(lambda(w, R, e, d), d[k]))]
  OBVIOUS
<1>8. e \in 1..m
  BY DEF m
<1> HIDE DEF x
<1>9. /\ x \in FractionRow(m) /\ x[e] = w.z[e]
      /\ SumProducts(x, R, m) = Minus(Times(w.z[e], R[e]), SumProducts(w.z, R, m))
      /\ \A v \in FractionRow(m) : SumProducts(d, v, m) = Zero => SumProducts(x, v, m) = SumProducts(w.z, v, m)
  <2>1. Along(x, w, R, e, d, m)
    BY <1>1, <1>2, <1>5, <1>6, <1>7, <1>8 DEF Along
  <2> QED
    BY ONLY <2>1, MovedAlong
<1>10. /\ Branch(b, c) /\ b.z = x
       /\ b.vertices = w.vertices /\ b.edges = w.edges /\ b.vertex_over = w.vertex_over
  BY <1>6, <1>9, OtherVector DEF m
<1>11. Closed(x, w.edges, m) <=> Closed(w.z, w.edges, m)
  <2>1. \A v : Boundary(x, w.edges, v, m) = Boundary(w.z, w.edges, v, m)
    <3> SUFFICES ASSUME NEW v PROVE Boundary(x, w.edges, v, m) = Boundary(w.z, w.edges, v, m)
      OBVIOUS
    <3>1. Incidences(w.edges, v, m) \in FractionRow(m)
      BY <1>1, <1>5, BoundaryIs
    <3>2. SumProducts(d, Incidences(w.edges, v, m), m) = Zero
      BY <1>5 DEF Closed, Boundary
    <3> QED
      BY <1>9, <3>1, <3>2 DEF Boundary
  <2> QED
    BY <2>1 DEF Closed
<1>12. Pairing(b, R) = SumProducts(x, R, m) /\ Pairing(w, R) = SumProducts(w.z, R, m)
  <2>1. Len(x) = m /\ Len(w.z) = m /\ Len(R) = m
    BY <1>1, <1>2, <1>9, RowIsSeq
  <2> QED
    BY <1>10, <2>1 DEF Pairing, dot
<1>13. /\ b.z[e] = w.z[e]
       /\ Closed(b.z, w.edges, m) <=> Closed(w.z, w.edges, m)
       /\ Pairing(b, R) = Minus(Times(w.z[e], R[e]), Pairing(w, R))
  BY <1>9, <1>10, <1>11, <1>12
<1> QED
  BY <1>10, <1>13 DEF Partnered, R, m

LEMMA CancelsOut ==
    ASSUME NEW p \in Fractions, NEW s \in Fractions
    PROVE  Minus(Plus(p, Minus(s, p)), s) = Zero
<1>1. Minus(s, p) \in Fractions
  BY FractionsClosed
<1>2. Plus(p, Minus(s, p)) = s
  BY <1>1, PlusCommutes, PlusMinus
<1> QED
  BY <1>2, MinusSelf

\* The search's report on a witness and a partner of it.
LEMMA PartnerCancels ==
    ASSUME Named(Coarse), Coarse.residue \in FractionRow(Len(Coarse.edges)),
           NEW w, Branch(w, Coarse), NEW e \in 1..Len(w.edges),
           NEW b, Partnered(b, w, Coarse, Coarse.residue, e),
           NEW seam, seam = w.edges[e].name
    PROVE  /\ check(Coarse, Coarse.residue, b).A3 = check(Coarse, Coarse.residue, w).A3
           /\ build_coupled_shared_seam(w, b, b, seam) # {}
           /\ \A g \in build_coupled_shared_seam(w, b, b, seam) :
                /\ check(Coarse, Coarse.residue, g).pairing = Zero
                /\ check(Coarse, Coarse.residue, w).A3 =>
                     (check(Coarse, Coarse.residue, g).A3 <=> Unmoved(w.z[e], w.edges[e]))
<1> DEFINE r == Coarse.residue
           ca == check(Coarse, r, w)
           cb == check(Coarse, r, b)
           R == mat_vec(rho_star(Coarse, w), r)
           p == Pairing(w, R)
           s == Times(w.z[e], R[e])
<1>1. /\ Branch(b, Coarse) /\ b.edges = w.edges /\ b.vertices = w.vertices /\ b.vertex_over = w.vertex_over
      /\ b.z[e] = w.z[e]
      /\ Closed(b.z, w.edges, Len(w.edges)) <=> Closed(w.z, w.edges, Len(w.edges))
      /\ Pairing(b, R) = Minus(s, p)
  BY DEF Partnered
<1>2. /\ LegalWitness(w) /\ Named(w) /\ LegalWitness(b) /\ Named(b)
  BY <1>1 DEF Branch
<1>3. /\ LegalComplex(w) /\ LegalComplex(Coarse) /\ w.z \in FractionRow(Len(w.edges)) /\ Len(w.edges) \in Nat
      /\ A3(w) <=> Closed(w.z, w.edges, Len(w.edges))
      /\ p \in Fractions
  BY BranchIs
<1>4. A3(b) <=> Closed(b.z, b.edges, Len(b.edges))
  BY <1>1, BranchIs
<1>5. ca.A3 = A3(w) /\ A3(w) \in BOOLEAN /\ cb.A3 = A3(b) /\ A3(b) \in BOOLEAN
  BY CheckIs
<1>6. cb.A3 = ca.A3
  <2> HIDE DEF ca, cb
  <2> QED
    BY <1>1, <1>3, <1>4, <1>5
<1>7. seam \in RangeOf(EdgeNames(w)) /\ seam \in RangeOf(EdgeNames(b))
  <2>1. e \in DOMAIN w.edges
    BY <1>3, ComplexIs
  <2>2. EdgeNames(w)[e] = seam /\ e \in DOMAIN EdgeNames(w)
    BY <2>1 DEF EdgeNames
  <2>3. EdgeNames(b) = EdgeNames(w)
    BY <1>1 DEF EdgeNames
  <2> QED
    BY <2>2, <2>3 DEF RangeOf
<1>8. Seamed(w, b, seam)
  BY <1>2, <1>7 DEF Seamed
<1>9. EdgeNamed(w, seam) = e
  BY <1>2, <1>7, EdgeNamedIs
<1>10. EdgeNamed(b, seam) = e
  BY <1>1, <1>9 DEF EdgeNamed
<1>11. build_coupled_shared_seam(w, b, b, seam) # {}
  <2>1. Compatible(w, b, seam)
    BY <1>1, <1>9, <1>10 DEF Compatible
  <2> QED
    BY <2>1 DEF build_coupled_shared_seam
<1>12. R[e] \in Fractions /\ s \in Fractions
  <2>1. R[e] = Share(w.edges[e], Coarse, r) /\ Share(w.edges[e], Coarse, r) \in Fractions
    BY <1>3, ShareIs
  <2>2. w.z[e] \in Fractions
    BY <1>3 DEF FractionRow
  <2> QED
    BY <2>1, <2>2, FractionsClosed
<1>13. rho_star(Coarse, b) = rho_star(Coarse, w)
  BY <1>1 DEF rho_star
<1>14. ASSUME NEW g \in build_coupled_shared_seam(w, b, b, seam)
       PROVE  /\ check(Coarse, r, g).pairing = Zero
              /\ ca.A3 => (check(Coarse, r, g).A3 <=> Unmoved(w.z[e], w.edges[e]))
  <2> DEFINE q == [a |-> w, b |-> b, declared |-> b, seam |-> seam]
             cg == check(Coarse, r, g)
  <2>1. q.a = w /\ q.b = b /\ q.declared = b /\ q.seam = seam
    OBVIOUS
  <2>2. GluedAdds(q, e, ca, cb, cg)
    <3> HIDE DEF q
    <3>1. GluedAdds(q, EdgeNamed(q.b, q.seam), check(Coarse, Coarse.residue, q.a),
                    check(Coarse, Coarse.residue, q.b), check(Coarse, Coarse.residue, g))
      <4>1. Branch(q.a, Coarse) /\ Branch(q.b, Coarse) /\ Seamed(q.a, q.b, q.seam)
        BY <1>1, <1>8, <2>1
      <4>2. g \in build_coupled_shared_seam(q.a, q.b, q.declared, q.seam)
        BY <2>1
      <4> QED
        BY <4>1, <4>2, GluedAsBranches
    <3> QED
      BY <1>10, <2>1, <3>1
  <2>3. ca.pairing = p /\ cb.pairing = Minus(s, p)
    <3>1. ca.pairing = Pairing(w, R)
      BY CheckIs
    <3>2. cb.pairing = Pairing(b, mat_vec(rho_star(Coarse, b), r))
      BY CheckIs
    <3> QED
      BY <1>1, <1>13, <3>1, <3>2
  <2>4. Times(q.b.z[e], mat_vec(rho_star(Coarse, q.b), Coarse.residue)[e]) = s
    BY <1>1, <1>13, <2>1
  <2> HIDE DEF q, ca, cb, cg, p, s
  <2>5. cg.pairing = Minus(Plus(ca.pairing, cb.pairing), Times(q.b.z[e], mat_vec(rho_star(Coarse, q.b), Coarse.residue)[e]))
    BY <2>2 DEF GluedAdds
  <2>6. cg.pairing = Zero
    BY <1>3, <1>12, <2>3, <2>4, <2>5, CancelsOut
  <2>7. ca.A3 /\ cb.A3 => (cg.A3 <=> Unmoved(q.b.z[e], q.b.edges[e]))
    BY <2>1, <2>2 DEF GluedAdds
  <2>8. ca.A3 => (cg.A3 <=> Unmoved(w.z[e], w.edges[e]))
    BY <1>1, <1>6, <2>1, <2>7
  <2> QED
    BY <2>6, <2>8 DEF cg
<1> QED
  BY <1>6, <1>11, <1>14

----------------------------------------------------------------------------
(* The turns of the probes on two branches.                                *)

\* What is declared lies over the coarse complex as the constructions need it.
LEMMA DeclaredIs ==
    /\ Named(Coarse) /\ Coarse.residue \in FractionRow(Len(Coarse.edges))
    /\ \A w \in Branches : Branch(w, Coarse)
    /\ \A g \in Gluings : Seamed(g.a, g.b, g.seam)
<1>1. Named(Coarse)
  <2>1. LegalComplex(Coarse)
    BY RefinementAssumption
  <2>2. WellNamed(Coarse)
    BY NamesAssumption
  <2> QED
    BY <2>1, <2>2 DEF Named, DeclaredNames
<1>2. ASSUME NEW w \in Branches PROVE Branch(w, Coarse)
  <2>1. LegalWitness(w)
    BY RefinementAssumption DEF Branches
  <2>2. LegalComplex(w)
    BY <2>1 DEF LegalWitness
  <2>3. WellNamed(w) /\ LiesOver(w, Coarse)
    BY NamesAssumption
  <2>4. Named(w)
    BY <2>2, <2>3 DEF Named, DeclaredNames
  <2>5. OverVertices(w, Coarse)
    BY <2>3 DEF LiesOver, OverVertices
  <2>6. OverNamed(w, Coarse)
    <3>1. DOMAIN w.edges = 1..Len(w.edges)
      BY <2>2, ComplexIs
    <3> QED
      BY <2>3, <3>1 DEF LiesOver, OverNamed
  <2> QED
    BY <2>1, <2>4, <2>5, <2>6 DEF Branch
<1>3. ASSUME NEW g \in Gluings PROVE Seamed(g.a, g.b, g.seam)
  <2>1. g.a \in Branches /\ g.b \in Branches
    BY DEF Branches
  <2>2. /\ LegalWitness(g.a) /\ Named(g.a) /\ LegalWitness(g.b) /\ Named(g.b)
    BY <1>2, <2>1 DEF Branch
  <2>3. g.seam \in RangeOf(EdgeNames(g.a)) /\ g.seam \in RangeOf(EdgeNames(g.b))
    BY NamesAssumption
  <2> QED
    BY <2>2, <2>3 DEF Seamed
<1> QED
  BY <1>1, <1>2, <1>3, CoarseIs

\* The sweep also takes a witness with its cycle the other way round.
LEMMA NegatedIs ==
    ASSUME NEW c, Named(c), NEW w, Branch(w, c) PROVE Branch(Negated(w), c)
<1> DEFINE m == Len(w.edges)
           x == [k \in 1..m |-> Minus(Zero, w.z[k])]
<1>1. w.z \in FractionRow(m) /\ m \in Nat
  <2>1. LegalWitness(w)
    BY DEF Branch
  <2>2. LegalComplex(w) /\ w.z \in FractionRow(m)
    BY <2>1, WitnessIs
  <2> QED
    BY <2>2, ComplexIs
<1>2. x \in FractionRow(m)
  <2>1. \A k \in 1..m : Minus(Zero, w.z[k]) \in Fractions
    BY <1>1, ZeroOne, FractionsClosed DEF FractionRow
  <2> QED
    BY <2>1 DEF FractionRow
<1>3. Negated(w) = [w EXCEPT !.z = x]
  BY <1>1 DEF Negated, FractionRow
<1> HIDE DEF x
<1> QED
  BY <1>2, <1>3, OtherVector

\* What a turn of the probes on two branches remembers.
TurnRight(p) ==
    /\ p.kind = "witness" => p.w \in Witnesses
    /\ p.kind = "disjoint" =>
         \E a \in Witnesses, b \in Witnesses : \E partner \in {b, Negated(b)} :
            p.report = run_disjoint(Coarse, Coarse.residue, a, partner)
    /\ p.kind = "cancelled" =>
         /\ p.w \in Witnesses /\ p.e \in DOMAIN p.w.edges
         /\ p.report = search_witness_edge(Coarse, Coarse.residue, p.w, p.e)

TurnInv == TurnRight(probe)

(***************************************************************************)
(* What a turn on two branches leaves is what the probes compute of        *)
(* witnesses: SideBySide takes up the witness checked before, and a second *)
(* one or its negative, and Cancel one edge of it.                         *)
(***************************************************************************)
THEOREM TurnsReport == Spec => []TurnInv
<1>1. Init => TurnInv
  BY DEF Init, InitProbe, Idle, TurnInv, TurnRight
<1>2. TurnInv /\ [Next]_vars => TurnInv'
  <2> SUFFICES ASSUME TurnInv, [Next]_vars PROVE TurnRight(probe')
    BY DEF TurnInv
  <2>1. CASE UNCHANGED probe
    BY <2>1 DEF TurnInv
  <2>2. \A p : p.kind \in {"idle", "second", "coupled", "survivor", "matrices", "measured", "crossed", "assembly"}
                  => TurnRight(p)
    BY DEF TurnRight
  <2>3. CASE CheckWitness
    <3>1. PICK w \in Witnesses :
             probe' = [kind |-> "witness", w |-> w, report |-> check_witness(Coarse, Coarse.residue, w)]
      BY <2>3 DEF CheckWitness
    <3>2. probe'.kind = "witness" /\ probe'.w = w
      BY <3>1
    <3> QED
      BY <3>2 DEF TurnRight
  <2>4. CASE SideBySide
    <3>1. probe.w \in Witnesses
      BY <2>4 DEF SideBySide, TurnInv, TurnRight
    <3>2. PICK b \in Witnesses : \E partner \in {b, Negated(b)} :
             probe' = [kind |-> "disjoint", report |-> run_disjoint(Coarse, Coarse.residue, probe.w, partner)]
      BY <2>4 DEF SideBySide
    <3>3. PICK partner \in {b, Negated(b)} :
             probe' = [kind |-> "disjoint", report |-> run_disjoint(Coarse, Coarse.residue, probe.w, partner)]
      BY <3>2
    <3> DEFINE res == run_disjoint(Coarse, Coarse.residue, probe.w, partner)
    <3> HIDE DEF res
    <3>4. probe'.kind = "disjoint" /\ probe'.report = res
      BY <3>3 DEF res
    <3> QED
      BY <3>1, <3>4 DEF TurnRight, res
  <2>5. CASE Cancel
    <3>1. probe.w \in Witnesses
      BY <2>5 DEF Cancel, TurnInv, TurnRight
    <3>2. PICK e \in DOMAIN probe.w.edges :
             probe' = [kind |-> "cancelled", w |-> probe.w, e |-> e,
                       report |-> search_witness_edge(Coarse, Coarse.residue, probe.w, e)]
      BY <2>5 DEF Cancel
    <3> DEFINE res == search_witness_edge(Coarse, Coarse.residue, probe.w, e)
    <3> HIDE DEF res
    <3>3. probe'.kind = "cancelled" /\ probe'.w = probe.w /\ probe'.e = e /\ probe'.report = res
      BY <3>2 DEF res
    <3> QED
      BY <3>1, <3>3 DEF TurnRight, res
  <2>6. CASE SecondStep
    BY <2>2, <2>6 DEF SecondStep
  <2>7. CASE Scenario
    BY <2>2, <2>7 DEF Scenario
  <2>8. CASE Glue
    BY <2>2, <2>8 DEF Glue
  <2>9. CASE FirstMap
    BY <2>2, <2>9 DEF FirstMap
  <2>10. CASE SecondMap
    BY <2>2, <2>10 DEF SecondMap
  <2>11. CASE NextTurn
    BY <2>2, <2>11 DEF NextTurn, Idle
  <2>12. CASE Beside
    <3>1. CASE Measure
      BY <2>2, <3>1 DEF Measure
    <3>2. CASE Cross
      BY <2>2, <3>2 DEF Cross
    <3>3. CASE BeginAssembly
      BY <2>2, <3>3 DEF BeginAssembly, Assembly
    <3>4. CASE Admit
      BY <2>2, <3>4 DEF Admit, Assembly
    <3>5. CASE Contribute
      <4>1. probe.kind = "assembly"
        BY <3>5 DEF Contribute
      <4>2. probe'.kind = "assembly"
        BY <3>5, <4>1 DEF Contribute, Assembly
      <4> QED
        BY <2>2, <4>2
    <3> QED
      BY <2>12, <3>1, <3>2, <3>3, <3>4, <3>5 DEF Beside
  <2> QED
    BY <2>1, <2>3, <2>4, <2>5, <2>6, <2>7, <2>8, <2>9, <2>10, <2>11, <2>12 DEF Next, Probe, vars
<1> QED
  BY <1>1, <1>2, PTL DEF Spec

(***************************************************************************)
(* CombinedAsBranches, for whatever complex, residue, refinements and      *)
(* seams: the conditions and the pairing of two refinements, side by side  *)
(* or glued along a seam, are what those of the branches make them. It     *)
(* rests on what every turn reports and on the names being apart.          *)
(***************************************************************************)
THEOREM BranchesCombine == Spec => []CombinedAsBranches
<1>1. ProbeInv /\ TurnInv => CombinedAsBranches
  <2> SUFFICES ASSUME ProbeInv, TurnInv PROVE CombinedAsBranches
    OBVIOUS
  <2>1. ASSUME probe.kind = "disjoint"
        PROVE  DisjointAdds(probe.report.branch_a, probe.report.branch_b, probe.report.combined)
    <3>1. PICK a \in Witnesses, b \in Witnesses : \E partner \in {b, Negated(b)} :
             probe.report = run_disjoint(Coarse, Coarse.residue, a, partner)
      BY <2>1 DEF TurnInv, TurnRight
    <3>2. PICK partner \in {b, Negated(b)} : probe.report = run_disjoint(Coarse, Coarse.residue, a, partner)
      BY <3>1
    <3>3. Branch(a, Coarse) /\ Branch(b, Coarse)
      BY DeclaredIs DEF Branches
    <3>4. Branch(partner, Coarse)
      BY <3>2, <3>3, DeclaredIs, NegatedIs
    <3> DEFINE r == Coarse.residue
               ca == check(Coarse, r, a)
               cb == check(Coarse, r, partner)
               cc == check(Doubled(Coarse), r \o r, build_disjoint_parallel(a, partner))
    <3>5. DisjointAdds(ca, cb, cc)
      BY <3>3, <3>4, DeclaredIs, SideBySideIs
    <3>6. probe.report = [branch_a |-> ca, branch_b |-> cb, combined |-> cc]
      BY <3>2 DEF run_disjoint
    <3> HIDE DEF ca, cb, cc
    <3>7. probe.report.branch_a = ca /\ probe.report.branch_b = cb /\ probe.report.combined = cc
      BY <3>6
    <3> QED
      BY <3>5, <3>7
  <2>2. ASSUME probe.kind = "coupled", NEW c \in probe.report.combined
        PROVE  GluedAdds(probe.gluing, EdgeNamed(probe.gluing.b, probe.gluing.seam),
                         probe.report.branch_a, probe.report.branch_b, c)
    <3> DEFINE q == probe.gluing
               r == Coarse.residue
               ca == check(Coarse, r, q.a)
               cb == check(Coarse, r, q.b)
               all == {check(Coarse, r, g) : g \in build_coupled_shared_seam(q.a, q.b, q.declared, q.seam)}
    <3>1. q \in Gluings /\ probe.report = run_coupled(Coarse, r, q.a, q.b, q.declared, q.seam)
      BY <2>2 DEF ProbeInv, ProbeRight
    <3>2. Branch(q.a, Coarse) /\ Branch(q.b, Coarse) /\ Seamed(q.a, q.b, q.seam)
      BY <3>1, DeclaredIs DEF Branches
    <3>3. probe.report = [branch_a |-> ca, branch_b |-> cb, combined |-> all]
      BY <3>1 DEF run_coupled
    <3>4. probe.report.branch_a = ca /\ probe.report.branch_b = cb /\ probe.report.combined = all
      <4> HIDE DEF ca, cb, all
      <4> QED
        BY <3>3
    <3>5. PICK g \in build_coupled_shared_seam(q.a, q.b, q.declared, q.seam) : c = check(Coarse, r, g)
      BY <2>2, <3>4
    <3>6. GluedAdds(q, EdgeNamed(q.b, q.seam), ca, cb, check(Coarse, r, g))
      <4> HIDE DEF q
      <4> QED
        BY <3>2, <3>5, DeclaredIs, GluedAsBranches
    <3> QED
      BY <3>4, <3>5, <3>6
  <2> QED
    BY <2>1, <2>2 DEF CombinedAsBranches
<1> QED
  BY <1>1, ProbesReport, TurnsReport, PTL

(***************************************************************************)
(* CancellationSolved, for every witness and every edge of it: a partner   *)
(* that run_search finds closes when the witness does, glues to it, and    *)
(* cancels its pairing exactly.                                            *)
(***************************************************************************)
THEOREM CancellationIsSolved == Spec => []CancellationSolved
<1>1. TurnInv => CancellationSolved
  <2> SUFFICES ASSUME TurnInv, probe.kind = "cancelled", NEW res \in probe.report
               PROVE  /\ res.branch_b.A3 = res.branch_a.A3 /\ res.combined # {}
                      /\ \A c \in res.combined :
                           /\ c.pairing = Zero
                           /\ res.branch_a.A3 => (c.A3 <=> Unmoved(probe.w.z[probe.e], probe.w.edges[probe.e]))
    BY DEF CancellationSolved
  <2> DEFINE w == probe.w
             e == probe.e
             r == Coarse.residue
             seam == w.edges[e].name
  <2>1. w \in Witnesses /\ e \in DOMAIN w.edges /\ probe.report = search_witness_edge(Coarse, r, w, e)
    BY DEF TurnInv, TurnRight
  <2>2. Named(Coarse) /\ r \in FractionRow(Len(Coarse.edges)) /\ Branch(w, Coarse)
    BY <2>1, DeclaredIs DEF Branches
  <2>3. e \in 1..Len(w.edges)
    BY <2>1, <2>2, BranchIs, ComplexIs
  <2>4. PICK b \in Partner(w, mat_vec(rho_star(Coarse, w), r), e) : res = run_coupled(Coarse, r, w, b, b, seam)
    BY <2>1 DEF search_witness_edge
  <2>5. Partnered(b, w, Coarse, r, e)
    <3> HIDE DEF w, e, r
    <3> QED
      BY <2>2, <2>3, <2>4, PartnerIs
  <2> DEFINE ca == check(Coarse, r, w)
             cb == check(Coarse, r, b)
             glued == build_coupled_shared_seam(w, b, b, seam)
             all == {check(Coarse, r, g) : g \in glued}
  <2>6. /\ cb.A3 = ca.A3 /\ glued # {}
        /\ \A g \in glued : /\ check(Coarse, r, g).pairing = Zero
                            /\ ca.A3 => (check(Coarse, r, g).A3 <=> Unmoved(w.z[e], w.edges[e]))
    <3> HIDE DEF w, e
    <3> QED
      BY <2>2, <2>3, <2>5, PartnerCancels
  <2>7. res = [branch_a |-> ca, branch_b |-> cb, combined |-> all]
    BY <2>4 DEF run_coupled
  <2>8. res.branch_a = ca /\ res.branch_b = cb /\ res.combined = all
    <3> HIDE DEF ca, cb, all
    <3> QED
      BY <2>7
  <2> HIDE DEF glued, ca, cb
  <2>9. all # {}
    BY <2>6
  <2>10. \A c \in all : c.pairing = Zero /\ (ca.A3 => (c.A3 <=> Unmoved(w.z[e], w.edges[e])))
    BY <2>6
  <2> QED
    <3> HIDE DEF all
    <3> QED
      BY <2>6, <2>8, <2>9, <2>10
<1> QED
  BY <1>1, TurnsReport, PTL
=============================================================================
