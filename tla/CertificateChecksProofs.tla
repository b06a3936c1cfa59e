---------------------- MODULE CertificateChecksProofs ----------------------
(***************************************************************************)
(* The two checkers and the generator of repair-or-separator certificates  *)
(* as operators: they accept the same certificates, those are the ones a   *)
(* generator may write, and no problem has both a repair and a separator.  *)
(* For every set of well-shaped problems and every set of rationals.       *)
(***************************************************************************)
EXTENDS CertificateChecks, LinearAlgebraProofs

LEMMA ProblemShape ==
    ASSUME NEW p \in Problems
    PROVE  /\ Rectangular(p.D) /\ rows(p) = Len(p.D) /\ cols(p) = columns(p.D)
           /\ rows(p) \in Nat /\ cols(p) \in Nat
           /\ Len(p.r) = rows(p) /\ DOMAIN p.r = 1..rows(p) /\ DOMAIN p.D = 1..rows(p)
           /\ p.r \in Seq(Fractions)
<1>1. WellShaped(p)
    BY ProblemAssumption
<1>2. p.D \in Seq(Seq(Int \X Nat)) /\ p.r \in Seq(Int \X Nat)
    BY <1>1 DEF WellShaped
<1>3. ASSUME NEW v \in Seq(Int \X Nat), Exact(v) PROVE v \in Seq(Fractions)
    <2>1. \A k \in 1..Len(v) : v[k] \in Fractions
        BY <1>3 DEF Exact, Fractions, IsFraction
    <2> QED
        BY <2>1, Retyped
<1>4. p.r \in Seq(Fractions)
    BY <1>1, <1>2, <1>3 DEF WellShaped
<1>5. \A i \in 1..Len(p.D) : p.D[i] \in Seq(Fractions)
    BY <1>1, <1>2, <1>3 DEF WellShaped
<1>6. p.D \in Seq(Seq(Fractions))
    BY <1>2, <1>5, Retyped
<1>7. Rectangular(p.D)
    BY <1>1, <1>6 DEF WellShaped, Rectangular
<1>8. Len(p.D) \in Nat /\ columns(p.D) \in Nat
    BY <1>7, Shape
<1>9. Len(p.r) = Len(p.D)
    BY <1>1 DEF WellShaped
<1> QED
    BY <1>2, <1>4, <1>7, <1>8, <1>9 DEF rows, cols

LEMMA ParsedVector ==
    ASSUME NEW v \in Seq(Entries), parse_vector(v)
    PROVE  Vector(v, Len(v)) /\ Exact(v)
<1>1. \A k \in DOMAIN v : IsFraction(v[k])
    BY DEF parse_vector, parse_rational
<1> QED
    BY <1>1 DEF Exact, Vector, Fractions, IsFraction

LEMMA ProblemExact ==
    ASSUME NEW n \in Nat, NEW v \in Vectors(n), Exact(v)
    PROVE  v \in Seq(Entries) /\ Len(v) = n /\ Vector(v, n)
<1>1. v \in Seq(Entries) /\ Len(v) = n /\ DOMAIN v = 1..n
    BY DEF Vectors
<1>2. \A k \in 1..n : v[k] \in Fractions
    BY <1>1 DEF Exact, Fractions, IsFraction
<1> QED
    BY <1>1, <1>2 DEF Vector

\* The two languages' sums are the same where the lengths fit.
LEMMA SameArithmetic ==
    ASSUME NEW p \in Problems, NEW v \in Seq(Entries)
    PROVE  /\ Len(v) = cols(p) => mat_vec_ml(p.D, v) = mat_vec(p.D, v)
           /\ Len(v) = rows(p) => /\ mat_vec_ml(transpose_ml(p.D, cols(p)), v)
                                       = mat_vec(transpose(p.D), v)
                                  /\ dot_ml(v, p.r) = dot(v, p.r)
<1>1. Rectangular(p.D) /\ rows(p) = Len(p.D) /\ cols(p) = columns(p.D) /\ Len(p.r) = rows(p)
      /\ rows(p) \in Nat /\ cols(p) \in Nat
    BY ProblemShape
<1>2. Len(v) = cols(p) => mat_vec_ml(p.D, v) = mat_vec(p.D, v)
    BY <1>1 DEF mat_vec_ml, mat_vec, Rectangular
<1>3. transpose_ml(p.D, cols(p)) = transpose(p.D)
    BY <1>1 DEF transpose_ml, transpose
<1>4. Len(transpose(p.D)) = cols(p) /\ \A j \in 1..cols(p) : Len(transpose(p.D)[j]) = rows(p)
    BY <1>1 DEF transpose
<1>5. Len(v) = rows(p) => mat_vec_ml(transpose(p.D), v) = mat_vec(transpose(p.D), v)
    BY <1>4 DEF mat_vec_ml, mat_vec
<1>6. Len(v) = rows(p) => dot_ml(v, p.r) = dot(v, p.r)
    BY <1>1 DEF dot_ml, dot
<1> QED
    BY <1>2, <1>3, <1>5, <1>6

(***************************************************************************)
(* check_certificate and verify accept the same certificates of the same   *)
(* problems: the order of the checks, which reasons are recorded and whose *)
(* length drives the sums make no difference to the verdict.               *)
(***************************************************************************)
THEOREM CheckersAgree ==
    ASSUME NEW p \in Problems, NEW c \in Certificate
    PROVE  check_certificate(p, c) = {} <=> verify(p, c)
<1>1. c.witness \in Seq(Entries)
    BY DEF Certificate
<1>2. CASE c.result = "repair"
    <2>1. expected(p, c) = cols(p) /\ c.result \in Results /\ c.result # "separator"
        BY <1>2 DEF expected, Results
    <2>2. Len(c.witness) = cols(p) => mat_vec_ml(p.D, c.witness) = mat_vec(p.D, c.witness)
        BY <1>1, SameArithmetic
    <2> QED
        BY <1>2, <2>1, <2>2
        DEF check_certificate, verify, Shaped, Equations, Malformed
<1>3. CASE c.result = "separator"
    <2>1. expected(p, c) = rows(p) /\ c.result \in Results /\ c.result # "repair"
        BY <1>3 DEF expected, Results
    <2>2. Len(c.witness) = rows(p) =>
            /\ mat_vec_ml(transpose_ml(p.D, cols(p)), c.witness) = mat_vec(transpose(p.D), c.witness)
            /\ dot_ml(c.witness, p.r) = dot(c.witness, p.r)
        BY <1>1, SameArithmetic
    <2>3. {reason \in {"D^T y # 0", "y.r # 1"} :
              IF reason = "y.r # 1" THEN dot(c.witness, p.r) # One
              ELSE ~is_zero(mat_vec(transpose(p.D), c.witness))} = {}
          <=> dot(c.witness, p.r) = One /\ is_zero(mat_vec(transpose(p.D), c.witness))
        <3> DEFINE bad(reason) == IF reason = "y.r # 1" THEN dot(c.witness, p.r) # One
                                  ELSE ~is_zero(mat_vec(transpose(p.D), c.witness))
        <3>1. bad("y.r # 1") <=> dot(c.witness, p.r) # One
            OBVIOUS
        <3>2. bad("D^T y # 0") <=> ~is_zero(mat_vec(transpose(p.D), c.witness))
            OBVIOUS
        <3> HIDE DEF bad
        <3>3. {reason \in {"D^T y # 0", "y.r # 1"} : bad(reason)} = {}
              <=> ~bad("y.r # 1") /\ ~bad("D^T y # 0")
            OBVIOUS
        <3> QED
            BY <3>1, <3>2, <3>3 DEF bad
    <2> QED
        BY <1>3, <2>1, <2>2, <2>3
        DEF check_certificate, verify, Shaped, Equations, Malformed
<1>4. CASE c.result \notin Results
    BY <1>4 DEF check_certificate, verify, Shaped, Results
<1> QED
    BY <1>2, <1>3, <1>4 DEF Results

\* The keys that every certificate names, whoever wrote it.
Headed(c) == {"schema", "input_digest", "result"} \subseteq c.keys

\* What the checker accepts is a certificate that a generator may write.
LEMMA AcceptedIsGenuine ==
    ASSUME NEW p \in Problems, NEW c \in Certificate, Headed(c), check_certificate(p, c) = {}
    PROVE  c.input_digest = p /\ c \in build_certificate(p)
<1>1. verify(p, c)
    BY CheckersAgree
<1>2. /\ c.schema = CERTIFICATE_SCHEMA /\ c.input_digest = p /\ c.result \in Results
      /\ c.result \in c.keys /\ parse_vector(c.witness) /\ Len(c.witness) = expected(p, c)
      /\ c.keys \subseteq CERTIFICATE_KEYS(c.result)
    BY <1>1 DEF verify, Shaped, BoundTo, ClosedKeys
<1>3. c.keys = CERTIFICATE_KEYS(c.result)
    BY <1>2 DEF CERTIFICATE_KEYS, Headed
<1>4. c = Written(p, c.result, c.witness)
    BY <1>2, <1>3 DEF Certificate, Written
<1>5. c.witness \in Seq(Entries)
    BY DEF Certificate
<1>6. Vector(c.witness, Len(c.witness)) /\ Exact(c.witness)
    BY <1>2, <1>5, ParsedVector
<1>7. CASE c.result = "repair"
    <2>1. Len(c.witness) = cols(p) /\ c.witness \in Vectors(cols(p))
        BY <1>2, <1>5, <1>7 DEF expected, Vectors
    <2>2. mat_vec(p.D, c.witness) = p.r
        BY <1>1, <1>5, <1>7, <2>1, SameArithmetic DEF verify, Equations
    <2>3. c.witness \in {v \in Vectors(cols(p)) : Exact(v) /\ mat_vec(p.D, v) = p.r}
        BY <1>6, <2>1, <2>2
    <2> QED
        BY <1>2, <1>4, <1>7, <2>3 DEF build_certificate
<1>8. CASE c.result = "separator"
    <2>1. Len(c.witness) = rows(p) /\ c.witness \in Vectors(rows(p))
        BY <1>2, <1>5, <1>8 DEF expected, Vectors
    <2>2. is_zero(mat_vec(transpose(p.D), c.witness)) /\ dot(c.witness, p.r) = One
        BY <1>1, <1>5, <1>8, <2>1, SameArithmetic DEF verify, Equations
    <2>3. is_zero(row_vec_mat(c.witness, p.D))
        BY <1>6, <2>1, <2>2, ProblemShape, SeparatorForms
    <2>4. c.witness \in {v \in Vectors(rows(p)) :
                            Exact(v) /\ is_zero(row_vec_mat(v, p.D)) /\ dot(v, p.r) = One}
        BY <1>6, <2>1, <2>2, <2>3
    <2> QED
        BY <1>2, <1>4, <1>8, <2>4 DEF build_certificate
<1> QED
    BY <1>2, <1>7, <1>8 DEF Results

\* What a generator writes is a certificate with an exact witness of the length
\* that the result asks for.
LEMMA GenuineShape ==
    ASSUME NEW p \in Problems, NEW c \in build_certificate(p)
    PROVE  /\ c \in Certificate /\ Headed(c) /\ c.result \in Results
           /\ c = Written(p, c.result, c.witness)
           /\ c.witness \in Vectors(expected(p, c)) /\ Exact(c.witness)
           /\ Len(c.witness) = expected(p, c) /\ Vector(c.witness, expected(p, c))
           /\ c.result = "repair" => mat_vec(p.D, c.witness) = p.r
           /\ c.result = "separator" =>
                 is_zero(row_vec_mat(c.witness, p.D)) /\ dot(c.witness, p.r) = One
<1>1. rows(p) \in Nat /\ cols(p) \in Nat
    BY ProblemShape
<1>2. PICK result \in Results, v \in Vectors(rows(p)) \cup Vectors(cols(p)) :
        /\ c = Written(p, result, v) /\ Exact(v)
        /\ v \in Vectors(IF result = "repair" THEN cols(p) ELSE rows(p))
        /\ result = "repair" => mat_vec(p.D, v) = p.r
        /\ result = "separator" => is_zero(row_vec_mat(v, p.D)) /\ dot(v, p.r) = One
    BY DEF build_certificate, Results
<1>3. c.result = result /\ c.witness = v /\ c.keys = CERTIFICATE_KEYS(result)
      /\ c.input_digest = p /\ c.schema = CERTIFICATE_SCHEMA
    BY <1>2 DEF Written
<1>4. expected(p, c) = (IF result = "repair" THEN cols(p) ELSE rows(p)) /\ expected(p, c) \in Nat
    BY <1>1, <1>3 DEF expected
<1>5. v \in Seq(Entries) /\ Len(v) = expected(p, c) /\ DOMAIN v = 1..expected(p, c)
    BY <1>2, <1>4 DEF Vectors
<1>6. c \in Certificate
    BY <1>2, <1>3, <1>5 DEF Certificate, Written, KeyNames, Results, CERTIFICATE_KEYS
<1>7. Headed(c)
    BY <1>3 DEF Headed, CERTIFICATE_KEYS
<1>8. Vector(v, expected(p, c))
    BY <1>2, <1>5 DEF Exact, Vector, Fractions, IsFraction
<1> QED
    BY <1>2, <1>3, <1>4, <1>5, <1>6, <1>7, <1>8

\* A genuine certificate whose rationals are short enough is accepted.
LEMMA GenuineIsAccepted ==
    ASSUME NEW p \in Problems, NEW c \in build_certificate(p), parse_vector(c.witness)
    PROVE  check_certificate(p, c) = {}
<1>1. /\ c \in Certificate /\ c.result \in Results
      /\ c = Written(p, c.result, c.witness)
      /\ Len(c.witness) = expected(p, c) /\ Vector(c.witness, expected(p, c))
      /\ c.result = "repair" => mat_vec(p.D, c.witness) = p.r
      /\ c.result = "separator" =>
            is_zero(row_vec_mat(c.witness, p.D)) /\ dot(c.witness, p.r) = One
    BY GenuineShape
<1>2. /\ c.schema = CERTIFICATE_SCHEMA /\ BoundTo(p, c)
      /\ c.keys = CERTIFICATE_KEYS(c.result) /\ c.result \in c.keys
    BY <1>1 DEF Written, BoundTo, CERTIFICATE_KEYS
<1>3. c.witness \in Seq(Entries)
    BY <1>1 DEF Certificate
<1>4. Shaped(p, c) /\ ClosedKeys(c)
    BY <1>1, <1>2 DEF Shaped, ClosedKeys
<1>5. c.result = "repair" => mat_vec_ml(p.D, c.witness) = p.r
    BY <1>1, <1>3, SameArithmetic DEF expected
<1>6. c.result = "separator" =>
        /\ is_zero(mat_vec_ml(transpose_ml(p.D, cols(p)), c.witness))
        /\ dot_ml(c.witness, p.r) = One
    <2> SUFFICES ASSUME c.result = "separator"
                 PROVE  /\ is_zero(mat_vec_ml(transpose_ml(p.D, cols(p)), c.witness))
                        /\ dot_ml(c.witness, p.r) = One
        OBVIOUS
    <2>1. expected(p, c) = rows(p)
        BY DEF expected
    <2>2. is_zero(mat_vec(transpose(p.D), c.witness))
        BY <1>1, <2>1, ProblemShape, SeparatorForms
    <2> QED
        BY <1>1, <1>3, <2>1, <2>2, SameArithmetic
<1>7. verify(p, c)
    BY <1>4, <1>5, <1>6 DEF verify, Equations
<1> QED
    BY <1>1, <1>7, CheckersAgree

\* No problem has both a repair and a separator.
LEMMA NeverBoth ==
    ASSUME NEW p \in Problems, NEW c \in build_certificate(p), c.result = "separator",
           NEW b \in Vectors(cols(p)), Exact(b)
    PROVE  mat_vec(p.D, b) # p.r
<1>1. /\ Len(c.witness) = rows(p) /\ Vector(c.witness, rows(p))
      /\ is_zero(row_vec_mat(c.witness, p.D)) /\ dot(c.witness, p.r) = One
    BY GenuineShape DEF expected
<1>2. dot(c.witness, p.r) # Zero
    BY <1>1, ZeroOne
<1>3. Len(b) = cols(p) /\ Vector(b, cols(p))
    BY ProblemShape, ProblemExact
<1> QED
    BY <1>1, <1>2, <1>3, ProblemShape, SeparatorRefutes
=============================================================================
