---------------------------- MODULE AdapterProofs ----------------------------
(***************************************************************************)
(* The tracking adapter, for every set of snapshots, of problems and of    *)
(* rationals. First from decimal text to the problem [D, r], along both of *)
(* the adapter's derivations: the two roundings, of the magnitude and by   *)
(* floor division, are one function on every decimal; hence the problem    *)
(* that the generator states is the one that the verifier reconstructs,    *)
(* and the two gates let the same documents through; and what the Stone    *)
(* Soup emitters declare, over whatever was measured, is what both derive. *)
(* Then the pipeline: what an accepted chain and a passed scenario mean,   *)
(* for any number of tracked files that are replaced between any two       *)
(* steps.                                                                  *)
(***************************************************************************)
EXTENDS StoneSoupSnapshots, DecimalCanon, AdapterPipeline, CertificateChecksProofs

Positive == Nat \ {0}

\* Division with remainder is unique.
LEMMA Division ==
    ASSUME NEW a \in Int, NEW d \in Positive, NEW k \in Int, NEW rest \in Int,
           a = k * d + rest, 0 <= rest, rest < d
    PROVE  a \div d = k /\ a % d = rest
BY SMT DEF Positive

\* What \div and % mean.
LEMMA DivMod ==
    ASSUME NEW a \in Int, NEW d \in Positive
    PROVE  /\ a \div d \in Int
           /\ a % d \in 0..(d - 1)
           /\ a = (a \div d) * d + (a % d)
BY SMT DEF Positive

\* -k is even when k is.
LEMMA Parity ==
    ASSUME NEW k \in Int
    PROVE  /\ (-k) % 2 = 0 <=> k % 2 = 0
           /\ (-k - 1) % 2 = 0 <=> k % 2 = 1
           /\ k % 2 \in {0, 1}
BY SMT

(***************************************************************************)
(* What both routes compute, said once: k is the nearest multiple, or the  *)
(* even one of the two nearest.                                            *)
(***************************************************************************)
Nearest(a, d, k) ==
    LET off == 2 * (a - k * d) IN
        /\ -d <= off /\ off <= d
        /\ off \in {-d, d} => k % 2 = 0

LEMMA NearestUnique ==
    ASSUME NEW a \in Int, NEW d \in Positive, NEW k \in Int, NEW l \in Int,
           Nearest(a, d, k), Nearest(a, d, l)
    PROVE  k = l
<1>1. 2 * (k - l) * d <= 2 * d /\ 2 * (l - k) * d <= 2 * d
    BY SMT DEF Nearest, Positive
<1>2. k - l \in {-1, 0, 1}
    BY <1>1, SMT DEF Positive
<1>3. k % 2 = 0 /\ l % 2 = 0 => k = l
    BY <1>2, SMT
<1>4. k # l => 2 * (a - k * d) \in {-d, d} /\ 2 * (a - l * d) \in {-d, d}
    BY <1>2, SMT DEF Nearest, Positive
<1> QED
    BY <1>3, <1>4 DEF Nearest

\* Rounding the magnitude gives it.
LEMMA MagnitudeNearest ==
    ASSUME NEW a \in Nat, NEW d \in Positive
    PROVE  /\ RoundMagnitude(a, d) \in Nat
           /\ Nearest(a, d, RoundMagnitude(a, d))
<1> DEFINE q == a \div d
           rest == a % d
<1>1. q \in Int /\ rest \in 0..(d - 1) /\ a = q * d + rest
    BY DivMod
<1>2. q \in Nat
    BY <1>1, SMT DEF Positive
<1>3. q % 2 \in {0, 1} /\ ((q + 1) % 2 = 0 <=> q % 2 = 1)
    BY <1>1, SMT
<1> QED
    BY <1>1, <1>2, <1>3, SMT DEF Nearest, RoundMagnitude, Positive

\* Floor division gives it, for negative numbers too.
LEMMA FloorNearest ==
    ASSUME NEW a \in Int, NEW d \in Positive
    PROVE  /\ FloorHalfEven(a, d) \in Int
           /\ Nearest(a, d, FloorHalfEven(a, d))
<1> DEFINE q == a \div d
           rest == a % d
<1>1. q \in Int /\ rest \in 0..(d - 1) /\ a = q * d + rest
    BY DivMod
<1>3. q % 2 \in {0, 1} /\ ((q + 1) % 2 = 0 <=> q % 2 = 1)
    BY <1>1, SMT
<1> QED
    BY <1>1, <1>3, SMT DEF Nearest, FloorHalfEven, Positive

\* Nearness does not change with the sign, or with a common factor.
LEMMA NearestScales ==
    ASSUME NEW a \in Int, NEW d \in Positive, NEW k \in Int, Nearest(a, d, k)
    PROVE  /\ Nearest(-a, d, -k)
           /\ \A g \in Positive : Nearest(a * g, d * g, k)
<1>1. Nearest(-a, d, -k)
    BY Parity, SMT DEF Nearest, Positive
<1>2. ASSUME NEW g \in Positive PROVE Nearest(a * g, d * g, k)
    <2>1. 2 * (a * g - k * (d * g)) = (2 * (a - k * d)) * g
        BY SMT DEF Positive
    <2> DEFINE off == 2 * (a - k * d)
    <2>2. off \in Int /\ -d <= off /\ off <= d /\ (off \in {-d, d} => k % 2 = 0)
        BY DEF Nearest, Positive
    <2> HIDE DEF off
    <2>3. -(d * g) <= off * g /\ off * g <= d * g
        BY <2>2, SMT DEF Positive
    <2>4. off * g \in {-(d * g), d * g} => off \in {-d, d}
        BY <2>2, SMT DEF Positive
    <2> QED
        BY <2>1, <2>2, <2>3, <2>4 DEF Nearest, off
<1> QED
    BY <1>1, <1>2

\* What the routes compute from legal arguments.
LEMMA RoutesNearest ==
    ASSUME NEW t \in Text, NEW p \in 0..MaxPlaces
    PROVE  LET a == Signed(t, t.digits) * 10^p
               d == 10^t.fraction
           IN /\ a \in Int /\ d \in Positive
              /\ Quantized(t, p) \in Nat
              /\ Independent(t, p) \in Int
              /\ Nearest(a, d, Signed(t, Quantized(t, p)))
              /\ Nearest(a, d, Independent(t, p))
<1> DEFINE n == t.digits
           f == t.fraction
           d == 10^f
           e == 10^p
           q == Quantized(t, p)
<1>1. n \in Nat /\ f \in 0..MaxPlaces /\ t.negative \in BOOLEAN /\ f \in Int /\ p \in Int
    <2>1. t.digits \in Coefficients /\ t.fraction \in 0..MaxPlaces /\ t.negative \in BOOLEAN
        BY DEF Text
    <2>2. n \in Nat
        BY <2>1, CanonAssumption
    <2>3. \A i \in 0..MaxPlaces : i \in Int
        BY SMT
    <2> QED
        BY <2>1, <2>2, <2>3
<1>2. d \in Positive /\ e \in Positive
    BY <1>1, PowersOfTen DEF Positive
<1>3. q \in Nat /\ Nearest(n * e, d, q)
    <2>1. CASE f <= p
        <3> DEFINE g == 10^(p - f)
        <3>1. p - f \in 0..MaxPlaces /\ f + (p - f) = p /\ p <= MaxPlaces
            BY <1>1, <2>1, CanonAssumption, SMT
        <3>2. g \in Positive /\ e = d * g
            BY <1>1, <3>1, PowersOfTen DEF Positive
        <3>3. q = n * g
            BY <2>1 DEF Quantized
        <3> HIDE DEF d, e, g, q, n
        <3>4. q \in Nat
            BY <1>1, <3>2, <3>3, SMT DEF Positive
        <3>5. n * e - q * d = 0
            BY <1>1, <1>2, <3>2, <3>3, SMT DEF Positive
        <3> QED
            BY <1>2, <3>4, <3>5, SMT DEF Nearest, Positive
    <2>2. CASE ~(f <= p)
        <3> DEFINE g == 10^(f - p)
        <3>1. f - p \in 0..MaxPlaces /\ p + (f - p) = f /\ f <= MaxPlaces
            BY <1>1, <2>2, CanonAssumption, SMT
        <3>2. g \in Positive /\ d = e * g
            BY <1>1, <3>1, PowersOfTen DEF Positive
        <3>3. q = RoundMagnitude(n, g)
            BY <2>2 DEF Quantized
        <3> HIDE DEF d, e, g, q, n
        <3>4. q \in Nat /\ Nearest(n, g, q)
            BY <1>1, <3>2, <3>3, MagnitudeNearest
        <3>5. Nearest(n * e, g * e, q)
            BY <1>1, <1>2, <3>2, <3>4, NearestScales
        <3>6. g * e = d
            BY <1>2, <3>2, SMT DEF Positive
        <3> QED
            BY <3>4, <3>5, <3>6
    <2> QED
        BY <2>1, <2>2
<1> HIDE DEF d, e, q, n
<1>4. n * e \in Int /\ Signed(t, n) * e \in Int /\ Signed(t, n) \in Int
    BY <1>1, <1>2, SMT DEF Signed, Positive
<1>5. Nearest(Signed(t, n) * e, d, Signed(t, q))
    <2>1. CASE t.negative
        <3>1. Nearest(-(n * e), d, -q)
            BY <1>2, <1>3, <1>4, NearestScales
        <3>2. -(n * e) = (-n) * e
            BY <1>1, <1>2, SMT DEF Positive
        <3> QED
            BY <2>1, <3>1, <3>2 DEF Signed
    <2>2. CASE ~t.negative
        BY <2>2, <1>3 DEF Signed
    <2> QED
        BY <2>1, <2>2
<1>6. /\ Independent(t, p) = FloorHalfEven(Signed(t, n) * e, d)
      /\ Independent(t, p) \in Int
      /\ Nearest(Signed(t, n) * e, d, Independent(t, p))
    BY <1>2, <1>4, FloorNearest DEF Independent, n, e, d
<1> QED
    BY <1>2, <1>3, <1>4, <1>5, <1>6 DEF n, e, d, q

(***************************************************************************)
(* The two routes are one function: whatever decimal text is rounded to    *)
(* whatever number of places, Decimal.quantize and the floor division give *)
(* the same integer.                                                       *)
(***************************************************************************)
THEOREM OneFunction ==
    \A t \in Text, p \in 0..MaxPlaces : Independent(t, p) = Signed(t, Quantized(t, p))
<1> SUFFICES ASSUME NEW t \in Text, NEW p \in 0..MaxPlaces
             PROVE  Independent(t, p) = Signed(t, Quantized(t, p))
    OBVIOUS
<1>1. Signed(t, Quantized(t, p)) \in Int
    BY RoutesNearest, SMT DEF Signed
<1> QED
    BY <1>1, RoutesNearest, NearestUnique

(***************************************************************************)
(* The inductive invariant: what each variable holds is what its route     *)
(* computed, and a refusal names its reason.                               *)
(***************************************************************************)
RoutesInv ==
    /\ ConversionTypeOK
    /\ generator \subseteq {Signed(text, Quantized(text, places))}
    /\ verifier \subseteq {Independent(text, places)}
    /\ verifier # {} => generator # {}
    /\ outcome # "disagree"
    /\ outcome = "InvalidOperation" => TooLong(Quantized(text, places))

LEMMA RoutesInductive ==
    /\ InitConversion => RoutesInv
    /\ RoutesInv /\ [NextConversion]_conversionVars => RoutesInv'
<1>1. InitConversion => RoutesInv
    BY DEF InitConversion, RoutesInv, ConversionTypeOK
<1>2. ASSUME RoutesInv, [NextConversion]_conversionVars
      PROVE  RoutesInv'
    <2> DEFINE k == Signed(text, Quantized(text, places))
               l == Independent(text, places)
    <2>1. text \in Text /\ places \in 0..MaxPlaces
        BY <1>2 DEF RoutesInv, ConversionTypeOK
    <2>2. l \in Int /\ k \in Int /\ k = l
        BY <2>1, RoutesNearest, OneFunction
    <2>3. CASE to_exact_rational
        BY <1>2, <2>2, <2>3 DEF RoutesInv, ConversionTypeOK, to_exact_rational
    <2>4. CASE ConvertIndependently
        BY <1>2, <2>2, <2>4 DEF RoutesInv, ConversionTypeOK, ConvertIndependently
    <2>5. CASE CompareRoutes
        <3>1. generator = {k} /\ verifier = {l}
            BY <1>2, <2>5 DEF RoutesInv, CompareRoutes
        <3> QED
            BY <1>2, <2>2, <2>5, <3>1 DEF RoutesInv, ConversionTypeOK, CompareRoutes
    <2>6. CASE Finished \/ UNCHANGED conversionVars
        BY <1>2, <2>6 DEF RoutesInv, ConversionTypeOK, Finished, conversionVars
    <2> QED
        BY <1>2, <2>3, <2>4, <2>5, <2>6 DEF NextConversion
<1> QED
    BY <1>1, <1>2

LEMMA RoutesInvariant == ConversionSpec => []RoutesInv
BY RoutesInductive, PTL DEF ConversionSpec

(***************************************************************************)
(* Each route of tracking_adapter_canon.py returns an integer.             *)
(***************************************************************************)
THEOREM ConversionTypeCorrect == ConversionSpec => []ConversionTypeOK
<1>1. RoutesInv => ConversionTypeOK
    BY DEF RoutesInv
<1> QED
    BY <1>1, RoutesInvariant, PTL

(***************************************************************************)
(* convert_and_verify never raises "decimal conversion routes disagree".   *)
(***************************************************************************)
THEOREM NeverDisagree == ConversionSpec => []RoutesAgree
<1>1. RoutesInv => RoutesAgree
    <2> SUFFICES ASSUME RoutesInv PROVE RoutesAgree
        OBVIOUS
    <2>1. Independent(text, places) = Signed(text, Quantized(text, places))
        BY OneFunction DEF RoutesInv, ConversionTypeOK
    <2> QED
        BY <2>1 DEF RoutesInv, RoutesAgree
<1> QED
    BY <1>1, RoutesInvariant, PTL

(***************************************************************************)
(* Both routes round to nearest, ties to even.                             *)
(***************************************************************************)
THEOREM RoundsToNearest == ConversionSpec => []NearestEven
<1>1. RoutesInv => NearestEven
    <2> SUFFICES ASSUME RoutesInv, NEW k \in generator \cup verifier
                 PROVE  LET off == 2 * Distance(k * 10^text.fraction
                                            - Signed(text, text.digits) * 10^places)
                        IN /\ off <= 10^text.fraction
                           /\ off = 10^text.fraction => k % 2 = 0
        BY DEF NearestEven
    <2> DEFINE a == Signed(text, text.digits) * 10^places
               d == 10^text.fraction
    <2>1. text \in Text /\ places \in 0..MaxPlaces
        BY DEF RoutesInv, ConversionTypeOK
    <2>2. a \in Int /\ d \in Positive /\ k \in Int /\ Nearest(a, d, k)
        BY <2>1, RoutesNearest, OneFunction DEF RoutesInv
    <2> HIDE DEF a, d
    <2>3. LET off == 2 * Distance(k * d - a)
          IN off <= d /\ (off = d => k % 2 = 0)
        <3> DEFINE m == k * d
        <3>1. m \in Int
            BY <2>2, SMT DEF Positive
        <3>2. LET off == 2 * (a - m) IN -d <= off /\ off <= d /\ (off \in {-d, d} => k % 2 = 0)
            BY <2>2 DEF Nearest
        <3> HIDE DEF m
        <3>3. LET off == 2 * Distance(m - a) IN off <= d /\ (off = d => k % 2 = 0)
            BY <2>2, <3>1, <3>2, SMT DEF Distance, Positive
        <3> QED
            BY <3>3 DEF m
    <2> QED
        BY <2>3 DEF a, d
<1> QED
    BY <1>1, RoutesInvariant, PTL

(***************************************************************************)
(* decimal.InvalidOperation means that the result has more digits than a   *)
(* decimal.Context holds.                                                  *)
(***************************************************************************)
THEOREM RefusalExplained == ConversionSpec => []RefusedOnlyTooLong
<1>1. RoutesInv => RefusedOnlyTooLong
    <2> SUFFICES ASSUME RoutesInv PROVE RefusedOnlyTooLong
        OBVIOUS
    <2>1. Independent(text, places) = Signed(text, Quantized(text, places))
        BY OneFunction DEF RoutesInv, ConversionTypeOK
    <2>2. Quantized(text, places) \in Nat
        BY RoutesNearest DEF RoutesInv, ConversionTypeOK
    <2>3. Distance(Independent(text, places)) = Quantized(text, places)
        BY <2>1, <2>2, SMT DEF Distance, Signed
    <2> QED
        BY <2>3 DEF RoutesInv, RefusedOnlyTooLong
<1> QED
    BY <1>1, RoutesInvariant, PTL

----------------------------------------------------------------------------
(* A snapshot.                                                             *)

Endings == {"ok", "GeneratorError", "ValueError", "RecursionError", "InvalidOperation"}

\* The loop ends with the first exception, or with none.
LEMMA FirstFailureIs ==
    ASSUME NEW n \in Nat, NEW s, DOMAIN s = 1..n
    PROVE  \/ FirstFailure(s) = "ok" /\ \A k \in 1..n : s[k] = "ok"
           \/ \E k \in 1..n : FirstFailure(s) = s[k] /\ s[k] # "ok"
<1> DEFINE bad == {k \in DOMAIN s : s[k] # "ok"}
<1>1. FirstFailure(s) = IF bad = {} THEN "ok" ELSE s[CHOOSE k \in bad : \A l \in bad : k <= l]
    BY DEF FirstFailure
<1>2. \A k \in bad : k \in 1..n /\ s[k] # "ok"
    OBVIOUS
<1>3. bad = {} => \A k \in 1..n : s[k] = "ok"
    OBVIOUS
<1>4. bad \in SUBSET Nat
    OBVIOUS
<1> HIDE DEF bad
<1>5. CASE bad = {}
    BY <1>1, <1>3, <1>5
<1>6. CASE bad # {}
    <2>1. \E k \in bad : \A l \in bad : k <= l
        BY <1>4, <1>6, Least
    <2>2. (CHOOSE k \in bad : \A l \in bad : k <= l) \in bad
        BY <2>1
    <2> QED
        BY <1>1, <1>2, <1>6, <2>2
<1> QED
    BY <1>5, <1>6

LEMMA Concatenated ==
    ASSUME NEW S, NEW a \in Seq(S), NEW b \in Seq(S)
    PROVE  /\ a \o b \in Seq(S) /\ Len(a \o b) = Len(a) + Len(b)
           /\ \A k \in 1..(Len(a) + Len(b)) :
                 (a \o b)[k] = IF k <= Len(a) THEN a[k] ELSE b[k - Len(a)]
<1>1. a \o b \in Seq(S)
    OBVIOUS
<1>2. Len(a \o b) = Len(a) + Len(b)
    OBVIOUS
<1>3. \A k \in 1..(Len(a) + Len(b)) : (a \o b)[k] = IF k <= Len(a) THEN a[k] ELSE b[k - Len(a)]
    OBVIOUS
<1> QED
    BY <1>1, <1>2, <1>3

\* Seven entries put together from three, three and one.
LEMMA Seven ==
    ASSUME NEW S, NEW a1 \in S, NEW a2 \in S, NEW a3 \in S,
           NEW b1 \in S, NEW b2 \in S, NEW b3 \in S, NEW c \in S,
           NEW s, s = <<a1, a2, a3>> \o <<b1, b2, b3>> \o <<c>>
    PROVE  /\ DOMAIN s = 1..7
           /\ s[1] = a1 /\ s[2] = a2 /\ s[3] = a3
           /\ s[4] = b1 /\ s[5] = b2 /\ s[6] = b3 /\ s[7] = c
<1> DEFINE a == <<a1, a2, a3>>
           b == <<b1, b2, b3>>
           t == a \o b
           w == <<c>>
<1>1. /\ a \in Seq(S) /\ Len(a) = 3 /\ a[1] = a1 /\ a[2] = a2 /\ a[3] = a3
      /\ b \in Seq(S) /\ Len(b) = 3 /\ b[1] = b1 /\ b[2] = b2 /\ b[3] = b3
      /\ w \in Seq(S) /\ Len(w) = 1 /\ w[1] = c
    OBVIOUS
<1>2. s = t \o w
    OBVIOUS
<1> HIDE DEF a, b, w
<1>3. /\ t \in Seq(S) /\ Len(t) = 6
      /\ t[1] = a1 /\ t[2] = a2 /\ t[3] = a3 /\ t[4] = b1 /\ t[5] = b2 /\ t[6] = b3
    <2>1. /\ t \in Seq(S) /\ Len(t) = Len(a) + Len(b)
          /\ \A k \in 1..(Len(a) + Len(b)) : t[k] = IF k <= Len(a) THEN a[k] ELSE b[k - Len(a)]
        BY ONLY <1>1, Concatenated
    <2> HIDE DEF t
    <2>2. Len(a) + Len(b) = 6 /\ \A k \in 1..6 : t[k] = IF k <= 3 THEN a[k] ELSE b[k - 3]
        <3>1. Len(a) + Len(b) = 6
            BY ONLY <1>1
        <3> QED
            BY ONLY <1>1, <2>1, <3>1
    <2> QED
        BY ONLY <1>1, <2>1, <2>2
<1> HIDE DEF t
<1>4. /\ s \in Seq(S) /\ Len(s) = 7
      /\ s[1] = t[1] /\ s[2] = t[2] /\ s[3] = t[3] /\ s[4] = t[4] /\ s[5] = t[5] /\ s[6] = t[6]
      /\ s[7] = w[1]
    BY <1>1, <1>2, <1>3
<1> QED
    BY <1>1, <1>3, <1>4

LEMMA ConvertEnds ==
    ASSUME NEW doc, NEW t, NEW p
    PROVE  convert_and_verify(doc, t, p) \in {"ok", "ValueError", "InvalidOperation"}
BY DEF convert_and_verify

\* The conversions of an edge, one by one.
LEMMA ConversionsAre ==
    ASSUME NEW doc, NEW e
    PROVE  LET s == Conversions(doc, e)
               i == Source(doc, e)
               j == Target(doc, e)
           IN /\ DOMAIN s = 1..7
              /\ s[1] = IF Scalar(i) THEN "ok" ELSE "GeneratorError"
              /\ s[2] = convert_and_verify(doc, State(i), doc.position)
              /\ s[3] = convert_and_verify(doc, Offset(doc, e, i.id), doc.transform)
              /\ s[4] = IF Scalar(j) THEN "ok" ELSE "GeneratorError"
              /\ s[5] = convert_and_verify(doc, State(j), doc.position)
              /\ s[6] = convert_and_verify(doc, Offset(doc, e, j.id), doc.transform)
              /\ s[7] = convert_and_verify(doc, e.discrepancy, doc.position)
<1> DEFINE i == Source(doc, e)
           j == Target(doc, e)
           c(words, decimals) == convert_and_verify(doc, words, decimals)
           first(t) == IF Scalar(t) THEN "ok" ELSE "GeneratorError"
           s == Conversions(doc, e)
           c2 == c(State(i), doc.position)
           c3 == c(Offset(doc, e, i.id), doc.transform)
           c5 == c(State(j), doc.position)
           c6 == c(Offset(doc, e, j.id), doc.transform)
           c7 == c(e.discrepancy, doc.position)
<1>1. s = <<first(i), c2, c3>> \o <<first(j), c5, c6>> \o <<c7>>
    BY DEF Conversions
<1>2. first(i) \in Endings /\ first(j) \in Endings
    BY DEF Endings
<1>3. c2 \in Endings /\ c3 \in Endings /\ c5 \in Endings /\ c6 \in Endings /\ c7 \in Endings
    BY ConvertEnds DEF Endings
<1> DEFINE c1 == first(i)
           c4 == first(j)
<1>4. /\ DOMAIN s = 1..7
      /\ s[1] = c1 /\ s[2] = c2 /\ s[3] = c3 /\ s[4] = c4 /\ s[5] = c5 /\ s[6] = c6 /\ s[7] = c7
    <2>1. c1 \in Endings /\ c4 \in Endings /\ s = <<c1, c2, c3>> \o <<c4, c5, c6>> \o <<c7>>
        BY <1>1, <1>2
    <2> HIDE DEF c1, c2, c3, c4, c5, c6, c7, s
    <2> QED
        BY <1>3, <2>1, Seven
<1> QED
    BY <1>4
LEMMA ByIs ==
    ASSUME NEW list, NEW i \in Named(list)
    PROVE  By(list, i).id = i /\ \E k \in DOMAIN list : By(list, i) = list[k]
<1>1. \E k \in DOMAIN list : list[k].id = i
    BY DEF Named
<1> QED
    BY <1>1 DEF By

\* What an edge refers to is there, and is text.
LEMMA EndsOf ==
    ASSUME NEW doc, LegalDocument(doc), ReferencesHold(doc), NEW n \in DOMAIN doc.edges
    PROVE  LET e == doc.edges[n]
           IN /\ Source(doc, e).id = e.source /\ Target(doc, e).id = e.target
              /\ \E k \in DOMAIN doc.tracks : Source(doc, e) = doc.tracks[k]
              /\ \E k \in DOMAIN doc.tracks : Target(doc, e) = doc.tracks[k]
              /\ e.source # e.target
              /\ e.discrepancy \in Decimals
              /\ Offset(doc, e, e.source) \in Decimals /\ Offset(doc, e, e.target) \in Decimals
<1> DEFINE e == doc.edges[n]
<1>1. /\ {e.source, e.target} \subseteq Named(doc.tracks)
      /\ e.source # e.target
      /\ \A t \in {e.source, e.target} :
            \E one \in DOMAIN doc.transformations : Declared(doc, e.id, t) = {one}
    BY DEF ReferencesHold
<1>2. /\ Source(doc, e).id = e.source /\ \E k \in DOMAIN doc.tracks : Source(doc, e) = doc.tracks[k]
      /\ Target(doc, e).id = e.target /\ \E k \in DOMAIN doc.tracks : Target(doc, e) = doc.tracks[k]
    BY <1>1, ByIs DEF Source, Target
<1>3. ASSUME NEW t \in {e.source, e.target} PROVE Offset(doc, e, t) \in Decimals
    <2>1. PICK one \in DOMAIN doc.transformations : Declared(doc, e.id, t) = {one}
        BY <1>1, <1>3
    <2>2. (CHOOSE k \in Declared(doc, e.id, t) : TRUE) = one
        BY <2>1
    <2> QED
        BY <2>2 DEF Offset, LegalDocument
<1>4. e.discrepancy \in Decimals
    BY DEF LegalDocument
<1> QED
    BY <1>1, <1>2, <1>3, <1>4

LEMMA StateIs ==
    ASSUME NEW doc, LegalDocument(doc), NEW k \in DOMAIN doc.tracks
    PROVE  State(doc.tracks[k]) \in Decimals
<1> DEFINE t == doc.tracks[k]
<1>1. IsList(t.state) /\ \A m \in DOMAIN t.state : t.state[m] \in Decimals
    BY DEF LegalDocument
<1>2. Scalar(t) => 1 \in DOMAIN t.state
    BY <1>1 DEF Scalar, IsList
<1> QED
    BY <1>1, <1>2 DEF State, Decimals

\* A text that convert_and_verify takes is rounded by both routes to the same
\* fraction; what it refuses else is no decimal, or too long.
LEMMA ConvertOk ==
    ASSUME NEW doc, NEW t, NEW p, convert_and_verify(doc, t, p) = "ok"
    PROVE  /\ t # NotDecimal /\ doc.supported
           /\ Rounded(t, p) = to_exact_rational_independent(t, p)
BY DEF convert_and_verify, Rounded, to_exact_rational_independent

LEMMA ConvertFails ==
    ASSUME NEW doc, doc.supported, NEW t \in Text, NEW p \in 0..MaxPlaces
    PROVE  convert_and_verify(doc, t, p) \in {"ok", "InvalidOperation"}
<1>1. Signed(t, Quantized(t, p)) = Independent(t, p)
    BY OneFunction
<1>2. t # NotDecimal
    BY DraftsAssumption
<1> QED
    BY <1>1, <1>2 DEF convert_and_verify

EdgeOk(doc, e) == EdgeOutcome(doc, e) = "ok"

\* What the generator derives for an edge, the verifier derives too.
LEMMA EdgePasses ==
    ASSUME NEW doc, LegalDocument(doc), ReferencesHold(doc), NEW n \in DOMAIN doc.edges,
           EdgeOk(doc, doc.edges[n])
    PROVE  /\ EdgeHolds(doc, doc.edges[n])
           /\ Discrepancy(doc, doc.edges[n]) = Residue(doc, doc.edges[n])
<1> DEFINE e == doc.edges[n]
           i == Source(doc, e)
           j == Target(doc, e)
           q == to_exact_rational_independent(e.discrepancy, doc.position)
           s == Conversions(doc, e)
<1>1. FirstFailure(s) = "ok" /\ Discrepancy(doc, e) = Rounded(e.discrepancy, doc.position)
    BY DEF EdgeOk, EdgeOutcome
<1>2. \A k \in 1..7 : s[k] = "ok"
    BY <1>1, ConversionsAre, FirstFailureIs
<1>3. /\ convert_and_verify(doc, State(i), doc.position) = "ok"
      /\ convert_and_verify(doc, Offset(doc, e, i.id), doc.transform) = "ok"
      /\ convert_and_verify(doc, State(j), doc.position) = "ok"
      /\ convert_and_verify(doc, Offset(doc, e, j.id), doc.transform) = "ok"
      /\ convert_and_verify(doc, e.discrepancy, doc.position) = "ok"
    BY <1>2, ConversionsAre
<1>4. i.id = e.source /\ j.id = e.target
    BY EndsOf
<1>5. /\ State(i) # NotDecimal /\ State(j) # NotDecimal /\ e.discrepancy # NotDecimal
      /\ Offset(doc, e, i.id) # NotDecimal /\ Offset(doc, e, j.id) # NotDecimal
      /\ doc.supported
    BY <1>3, ConvertOk
<1>6. /\ Rounded(State(i), doc.position) = to_exact_rational_independent(State(i), doc.position)
      /\ Rounded(State(j), doc.position) = to_exact_rational_independent(State(j), doc.position)
      /\ Rounded(Offset(doc, e, i.id), doc.transform)
            = to_exact_rational_independent(Offset(doc, e, i.id), doc.transform)
      /\ Rounded(Offset(doc, e, j.id), doc.transform)
            = to_exact_rational_independent(Offset(doc, e, j.id), doc.transform)
      /\ Rounded(e.discrepancy, doc.position) = q
    BY <1>3, ConvertOk
<1>7. Discrepancy(doc, e) = Residue(doc, e)
    BY <1>6 DEF Discrepancy, EndpointValue, Residue
<1>8. Convertible(doc, e)
    BY <1>4, <1>5 DEF Convertible
<1> QED
    BY <1>1, <1>6, <1>7, <1>8 DEF EdgeHolds

\* What the verifier derives, the generator derives or finds too long.
LEMMA EdgeRefused ==
    ASSUME NEW doc, LegalDocument(doc), ReferencesHold(doc), AllScalar(doc),
           NEW n \in DOMAIN doc.edges, EdgeHolds(doc, doc.edges[n])
    PROVE  EdgeOutcome(doc, doc.edges[n]) \in {"ok", "InvalidOperation"}
<1> DEFINE e == doc.edges[n]
           i == Source(doc, e)
           j == Target(doc, e)
           s == Conversions(doc, e)
           q == to_exact_rational_independent(e.discrepancy, doc.position)
<1>1. /\ i.id = e.source /\ j.id = e.target
      /\ Scalar(i) /\ Scalar(j)
      /\ State(i) \in Decimals /\ State(j) \in Decimals /\ e.discrepancy \in Decimals
      /\ Offset(doc, e, i.id) \in Decimals /\ Offset(doc, e, j.id) \in Decimals
    <2>1. PICK k \in DOMAIN doc.tracks : i = doc.tracks[k]
        BY EndsOf
    <2>2. PICK l \in DOMAIN doc.tracks : j = doc.tracks[l]
        BY EndsOf
    <2>3. Scalar(i) /\ Scalar(j)
        BY <2>1, <2>2 DEF AllScalar
    <2>4. State(i) \in Decimals /\ State(j) \in Decimals
        BY <2>1, <2>2, StateIs
    <2> QED
        BY <2>3, <2>4, EndsOf
<1>2. /\ doc.supported
      /\ State(i) # NotDecimal /\ State(j) # NotDecimal /\ e.discrepancy # NotDecimal
      /\ Offset(doc, e, i.id) # NotDecimal /\ Offset(doc, e, j.id) # NotDecimal
    BY <1>1 DEF EdgeHolds, Convertible
<1>3. doc.position \in 0..MaxPlaces /\ doc.transform \in 0..MaxPlaces
    BY <1>2 DEF LegalDocument
<1>4. /\ State(i) \in Text /\ State(j) \in Text /\ e.discrepancy \in Text
      /\ Offset(doc, e, i.id) \in Text /\ Offset(doc, e, j.id) \in Text
    BY <1>1, <1>2 DEF Decimals
<1>5. /\ convert_and_verify(doc, State(i), doc.position) \in {"ok", "InvalidOperation"}
      /\ convert_and_verify(doc, Offset(doc, e, i.id), doc.transform) \in {"ok", "InvalidOperation"}
      /\ convert_and_verify(doc, State(j), doc.position) \in {"ok", "InvalidOperation"}
      /\ convert_and_verify(doc, Offset(doc, e, j.id), doc.transform) \in {"ok", "InvalidOperation"}
      /\ convert_and_verify(doc, e.discrepancy, doc.position) \in {"ok", "InvalidOperation"}
    BY <1>2, <1>3, <1>4, ConvertFails
<1>6. \A k \in 1..7 : s[k] \in {"ok", "InvalidOperation"}
    <2>1. s[1] = "ok" /\ s[4] = "ok"
        BY <1>1, ConversionsAre
    <2>2. \A k \in {2, 3, 5, 6, 7} : s[k] \in {"ok", "InvalidOperation"}
        BY <1>5, ConversionsAre
    <2> HIDE DEF s
    <2> QED
        BY <2>1, <2>2
<1>7. FirstFailure(s) \in {"ok", "InvalidOperation"}
      /\ (FirstFailure(s) = "ok" => \A k \in 1..7 : s[k] = "ok")
    <2>1. DOMAIN s = 1..7
        BY ConversionsAre
    <2> HIDE DEF s
    <2>2. \/ FirstFailure(s) = "ok" /\ \A k \in 1..7 : s[k] = "ok"
          \/ \E k \in 1..7 : FirstFailure(s) = s[k] /\ s[k] # "ok"
        BY <2>1, FirstFailureIs
    <2> QED
        BY <1>6, <2>2
<1>8. ASSUME FirstFailure(s) = "ok" PROVE Discrepancy(doc, e) = Rounded(e.discrepancy, doc.position)
    <2>1. /\ convert_and_verify(doc, State(i), doc.position) = "ok"
          /\ convert_and_verify(doc, Offset(doc, e, i.id), doc.transform) = "ok"
          /\ convert_and_verify(doc, State(j), doc.position) = "ok"
          /\ convert_and_verify(doc, Offset(doc, e, j.id), doc.transform) = "ok"
          /\ convert_and_verify(doc, e.discrepancy, doc.position) = "ok"
        BY <1>7, <1>8, ConversionsAre
    <2>2. /\ Rounded(State(i), doc.position) = to_exact_rational_independent(State(i), doc.position)
          /\ Rounded(State(j), doc.position) = to_exact_rational_independent(State(j), doc.position)
          /\ Rounded(Offset(doc, e, i.id), doc.transform)
                = to_exact_rational_independent(Offset(doc, e, i.id), doc.transform)
          /\ Rounded(Offset(doc, e, j.id), doc.transform)
                = to_exact_rational_independent(Offset(doc, e, j.id), doc.transform)
          /\ Rounded(e.discrepancy, doc.position) = q
        BY <2>1, ConvertOk
    <2>3. Discrepancy(doc, e) = Residue(doc, e)
        BY <2>2 DEF Discrepancy, EndpointValue, Residue
    <2> QED
        BY <2>2, <2>3 DEF EdgeHolds
<1>9. EdgeOutcome(doc, e) = IF FirstFailure(s) # "ok" THEN FirstFailure(s)
                            ELSE IF Discrepancy(doc, e) # Rounded(e.discrepancy, doc.position)
                            THEN "GeneratorError" ELSE "ok"
    BY DEF EdgeOutcome
<1> HIDE DEF s
<1> QED
    BY <1>7, <1>8, <1>9

LEMMA EdgeEnds ==
    ASSUME NEW doc, NEW e
    PROVE  EdgeOutcome(doc, e) \in Endings
<1> DEFINE s == Conversions(doc, e)
<1>1. DOMAIN s = 1..7
    BY ConversionsAre
<1>2. s[1] \in Endings /\ s[4] \in Endings
    BY ConversionsAre DEF Endings
<1>3. \A k \in {2, 3, 5, 6, 7} : s[k] \in Endings
    BY ConversionsAre, ConvertEnds DEF Endings
<1>4. EdgeOutcome(doc, e) \in {FirstFailure(s), "GeneratorError", "ok"}
    BY DEF EdgeOutcome
<1> HIDE DEF s
<1>5. \A k \in 1..7 : s[k] \in Endings
    BY <1>2, <1>3
<1>6. \/ FirstFailure(s) = "ok" /\ \A k \in 1..7 : s[k] = "ok"
      \/ \E k \in 1..7 : FirstFailure(s) = s[k] /\ s[k] # "ok"
    BY <1>1, FirstFailureIs
<1> QED
    BY <1>4, <1>5, <1>6 DEF Endings

\* What the producer gets from a document: parse_snapshot_doc, then
\* generate_problem.
Produced(doc) ==
    IF parse_snapshot_doc(doc) = "ok" THEN generate_problem(doc)
    ELSE [outcome |-> parse_snapshot_doc(doc), problems |-> {}]

\* The error of the parser, for a document that the verifier finds well formed.
LEMMA ParsedIs ==
    ASSUME NEW doc
    PROVE  /\ parse_snapshot_doc(doc) \in {"ok", "ValueError", "RecursionError"}
           /\ parse_snapshot_doc(doc) = "ok" => Structured(doc)
           /\ Structured(doc) =>
                parse_snapshot_doc(doc) =
                  IF doc.provenance.visit > MaxDepth THEN "RecursionError"
                  ELSE IF doc.policy = "mistyped" THEN "ValueError" ELSE "ok"
BY DEF parse_snapshot_doc, Structured

LEMMA ProducedIs ==
    ASSUME NEW doc, LegalDocument(doc)
    PROVE  /\ Produced(doc).outcome \in Endings
           /\ Produced(doc).outcome # "ok" => Produced(doc).problems = {}
           /\ Produced(doc).outcome = "ok" =>
                /\ Structured(doc) /\ doc.complete
                /\ \A n \in DOMAIN doc.edges : EdgeHolds(doc, doc.edges[n])
                /\ Produced(doc).problems = {Reconstructed(doc)}
           /\ Structured(doc) /\ doc.complete /\ AllScalar(doc)
              /\ (\A n \in DOMAIN doc.edges : EdgeHolds(doc, doc.edges[n]))
                => Produced(doc).outcome \in
                     IF doc.provenance.visit > MaxDepth THEN {"RecursionError"}
                     ELSE IF doc.policy = "mistyped" THEN {"ValueError"}
                     ELSE {"ok", "InvalidOperation"}
<1> DEFINE m == Len(doc.edges)
           s == [k \in DOMAIN doc.edges |-> EdgeOutcome(doc, doc.edges[k])]
           first == FirstFailure(s)
           ended == IF ~doc.complete THEN "GeneratorError" ELSE first
           derived == Problem([k \in DOMAIN doc.edges |-> Row(doc, doc.edges[k])],
                              [k \in DOMAIN doc.edges |-> Discrepancy(doc, doc.edges[k])])
           p == Produced(doc)
<1>1. m \in Nat /\ DOMAIN doc.edges = 1..m
    BY DEF LegalDocument, EvidenceLists, IsList
<1>2. DOMAIN s = 1..m /\ \A k \in 1..m : s[k] = EdgeOutcome(doc, doc.edges[k])
    BY <1>1
<1>3. \A k \in 1..m : s[k] \in Endings
    BY <1>2, EdgeEnds
<1>4. \/ first = "ok" /\ \A k \in 1..m : s[k] = "ok"
      \/ \E k \in 1..m : first = s[k] /\ s[k] # "ok"
    <2> HIDE DEF s
    <2> QED
        BY <1>1, <1>2, FirstFailureIs
<1>5. first \in Endings
    <2> HIDE DEF s, first
    <2> QED
        BY <1>3, <1>4 DEF Endings
<1>6. generate_problem(doc)
        = [outcome |-> ended, problems |-> IF ended # "ok" THEN {} ELSE {derived}]
    BY DEF generate_problem
<1>7. parse_snapshot_doc(doc) = "ok" =>
        p.outcome = ended /\ p.problems = IF ended # "ok" THEN {} ELSE {derived}
    BY <1>6 DEF Produced
<1>8. parse_snapshot_doc(doc) # "ok" => p.outcome = parse_snapshot_doc(doc) /\ p.problems = {}
    BY DEF Produced
<1>9. ASSUME parse_snapshot_doc(doc) = "ok", first = "ok"
      PROVE  /\ \A n \in DOMAIN doc.edges : EdgeHolds(doc, doc.edges[n])
             /\ derived = Reconstructed(doc)
    <2>1. ReferencesHold(doc)
        BY <1>9, ParsedIs DEF Structured, ListsHold
    <2>2. \A n \in DOMAIN doc.edges : EdgeOk(doc, doc.edges[n])
        BY <1>1, <1>2, <1>4, <1>9 DEF EdgeOk
    <2>3. \A n \in DOMAIN doc.edges : /\ EdgeHolds(doc, doc.edges[n])
                                      /\ Discrepancy(doc, doc.edges[n]) = Residue(doc, doc.edges[n])
        BY <2>1, <2>2, EdgePasses
    <2>4. [k \in DOMAIN doc.edges |-> Discrepancy(doc, doc.edges[k])]
            = [k \in DOMAIN doc.edges |-> Residue(doc, doc.edges[k])]
        BY <2>3
    <2> QED
        BY <2>3, <2>4 DEF Reconstructed
<1>10. ASSUME Structured(doc), AllScalar(doc),
              \A n \in DOMAIN doc.edges : EdgeHolds(doc, doc.edges[n])
       PROVE  first \in {"ok", "InvalidOperation"}
    <2>1. ReferencesHold(doc)
        BY <1>10 DEF Structured, ListsHold
    <2>2. \A k \in 1..m : s[k] \in {"ok", "InvalidOperation"}
        BY <1>1, <1>2, <1>10, <2>1, EdgeRefused
    <2> HIDE DEF s, first
    <2> QED
        BY <1>4, <2>2
<1> HIDE DEF s, first, derived, p
<1>11. p.outcome \in Endings /\ (p.outcome # "ok" => p.problems = {})
    BY <1>5, <1>7, <1>8, ParsedIs DEF Endings
<1>12. ASSUME p.outcome = "ok"
       PROVE  /\ Structured(doc) /\ doc.complete
              /\ \A n \in DOMAIN doc.edges : EdgeHolds(doc, doc.edges[n])
              /\ p.problems = {Reconstructed(doc)}
    <2>1. parse_snapshot_doc(doc) = "ok"
        BY <1>8, <1>12
    <2>2. ended = "ok" /\ p.problems = {derived}
        BY <1>7, <1>12, <2>1
    <2>3. doc.complete /\ first = "ok"
        BY <2>2
    <2> QED
        BY <1>9, <2>1, <2>2, <2>3, ParsedIs
<1>13. ASSUME Structured(doc), doc.complete, AllScalar(doc),
              \A n \in DOMAIN doc.edges : EdgeHolds(doc, doc.edges[n])
       PROVE  p.outcome \in IF doc.provenance.visit > MaxDepth THEN {"RecursionError"}
                            ELSE IF doc.policy = "mistyped" THEN {"ValueError"}
                            ELSE {"ok", "InvalidOperation"}
    <2>1. first \in {"ok", "InvalidOperation"}
        BY <1>10, <1>13
    <2>2. parse_snapshot_doc(doc) = IF doc.provenance.visit > MaxDepth THEN "RecursionError"
                                    ELSE IF doc.policy = "mistyped" THEN "ValueError" ELSE "ok"
        BY <1>13, ParsedIs
    <2> QED
        BY <1>7, <1>8, <1>13, <2>1, <2>2
<1> QED
    BY <1>11, <1>12, <1>13 DEF p

----------------------------------------------------------------------------
(* The snapshot on its way.                                                *)

Annotations == {"derived", "digest"}

\* The same document, but for what is claimed and the digest.
SameEvidence(d1, d2) ==
    /\ DOMAIN d1 = Fields /\ DOMAIN d2 = Fields
    /\ \A f \in Fields \ Annotations : d1[f] = d2[f]

LEMMA SameFields ==
    ASSUME NEW d1, NEW d2, SameEvidence(d1, d2)
    PROVE  /\ d1.closed = d2.closed /\ d1.stamped = d2.stamped
           /\ d1.complete = d2.complete /\ d1.supported = d2.supported
           /\ d1.position = d2.position /\ d1.transform = d2.transform
           /\ d1.provenance = d2.provenance /\ d1.policy = d2.policy
           /\ d1.sources = d2.sources /\ d1.detections = d2.detections
           /\ d1.tracks = d2.tracks /\ d1.edges = d2.edges
           /\ d1.transformations = d2.transformations
BY DEF SameEvidence, Fields, Annotations

LEMMA SameReferences ==
    ASSUME NEW d1, NEW d2, SameEvidence(d1, d2), ReferencesHold(d1)
    PROVE  ReferencesHold(d2)
<1>1. \A e, t : Declared(d1, e, t) = Declared(d2, e, t)
    BY SameFields DEF Declared
<1>2. /\ \A k \in DOMAIN d2.detections : d2.detections[k].source \in Named(d2.sources)
      /\ \A k \in DOMAIN d2.tracks : d2.tracks[k].detections \subseteq Named(d2.detections)
    BY SameFields DEF ReferencesHold
<1>3. ASSUME NEW k \in DOMAIN d2.edges
      PROVE  /\ {d2.edges[k].source, d2.edges[k].target} \subseteq Named(d2.tracks)
             /\ d2.edges[k].source # d2.edges[k].target
             /\ \A t \in {d2.edges[k].source, d2.edges[k].target} :
                   \E one \in DOMAIN d2.transformations : Declared(d2, d2.edges[k].id, t) = {one}
    <2>1. d1.edges = d2.edges /\ d1.tracks = d2.tracks /\ d1.transformations = d2.transformations
        BY SameFields
    <2>2. /\ {d1.edges[k].source, d1.edges[k].target} \subseteq Named(d1.tracks)
          /\ d1.edges[k].source # d1.edges[k].target
          /\ \A t \in {d1.edges[k].source, d1.edges[k].target} :
                \E one \in DOMAIN d1.transformations : Declared(d1, d1.edges[k].id, t) = {one}
        BY <1>3, <2>1 DEF ReferencesHold
    <2> QED
        BY <1>1, <2>1, <2>2
<1>4. \A k \in DOMAIN d2.transformations :
         LET x == d2.transformations[k]
         IN \E l \in DOMAIN d2.edges :
              /\ d2.edges[l].id = x.edge
              /\ x.track \in {d2.edges[l].source, d2.edges[l].target}
    BY SameFields DEF ReferencesHold
<1> QED
    BY <1>2, <1>3, <1>4 DEF ReferencesHold

\* Neither derivation looks at what is claimed.
LEMMA SameMeaning ==
    ASSUME NEW d1, NEW d2, SameEvidence(d1, d2)
    PROVE  /\ LegalDocument(d1) <=> LegalDocument(d2)
           /\ Produced(d1) = Produced(d2)
<1>1. EvidenceLists(d1) = EvidenceLists(d2)
    BY SameFields DEF EvidenceLists
<1>2. LegalDocument(d1) <=> LegalDocument(d2)
    <2>1. DOMAIN d1 = DOMAIN d2
        BY DEF SameEvidence
    <2> QED
        BY <1>1, <2>1, SameFields DEF LegalDocument
<1>3. \A e, t : Declared(d1, e, t) = Declared(d2, e, t)
    BY SameFields DEF Declared
<1>4. ReferencesHold(d1) <=> ReferencesHold(d2)
    <2>1. SameEvidence(d2, d1)
        BY DEF SameEvidence
    <2> QED
        BY <2>1, SameReferences
<1>5. parse_snapshot_doc(d1) = parse_snapshot_doc(d2)
    BY <1>1, <1>4, SameFields DEF parse_snapshot_doc, ListsHold, Closed
<1>6. \A e, t : Offset(d1, e, t) = Offset(d2, e, t)
    BY <1>3, SameFields DEF Offset
<1>7. \A e : Source(d1, e) = Source(d2, e) /\ Target(d1, e) = Target(d2, e)
    BY SameFields DEF Source, Target
<1>8. \A t, p : convert_and_verify(d1, t, p) = convert_and_verify(d2, t, p)
    BY SameFields DEF convert_and_verify
<1>9. \A e : Conversions(d1, e) = Conversions(d2, e)
    BY <1>6, <1>7, <1>8, SameFields DEF Conversions
<1>10. \A e : Discrepancy(d1, e) = Discrepancy(d2, e)
    BY <1>6, <1>7, SameFields DEF Discrepancy, EndpointValue
<1>11. \A e : EdgeOutcome(d1, e) = EdgeOutcome(d2, e)
    BY <1>9, <1>10, SameFields DEF EdgeOutcome
<1>12. \A e : Row(d1, e) = Row(d2, e)
    BY SameFields DEF Row
<1>13. generate_problem(d1) = generate_problem(d2)
    BY <1>10, <1>11, <1>12, SameFields DEF generate_problem
<1> QED
    BY <1>2, <1>5, <1>13 DEF Produced

LEMMA SameAgain ==
    ASSUME NEW d1, NEW d2, NEW d3, SameEvidence(d1, d2), SameEvidence(d2, d3)
    PROVE  SameEvidence(d1, d3)
BY DEF SameEvidence

LEMMA SameDigest ==
    ASSUME NEW d1, NEW d2, SameEvidence(d1, d2)
    PROVE  compute_payload_digest(d1) = compute_payload_digest(d2)
BY SameFields DEF compute_payload_digest

(***************************************************************************)
(* The inductive invariant: the document is one of those that occur, but   *)
(* for claim and digest; what is sealed carries its own digest and, until  *)
(* somebody replaces it, is the document, with what the generator made of  *)
(* it as its claim; and the verdict is of the document as it stands.       *)
(***************************************************************************)
FlowInv ==
    /\ altered \in BOOLEAN
    /\ verdict \in {"none", "accept", "reject"}
    /\ \E doc \in Drafts : SameEvidence(document, doc)
    /\ generated # NotRun =>
         \E doc \in Drafts :
            generated = Produced(doc) /\ (~altered => SameEvidence(document, doc))
    /\ sealed = {} => ~altered /\ verdict = "none"
    /\ sealed # {} =>
         \E original \in sealed :
            /\ sealed = {original}
            /\ original.digest = compute_payload_digest(original)
            /\ ~altered => document = original /\ document.derived = generated.problems
    /\ verdict = "accept" => verify_snapshot_doc(document)
    /\ verdict = "reject" => ~verify_snapshot_doc(document)

LEMMA FlowInductive ==
    /\ InitDerivation => FlowInv
    /\ FlowInv /\ [NextDerivation]_derivationVars => FlowInv'
<1>1. ASSUME InitDerivation PROVE FlowInv
    <2>1. SameEvidence(document, document)
        BY <1>1, DraftsAssumption DEF InitDerivation, LegalDocument, SameEvidence
    <2> QED
        BY <1>1, <2>1 DEF InitDerivation, FlowInv
<1>2. ASSUME FlowInv, [NextDerivation]_derivationVars PROVE FlowInv'
    <2>1. PICK own \in Drafts : SameEvidence(document, own)
        BY <1>2 DEF FlowInv
    <2>2. LegalDocument(own) /\ DOMAIN own = Fields /\ DOMAIN document = Fields
        BY <2>1, DraftsAssumption DEF SameEvidence
    <2>3. CASE Generate
        <3>1. generated' = Produced(document) /\ document' = document /\ sealed' = sealed
              /\ altered' = altered /\ verdict' = verdict /\ sealed = {}
            BY <2>3 DEF Generate, Produced
        <3>2. Produced(document) = Produced(own)
            BY <2>1, SameMeaning
        <3> QED
            BY <1>2, <2>1, <3>1, <3>2 DEF FlowInv
    <2>4. CASE Seal
        <3> DEFINE claimed == [document EXCEPT !.derived = generated.problems]
                   final == [claimed EXCEPT !.digest = compute_payload_digest(claimed)]
        <3>1. /\ document' = final /\ sealed' = {final} /\ sealed = {}
              /\ generated' = generated /\ altered' = altered /\ verdict' = verdict
            BY <2>4 DEF Seal
        <3>2. DOMAIN claimed = Fields /\ DOMAIN final = Fields
            BY <2>2
        <3>3. /\ SameEvidence(final, document) /\ final.derived = generated.problems
              /\ final.digest = compute_payload_digest(claimed)
            <4> DEFINE g == compute_payload_digest(claimed)
                       c == generated.problems
            <4>1. /\ claimed.derived = c
                  /\ \A f \in Fields \ {"derived"} : claimed[f] = document[f]
                <5>1. claimed = [document EXCEPT !.derived = c]
                    BY Zenon
                <5> HIDE DEF c, claimed
                <5> QED
                    BY <2>2, <5>1 DEF Fields
            <4>2. /\ final.digest = g
                  /\ \A f \in Fields \ {"digest"} : final[f] = claimed[f]
                <5>1. final = [claimed EXCEPT !.digest = g]
                    BY Zenon
                <5> HIDE DEF g, claimed, final
                <5> QED
                    BY <3>2, <5>1 DEF Fields
            <4> HIDE DEF claimed, final
            <4> QED
                BY <2>2, <3>2, <4>1, <4>2 DEF SameEvidence, Fields, Annotations
        <3>4. SameEvidence(claimed, document)
            BY <2>2 DEF SameEvidence, Fields, Annotations
        <3>5. final.digest = compute_payload_digest(final)
            <4> HIDE DEF final, claimed
            <4> QED
                BY <3>3, <3>4, SameDigest
        <3> HIDE DEF final, claimed
        <3>6. \A doc : SameEvidence(document, doc) => SameEvidence(document', doc)
            BY <3>1, <3>3, SameAgain
        <3>7. ~altered /\ verdict = "none"
            BY <1>2, <3>1 DEF FlowInv
        <3> QED
            BY <1>2, <2>1, <3>1, <3>3, <3>5, <3>6, <3>7 DEF FlowInv
    <2>5. CASE Alter
        <3>1. PICK other \in Drafts, keepClaim \in BOOLEAN, keepDigest \in BOOLEAN :
                document' =
                  [other EXCEPT
                     !.derived = IF keepClaim THEN document.derived ELSE {},
                     !.digest  = IF keepDigest THEN document.digest ELSE compute_payload_digest(other)]
            BY <2>5 DEF Alter
        <3>2. SameEvidence(document', other)
            <4> DEFINE c == IF keepClaim THEN document.derived ELSE {}
                       g == IF keepDigest THEN document.digest ELSE compute_payload_digest(other)
            <4>1. document' = [other EXCEPT !.derived = c, !.digest = g]
                BY <3>1
            <4>2. DOMAIN other = Fields
                BY DraftsAssumption DEF LegalDocument
            <4> HIDE DEF c, g
            <4> QED
                BY <4>1, <4>2 DEF SameEvidence, Fields, Annotations
        <3>3. /\ altered' = TRUE /\ sealed' = sealed /\ generated' = generated /\ verdict' = verdict
              /\ verdict = "none" /\ sealed # {}
            BY <2>5 DEF Alter
        <3> QED
            BY <1>2, <3>2, <3>3 DEF FlowInv
    <2>6. CASE Verify
        <3>1. /\ document' = document /\ sealed' = sealed /\ generated' = generated
              /\ altered' = altered /\ sealed # {}
              /\ verdict' = IF verify_snapshot_doc(document) THEN "accept" ELSE "reject"
            BY <2>6 DEF Verify
        <3> QED
            BY <1>2, <2>1, <3>1 DEF FlowInv
    <2>7. CASE UNCHANGED derivationVars
        BY <1>2, <2>7 DEF FlowInv, derivationVars
    <2> QED
        BY <1>2, <2>3, <2>4, <2>5, <2>6, <2>7 DEF NextDerivation, Settled
<1> QED
    BY <1>1, <1>2

LEMMA FlowInvariant == DerivationSpec => []FlowInv
BY FlowInductive, PTL DEF DerivationSpec

LEMMA DerivedIs ==
    ASSUME FlowInv
    PROVE  /\ LegalDocument(document)
           /\ generated # NotRun =>
                \E doc \in Drafts :
                   /\ generated = Produced(doc) /\ LegalDocument(doc)
                   /\ ~altered => generated = Produced(document)
<1>1. PICK doc \in Drafts : SameEvidence(document, doc)
    BY DEF FlowInv
<1>2. LegalDocument(document)
    BY <1>1, SameMeaning, DraftsAssumption
<1>3. ASSUME generated # NotRun
      PROVE  \E d \in Drafts : /\ generated = Produced(d) /\ LegalDocument(d)
                               /\ ~altered => generated = Produced(document)
    <2>1. PICK d \in Drafts :
            generated = Produced(d) /\ (~altered => SameEvidence(document, d))
        BY <1>3 DEF FlowInv
    <2>2. ~altered => generated = Produced(document)
        BY <2>1, SameMeaning
    <2> QED
        BY <2>1, <2>2, DraftsAssumption
<1> QED
    BY <1>2, <1>3

(***************************************************************************)
(* What an accepted document claims is what its evidence derives, and what *)
(* generate_problem returned for the producer is what verify_snapshot_doc  *)
(* reconstructs, for every document of any size.                           *)
(***************************************************************************)
THEOREM OneProblemHolds == DerivationSpec => []OneProblem
<1>1. FlowInv => OneProblem
    <2> SUFFICES ASSUME FlowInv PROVE OneProblem
        OBVIOUS
    <2>1. /\ Cardinality(generated.problems) <= 1
          /\ generated.outcome \in
               {"not run", "ok", "GeneratorError", "ValueError", "RecursionError", "InvalidOperation"}
          /\ generated.problems # {} <=> generated.outcome = "ok"
        <3>1. CASE generated = NotRun
            <4>1. generated.problems = {} /\ generated.outcome = "not run"
                BY <3>1 DEF NotRun
            <4>2. Cardinality(generated.problems) = 0
                BY <4>1, FS_EmptySet
            <4>3. Cardinality(generated.problems) <= 1
                BY ONLY <4>2
            <4> QED
                BY ONLY <4>1, <4>3, Zenon
        <3>2. CASE generated # NotRun
            <4>1. PICK doc \in Drafts : generated = Produced(doc) /\ LegalDocument(doc)
                BY <3>2, DerivedIs
            <4>2. generated.outcome \in Endings
                  /\ (generated.problems = {} \/ generated.problems = {Reconstructed(doc)})
                  /\ (generated.problems # {} <=> generated.outcome = "ok")
                BY <4>1, ProducedIs
            <4>3. Cardinality(generated.problems) \in {0, 1}
                BY <4>2, FS_EmptySet, FS_Singleton
            <4>4. Cardinality(generated.problems) <= 1
                BY <4>3
            <4> QED
                BY <4>2, <4>4 DEF Endings
        <3> QED
            BY <3>1, <3>2
    <2>2. \A doc \in sealed : doc.digest = compute_payload_digest(doc)
        BY DEF FlowInv
    <2>3. DerivationTypeOK
        BY <2>1, <2>2 DEF DerivationTypeOK, FlowInv
    <2>4. Accepted => document.derived \subseteq {Problem(<<>>, <<>>), Reconstructed(document)}
        BY DEF Accepted, FlowInv, verify_snapshot_doc, ClaimHolds
    <2>5. ~altered => generated.problems \subseteq {Reconstructed(document)}
        <3>1. CASE generated = NotRun
            BY <3>1 DEF NotRun
        <3>2. CASE generated # NotRun
            BY <3>2, DerivedIs, ProducedIs
        <3> QED
            BY <3>1, <3>2
    <2> QED
        BY <2>3, <2>4, <2>5 DEF OneProblem
<1> QED
    BY <1>1, FlowInvariant, PTL

(***************************************************************************)
(* Under the digest of the document that was sealed no other evidence is   *)
(* accepted.                                                               *)
(***************************************************************************)
THEOREM TamperIsEvident == DerivationSpec => []TamperEvident
<1>1. FlowInv => TamperEvident
    <2> SUFFICES ASSUME FlowInv, NEW original \in sealed, Accepted,
                        document.digest = original.digest
                 PROVE  EvidenceOf(document) = EvidenceOf(original)
        BY DEF TamperEvident
    <2>1. original.digest = compute_payload_digest(original)
        BY DEF FlowInv
    <2>2. document.digest = compute_payload_digest(document)
        BY DEF Accepted, FlowInv, verify_snapshot_doc
    <2>3. compute_payload_digest(document) = compute_payload_digest(original)
        BY <2>1, <2>2
    <2> QED
        BY <2>3 DEF compute_payload_digest, EvidenceOf
<1> QED
    BY <1>1, FlowInvariant, PTL

\* What the verifier converts are fractions.
LEMMA Converted ==
    ASSUME NEW t \in Text, NEW p \in 0..MaxPlaces
    PROVE  to_exact_rational_independent(t, p) \in Fractions
<1>1. Independent(t, p) \in Int
    BY RoutesNearest
<1>2. 10^p \in Int \ {0}
    BY PowersOfTen
<1> QED
    BY <1>1, <1>2, FractionIs DEF to_exact_rational_independent

\* What the verifier reconstructs for an edge is a fraction.
LEMMA ResidueExact ==
    ASSUME NEW doc, LegalDocument(doc), ReferencesHold(doc), NEW n \in DOMAIN doc.edges,
           EdgeHolds(doc, doc.edges[n])
    PROVE  Residue(doc, doc.edges[n]) \in Fractions
<1> DEFINE e == doc.edges[n]
<1>1. doc.position \in 0..MaxPlaces
    BY DEF EdgeHolds, Convertible, LegalDocument
<1>2. e.discrepancy \in Text
    BY EndsOf DEF EdgeHolds, Convertible, Decimals
<1>3. Residue(doc, e) = to_exact_rational_independent(e.discrepancy, doc.position)
    BY DEF EdgeHolds
<1> QED
    BY <1>1, <1>2, <1>3, Converted

\* A rational that does not parse is too long, if it is one at all.
LEMMA ParsesUnlessLong ==
    ASSUME NEW x \in Fractions, chars(x) <= MAX_RATIONAL_CHARS
    PROVE  parse_rational(x)
BY DEF parse_rational, Fractions, IsFraction

\* Every entry of what is reconstructed is a fraction.
LEMMA ReconstructedExact ==
    ASSUME NEW doc, LegalDocument(doc), ReferencesHold(doc),
           \A n \in DOMAIN doc.edges : EdgeHolds(doc, doc.edges[n])
    PROVE  ClaimedRationals(Reconstructed(doc)) \subseteq Fractions
<1> DEFINE p == Reconstructed(doc)
<1>1. /\ DOMAIN p.r = DOMAIN doc.edges /\ DOMAIN p.D = DOMAIN doc.edges
      /\ \A k \in DOMAIN doc.edges : /\ p.r[k] = Residue(doc, doc.edges[k])
                                     /\ p.D[k] = Row(doc, doc.edges[k])
    BY DEF Reconstructed, Problem
<1>2. \A k \in DOMAIN p.r : p.r[k] \in Fractions
    BY <1>1, ResidueExact
<1>3. \A e : \A c \in DOMAIN Row(doc, e) : Row(doc, e)[c] \in Fractions
    BY MinusOneIs, ZeroOne DEF Row, MinusOne
<1>4. \A k \in DOMAIN p.D : \A c \in DOMAIN p.D[k] : p.D[k][c] \in Fractions
    BY <1>1, <1>3
<1> HIDE DEF p
<1> QED
    BY <1>2, <1>4 DEF ClaimedRationals, p

(***************************************************************************)
(* The generator and the verifier let the same documents through, up to    *)
(* what only the verifier looks at (limits on the six lists and on the     *)
(* claimed rationals, timestamps, unused tracks) and what stops only the   *)
(* parser or the generator (recursion, the types of the policy, precision) *)
(* with its own error. It rests on the two roundings being one function.   *)
(***************************************************************************)
THEOREM GatesAlwaysAgree == DerivationSpec => []GatesAgree
<1>1. FlowInv => GatesAgree
    <2> SUFFICES ASSUME FlowInv PROVE GatesAgree
        OBVIOUS
    <2>1. ASSUME verdict = "reject", ~altered, generated.outcome = "ok"
          PROVE  \/ ~WithinLimits(document) \/ ~document.stamped \/ ~AllScalar(document)
                 \/ ClaimTooLong
        <3>1. generated # NotRun /\ LegalDocument(document)
            <4>1. NotRun.outcome = "not run"
                BY DEF NotRun
            <4> QED
                BY <2>1, <4>1, DerivedIs
        <3>2. generated = Produced(document)
            BY <2>1, <3>1, DerivedIs
        <3>3. /\ Structured(document) /\ document.complete
              /\ \A n \in DOMAIN document.edges : EdgeHolds(document, document.edges[n])
              /\ generated.problems = {Reconstructed(document)}
            BY <2>1, <3>1, <3>2, ProducedIs
        <3>4. sealed # {}
            BY <2>1 DEF FlowInv
        <3>5. /\ document.derived = generated.problems
              /\ document.digest = compute_payload_digest(document)
            BY <2>1, <3>4 DEF FlowInv
        <3>6. ASSUME ~ClaimTooLong PROVE ClaimHolds(document)
            <4>1. ClaimedRationals(Reconstructed(document)) \subseteq Fractions
                BY <3>1, <3>3, ReconstructedExact DEF Structured, ListsHold
            <4>2. document.derived = {Reconstructed(document)}
                BY <3>3, <3>5
            <4>3. ASSUME NEW x \in ClaimedRationals(Reconstructed(document))
                  PROVE  parse_rational(x)
                <5>1. chars(x) <= MAX_RATIONAL_CHARS
                    BY <3>6, <4>2 DEF ClaimTooLong
                <5> QED
                    BY <4>1, <5>1, ParsesUnlessLong
            <4> QED
                BY <4>2, <4>3 DEF ClaimHolds
        <3>7. ~verify_snapshot_doc(document)
            BY <2>1 DEF FlowInv
        <3> QED
            BY <3>3, <3>5, <3>6, <3>7 DEF verify_snapshot_doc
    <2>2. ASSUME Accepted, ~altered, generated # NotRun
          PROVE  generated.outcome \in
                   IF document.provenance.visit > MaxDepth THEN {"RecursionError"}
                   ELSE IF document.policy = "mistyped" THEN {"ValueError"}
                   ELSE {"ok", "InvalidOperation"}
        <3>1. generated = Produced(document) /\ LegalDocument(document)
            BY <2>2, DerivedIs
        <3>2. verify_snapshot_doc(document)
            BY <2>2 DEF Accepted, FlowInv
        <3>3. /\ Structured(document) /\ AllScalar(document) /\ document.complete
              /\ \A n \in DOMAIN document.edges : EdgeHolds(document, document.edges[n])
            BY <3>2 DEF verify_snapshot_doc
        <3> QED
            BY <2>2, <3>1, <3>3, ProducedIs
    <2> QED
        BY <2>1, <2>2 DEF GatesAgree
<1> QED
    BY <1>1, FlowInvariant, PTL

----------------------------------------------------------------------------
(* What the residues mean.                                                 *)

\* A row takes the source's entry from the target's.
LEMMA RowProducts ==
    ASSUME NEW doc, LegalDocument(doc), UniqueIds(doc.tracks), ReferencesHold(doc),
           NEW n \in DOMAIN doc.edges, NEW v,
           \A c \in DOMAIN doc.tracks : v[c] \in Fractions
    PROVE  \E i, j \in DOMAIN doc.tracks :
              /\ Source(doc, doc.edges[n]) = doc.tracks[i]
              /\ Target(doc, doc.edges[n]) = doc.tracks[j]
              /\ SumProducts(Row(doc, doc.edges[n]), v, Len(doc.tracks)) = Minus(v[j], v[i])
<1> DEFINE e == doc.edges[n]
           m == Len(doc.tracks)
           row == Row(doc, e)
<1>1. m \in Nat /\ DOMAIN doc.tracks = 1..m
    BY DEF LegalDocument, EvidenceLists, IsList
<1>2. PICK i \in 1..m : Source(doc, e) = doc.tracks[i]
    BY <1>1, EndsOf
<1>3. PICK j \in 1..m : Target(doc, e) = doc.tracks[j]
    BY <1>1, EndsOf
<1>4. doc.tracks[i].id = e.source /\ doc.tracks[j].id = e.target /\ i # j
    BY <1>2, <1>3, EndsOf
<1>5. \A c \in 1..m : /\ doc.tracks[c].id = e.source <=> c = i
                      /\ doc.tracks[c].id = e.target <=> c = j
    BY <1>1, <1>4 DEF UniqueIds
<1>6. \A c \in 1..m : row[c] = IF c = i THEN MinusOne ELSE IF c = j THEN One ELSE Zero
    BY <1>1, <1>5 DEF Row, MinusOne
<1> HIDE DEF row, m
<1>7. Times(MinusOne, One) = MinusOne /\ Times(MinusOne, Zero) = Zero
      /\ Plus(Zero, MinusOne) = MinusOne /\ Plus(One, Zero) = One /\ Plus(Zero, Zero) = Zero
    BY MinusOneIs, ZeroOne, TimesOne, TimesZero, TimesCommutes, PlusZero, PlusCommutes
<1>8. \A c \in 1..m : /\ Units(j, m)[c] \in Fractions /\ Units(i, m)[c] \in Fractions
                      /\ v[c] \in Fractions
                      /\ row[c] = Plus(Units(j, m)[c], Times(MinusOne, Units(i, m)[c]))
    BY <1>1, <1>4, <1>6, <1>7, ZeroOne DEF Units
<1>9. SumProducts(row, v, m)
        = Plus(SumProducts(Units(j, m), v, m), Times(MinusOne, SumProducts(Units(i, m), v, m)))
    BY <1>1, <1>8, MinusOneIs, ProductsMore
<1>10. Vector(v, m)
    BY <1>8 DEF Vector
<1>11. SumProducts(Units(j, m), v, m) = v[j] /\ SumProducts(Units(i, m), v, m) = v[i]
    BY <1>1, <1>10, UnitProducts
<1>12. Minus(v[j], v[i]) = Plus(v[j], Times(MinusOne, v[i]))
    BY <1>8, MinusIs
<1> QED
    BY <1>1, <1>2, <1>3, <1>9, <1>11, <1>12 DEF row, m

\* Of two sums the first parts go when their difference is taken away.
LEMMA DifferenceOfSums ==
    ASSUME NEW a \in Fractions, NEW b \in Fractions, NEW c \in Fractions, NEW d \in Fractions
    PROVE  Minus(Minus(Plus(a, b), Plus(c, d)), Minus(a, c)) = Minus(b, d)
<1> DEFINE y == Minus(a, c)
           z == Minus(b, d)
           q == Plus(d, c)
<1>1. y \in Fractions /\ z \in Fractions /\ q \in Fractions /\ Plus(z, y) \in Fractions
    BY FractionsClosed
<1>2. Plus(Plus(z, y), q) = Plus(Plus(z, d), Plus(y, c))
    BY <1>1, PlusExchange
<1>3. Plus(z, d) = b /\ Plus(y, c) = a
    BY PlusMinus
<1>4. Plus(b, a) = Plus(a, b) /\ q = Plus(c, d)
    BY PlusCommutes
<1> HIDE DEF y, z, q
<1>5. Minus(Plus(a, b), q) = Plus(z, y)
    BY <1>1, <1>2, <1>3, <1>4, MinusPlus
<1>6. Minus(Plus(z, y), y) = z
    BY <1>1, MinusPlus
<1> QED
    BY <1>4, <1>5, <1>6 DEF y, z

\* Edge by edge.
LEMMA OffsetsLeft ==
    ASSUME NEW doc, LegalDocument(doc), verify_snapshot_doc(doc),
           \A c \in DOMAIN doc.tracks : doc.tracks[c].state[1] # NotDecimal,
           NEW k \in DOMAIN doc.edges
    PROVE  LET p    == Reconstructed(doc)
               x    == [c \in DOMAIN doc.tracks |->
                          to_exact_rational_independent(doc.tracks[c].state[1], doc.position)]
               ones == [c \in DOMAIN doc.tracks |-> One]
               e    == doc.edges[k]
               o(t) == to_exact_rational_independent(Offset(doc, e, t), doc.transform)
           IN /\ mat_vec(p.D, ones)[k] = Zero
              /\ Minus(p.r[k], mat_vec(p.D, x)[k]) = Minus(o(e.target), o(e.source))
<1> DEFINE e == doc.edges[k]
           n == Len(doc.tracks)
           m == Len(doc.edges)
           p == Reconstructed(doc)
           value(c) == to_exact_rational_independent(doc.tracks[c].state[1], doc.position)
           x == [c \in DOMAIN doc.tracks |-> value(c)]
           ones == [c \in DOMAIN doc.tracks |-> One]
           o(t) == to_exact_rational_independent(Offset(doc, e, t), doc.transform)
           D == [l \in DOMAIN doc.edges |-> Row(doc, doc.edges[l])]
<1>1. /\ ReferencesHold(doc) /\ UniqueIds(doc.tracks) /\ AllScalar(doc)
      /\ EdgeHolds(doc, e)
    BY DEF verify_snapshot_doc, Structured, ListsHold, EvidenceLists
<1>2. /\ n \in Nat /\ DOMAIN doc.tracks = 1..n
      /\ m \in Nat /\ DOMAIN doc.edges = 1..m
    BY DEF LegalDocument, EvidenceLists, IsList
<1>3. doc.position \in 0..MaxPlaces /\ doc.transform \in 0..MaxPlaces
    BY <1>1 DEF EdgeHolds, Convertible, LegalDocument
<1>4. \A c \in DOMAIN doc.tracks : State(doc.tracks[c]) = doc.tracks[c].state[1]
    BY <1>1 DEF AllScalar, State
<1>5. \A c \in DOMAIN doc.tracks : value(c) \in Fractions
    <2> SUFFICES ASSUME NEW c \in DOMAIN doc.tracks PROVE value(c) \in Fractions
        OBVIOUS
    <2>1. doc.tracks[c].state[1] \in Text
        BY <1>4, StateIs DEF Decimals
    <2> QED
        BY <1>3, <2>1, Converted
<1>6. Offset(doc, e, e.source) \in Text /\ Offset(doc, e, e.target) \in Text
    BY <1>1, EndsOf DEF EdgeHolds, Convertible, Decimals
<1>7. o(e.source) \in Fractions /\ o(e.target) \in Fractions
    BY <1>3, <1>6, Converted
<1>8. p.D = D /\ D[k] = Row(doc, e) /\ p.r[k] = Residue(doc, e)
    BY DEF Reconstructed, Problem
<1>9. Len(D) = m
    <2>1. D \in [1..m -> {Row(doc, doc.edges[l]) : l \in 1..m}]
        BY <1>2
    <2> HIDE DEF D
    <2> QED
        BY <1>2, <2>1
<1>10. /\ x \in [1..n -> Fractions] /\ Len(x) = n
       /\ ones \in [1..n -> Fractions] /\ Len(ones) = n
    <2>1. x \in [1..n -> Fractions] /\ ones \in [1..n -> Fractions]
        BY <1>2, <1>5, ZeroOne
    <2> HIDE DEF x, ones
    <2> QED
        BY <1>2, <2>1
<1>11. /\ mat_vec(D, x)[k] = SumProducts(Row(doc, e), x, n)
       /\ mat_vec(D, ones)[k] = SumProducts(Row(doc, e), ones, n)
    <2>1. D[k] = Row(doc, e) /\ k \in 1..Len(D)
        BY <1>2, <1>8, <1>9
    <2> HIDE DEF D, x, ones, m
    <2> QED
        BY <1>10, <2>1 DEF mat_vec
<1>12. mat_vec(D, ones)[k] = Zero
    <2>1. \A c \in DOMAIN doc.tracks : ones[c] = One /\ ones[c] \in Fractions
        BY ZeroOne
    <2> HIDE DEF ones
    <2>2. \E i, j \in DOMAIN doc.tracks :
             SumProducts(Row(doc, e), ones, n) = Minus(ones[j], ones[i])
        BY <1>1, <2>1, RowProducts
    <2>3. Minus(One, One) = Zero
        BY ZeroOne, MinusSelf
    <2> QED
        BY <1>11, <2>1, <2>2, <2>3
<1>13. Minus(p.r[k], mat_vec(D, x)[k]) = Minus(o(e.target), o(e.source))
    <2>1. \A c \in DOMAIN doc.tracks : x[c] = value(c) /\ x[c] \in Fractions
        BY <1>5
    <2>2. PICK i, j \in DOMAIN doc.tracks :
             /\ Source(doc, e) = doc.tracks[i] /\ Target(doc, e) = doc.tracks[j]
             /\ SumProducts(Row(doc, e), x, n) = Minus(x[j], x[i])
        <3> HIDE DEF x
        <3> QED
            BY <1>1, <2>1, RowProducts
    <2>3. /\ to_exact_rational_independent(State(Source(doc, e)), doc.position) = x[i]
          /\ to_exact_rational_independent(State(Target(doc, e)), doc.position) = x[j]
        BY <1>4, <2>1, <2>2
    <2>4. Source(doc, e).id = e.source /\ Target(doc, e).id = e.target
        BY <1>1, EndsOf
    <2>5. Residue(doc, e) = Minus(Plus(x[j], o(e.target)), Plus(x[i], o(e.source)))
        <3> HIDE DEF x
        <3> QED
            BY <2>3, <2>4 DEF Residue
    <2> HIDE DEF x, o, p, D
    <2>6. Minus(Residue(doc, e), Minus(x[j], x[i])) = Minus(o(e.target), o(e.source))
        BY <1>7, <2>1, <2>5, DifferenceOfSums
    <2> QED
        BY <1>8, <1>11, <2>2, <2>6
<1> QED
    BY <1>8, <1>12, <1>13

(***************************************************************************)
(* For an accepted document of any size the rounded states repair the      *)
(* problem up to the declared offsets, and a common shift of all tracks    *)
(* changes nothing.                                                        *)
(***************************************************************************)
THEOREM OffsetsObstruct == DerivationSpec => []OnlyOffsetsObstruct
<1>1. FlowInv => OnlyOffsetsObstruct
    <2> SUFFICES ASSUME FlowInv, Accepted,
                        \A c \in DOMAIN document.tracks :
                            document.tracks[c].state[1] # NotDecimal
                 PROVE  LET p    == Reconstructed(document)
                            x    == [c \in DOMAIN document.tracks |->
                                       to_exact_rational_independent(document.tracks[c].state[1], document.position)]
                            ones == [c \in DOMAIN document.tracks |-> One]
                            o(e, t) == to_exact_rational_independent(Offset(document, e, t), document.transform)
                        IN /\ is_zero(mat_vec(p.D, ones))
                           /\ \A k \in DOMAIN document.edges :
                                LET e == document.edges[k]
                                IN Minus(p.r[k], mat_vec(p.D, x)[k]) = Minus(o(e, e.target), o(e, e.source))
        BY DEF OnlyOffsetsObstruct
    <2> DEFINE p == Reconstructed(document)
               m == Len(document.edges)
               ones == [c \in DOMAIN document.tracks |-> One]
    <2>1. LegalDocument(document) /\ verify_snapshot_doc(document)
        BY DerivedIs DEF Accepted, FlowInv
    <2>2. m \in Nat /\ DOMAIN document.edges = 1..m
        BY <2>1 DEF LegalDocument, EvidenceLists, IsList
    <2>3. p.D = [l \in 1..m |-> Row(document, document.edges[l])]
        BY <2>2 DEF Reconstructed, Problem
    <2>4. Len(p.D) = m
        <3>1. p.D \in [1..m -> {Row(document, document.edges[l]) : l \in 1..m}]
            BY <2>3
        <3> HIDE DEF p, m
        <3> QED
            BY <2>2, <3>1
    <2>5. \A k \in 1..m : mat_vec(p.D, ones)[k] = Zero
        BY <2>1, <2>2, OffsetsLeft
    <2>6. is_zero(mat_vec(p.D, ones))
        <3>1. mat_vec(p.D, ones) = [i \in 1..Len(p.D) |-> SumProducts(p.D[i], ones, Len(ones))]
            BY DEF mat_vec
        <3> DEFINE w == mat_vec(p.D, ones)
        <3>2. w \in [1..m -> {w[i] : i \in 1..m}]
            BY <2>4, <3>1
        <3> HIDE DEF w, m
        <3>3. Len(w) = m
            BY <2>2, <3>2
        <3> QED
            BY <2>5, <3>3 DEF w, is_zero
    <2> QED
        BY <2>1, <2>6, OffsetsLeft
<1> QED
    BY <1>1, FlowInvariant, PTL

----------------------------------------------------------------------------
(* What the Stone Soup emitters emit.                                      *)

\* A document as an emitter built it, whatever it has come to claim.
SnapshotOf(doc, tids, states, p, comparisons) ==
    /\ doc.closed = TRUE /\ doc.stamped = TRUE /\ doc.complete = TRUE /\ doc.supported = TRUE
    /\ doc.position = p /\ doc.transform = p
    /\ doc.provenance.kind # "malformed"
    /\ doc.provenance.records <= MAX_SNAPSHOT_LIST_LENGTH
    /\ doc.sources = [k \in DOMAIN tids |-> [id |-> tids[k]]]
    /\ doc.detections = [k \in DOMAIN tids |-> [id |-> tids[k], source |-> tids[k]]]
    /\ doc.tracks = [k \in DOMAIN tids |->
                       [id |-> tids[k], state |-> <<states[k]>>, detections |-> {tids[k]}]]
    /\ doc.transformations = comparisons.transformations
    /\ doc.edges = comparisons.edges

\* What a document says, claimed or not.
LEMMA BareFields ==
    ASSUME NEW doc, DOMAIN doc = Fields, NEW base,
           [doc EXCEPT !.derived = {}, !.digest = NoDigest] = base
    PROVE  /\ doc.closed = base.closed /\ doc.stamped = base.stamped
           /\ doc.complete = base.complete /\ doc.supported = base.supported
           /\ doc.position = base.position /\ doc.transform = base.transform
           /\ doc.provenance = base.provenance
           /\ doc.sources = base.sources /\ doc.detections = base.detections
           /\ doc.tracks = base.tracks /\ doc.edges = base.edges
           /\ doc.transformations = base.transformations
<1>1. SameEvidence(base, doc)
    BY DEF SameEvidence, Fields, Annotations
<1> QED
    BY <1>1, SameFields

LEMMA PlainSnapshot ==
    ASSUME NEW doc, DOMAIN doc = Fields, NEW tids, NEW states, NEW p, NEW comparisons,
           [doc EXCEPT !.derived = {}, !.digest = NoDigest]
             = Snapshot(tids, states, p, comparisons)
    PROVE  SnapshotOf(doc, tids, states, p, comparisons)
<1> DEFINE base == Snapshot(tids, states, p, comparisons)
<1>1. SnapshotOf(base, tids, states, p, comparisons)
    BY EmitterAssumption DEF SnapshotOf, Snapshot, NoGraph
<1>2. [doc EXCEPT !.derived = {}, !.digest = NoDigest] = base
    OBVIOUS
<1> HIDE DEF base
<1>3. /\ doc.closed = base.closed /\ doc.stamped = base.stamped
      /\ doc.complete = base.complete /\ doc.supported = base.supported
      /\ doc.position = base.position /\ doc.transform = base.transform
      /\ doc.provenance = base.provenance
      /\ doc.sources = base.sources /\ doc.detections = base.detections
      /\ doc.tracks = base.tracks /\ doc.edges = base.edges
      /\ doc.transformations = base.transformations
    BY <1>2, BareFields
<1> QED
    BY <1>1, <1>3 DEF SnapshotOf

LEMMA SnapshotWith ==
    ASSUME NEW doc, DOMAIN doc = Fields, NEW tids, NEW states, NEW p, NEW comparisons,
           NEW nodes \in EmittedGraphs, NEW policy,
           [doc EXCEPT !.derived = {}, !.digest = NoDigest]
             = With(Snapshot(tids, states, p, comparisons), nodes, policy)
    PROVE  SnapshotOf(doc, tids, states, p, comparisons)
<1> DEFINE base == Snapshot(tids, states, p, comparisons)
           with == With(base, nodes, policy)
           found == [kind |-> IF Admitted(nodes, policy) THEN "disjoint" ELSE "shared",
                     records |-> Len(nodes), visit |-> 1, walk |-> Nesting(nodes, policy)]
<1>1. SnapshotOf(base, tids, states, p, comparisons) /\ DOMAIN base = Fields
    BY EmitterAssumption DEF SnapshotOf, Snapshot, Fields, NoGraph
<1>2. /\ with = [base EXCEPT !.provenance = found, !.policy = "typed"]
      /\ found.kind # "malformed" /\ found.records <= MAX_SNAPSHOT_LIST_LENGTH
    BY EmitterAssumption DEF With
<1>4. [doc EXCEPT !.derived = {}, !.digest = NoDigest] = with
    OBVIOUS
<1> HIDE DEF base, with, found
<1>3. SnapshotOf(with, tids, states, p, comparisons)
    BY <1>1, <1>2 DEF SnapshotOf, Fields
<1>5. /\ doc.closed = with.closed /\ doc.stamped = with.stamped
      /\ doc.complete = with.complete /\ doc.supported = with.supported
      /\ doc.position = with.position /\ doc.transform = with.transform
      /\ doc.provenance = with.provenance
      /\ doc.sources = with.sources /\ doc.detections = with.detections
      /\ doc.tracks = with.tracks /\ doc.edges = with.edges
      /\ doc.transformations = with.transformations
    BY <1>4, BareFields
<1> QED
    BY <1>3, <1>5 DEF SnapshotOf

\* Two transformations for each edge, the source's and then the target's.
Compares(comparisons, tids, m) ==
    /\ DOMAIN comparisons.edges = 1..m
    /\ DOMAIN comparisons.transformations = 1..(2 * m)
    /\ \A k \in 1..(2 * m) : comparisons.transformations[k].id = k
    /\ \A k, l \in 1..m : comparisons.edges[k].id = comparisons.edges[l].id => k = l
    /\ \A k \in 1..m :
         LET e == comparisons.edges[k]
             first  == comparisons.transformations[2 * k - 1]
             second == comparisons.transformations[2 * k]
         IN /\ e.source # e.target
            /\ \E c \in DOMAIN tids : e.source = tids[c]
            /\ \E c \in DOMAIN tids : e.target = tids[c]
            /\ first.edge = e.id /\ first.track = e.source
            /\ second.edge = e.id /\ second.track = e.target

\* What is used of a document that stands for m comparisons.
Drawn(doc, comparisons, tids, m) ==
    /\ doc.edges = comparisons.edges /\ doc.transformations = comparisons.transformations
    /\ Compares(comparisons, tids, m)

\* The transformations of comparison k of m.
PairOf(k, m, first, second) ==
    m \in Nat /\ k \in 1..m /\ first = 2 * k - 1 /\ second = 2 * k

\* Each end of a comparison has the one transformation built for it.
LEMMA Paired ==
    ASSUME NEW doc, NEW tids, NEW comparisons, NEW k, NEW m, NEW first, NEW second,
           Drawn(doc, comparisons, tids, m), PairOf(k, m, first, second)
    PROVE  /\ Declared(doc, doc.edges[k].id, doc.edges[k].source) = {first}
           /\ Declared(doc, doc.edges[k].id, doc.edges[k].target) = {second}
           /\ Offset(doc, doc.edges[k], doc.edges[k].source) = doc.transformations[first].offset
           /\ Offset(doc, doc.edges[k], doc.edges[k].target) = doc.transformations[second].offset
<1> DEFINE e == doc.edges[k]
           x == doc.transformations
<1>0. m \in Nat /\ k \in 1..m /\ first = 2 * k - 1 /\ second = 2 * k
    BY DEF PairOf
<1>1. /\ doc.edges = comparisons.edges /\ x = comparisons.transformations
      /\ DOMAIN x = 1..(2 * m)
    BY DEF Drawn, Compares
<1>2. \A l \in 1..m : /\ x[2 * l - 1].edge = doc.edges[l].id /\ x[2 * l - 1].track = doc.edges[l].source
                      /\ x[2 * l].edge = doc.edges[l].id /\ x[2 * l].track = doc.edges[l].target
    BY <1>0, <1>1 DEF Drawn, Compares
<1>3. e.source # e.target /\ k \in 1..m
      /\ \A l \in 1..m : doc.edges[l].id = e.id => l = k
    BY <1>0, <1>1 DEF Drawn, Compares
<1>4. \A n \in 1..(2 * m) : \E l \in 1..m : n = 2 * l - 1 \/ n = 2 * l
    <2> SUFFICES ASSUME NEW n \in 1..(2 * m) PROVE \E l \in 1..m : n = 2 * l - 1 \/ n = 2 * l
        OBVIOUS
    <2>1. (n + 1) \div 2 \in 1..m /\ (n = 2 * ((n + 1) \div 2) - 1 \/ n = 2 * ((n + 1) \div 2))
        BY <1>0
    <2> QED
        BY <2>1
<1>5. 2 * k - 1 \in 1..(2 * m) /\ 2 * k \in 1..(2 * m) /\ 2 * k - 1 # 2 * k
    BY <1>0
<1> HIDE DEF e, x
<1>6. \A n \in 1..(2 * m) : /\ x[n].edge = e.id /\ x[n].track = e.source <=> n = 2 * k - 1
                            /\ x[n].edge = e.id /\ x[n].track = e.target <=> n = 2 * k
    <2> SUFFICES ASSUME NEW n \in 1..(2 * m)
                 PROVE  /\ x[n].edge = e.id /\ x[n].track = e.source <=> n = 2 * k - 1
                        /\ x[n].edge = e.id /\ x[n].track = e.target <=> n = 2 * k
        OBVIOUS
    <2>1. PICK l \in 1..m : n = 2 * l - 1 \/ n = 2 * l
        BY <1>0, <1>4
    <2>2. x[n].edge = e.id => l = k
        BY <1>2, <1>3, <2>1
    <2>3. /\ x[2 * k - 1].edge = e.id /\ x[2 * k - 1].track = e.source
          /\ x[2 * k].edge = e.id /\ x[2 * k].track = e.target
        BY <1>0, <1>2 DEF e
    <2> QED
        BY <1>0, <1>3, <2>1, <2>2, <2>3
<1>7. /\ Declared(doc, e.id, e.source) = {2 * k - 1}
      /\ Declared(doc, e.id, e.target) = {2 * k}
    BY <1>0, <1>1, <1>5, <1>6 DEF Declared, x
<1>8. /\ Declared(doc, e.id, e.source) = {first}
      /\ Declared(doc, e.id, e.target) = {second}
    BY <1>0, <1>7
<1> QED
    BY <1>0, <1>8 DEF Offset, e, x

\* A list with a known domain has a known length.
LEMMA ListLength ==
    ASSUME NEW s, IsList(s), NEW k \in Nat, DOMAIN s = 1..k
    PROVE  Len(s) = k
<1> DEFINE l == Len(s)
<1>1. l \in Nat /\ 1..l = 1..k
    BY DEF IsList
<1> HIDE DEF l
<1>2. l <= k
    <2>1. l > 0 => l \in 1..k
        BY <1>1
    <2> QED
        BY <1>1, <2>1
<1>3. k <= l
    <2>1. k > 0 => k \in 1..l
        BY <1>1
    <2> QED
        BY <1>1, <2>1
<1>4. l = k
    BY <1>1, <1>2, <1>3
<1> QED
    BY <1>4 DEF l

\* An emitted document of n tracks and m comparisons.
Stands(doc, tids, states, p, comparisons, n, m) ==
    /\ LegalDocument(doc) /\ n \in Nat /\ m \in Nat /\ n <= 8 /\ m <= 4
    /\ DOMAIN tids = 1..n /\ \A k, l \in 1..n : tids[k] = tids[l] => k = l
    /\ SnapshotOf(doc, tids, states, p, comparisons) /\ Compares(comparisons, tids, m)

\* What the verifier asks of a document's structure.
LEMMA SnapshotStands ==
    ASSUME NEW doc, NEW tids, NEW states, NEW p, NEW comparisons, NEW n, NEW m,
           Stands(doc, tids, states, p, comparisons, n, m)
    PROVE  /\ WithinLimits(doc) /\ Structured(doc) /\ AllScalar(doc)
           /\ UniqueIds(doc.tracks) /\ ReferencesHold(doc)
           /\ Len(doc.tracks) = n /\ Len(doc.edges) = m
<1>0. /\ LegalDocument(doc) /\ n \in Nat /\ m \in Nat /\ n <= 8 /\ m <= 4 /\ DOMAIN tids = 1..n
      /\ \A k, l \in 1..n : tids[k] = tids[l] => k = l
      /\ SnapshotOf(doc, tids, states, p, comparisons) /\ Compares(comparisons, tids, m)
    BY DEF Stands
<1>1. /\ DOMAIN doc.sources = 1..n /\ DOMAIN doc.detections = 1..n /\ DOMAIN doc.tracks = 1..n
      /\ DOMAIN doc.edges = 1..m /\ DOMAIN doc.transformations = 1..(2 * m)
    BY <1>0 DEF SnapshotOf, Compares
<1>2. /\ IsList(doc.sources) /\ IsList(doc.detections) /\ IsList(doc.tracks)
      /\ IsList(doc.edges) /\ IsList(doc.transformations)
    BY <1>0 DEF LegalDocument, EvidenceLists
<1>3. 2 * m \in Nat
    BY <1>0
<1>4. /\ Len(doc.sources) = n /\ Len(doc.detections) = n /\ Len(doc.tracks) = n
      /\ Len(doc.edges) = m /\ Len(doc.transformations) = 2 * m
    BY <1>0, <1>1, <1>2, <1>3, ListLength
<1>5. WithinLimits(doc)
    BY <1>0, <1>4, EmitterAssumption DEF WithinLimits, EvidenceLists, SnapshotOf
<1>6. \A k \in 1..n :
         /\ doc.sources[k].id = tids[k]
         /\ doc.detections[k].id = tids[k] /\ doc.detections[k].source = tids[k]
         /\ doc.tracks[k].id = tids[k] /\ doc.tracks[k].state = <<states[k]>>
         /\ doc.tracks[k].detections = {tids[k]}
    BY <1>0 DEF SnapshotOf
<1>7. UniqueIds(doc.sources) /\ UniqueIds(doc.detections) /\ UniqueIds(doc.tracks)
    BY <1>0, <1>1, <1>6 DEF UniqueIds
<1>8. UniqueIds(doc.edges) /\ UniqueIds(doc.transformations)
    <2>1. /\ \A k, l \in 1..m : doc.edges[k].id = doc.edges[l].id => k = l
          /\ \A k \in 1..(2 * m) : doc.transformations[k].id = k
        <3>1. doc.edges = comparisons.edges /\ doc.transformations = comparisons.transformations
            BY <1>0 DEF SnapshotOf
        <3> QED
            BY <1>0, <3>1 DEF Compares
    <2> QED
        BY <1>0, <1>1, <2>1 DEF UniqueIds
<1>9. Closed(doc) /\ doc.provenance.kind # "malformed"
    <2>1. doc.closed /\ doc.provenance.kind # "malformed"
        BY <1>0 DEF SnapshotOf
    <2>2. \A k \in DOMAIN doc.tracks : doc.tracks[k].detections # {}
        BY <1>0, <1>1, <1>6
    <2> QED
        BY <1>0, <2>1, <2>2 DEF Closed
<1>10. AllScalar(doc)
    <2>1. \A x : Len(<<x>>) = 1
        BY <1>0
    <2> QED
        BY <1>0, <1>1, <1>6, <2>1 DEF AllScalar, Scalar
<1>11. /\ Named(doc.sources) = {tids[k] : k \in 1..n}
       /\ Named(doc.detections) = {tids[k] : k \in 1..n}
       /\ Named(doc.tracks) = {tids[k] : k \in 1..n}
    BY <1>0, <1>1, <1>6 DEF Named
<1>12. /\ \A k \in DOMAIN doc.detections : doc.detections[k].source \in Named(doc.sources)
       /\ \A k \in DOMAIN doc.tracks : doc.tracks[k].detections \subseteq Named(doc.detections)
    BY <1>0, <1>1, <1>6, <1>11
<1>13. ASSUME NEW k \in 1..m
       PROVE  LET e == doc.edges[k]
                  x == doc.transformations
              IN /\ e.source \in Named(doc.tracks) /\ e.target \in Named(doc.tracks)
                 /\ e.source # e.target
                 /\ x[2 * k - 1].edge = e.id /\ x[2 * k - 1].track = e.source
                 /\ x[2 * k].edge = e.id /\ x[2 * k].track = e.target
    <2> DEFINE x == comparisons.transformations
               y == comparisons.edges
    <2>1. doc.edges = y /\ doc.transformations = x
        BY <1>0 DEF SnapshotOf
    <2>2. /\ y[k].source # y[k].target
          /\ x[2 * k - 1].edge = y[k].id /\ x[2 * k - 1].track = y[k].source
          /\ x[2 * k].edge = y[k].id /\ x[2 * k].track = y[k].target
        BY <1>0 DEF Compares
    <2>3. (\E c \in 1..n : y[k].source = tids[c]) /\ \E c \in 1..n : y[k].target = tids[c]
        BY <1>0 DEF Compares
    <2> HIDE DEF x, y
    <2> QED
        BY <1>0, <1>11, <2>1, <2>2, <2>3
<1>14. \A k \in 1..m : \A t \in {doc.edges[k].source, doc.edges[k].target} :
          \E one \in DOMAIN doc.transformations : Declared(doc, doc.edges[k].id, t) = {one}
    <2> SUFFICES ASSUME NEW k \in 1..m, NEW t \in {doc.edges[k].source, doc.edges[k].target}
                 PROVE  \E one \in 1..(2 * m) : Declared(doc, doc.edges[k].id, t) = {one}
        BY <1>0, <1>1
    <2> DEFINE first == 2 * k - 1
               second == 2 * k
    <2>1. /\ first \in 1..(2 * m) /\ first \in Int /\ first = 2 * k - 1
          /\ second \in 1..(2 * m) /\ second \in Int /\ second = 2 * k
        BY <1>0
    <2> HIDE DEF first, second
    <2>2. Drawn(doc, comparisons, tids, m) /\ PairOf(k, m, first, second)
        BY <1>0, <2>1 DEF Drawn, SnapshotOf, PairOf
    <2>3. Declared(doc, doc.edges[k].id, doc.edges[k].source) = {first}
        BY <2>2, Paired
    <2>4. Declared(doc, doc.edges[k].id, doc.edges[k].target) = {second}
        BY <2>2, Paired
    <2> QED
        BY <1>0, <2>1, <2>3, <2>4
<1>15. ASSUME NEW j \in 1..(2 * m)
       PROVE  \E k \in 1..m : /\ doc.edges[k].id = doc.transformations[j].edge
                              /\ doc.transformations[j].track \in {doc.edges[k].source, doc.edges[k].target}
    <2>1. (j + 1) \div 2 \in 1..m /\ (j = 2 * ((j + 1) \div 2) - 1 \/ j = 2 * ((j + 1) \div 2))
        BY <1>0
    <2>2. PICK k \in 1..m : j = 2 * k - 1 \/ j = 2 * k
        BY <1>0, <2>1
    <2> QED
        BY <1>0, <1>13, <2>2
<1>16. ReferencesHold(doc)
    BY <1>0, <1>1, <1>12, <1>13, <1>14, <1>15 DEF ReferencesHold
<1>17. Structured(doc)
    BY <1>0, <1>7, <1>8, <1>9, <1>16 DEF Structured, ListsHold, EvidenceLists
<1> QED
    BY <1>0, <1>4, <1>5, <1>7, <1>10, <1>16, <1>17

\* An integer as a Fraction.
Integral(n) == <<n, 1>>

LEMMA IntegralIs ==
    ASSUME NEW n \in Int
    PROVE  Integral(n) \in Fractions /\ Represents(Integral(n), n, 1)
<1> DEFINE q == Magnitude(n)
<1>1. q \in Nat
    BY DEF Magnitude
<1> HIDE DEF q
<1>2. gcd[<<q, 1>>] = gcd[<<1, 0>>]
    <2>1. q % 1 = 0
        BY <1>1
    <2> QED
        BY <1>1, <2>1, GcdRec
<1>3. gcd[<<q, 1>>] = 1
    BY <1>2, GcdRec
<1>4. <<n, 1>> \in Fractions
    BY <1>3 DEF Fractions, IsFraction, q
<1>5. Represents(<<n, 1>>, n, 1)
    BY DEF Represents
<1> QED
    BY <1>4, <1>5 DEF Integral

LEMMA IntegralSums ==
    ASSUME NEW n \in Int, NEW k \in Int
    PROVE  /\ Plus(Integral(n), Integral(k)) = Integral(n + k)
           /\ Minus(Integral(n), Integral(k)) = Integral(n - k)
<1> DEFINE a == Integral(n)
           b == Integral(k)
           c == Plus(a, b)
           d == Minus(a, b)
<1>0. n + k \in Int /\ n - k \in Int
    OBVIOUS
<1>1. a \in Fractions /\ b \in Fractions /\ Represents(a, n, 1) /\ Represents(b, k, 1)
    BY IntegralIs
<1>2. 1 \in Int \ {0}
    OBVIOUS
<1>3. /\ Integral(n + k) \in Fractions /\ Represents(Integral(n + k), n + k, 1)
      /\ Integral(n - k) \in Fractions /\ Represents(Integral(n - k), n - k, 1)
    BY <1>0, IntegralIs
<1> HIDE DEF a, b
<1>4. c \in Fractions /\ Represents(c, n * 1 + k * 1, 1 * 1)
    BY <1>1, <1>2, RepPlus
<1>5. d \in Fractions /\ Represents(d, n * 1 - k * 1, 1 * 1)
    BY <1>1, <1>2, RepMinus
<1> HIDE DEF c, d
<1>6. Represents(c, n + k, 1) /\ Represents(d, n - k, 1)
    BY <1>4, <1>5 DEF Represents
<1>7. c = Integral(n + k) /\ d = Integral(n - k)
    <2>1. n + k \in Int /\ n - k \in Int /\ (n + k) * 1 = (n + k) * 1 /\ (n - k) * 1 = (n - k) * 1
        OBVIOUS
    <2> QED
        BY <1>2, <1>3, <1>4, <1>5, <1>6, <2>1, RepEqual
<1> QED
    BY <1>7 DEF a, b, c, d

\* The text of an integer is converted to that integer.
LEMMA DecimalConverts ==
    ASSUME NEW n \in Int, Decimal(n) \in Text, NEW p \in 0..MaxPlaces
    PROVE  to_exact_rational_independent(Decimal(n), p) = Integral(n)
<1> DEFINE t == Decimal(n)
           e == 10^p
           one == 10^0
           k == Independent(t, p)
           a == n * e
<1>1. t.fraction = 0 /\ 0 \in 0..MaxPlaces /\ Signed(t, t.digits) = n
    <2>1. t.fraction = 0 /\ t.digits = Magnitude(n)
        BY DEF Decimal
    <2>2. CASE n < 0
        <3>1. t.negative /\ t.digits = -n
            BY <2>1, <2>2 DEF Decimal, Magnitude
        <3> HIDE DEF t
        <3>2. Signed(t, t.digits) = n
            BY <3>1 DEF Signed
        <3> QED
            BY <2>1, <3>2, CanonAssumption
    <2>3. CASE ~(n < 0)
        <3>1. ~t.negative /\ t.digits = n
            BY <2>1, <2>3 DEF Decimal, Magnitude
        <3> HIDE DEF t
        <3>2. Signed(t, t.digits) = n
            BY <3>1 DEF Signed
        <3> QED
            BY <2>1, <3>2, CanonAssumption
    <2> QED
        BY <2>2, <2>3
<1>2. e \in Nat \ {0} /\ one \in Nat \ {0}
    BY <1>1, PowersOfTen
<1>3. one = 1
    <2>1. one = one * one
        BY <1>1, PowersOfTen
    <2> HIDE DEF one
    <2> QED
        BY <1>2, <2>1, Z3
<1>4. /\ Signed(t, t.digits) * 10^p \in Int
      /\ k \in Int
      /\ Nearest(Signed(t, t.digits) * 10^p, 10^t.fraction, k)
    BY RoutesNearest
<1>5. k \in Int /\ Nearest(a, 1, k)
    <2>1. 10^t.fraction = 1
        BY <1>1, <1>3
    <2> QED
        BY <1>1, <1>4, <2>1
<1> HIDE DEF e, k, t, one
<1>6. a \in Int /\ 1 \in Positive
    BY <1>2 DEF Positive
<1>7. Nearest(a, 1, a)
    BY <1>6 DEF Nearest
<1>8. k = a
    <2> HIDE DEF a
    <2> DEFINE u == 1
    <2>1. u \in Positive /\ Nearest(a, u, k) /\ Nearest(a, u, a)
        BY <1>5, <1>6, <1>7
    <2> HIDE DEF u
    <2> QED
        BY <1>5, <1>6, <2>1, NearestUnique
<1>9. Fraction(a, e) = Integral(n)
    <2> DEFINE f == Fraction(a, e)
               u == 1
    <2>1. e \in Int \ {0}
        BY <1>2
    <2>2. f \in Fractions /\ Represents(f, a, e)
        BY <1>6, <2>1, FractionIs
    <2>3. Integral(n) \in Fractions /\ Represents(Integral(n), n, u) /\ u \in Int \ {0}
        BY ONLY IntegralIs, n \in Int
    <2>4. a * u = n * e
        BY <1>2
    <2> HIDE DEF f, u, a
    <2>5. f = Integral(n)
        BY <1>6, <2>1, <2>2, <2>3, <2>4, RepEqual
    <2> QED
        BY <2>5 DEF f
<1>10. to_exact_rational_independent(t, p) = Fraction(k, e)
    BY DEF to_exact_rational_independent, k, e
<1> QED
    BY <1>8, <1>9, <1>10 DEF t

\* What a decimal point text is converted to.
LEMMA DecimalText ==
    ASSUME NEW n \in Int, Decimal(n) \in Decimals
    PROVE  Decimal(n) \in Text /\ Decimal(n) # NotDecimal
<1>1. Decimal(n) \in [negative : BOOLEAN, digits : Nat, fraction : Nat]
    BY DEF Decimal, Magnitude
<1>2. Decimal(n) # NotDecimal
    BY <1>1, EmitterAssumption
<1> QED
    BY <1>2 DEF Decimals

\* Where comparison k starts and ends.
Ends(tids, n, e, i, j) ==
    i \in 1..n /\ j \in 1..n /\ i # j /\ tids[i] = e.source /\ tids[j] = e.target

\* The row of an edge from column i to column j, of n.
RowOf(n, i, j) == [c \in 1..n |-> IF c = i THEN <<-1, 1>> ELSE IF c = j THEN One ELSE Zero]

\* Its row and its residue, by what was measured and declared.
Crosses(doc, tids, states, p, comparisons, n, m, k, e, o1, o2, i, j) ==
    /\ Stands(doc, tids, states, p, comparisons, n, m)
    /\ k \in 1..m /\ e = doc.edges[k] /\ Ends(tids, n, e, i, j)
    /\ o1 = doc.transformations[2 * k - 1].offset /\ o2 = doc.transformations[2 * k].offset

LEMMA SnapshotEdge ==
    ASSUME NEW doc, NEW tids, NEW states, NEW p, NEW comparisons, NEW n, NEW m,
           NEW k, NEW e, NEW o1, NEW o2, NEW i, NEW j,
           Crosses(doc, tids, states, p, comparisons, n, m, k, e, o1, o2, i, j)
    PROVE  /\ Residue(doc, e)
                = Minus(Plus(to_exact_rational_independent(states[j], p),
                             to_exact_rational_independent(o2, p)),
                        Plus(to_exact_rational_independent(states[i], p),
                             to_exact_rational_independent(o1, p)))
           /\ Row(doc, e) = RowOf(n, i, j)
           /\ NotDecimal \notin {states[i], states[j], e.discrepancy,
                                o1, o2}
                => Convertible(doc, e)
           /\ Source(doc, e) = doc.tracks[i] /\ Target(doc, e) = doc.tracks[j]
           /\ doc.position = p
<1> DEFINE first == 2 * k - 1
           second == 2 * k
<1>0. /\ k \in 1..m /\ e = doc.edges[k]
      /\ o1 = doc.transformations[first].offset /\ o2 = doc.transformations[second].offset
      /\ Stands(doc, tids, states, p, comparisons, n, m) /\ Ends(tids, n, e, i, j)
    BY DEF Crosses
<1>1. /\ n \in Nat /\ m \in Nat /\ DOMAIN tids = 1..n
      /\ \A l, h \in 1..n : tids[l] = tids[h] => l = h
      /\ SnapshotOf(doc, tids, states, p, comparisons)
      /\ Compares(comparisons, tids, m) /\ LegalDocument(doc)
    BY <1>0 DEF Stands
<1>2. i \in 1..n /\ j \in 1..n /\ i # j /\ tids[i] = e.source /\ tids[j] = e.target
    BY <1>0 DEF Ends
<1>3. /\ DOMAIN doc.tracks = 1..n
      /\ doc.supported /\ doc.position = p /\ doc.transform = p
      /\ \A c \in 1..n : doc.tracks[c].id = tids[c] /\ doc.tracks[c].state = <<states[c]>>
    BY <1>1 DEF SnapshotOf
<1>4. Drawn(doc, comparisons, tids, m)
    BY <1>1 DEF Drawn, SnapshotOf
<1>15. PairOf(k, m, first, second)
    BY <1>0, <1>1 DEF PairOf
<1> HIDE DEF first, second
<1>5. Offset(doc, e, e.source) = o1
    <2>1. Offset(doc, doc.edges[k], doc.edges[k].source) = doc.transformations[first].offset
        BY <1>4, <1>15, Paired
    <2> QED
        BY <1>0, <2>1
<1>6. Offset(doc, e, e.target) = o2
    <2>1. Offset(doc, doc.edges[k], doc.edges[k].target) = doc.transformations[second].offset
        BY <1>4, <1>15, Paired
    <2> QED
        BY <1>0, <2>1
<1>7. \A c \in 1..n : By(doc.tracks, tids[c]) = doc.tracks[c]
    <2> SUFFICES ASSUME NEW c \in 1..n PROVE By(doc.tracks, tids[c]) = doc.tracks[c]
        OBVIOUS
    <2>1. tids[c] \in Named(doc.tracks)
        BY <1>3 DEF Named
    <2> DEFINE list == doc.tracks
               t == tids[c]
    <2>2. t \in Named(list) /\ DOMAIN list = 1..n
        BY <1>3, <2>1
    <2> HIDE DEF list, t
    <2>3. By(list, t).id = t /\ \E d \in DOMAIN list : By(list, t) = list[d]
        BY <2>2, ByIs
    <2>4. PICK d \in 1..n : By(list, t) = list[d] /\ list[d].id = t
        BY <2>2, <2>3
    <2> QED
        BY <1>1, <1>3, <2>4 DEF list, t
<1>8. Source(doc, e) = doc.tracks[i] /\ Target(doc, e) = doc.tracks[j]
    BY <1>2, <1>7 DEF Source, Target
<1>9. \A c \in 1..n : State(doc.tracks[c]) = states[c]
    <2>1. \A x : Len(<<x>>) = 1 /\ <<x>>[1] = x
        OBVIOUS
    <2> QED
        BY <1>3, <2>1 DEF State, Scalar
<1>10. State(Source(doc, e)) = states[i] /\ State(Target(doc, e)) = states[j]
    BY <1>2, <1>8, <1>9
<1>11. Source(doc, e).id = e.source /\ Target(doc, e).id = e.target
    BY <1>2, <1>3, <1>8
<1>12. Residue(doc, e)
         = Minus(Plus(to_exact_rational_independent(states[j], p), to_exact_rational_independent(o2, p)),
                 Plus(to_exact_rational_independent(states[i], p), to_exact_rational_independent(o1, p)))
    BY <1>3, <1>5, <1>6, <1>10, <1>11 DEF Residue
<1>13. Row(doc, e) = RowOf(n, i, j)
    <2>1. \A c \in 1..n : /\ doc.tracks[c].id = e.source <=> c = i
                          /\ doc.tracks[c].id = e.target <=> c = j
        BY <1>1, <1>2, <1>3
    <2> QED
        BY <1>3, <2>1 DEF Row, RowOf
<1>14. NotDecimal \notin {states[i], states[j], e.discrepancy, o1, o2} => Convertible(doc, e)
    BY <1>3, <1>5, <1>6, <1>10 DEF Convertible
<1> QED
    BY <1>3, <1>8, <1>12, <1>13, <1>14

----------------------------------------------------------------------------
\* The four-cycle.

LEMMA FourEdges ==
    /\ DOMAIN TRACKER_IDS = 1..4 /\ \A k, l \in 1..4 : TRACKER_IDS[k] = TRACKER_IDS[l] => k = l
    /\ DOMAIN EDGES = 1..4 /\ Len(EDGES) = 4
    /\ \A k, l \in 1..4 : EDGES[k].id = EDGES[l].id => k = l
    /\ EDGES[1].i = TRACKER_IDS[1] /\ EDGES[1].j = TRACKER_IDS[2]
    /\ EDGES[2].i = TRACKER_IDS[2] /\ EDGES[2].j = TRACKER_IDS[3]
    /\ EDGES[3].i = TRACKER_IDS[3] /\ EDGES[3].j = TRACKER_IDS[4]
    /\ EDGES[4].i = TRACKER_IDS[1] /\ EDGES[4].j = TRACKER_IDS[4]
    /\ EDGES[1].id = "e12" /\ EDGES[2].id = "e23" /\ EDGES[3].id = "e34" /\ EDGES[4].id = "e14"
    /\ TRACKER_IDS[1] = "t1" /\ TRACKER_IDS[2] = "t2" /\ TRACKER_IDS[3] = "t3" /\ TRACKER_IDS[4] = "t4"
<1>1. TRACKER_IDS[1] = "t1" /\ TRACKER_IDS[2] = "t2" /\ TRACKER_IDS[3] = "t3" /\ TRACKER_IDS[4] = "t4"
    BY DEF TRACKER_IDS
<1>2. DOMAIN TRACKER_IDS = 1..4 /\ DOMAIN EDGES = 1..4 /\ Len(EDGES) = 4
    BY DEF TRACKER_IDS, EDGES
<1>3. EDGES[1].id = "e12" /\ EDGES[2].id = "e23" /\ EDGES[3].id = "e34" /\ EDGES[4].id = "e14"
    BY DEF EDGES
<1>4. /\ EDGES[1].i = "t1" /\ EDGES[1].j = "t2" /\ EDGES[2].i = "t2" /\ EDGES[2].j = "t3"
      /\ EDGES[3].i = "t3" /\ EDGES[3].j = "t4" /\ EDGES[4].i = "t1" /\ EDGES[4].j = "t4"
    BY DEF EDGES
<1>5. \A k, l \in 1..4 : TRACKER_IDS[k] = TRACKER_IDS[l] => k = l
    BY <1>1
<1>6. \A k, l \in 1..4 : EDGES[k].id = EDGES[l].id => k = l
    BY <1>3
<1> QED
    BY <1>1, <1>2, <1>3, <1>4, <1>5, <1>6

\* What is built for comparison k: its two transformations and its edge.
BuiltAt(policy, v, k, c, e, x, y, z) ==
    /\ c = build_transformations_and_edges(policy, v)
    /\ k \in 1..4 /\ e = EDGES[k]
    /\ x = c.transformations[2 * k - 1] /\ y = c.transformations[2 * k] /\ z = c.edges[k]

LEMMA Built ==
    ASSUME NEW policy, NEW v, NEW k, NEW c, NEW e, NEW x, NEW y, NEW z,
           BuiltAt(policy, v, k, c, e, x, y, z)
    PROVE  /\ x.edge = e.id /\ x.track = e.i /\ x.offset = Decimal(_offset_for(policy, e, e.i))
           /\ y.edge = e.id /\ y.track = e.j /\ y.offset = Decimal(_offset_for(policy, e, e.j))
           /\ z.id = e.id /\ z.source = e.i /\ z.target = e.j
           /\ z.discrepancy = Decimal((v + _offset_for(policy, e, e.j)) - (v + _offset_for(policy, e, e.i)))
<1> DEFINE at(n) == LET edge == EDGES[(n + 1) \div 2]
                       t == IF n % 2 = 1 THEN edge.i ELSE edge.j
                   IN [id |-> n, edge |-> edge.id, track |-> t, offset |-> Decimal(_offset_for(policy, edge, t))]
           first == 2 * k - 1
           second == 2 * k
<1>0. c = build_transformations_and_edges(policy, v) /\ k \in 1..4 /\ e = EDGES[k]
      /\ x = c.transformations[first] /\ y = c.transformations[second] /\ z = c.edges[k]
    BY DEF BuiltAt
<1>1. /\ k \in 1..4
      /\ (first + 1) \div 2 = k /\ first % 2 = 1 /\ first \in 1..8
      /\ (second + 1) \div 2 = k /\ second % 2 # 1 /\ second \in 1..8
    BY <1>0
<1>2. 2 * Len(EDGES) = 8 /\ DOMAIN EDGES = 1..4
    BY FourEdges
<1>3. c.transformations = [n \in 1..8 |-> at(n)]
    BY <1>0, <1>2 DEF build_transformations_and_edges
<1>4. c.edges[k] = [id |-> e.id, source |-> e.i, target |-> e.j,
                    discrepancy |-> Decimal((v + _offset_for(policy, e, e.j))
                                              - (v + _offset_for(policy, e, e.i)))]
    BY <1>0, <1>1, <1>2 DEF build_transformations_and_edges
<1>5. c.transformations[first] = at(first) /\ c.transformations[second] = at(second)
    BY <1>1, <1>3
<1> HIDE DEF first, second
<1>6. at(first) = [id |-> first, edge |-> e.id, track |-> e.i,
                  offset |-> Decimal(_offset_for(policy, e, e.i))]
    BY <1>0, <1>1
<1>7. at(second) = [id |-> second, edge |-> e.id, track |-> e.j,
                   offset |-> Decimal(_offset_for(policy, e, e.j))]
    BY <1>0, <1>1
<1> QED
    BY <1>0, <1>4, <1>5, <1>6, <1>7

\* What is built compares the four tracks.
LEMMA BuiltCompares ==
    ASSUME NEW policy, NEW v
    PROVE  Compares(build_transformations_and_edges(policy, v), TRACKER_IDS, 4)
<1> DEFINE c == build_transformations_and_edges(policy, v)
<1>1. DOMAIN c.edges = 1..4 /\ DOMAIN c.transformations = 1..8
      /\ \A n \in 1..8 : c.transformations[n].id = n
    <2>1. 2 * Len(EDGES) = 8 /\ DOMAIN EDGES = 1..4
        BY FourEdges
    <2> QED
        BY <2>1 DEF build_transformations_and_edges
<1>2. \A k \in 1..4 :
         /\ c.transformations[2 * k - 1].edge = EDGES[k].id /\ c.transformations[2 * k - 1].track = EDGES[k].i
         /\ c.transformations[2 * k].edge = EDGES[k].id /\ c.transformations[2 * k].track = EDGES[k].j
         /\ c.edges[k].id = EDGES[k].id /\ c.edges[k].source = EDGES[k].i /\ c.edges[k].target = EDGES[k].j
    <2> SUFFICES ASSUME NEW k \in 1..4
        PROVE /\ c.transformations[2 * k - 1].edge = EDGES[k].id /\ c.transformations[2 * k - 1].track = EDGES[k].i
              /\ c.transformations[2 * k].edge = EDGES[k].id /\ c.transformations[2 * k].track = EDGES[k].j
              /\ c.edges[k].id = EDGES[k].id /\ c.edges[k].source = EDGES[k].i /\ c.edges[k].target = EDGES[k].j
        OBVIOUS
    <2> DEFINE e == EDGES[k]
               x == c.transformations[2 * k - 1]
               y == c.transformations[2 * k]
               z == c.edges[k]
    <2>1. BuiltAt(policy, v, k, c, e, x, y, z)
        BY DEF BuiltAt
    <2> HIDE DEF c, e, x, y, z
    <2>2. x.edge = e.id /\ x.track = e.i
        BY <2>1, Built
    <2>3. y.edge = e.id /\ y.track = e.j
        BY <2>1, Built
    <2>4. z.id = e.id /\ z.source = e.i /\ z.target = e.j
        BY <2>1, Built
    <2> QED
        BY <2>2, <2>3, <2>4 DEF e, x, y, z
<1> HIDE DEF c
<1>3. \A k \in 1..4 : /\ EDGES[k].i # EDGES[k].j
                      /\ \E h \in 1..4 : EDGES[k].i = TRACKER_IDS[h]
                      /\ \E h \in 1..4 : EDGES[k].j = TRACKER_IDS[h]
    <2> SUFFICES ASSUME NEW k \in 1..4
                 PROVE  /\ EDGES[k].i # EDGES[k].j
                        /\ \E h \in 1..4 : EDGES[k].i = TRACKER_IDS[h]
                        /\ \E h \in 1..4 : EDGES[k].j = TRACKER_IDS[h]
        OBVIOUS
    <2>1. k = 1 \/ k = 2 \/ k = 3 \/ k = 4
        OBVIOUS
    <2> QED
        BY <2>1, FourEdges
<1>4. \A k, l \in 1..4 : c.edges[k].id = c.edges[l].id => k = l
    BY <1>2, FourEdges
<1>5. DOMAIN TRACKER_IDS = 1..4 /\ 2 * 4 = 8
    BY FourEdges
<1> QED
    BY <1>1, <1>2, <1>3, <1>4, <1>5 DEF Compares, c

\* The offsets at the two ends of comparison k.
First(policy, k)  == _offset_for(policy, EDGES[k], EDGES[k].i)
Second(policy, k) == _offset_for(policy, EDGES[k], EDGES[k].j)

LEMMA OffsetsAre ==
    /\ \A k \in 1..4 : \A policy \in {"coherent", "canonical_obstruction"} :
          First(policy, k) \in Int /\ Second(policy, k) \in Int
    /\ First("canonical_obstruction", 1) = 0 /\ Second("canonical_obstruction", 1) = 1
    /\ First("canonical_obstruction", 2) = 0 /\ Second("canonical_obstruction", 2) = 1
    /\ First("canonical_obstruction", 3) = 0 /\ Second("canonical_obstruction", 3) = 1
    /\ First("canonical_obstruction", 4) = 0 /\ Second("canonical_obstruction", 4) = -2
    /\ \A c \in 1..4 : COHERENT_OFFSETS[TRACKER_IDS[c]] \in Int
    /\ \A k \in 1..4 : /\ First("coherent", k) = COHERENT_OFFSETS[EDGES[k].i]
                       /\ Second("coherent", k) = COHERENT_OFFSETS[EDGES[k].j]
<1>1. \A k \in 1..4 : /\ First("coherent", k) = COHERENT_OFFSETS[EDGES[k].i]
                      /\ Second("coherent", k) = COHERENT_OFFSETS[EDGES[k].j]
    BY DEF First, Second, _offset_for
<1>2. \A t \in {"t1", "t2", "t3", "t4"} : COHERENT_OFFSETS[t] \in Int
    BY DEF COHERENT_OFFSETS
<1>3. \A k \in 1..4 : EDGES[k].i \in {"t1", "t2", "t3", "t4"} /\ EDGES[k].j \in {"t1", "t2", "t3", "t4"}
    BY FourEdges
<1>4. \A k \in 1..4 : First("coherent", k) \in Int /\ Second("coherent", k) \in Int
    BY <1>1, <1>2, <1>3
<1>5. \A c \in 1..4 : COHERENT_OFFSETS[TRACKER_IDS[c]] \in Int
    BY <1>2, FourEdges
<1>6. \A k : /\ First("canonical_obstruction", k) = INCOHERENT_OFFSETS[EDGES[k].id][EDGES[k].i]
             /\ Second("canonical_obstruction", k) = INCOHERENT_OFFSETS[EDGES[k].id][EDGES[k].j]
    BY DEF First, Second, _offset_for
<1>7. /\ INCOHERENT_OFFSETS["e12"]["t1"] = 0 /\ INCOHERENT_OFFSETS["e12"]["t2"] = 1
      /\ INCOHERENT_OFFSETS["e23"]["t2"] = 0 /\ INCOHERENT_OFFSETS["e23"]["t3"] = 1
      /\ INCOHERENT_OFFSETS["e34"]["t3"] = 0 /\ INCOHERENT_OFFSETS["e34"]["t4"] = 1
      /\ INCOHERENT_OFFSETS["e14"]["t1"] = 0 /\ INCOHERENT_OFFSETS["e14"]["t4"] = -2
    BY DEF INCOHERENT_OFFSETS
<1>8. /\ First("canonical_obstruction", 1) = 0 /\ Second("canonical_obstruction", 1) = 1
      /\ First("canonical_obstruction", 2) = 0 /\ Second("canonical_obstruction", 2) = 1
    BY <1>6, <1>7, FourEdges
<1>9. /\ First("canonical_obstruction", 3) = 0 /\ Second("canonical_obstruction", 3) = 1
      /\ First("canonical_obstruction", 4) = 0 /\ Second("canonical_obstruction", 4) = -2
    BY <1>6, <1>7, FourEdges
<1>10. \A k \in 1..4 : First("canonical_obstruction", k) \in Int /\ Second("canonical_obstruction", k) \in Int
    BY <1>8, <1>9
<1> QED
    BY <1>1, <1>4, <1>5, <1>8, <1>9, <1>10

\* The snapshot of the four-cycle under a policy, as it stands.
FourCycle(doc, policy, v, p) ==
    /\ LegalDocument(doc) /\ v \in Int /\ p \in 0..MaxPlaces
    /\ policy \in {"coherent", "canonical_obstruction"}
    /\ SnapshotOf(doc, TRACKER_IDS, [k \in DOMAIN TRACKER_IDS |-> Decimal(v)], p,
                  build_transformations_and_edges(policy, v))

LEMMA FourStands ==
    ASSUME NEW doc, NEW policy, NEW v, NEW p, FourCycle(doc, policy, v, p)
    PROVE  Stands(doc, TRACKER_IDS, [k \in DOMAIN TRACKER_IDS |-> Decimal(v)], p,
                  build_transformations_and_edges(policy, v), 4, 4)
<1>1. LegalDocument(doc)
      /\ SnapshotOf(doc, TRACKER_IDS, [k \in DOMAIN TRACKER_IDS |-> Decimal(v)], p,
                  build_transformations_and_edges(policy, v))
    BY DEF FourCycle
<1>2. Compares(build_transformations_and_edges(policy, v), TRACKER_IDS, 4)
    BY BuiltCompares
<1> QED
    BY <1>1, <1>2, FourEdges DEF Stands

\* The ends of each comparison, as columns.
Start == <<1, 2, 3, 1>>
Stop  == <<2, 3, 4, 4>>

LEMMA FourEnds ==
    /\ \A k \in 1..4 : /\ Start[k] \in 1..4 /\ Stop[k] \in 1..4 /\ Start[k] # Stop[k]
                       /\ TRACKER_IDS[Start[k]] = EDGES[k].i /\ TRACKER_IDS[Stop[k]] = EDGES[k].j
<1> SUFFICES ASSUME NEW k \in 1..4
             PROVE  /\ Start[k] \in 1..4 /\ Stop[k] \in 1..4 /\ Start[k] # Stop[k]
                    /\ TRACKER_IDS[Start[k]] = EDGES[k].i /\ TRACKER_IDS[Stop[k]] = EDGES[k].j
    OBVIOUS
<1>1. /\ Start[1] = 1 /\ Start[2] = 2 /\ Start[3] = 3 /\ Start[4] = 1
      /\ Stop[1] = 2 /\ Stop[2] = 3 /\ Stop[3] = 4 /\ Stop[4] = 4
    BY DEF Start, Stop
<1>2. k = 1 \/ k = 2 \/ k = 3 \/ k = 4
    OBVIOUS
<1> QED
    BY <1>1, <1>2, FourEdges

\* The texts at edge k are decimals.
LEMMA FourTexts ==
    ASSUME NEW doc, NEW policy, NEW v, NEW p, FourCycle(doc, policy, v, p),
           NEW k \in 1..4
    PROVE  /\ Decimal(v) \in Text /\ Decimal(v) # NotDecimal
           /\ Decimal(First(policy, k)) \in Text /\ Decimal(First(policy, k)) # NotDecimal
           /\ Decimal(Second(policy, k)) \in Text /\ Decimal(Second(policy, k)) # NotDecimal
           /\ doc.edges[k].discrepancy
                = Decimal((v + Second(policy, k)) - (v + First(policy, k)))
           /\ doc.edges[k].discrepancy \in Text /\ doc.edges[k].discrepancy # NotDecimal
<1> DEFINE c == build_transformations_and_edges(policy, v)
           states == [h \in DOMAIN TRACKER_IDS |-> Decimal(v)]
           edge == EDGES[k]
           x == c.transformations[2 * k - 1]
           y == c.transformations[2 * k]
           z == c.edges[k]
           o1 == First(policy, k)
           o2 == Second(policy, k)
           d == (v + o2) - (v + o1)
<1>1. BuiltAt(policy, v, k, c, edge, x, y, z) /\ 2 * k - 1 \in 1..8 /\ 2 * k \in 1..8
    BY DEF BuiltAt
<1>2. /\ LegalDocument(doc) /\ v \in Int
      /\ SnapshotOf(doc, TRACKER_IDS, states, p, c)
      /\ policy \in {"coherent", "canonical_obstruction"}
    BY DEF FourCycle
<1>3. o1 \in Int /\ o2 \in Int /\ d \in Int
    BY <1>2, OffsetsAre
<1> HIDE DEF edge, x, y, z, c, states
<1>4. x.offset = Decimal(_offset_for(policy, edge, edge.i))
    BY <1>1, Built
<1>5. y.offset = Decimal(_offset_for(policy, edge, edge.j))
    BY <1>1, Built
<1>6. z.discrepancy = Decimal((v + _offset_for(policy, edge, edge.j)) - (v + _offset_for(policy, edge, edge.i)))
    BY <1>1, Built
<1>7. doc.transformations = c.transformations /\ doc.edges = c.edges
    BY <1>2 DEF SnapshotOf
<1>8. DOMAIN c.transformations = 1..8 /\ DOMAIN c.edges = 1..4
    BY BuiltCompares DEF Compares, c
<1>9. /\ Decimal(o1) \in Decimals /\ Decimal(o2) \in Decimals
      /\ doc.edges[k].discrepancy \in Decimals
    <2>1. /\ doc.transformations[2 * k - 1].offset \in Decimals
          /\ doc.transformations[2 * k].offset \in Decimals
          /\ doc.edges[k].discrepancy \in Decimals
        BY <1>1, <1>2, <1>7, <1>8 DEF LegalDocument
    <2> QED
        BY <1>4, <1>5, <1>7, <2>1 DEF First, Second, edge, x, y
<1>10. doc.edges[k].discrepancy = Decimal(d)
    BY <1>6, <1>7 DEF First, Second, edge, z
<1>11. Decimal(v) \in Decimals
    <2>1. DOMAIN doc.tracks = 1..4 /\ doc.tracks[1].state = <<Decimal(v)>>
        BY <1>2, FourEdges DEF SnapshotOf, states
    <2>2. \A h : 1 \in DOMAIN <<h>> /\ <<h>>[1] = h
        OBVIOUS
    <2>3. \A n \in DOMAIN doc.tracks[1].state : doc.tracks[1].state[n] \in Decimals
        BY <1>2, <2>1 DEF LegalDocument
    <2> QED
        BY <2>1, <2>2, <2>3
<1> HIDE DEF o1, o2, d
<1>12. /\ Decimal(v) \in Text /\ Decimal(v) # NotDecimal
       /\ Decimal(o1) \in Text /\ Decimal(o1) # NotDecimal
       /\ Decimal(o2) \in Text /\ Decimal(o2) # NotDecimal
       /\ Decimal(d) \in Text /\ Decimal(d) # NotDecimal
    BY <1>2, <1>3, <1>9, <1>10, <1>11, DecimalText
<1> QED
    BY <1>10, <1>12 DEF o1, o2, d

\* Each edge holds, and its residue is what its offsets differ by.
LEMMA FourEdge ==
    ASSUME NEW doc, NEW policy, NEW v, NEW p, FourCycle(doc, policy, v, p),
           NEW k \in 1..4
    PROVE  /\ EdgeHolds(doc, doc.edges[k])
           /\ Residue(doc, doc.edges[k]) = Integral(Second(policy, k) - First(policy, k))
           /\ Row(doc, doc.edges[k]) = RowOf(4, Start[k], Stop[k])
           /\ Source(doc, doc.edges[k]) = doc.tracks[Start[k]]
           /\ Target(doc, doc.edges[k]) = doc.tracks[Stop[k]]
<1> DEFINE c == build_transformations_and_edges(policy, v)
           states == [h \in DOMAIN TRACKER_IDS |-> Decimal(v)]
           edge == EDGES[k]
           x == c.transformations[2 * k - 1]
           y == c.transformations[2 * k]
           o1 == doc.transformations[2 * k - 1].offset
           o2 == doc.transformations[2 * k].offset
           i == Start[k]
           j == Stop[k]
           four == 4
           e == doc.edges[k]
           conv(t) == to_exact_rational_independent(t, p)
           a == First(policy, k)
           b == Second(policy, k)
<1>1. BuiltAt(policy, v, k, c, edge, x, y, c.edges[k])
    BY DEF BuiltAt
<1>2. Stands(doc, TRACKER_IDS, states, p, c, four, four)
    BY FourStands
<1>3. /\ v \in Int /\ p \in 0..MaxPlaces /\ doc.edges = c.edges /\ doc.transformations = c.transformations
      /\ policy \in {"coherent", "canonical_obstruction"}
    BY DEF FourCycle, SnapshotOf
<1>4. a \in Int /\ b \in Int
    BY <1>3, OffsetsAre
<1>5. e.source = EDGES[k].i /\ e.target = EDGES[k].j
    <2> DEFINE z == c.edges[k]
    <2>1. BuiltAt(policy, v, k, c, edge, x, y, z) /\ e = z
        BY <1>1, <1>3
    <2> HIDE DEF c, edge, x, y, z, e
    <2>2. z.source = edge.i /\ z.target = edge.j
        BY <2>1, Built
    <2> QED
        BY <2>1, <2>2 DEF edge
<1>6. Ends(TRACKER_IDS, four, e, i, j)
    BY <1>5, FourEnds DEF Ends
<1>7. i \in 1..4 /\ j \in 1..4
    BY FourEnds
<1>8. states[i] = Decimal(v) /\ states[j] = Decimal(v)
    BY <1>7, FourEdges
<1>9. o1 = Decimal(a) /\ o2 = Decimal(b)
    <2> DEFINE z == c.edges[k]
    <2>1. BuiltAt(policy, v, k, c, edge, x, y, z) /\ o1 = x.offset /\ o2 = y.offset
        BY <1>1, <1>3
    <2> HIDE DEF c, edge, x, y, z, o1, o2
    <2>2. x.offset = Decimal(_offset_for(policy, edge, edge.i))
        BY <2>1, Built
    <2>3. y.offset = Decimal(_offset_for(policy, edge, edge.j))
        BY <2>1, Built
    <2> QED
        BY <2>1, <2>2, <2>3 DEF edge, First, Second
<1>10. Crosses(doc, TRACKER_IDS, states, p, c, four, four, k, e, o1, o2, i, j)
    BY <1>2, <1>6 DEF Crosses
<1> HIDE DEF c, states, i, j, four, a, b, o1, o2, e
<1>11. Residue(doc, e) = Minus(Plus(conv(states[j]), conv(o2)), Plus(conv(states[i]), conv(o1)))
    BY <1>10, SnapshotEdge
<1>12. Row(doc, e) = RowOf(four, i, j)
    BY <1>10, SnapshotEdge
<1>13. NotDecimal \notin {states[i], states[j], e.discrepancy, o1, o2} => Convertible(doc, e)
    BY <1>10, SnapshotEdge
<1>14. Source(doc, e) = doc.tracks[i] /\ Target(doc, e) = doc.tracks[j] /\ doc.position = p
    BY <1>10, SnapshotEdge
<1>15. /\ Decimal(v) \in Text /\ Decimal(v) # NotDecimal
       /\ Decimal(a) \in Text /\ Decimal(a) # NotDecimal
       /\ Decimal(b) \in Text /\ Decimal(b) # NotDecimal
       /\ e.discrepancy = Decimal((v + b) - (v + a))
       /\ e.discrepancy \in Text /\ e.discrepancy # NotDecimal
    BY FourTexts DEF a, b, e
<1>16. Convertible(doc, e)
    BY <1>8, <1>9, <1>13, <1>15
<1>17. /\ conv(Decimal(v)) = Integral(v) /\ conv(Decimal(a)) = Integral(a)
       /\ conv(Decimal(b)) = Integral(b)
    BY <1>3, <1>4, <1>15, DecimalConverts
<1>18. (v + b) - (v + a) \in Int /\ (v + b) - (v + a) = b - a /\ v + b \in Int /\ v + a \in Int
    BY <1>3, <1>4
<1>19. conv(e.discrepancy) = Integral(b - a)
    <2> DEFINE d == (v + b) - (v + a)
    <2>1. d \in Int /\ Decimal(d) \in Text
        BY <1>15, <1>18
    <2> HIDE DEF d
    <2>2. conv(Decimal(d)) = Integral(d)
        BY <1>3, <2>1, DecimalConverts
    <2> QED
        BY <1>15, <1>18, <2>2 DEF d
<1>20. Residue(doc, e) = Integral(b - a)
    <2>1. Residue(doc, e) = Minus(Plus(Integral(v), Integral(b)), Plus(Integral(v), Integral(a)))
        BY <1>8, <1>9, <1>11, <1>17
    <2> DEFINE upper == v + b
               lower == v + a
    <2>2. Plus(Integral(v), Integral(b)) = Integral(upper) /\ Plus(Integral(v), Integral(a)) = Integral(lower)
        BY <1>3, <1>4, IntegralSums
    <2>3. upper \in Int /\ lower \in Int
        BY <1>18
    <2> HIDE DEF upper, lower
    <2>4. Minus(Integral(upper), Integral(lower)) = Integral(upper - lower)
        BY <2>3, IntegralSums
    <2> QED
        BY <1>18, <2>1, <2>2, <2>4 DEF upper, lower
<1>21. EdgeHolds(doc, e)
    BY <1>14, <1>16, <1>19, <1>20 DEF EdgeHolds
<1> QED
    BY <1>12, <1>14, <1>20, <1>21 DEF i, j, four, a, b, e

\* A function on 1..n is a list of length n.
LEMMA ListIs ==
    ASSUME NEW S, NEW n \in Nat, NEW s \in [1..n -> S]
    PROVE  s \in Seq(S) /\ Len(s) = n
OBVIOUS

FourMatrix == [k \in 1..4 |-> RowOf(4, Start[k], Stop[k])]

\* The problem that the four-cycle stands for.
LEMMA FourProblem ==
    ASSUME NEW doc, NEW policy, NEW v, NEW p, FourCycle(doc, policy, v, p)
    PROVE  /\ Reconstructed(doc).D = FourMatrix
           /\ DOMAIN doc.edges = 1..4
           /\ Reconstructed(doc) = Problem(FourMatrix, [k \in 1..4 |-> Integral(Second(policy, k) - First(policy, k))])
<1>1. DOMAIN doc.edges = 1..4
    BY BuiltCompares DEF FourCycle, SnapshotOf, Compares
<1>2. \A k \in 1..4 : /\ Row(doc, doc.edges[k]) = RowOf(4, Start[k], Stop[k])
                      /\ Residue(doc, doc.edges[k]) = Integral(Second(policy, k) - First(policy, k))
    BY FourEdge
<1>3. Reconstructed(doc) = Problem(FourMatrix, [k \in 1..4 |-> Integral(Second(policy, k) - First(policy, k))])
    BY <1>1, <1>2 DEF Reconstructed, FourMatrix
<1> QED
    BY <1>1, <1>3 DEF Problem

\* All that the verifier asks of it but for claim and digest.
LEMMA FourVerifies ==
    ASSUME NEW doc, NEW policy, NEW v, NEW p, FourCycle(doc, policy, v, p)
    PROVE  /\ WithinLimits(doc) /\ Structured(doc) /\ AllScalar(doc) /\ doc.stamped /\ doc.complete
           /\ \A k \in DOMAIN doc.edges : EdgeHolds(doc, doc.edges[k])
<1> DEFINE c == build_transformations_and_edges(policy, v)
           states == [h \in DOMAIN TRACKER_IDS |-> Decimal(v)]
           four == 4
<1>1. Stands(doc, TRACKER_IDS, states, p, c, four, four)
    BY FourStands
<1>2. doc.stamped /\ doc.complete
    BY DEF FourCycle, SnapshotOf
<1> HIDE DEF c, states, four
<1>3. WithinLimits(doc) /\ Structured(doc) /\ AllScalar(doc)
    BY <1>1, SnapshotStands
<1>4. \A k \in DOMAIN doc.edges : EdgeHolds(doc, doc.edges[k])
    BY FourProblem, FourEdge
<1> QED
    BY <1>2, <1>3, <1>4

\* Its entries are short: none has more characters than -2.
LEMMA FourShort ==
    ASSUME NEW doc, NEW policy, NEW v, NEW p, FourCycle(doc, policy, v, p)
    PROVE  \A x \in ClaimedRationals(Reconstructed(doc)) : chars(x) <= MAX_RATIONAL_CHARS
<1> DEFINE d(k) == Second(policy, k) - First(policy, k)
           r == [k \in 1..4 |-> Integral(d(k))]
<1>1. \A n \in -2..2 : chars(Integral(n)) <= MAX_RATIONAL_CHARS
    BY EmitterAssumption DEF parse_rational, Integral
<1>2. \A k \in 1..4 : d(k) \in -2..2
    <2>1. CASE policy = "canonical_obstruction"
        <3>1. d(1) = 1 /\ d(2) = 1 /\ d(3) = 1 /\ d(4) = -2
            BY <2>1, OffsetsAre
        <3> QED
            BY <3>1
    <2>2. CASE policy = "coherent"
        <3>1. /\ COHERENT_OFFSETS["t1"] = 0 /\ COHERENT_OFFSETS["t2"] = 1
              /\ COHERENT_OFFSETS["t3"] = 3 /\ COHERENT_OFFSETS["t4"] = 2
            BY DEF COHERENT_OFFSETS
        <3>2. \A k \in 1..4 : d(k) = COHERENT_OFFSETS[EDGES[k].j] - COHERENT_OFFSETS[EDGES[k].i]
            BY <2>2, OffsetsAre
        <3>3. d(1) = 1 /\ d(2) = 2 /\ d(3) = -1 /\ d(4) = 2
            BY <3>1, <3>2, FourEdges
        <3> QED
            BY <3>3
    <2> QED
        BY <2>1, <2>2 DEF FourCycle
<1>3. Reconstructed(doc).D = FourMatrix /\ Reconstructed(doc).r = r
    BY FourProblem DEF Problem
<1>4. \A k \in DOMAIN r : r[k] \in {Integral(n) : n \in -2..2}
    BY <1>2
<1>5. \A k \in DOMAIN FourMatrix : \A c \in DOMAIN FourMatrix[k] :
         FourMatrix[k][c] \in {Integral(n) : n \in -2..2}
    <2> SUFFICES ASSUME NEW k \in 1..4, NEW c \in 1..4
                 PROVE  FourMatrix[k][c] \in {Integral(n) : n \in -2..2}
        BY DEF FourMatrix, RowOf
    <2>1. FourMatrix[k][c] = IF c = Start[k] THEN <<-1, 1>> ELSE IF c = Stop[k] THEN One ELSE Zero
        BY DEF FourMatrix, RowOf
    <2>2. <<-1, 1>> = Integral(-1) /\ One = Integral(1) /\ Zero = Integral(0)
        BY DEF Integral, One, Zero
    <2> QED
        BY <2>1, <2>2
<1> HIDE DEF r, d
<1> QED
    BY <1>1, <1>3, <1>4, <1>5 DEF ClaimedRationals

\* The coarse complex of the refinement witnesses has this matrix.
LEMMA CoarseMatrix == delta0(COARSE) = FourMatrix
<1> DEFINE V == COARSE.vertices
           E == COARSE.edges
           entry(i, j) == Minus(IF V[j] = E[i].tgt THEN One ELSE Zero, IF V[j] = E[i].src THEN One ELSE Zero)
           row(i) == [j \in 1..4 |-> entry(i, j)]
<1>1. DOMAIN V = 1..4 /\ DOMAIN E = 1..4
    BY DEF COARSE
<1>2. V[1] = "U1" /\ V[2] = "U2" /\ V[3] = "U3" /\ V[4] = "U4"
    BY DEF COARSE
<1>3. /\ E[1].src = "U1" /\ E[1].tgt = "U2" /\ E[2].src = "U2" /\ E[2].tgt = "U3"
      /\ E[3].src = "U3" /\ E[3].tgt = "U4" /\ E[4].src = "U1" /\ E[4].tgt = "U4"
    BY DEF COARSE, Edge
<1>4. Minus(One, Zero) = One /\ Minus(Zero, Zero) = Zero /\ Minus(Zero, One) = <<-1, 1>>
    <2>1. One = Integral(1) /\ Zero = Integral(0)
        BY DEF One, Zero, Integral
    <2>2. Minus(Integral(0), Integral(1)) = Integral(0 - 1)
        BY ONLY IntegralSums, 0 \in Int, 1 \in Int
    <2>3. Integral(0 - 1) = <<-1, 1>>
        BY DEF Integral
    <2> QED
        BY <2>1, <2>2, <2>3, ZeroOne, MinusIs
<1> HIDE DEF V, E
<1>5. ASSUME NEW i \in 1..4, NEW j \in 1..4
      PROVE  /\ V[j] = E[i].tgt <=> j = Stop[i]
             /\ V[j] = E[i].src <=> j = Start[i]
    <2>1. /\ Start[1] = 1 /\ Start[2] = 2 /\ Start[3] = 3 /\ Start[4] = 1
          /\ Stop[1] = 2 /\ Stop[2] = 3 /\ Stop[3] = 4 /\ Stop[4] = 4
        BY DEF Start, Stop
    <2>2. i = 1 \/ i = 2 \/ i = 3 \/ i = 4
        OBVIOUS
    <2>3. j = 1 \/ j = 2 \/ j = 3 \/ j = 4
        OBVIOUS
    <2>4. CASE i = 1
        BY <1>2, <1>3, <2>1, <2>3, <2>4
    <2>5. CASE i = 2
        BY <1>2, <1>3, <2>1, <2>3, <2>5
    <2>6. CASE i = 3
        BY <1>2, <1>3, <2>1, <2>3, <2>6
    <2>7. CASE i = 4
        BY <1>2, <1>3, <2>1, <2>3, <2>7
    <2> QED
        BY <2>2, <2>4, <2>5, <2>6, <2>7
<1>6. ASSUME NEW i \in 1..4, NEW j \in 1..4
      PROVE  entry(i, j) = IF j = Start[i] THEN <<-1, 1>> ELSE IF j = Stop[i] THEN One ELSE Zero
    <2>1. Start[i] # Stop[i]
        BY FourEnds
    <2>2. CASE j = Start[i]
        BY <1>4, <1>5, <2>1, <2>2
    <2>3. CASE j = Stop[i]
        BY <1>4, <1>5, <2>1, <2>3
    <2>4. CASE j # Start[i] /\ j # Stop[i]
        BY <1>4, <1>5, <2>4
    <2> QED
        BY <2>1, <2>2, <2>3, <2>4
<1> HIDE DEF entry
<1>7. \A i \in 1..4 : row(i) = RowOf(4, Start[i], Stop[i])
    BY <1>6 DEF RowOf
<1>8. \A i \in 1..4 : Computed(row(i)) = row(i)
    <2> SUFFICES ASSUME NEW i \in 1..4 PROVE Computed(row(i)) = row(i)
        OBVIOUS
    <2> DEFINE S == {entry(i, j) : j \in 1..4}
               s == row(i)
    <2> DEFINE four == 4
    <2>1. s \in [1..four -> S]
        OBVIOUS
    <2>4. four \in Nat
        OBVIOUS
    <2> HIDE DEF S, s, four
    <2>2. s \in Seq(S)
        BY <2>1, <2>4, ListIs
    <2>3. Computed(s) = s
        BY <2>2, ComputedIs
    <2> QED
        BY <2>3 DEF s
<1>9. delta0(COARSE) = Computed([i \in 1..4 |-> Computed(row(i))])
    BY <1>1 DEF delta0, coboundary_0, V, E, entry
<1>10. [i \in 1..4 |-> Computed(row(i))] = FourMatrix
    BY <1>7, <1>8 DEF FourMatrix
<1>11. Computed(FourMatrix) = FourMatrix
    <2> DEFINE S == {RowOf(4, Start[k], Stop[k]) : k \in 1..4}
               s == FourMatrix
    <2> DEFINE four == 4
    <2>1. s \in [1..four -> S]
        BY DEF FourMatrix
    <2>4. four \in Nat
        OBVIOUS
    <2> HIDE DEF S, s, four
    <2>2. s \in Seq(S)
        BY <2>1, <2>4, ListIs
    <2>3. Computed(s) = s
        BY <2>2, ComputedIs
    <2> QED
        BY <2>3 DEF s
<1> QED
    BY <1>9, <1>10, <1>11

\* Its residue.
LEMMA CoarseResidue ==
    COARSE.residue
      = [k \in 1..4 |-> Integral(Second("canonical_obstruction", k) - First("canonical_obstruction", k))]
<1> DEFINE w == <<1, 1, 1, -2>>
           d(k) == Second("canonical_obstruction", k) - First("canonical_obstruction", k)
<1>1. DOMAIN w = 1..4 /\ w[1] = 1 /\ w[2] = 1 /\ w[3] = 1 /\ w[4] = -2
    OBVIOUS
<1>2. COARSE.residue = [k \in DOMAIN w |-> <<w[k], 1>>]
    BY DEF COARSE, F
<1> HIDE DEF w
<1>3. d(1) = 1 /\ d(2) = 1 /\ d(3) = 1 /\ d(4) = -2
    BY OffsetsAre
<1> HIDE DEF d
<1>4. \A k \in 1..4 : d(k) = w[k]
    <2> SUFFICES ASSUME NEW k \in 1..4 PROVE d(k) = w[k]
        OBVIOUS
    <2>1. k = 1 \/ k = 2 \/ k = 3 \/ k = 4
        OBVIOUS
    <2> QED
        BY <1>1, <1>3, <2>1
<1>5. COARSE.residue = [k \in 1..4 |-> Integral(d(k))]
    BY <1>1, <1>2, <1>4 DEF Integral
<1> QED
    BY <1>5 DEF d

\* The offsets of the coherent policy are a repair.
LEMMA OffsetsRepair ==
    ASSUME NEW doc, NEW v, NEW p, FourCycle(doc, "coherent", v, p)
    PROVE  mat_vec(FourMatrix, [k \in DOMAIN TRACKER_IDS |-> <<COHERENT_OFFSETS[TRACKER_IDS[k]], 1>>])
             = Reconstructed(doc).r
<1> DEFINE x == [k \in DOMAIN TRACKER_IDS |-> <<COHERENT_OFFSETS[TRACKER_IDS[k]], 1>>]
           o(k) == COHERENT_OFFSETS[TRACKER_IDS[k]]
           four == 4
           policy == "coherent"
           states == [h \in DOMAIN TRACKER_IDS |-> Decimal(v)]
           c == build_transformations_and_edges(policy, v)
<1>1. x = [k \in 1..4 |-> Integral(o(k))]
    BY FourEdges DEF Integral
<1>2. \A k \in 1..4 : o(k) \in Int
    BY OffsetsAre
<1>3. \A k \in 1..4 : x[k] = Integral(o(k)) /\ x[k] \in Fractions
    <2> HIDE DEF x, o
    <2> QED
        BY <1>1, <1>2, IntegralIs
<1>4. Len(x) = 4
    <2>1. x \in [1..4 -> Fractions]
        <3> HIDE DEF o
        <3>1. x = [k \in 1..4 |-> x[k]]
            BY <1>1
        <3> HIDE DEF x
        <3> QED
            BY <1>3, <3>1
    <2> HIDE DEF x
    <2> QED
        BY <2>1
<1>5. Len(FourMatrix) = 4 /\ \A k \in 1..4 : FourMatrix[k] = RowOf(4, Start[k], Stop[k])
    <2> DEFINE S == {RowOf(4, Start[k], Stop[k]) : k \in 1..4}
               s == FourMatrix
    <2>1. s \in [1..4 -> S]
        BY DEF FourMatrix
    <2> HIDE DEF S, s
    <2>2. Len(s) = 4
        BY <2>1
    <2> QED
        BY <2>2 DEF s, FourMatrix
<1>6. mat_vec(FourMatrix, x) = [k \in 1..4 |-> SumProducts(RowOf(4, Start[k], Stop[k]), x, 4)]
    <2> HIDE DEF x
    <2> QED
        BY <1>4, <1>5 DEF mat_vec
<1>7. Stands(doc, TRACKER_IDS, states, p, c, four, four) /\ LegalDocument(doc)
    BY FourStands DEF FourCycle
<1>8. DOMAIN doc.tracks = 1..4
    BY FourEdges DEF FourCycle, SnapshotOf
<1>9. /\ UniqueIds(doc.tracks) /\ ReferencesHold(doc) /\ Len(doc.tracks) = 4
    <2> HIDE DEF states, c, four
    <2>1. UniqueIds(doc.tracks) /\ ReferencesHold(doc) /\ Len(doc.tracks) = four
        BY <1>7, SnapshotStands
    <2> QED
        BY <2>1 DEF four
<1>10. ASSUME NEW k \in 1..4
       PROVE  SumProducts(RowOf(4, Start[k], Stop[k]), x, 4) = Integral(Second(policy, k) - First(policy, k))
    <2> DEFINE e == doc.edges[k]
    <2>1. /\ Row(doc, e) = RowOf(4, Start[k], Stop[k])
          /\ Source(doc, e) = doc.tracks[Start[k]] /\ Target(doc, e) = doc.tracks[Stop[k]]
        BY FourEdge
    <2>2. k \in DOMAIN doc.edges
        BY FourProblem
    <2> HIDE DEF x, policy, o
    <2> DEFINE row == Row(doc, e)
               start == Source(doc, e)
               stop == Target(doc, e)
               size == Len(doc.tracks)
    <2>3. \E i, j \in DOMAIN doc.tracks :
             /\ start = doc.tracks[i]
             /\ stop = doc.tracks[j]
             /\ SumProducts(row, x, size) = Minus(x[j], x[i])
        <3>1. LegalDocument(doc) /\ UniqueIds(doc.tracks) /\ ReferencesHold(doc)
              /\ \A h \in DOMAIN doc.tracks : x[h] \in Fractions
            BY <1>3, <1>7, <1>8, <1>9
        <3> QED
            BY <2>2, <3>1, RowProducts
    <2>4. PICK i \in 1..4, j \in 1..4 :
             /\ start = doc.tracks[i] /\ stop = doc.tracks[j]
             /\ SumProducts(row, x, 4) = Minus(x[j], x[i])
        <3>1. size = 4
            BY <1>9
        <3> HIDE DEF row, start, stop, size
        <3> QED
            BY <1>8, <2>3, <3>1
    <2>5. \A g, h \in 1..4 : doc.tracks[g] = doc.tracks[h] => g = h
        BY <1>8, <1>9 DEF UniqueIds
    <2>9. Start[k] \in 1..4 /\ Stop[k] \in 1..4
        BY FourEnds
    <2>6. i = Start[k] /\ j = Stop[k]
        BY <2>1, <2>4, <2>5, <2>9
    <2>7. Minus(x[j], x[i]) = Integral(o(j) - o(i))
        BY <1>2, <1>3, IntegralSums
    <2>8. o(j) = Second(policy, k) /\ o(i) = First(policy, k)
        BY <2>6, FourEnds, OffsetsAre DEF o, policy
    <2> QED
        BY <2>1, <2>4, <2>7, <2>8
<1>11. Reconstructed(doc).r = [k \in 1..4 |-> Integral(Second(policy, k) - First(policy, k))]
    BY FourProblem DEF Problem
<1> HIDE DEF x, policy
<1>12. mat_vec(FourMatrix, x) = Reconstructed(doc).r
    BY <1>6, <1>10, <1>11
<1> QED
    BY <1>12 DEF x

\* Nothing is claimed of what nobody altered but what it stands for.
LEMMA ClaimsAre ==
    ASSUME FlowInv, verdict # "none", ~altered
    PROVE  document.derived \subseteq {Reconstructed(document)}
<1>1. document.derived = generated.problems
    BY DEF FlowInv
<1>2. CASE generated = NotRun
    BY <1>1, <1>2 DEF NotRun
<1>3. CASE generated # NotRun
    <2>1. generated = Produced(document) /\ LegalDocument(document)
        BY <1>3, DerivedIs
    <2> QED
        BY <1>1, <2>1, ProducedIs
<1> QED
    BY <1>2, <1>3

\* What nobody altered is accepted once it is structured and its edges hold, but
\* for a claim that is too long.
LEMMA PassesGate ==
    ASSUME FlowInv, verdict # "none", ~altered,
           WithinLimits(document), Structured(document), AllScalar(document),
           document.stamped, document.complete,
           \A k \in DOMAIN document.edges : EdgeHolds(document, document.edges[k])
    PROVE  Accepted \/ ClaimTooLong
<1> SUFFICES ASSUME ~ClaimTooLong PROVE Accepted
    OBVIOUS
<1>1. document.digest = compute_payload_digest(document)
    BY DEF FlowInv
<1>2. ClaimHolds(document)
    <2> SUFFICES ASSUME NEW claim \in document.derived
                 PROVE  /\ \A x \in ClaimedRationals(claim) : parse_rational(x)
                        /\ claim = Reconstructed(document)
        BY DEF ClaimHolds
    <2>1. claim = Reconstructed(document)
        BY ClaimsAre
    <2>2. LegalDocument(document)
        BY DerivedIs
    <2>3. ClaimedRationals(Reconstructed(document)) \subseteq Fractions
        BY <2>2, ReconstructedExact DEF Structured, ListsHold
    <2>4. \A x \in ClaimedRationals(claim) : chars(x) <= MAX_RATIONAL_CHARS
        BY DEF ClaimTooLong
    <2> QED
        BY <2>1, <2>3, <2>4, ParsesUnlessLong
<1>3. verify_snapshot_doc(document)
    BY <1>1, <1>2 DEF verify_snapshot_doc
<1> QED
    BY <1>3 DEF FlowInv, Accepted

\* A document without what its producer enters in it.
Bare(doc) == [doc EXCEPT !.derived = {}, !.digest = NoDigest]

\* The emitted four-cycles, whatever ancestry comes with them.
LEMMA CoherentIsFour ==
    ASSUME NEW doc, LegalDocument(doc), Bare(doc) \in CoherentSnapshots
    PROVE  \E v \in Values, p \in Places : FourCycle(doc, "coherent", v, p)
<1>1. PICK v \in Values, p \in Places :
        Bare(doc) \in {build_snapshot("coherent", v, p), build_disjoint_snapshot(v, p),
                       build_duplicated_path_snapshot({}, v, p),
                       build_duplicated_path_snapshot({"e12"}, v, p)}
    BY DEF CoherentSnapshots
<1> DEFINE c == build_transformations_and_edges("coherent", v)
           states == [k \in DOMAIN TRACKER_IDS |-> Decimal(v)]
           base == Snapshot(TRACKER_IDS, states, p, c)
<1>2. build_snapshot("coherent", v, p) = base
    BY DEF build_snapshot
<1>3. Bare(doc) = base
      \/ \E nodes \in EmittedGraphs : \E policy : Bare(doc) = With(base, nodes, policy)
    BY <1>1, <1>2 DEF build_disjoint_snapshot, build_duplicated_path_snapshot, EmittedGraphs
<1>4. DOMAIN doc = Fields
    BY DEF LegalDocument
<1>5. SnapshotOf(doc, TRACKER_IDS, states, p, c)
    <2> HIDE DEF c, states
    <2>1. CASE Bare(doc) = base
        BY <1>4, <2>1, PlainSnapshot DEF Bare
    <2>2. ASSUME NEW nodes \in EmittedGraphs, NEW policy, Bare(doc) = With(base, nodes, policy)
          PROVE  SnapshotOf(doc, TRACKER_IDS, states, p, c)
        BY <1>4, <2>2, SnapshotWith DEF Bare
    <2> QED
        BY <1>3, <2>1, <2>2
<1>6. v \in Int /\ p \in 0..MaxPlaces
    BY EmitterAssumption
<1>7. FourCycle(doc, "coherent", v, p)
    BY <1>5, <1>6 DEF FourCycle
<1> QED
    BY <1>7

LEMMA ObstructedIsFour ==
    ASSUME NEW doc, LegalDocument(doc), Bare(doc) \in ObstructedSnapshots
    PROVE  \E v \in Values, p \in Places : FourCycle(doc, "canonical_obstruction", v, p)
<1>1. PICK v \in Values, p \in Places : Bare(doc) = build_snapshot("canonical_obstruction", v, p)
    BY DEF ObstructedSnapshots
<1> DEFINE c == build_transformations_and_edges("canonical_obstruction", v)
           states == [k \in DOMAIN TRACKER_IDS |-> Decimal(v)]
<1>2. Bare(doc) = Snapshot(TRACKER_IDS, states, p, c)
    BY <1>1 DEF build_snapshot
<1>3. DOMAIN doc = Fields
    BY DEF LegalDocument
<1>4. SnapshotOf(doc, TRACKER_IDS, states, p, c)
    <2> HIDE DEF c, states
    <2> QED
        BY <1>2, <1>3, PlainSnapshot DEF Bare
<1>5. v \in Int /\ p \in 0..MaxPlaces
    BY EmitterAssumption
<1>6. FourCycle(doc, "canonical_obstruction", v, p)
    BY <1>4, <1>5 DEF FourCycle
<1> QED
    BY <1>6

----------------------------------------------------------------------------
\* The fused pair.

\* What is emitted of a pair that measured x1 and x2, with offsets o1 and o2.
FusedIds == <<"kf-1", "kf-2">>

FusedComparisons(o1, o2, q) ==
    [transformations |-> <<[id |-> 1, edge |-> "kf1-kf2", track |-> "kf-1", offset |-> o1],
                           [id |-> 2, edge |-> "kf1-kf2", track |-> "kf-2", offset |-> o2]>>,
     edges |-> <<[id |-> "kf1-kf2", source |-> "kf-1", target |-> "kf-2", discrepancy |-> q]>>]

Disagreement(x1, x2, o1, o2, p) ==
    Minus(Plus(to_exact_rational_independent(x2, p), to_exact_rational_independent(o2, p)),
          Plus(to_exact_rational_independent(x1, p), to_exact_rational_independent(o1, p)))

FusedPair(doc, n1, n2, x1, x2, o1, o2, p, q) ==
    /\ LegalDocument(doc) /\ x1 \in Text /\ x2 \in Text /\ p \in 0..MaxPlaces
    /\ n1 \in Int /\ n2 \in Int /\ o1 = Decimal(n1) /\ o2 = Decimal(n2)
    /\ q \in _decimal_string_from_fraction(Disagreement(x1, x2, o1, o2, p), p)
    /\ SnapshotOf(doc, FusedIds, <<x1, x2>>, p, FusedComparisons(o1, o2, q))

LEMMA FusedIsPair ==
    ASSUME NEW doc, LegalDocument(doc), Bare(doc) \in FusedSnapshots
    PROVE  \E n1, n2, x1, x2, o1, o2, p, q : FusedPair(doc, n1, n2, x1, x2, o1, o2, p, q)
<1>1. PICK policy \in {"natural", "artificial_perturbation"},
           x1 \in Positions, x2 \in Positions, p \in Places :
        Bare(doc) \in build_fused_snapshot(policy, x1, x2, p)
    BY DEF FusedSnapshots
<1> DEFINE n1 == _offsets_for(policy)[1]
           n2 == _offsets_for(policy)[2]
           o1 == Decimal(n1)
           o2 == Decimal(n2)
           value == Disagreement(x1, x2, o1, o2, p)
           comparisons(q) == FusedComparisons(o1, o2, q)
<1>2. n1 \in Int /\ n2 \in Int
    BY DEF _offsets_for
<1>3. PICK q \in _decimal_string_from_fraction(value, p) :
        Bare(doc) = With(Snapshot(FusedIds, <<x1, x2>>, p, comparisons(q)),
                         _build_provenance, _independence_policy(FUSED_EDGES, {}))
    BY <1>1 DEF build_fused_snapshot, Disagreement, FusedComparisons, FusedIds
<1>4. DOMAIN doc = Fields
    BY DEF LegalDocument
<1>5. SnapshotOf(doc, FusedIds, <<x1, x2>>, p, comparisons(q))
    <2> DEFINE c == comparisons(q)
               states == <<x1, x2>>
               nodes == _build_provenance
               admits == _independence_policy(FUSED_EDGES, {})
    <2>1. Bare(doc) = With(Snapshot(FusedIds, states, p, c), nodes, admits) /\ nodes \in EmittedGraphs
        BY <1>3 DEF EmittedGraphs
    <2> HIDE DEF c, states, nodes, admits
    <2>2. SnapshotOf(doc, FusedIds, states, p, c)
        BY <1>4, <2>1, SnapshotWith DEF Bare
    <2> QED
        BY <2>2 DEF c, states
<1>6. x1 \in Text /\ x2 \in Text /\ p \in 0..MaxPlaces
    BY EmitterAssumption
<1> HIDE DEF n1, n2
<1>7. FusedPair(doc, n1, n2, x1, x2, o1, o2, p, q)
    BY <1>2, <1>3, <1>5, <1>6 DEF FusedPair
<1> QED
    BY <1>7

\* A text that is a decimal of its form.
LEMMA FormIsText ==
    ASSUME NEW q \in Decimals, NEW g \in BOOLEAN, NEW k \in Nat, NEW f \in Nat,
           q = [negative |-> g, digits |-> k, fraction |-> f]
    PROVE  q \in Text /\ q # NotDecimal
<1>1. q \in [negative : BOOLEAN, digits : Nat, fraction : Nat]
    OBVIOUS
<1>2. q # NotDecimal
    BY <1>1, EmitterAssumption
<1> QED
    BY <1>2 DEF Decimals

\* The inverse is converted to what it was made of.
LEMMA InverseConverts ==
    ASSUME NEW value \in Fractions, NEW p \in 0..MaxPlaces,
           NEW q \in Decimals, q \in _decimal_string_from_fraction(value, p)
    PROVE  /\ q \in Text /\ q # NotDecimal
           /\ to_exact_rational_independent(q, p) = value
<1> DEFINE e == 10^p
           n == value[1]
           d == value[2]
           m == e \div d
           k == Magnitude(n) * m
           g == n < 0
           s == n * m
           i == Independent(q, p)
<1>1. n \in Int /\ d \in Int /\ d \in Nat /\ d # 0
    BY FractionParts
<1>2. e \in Nat \ {0} /\ e \in Positive
    BY PowersOfTen DEF Positive
<1>3. e % d = 0 /\ q = [negative |-> g, digits |-> k, fraction |-> p]
    BY DEF _decimal_string_from_fraction
<1>4. m \in Nat /\ m * d = e
    <2> HIDE DEF e, d, n
    <2>1. d \in Positive /\ e \in Int
        BY <1>1, <1>2 DEF Positive
    <2>2. m \in Int /\ e = m * d + (e % d)
        BY <2>1, DivMod
    <2> HIDE DEF m
    <2>3. m * d = e
        BY <1>1, <1>3, <2>2
    <2>4. m >= 0
        BY <1>1, <1>2, <2>2, <2>3
    <2> QED
        BY <2>2, <2>3, <2>4
<1>5. k \in Nat /\ s \in Int
    <2> HIDE DEF n, m
    <2> QED
        BY <1>1, <1>4 DEF Magnitude
<1>6. q.digits = k /\ q.fraction = p /\ Signed(q, q.digits) = s
    <2> HIDE DEF n, m
    <2>1. CASE n < 0
        <3>1. q.negative /\ q.digits = k /\ q.fraction = p
            BY <1>3, <2>1
        <3>2. k = (-n) * m
            BY <1>1, <2>1 DEF Magnitude
        <3>3. -((-n) * m) = n * m
            BY <1>1, <1>4
        <3> QED
            BY <3>1, <3>2, <3>3 DEF Signed
    <2>2. CASE ~(n < 0)
        <3>1. ~q.negative /\ q.digits = k /\ q.fraction = p
            BY <1>3, <2>2
        <3>2. k = n * m
            BY <1>1, <2>2 DEF Magnitude
        <3> QED
            BY <3>1, <3>2 DEF Signed
    <2> QED
        BY <2>1, <2>2
<1>7. q \in Text /\ q # NotDecimal
    <2> HIDE DEF k, g
    <2>1. p \in Nat /\ g \in BOOLEAN
        BY CanonAssumption DEF g
    <2> QED
        BY <1>3, <1>5, <2>1, FormIsText
<1> HIDE DEF e, n, d, m, k, g, s
<1>8. i \in Int /\ Nearest(s * e, e, i)
    <2>1. Nearest(Signed(q, q.digits) * 10^p, 10^q.fraction, Independent(q, p)) /\ Independent(q, p) \in Int
        BY <1>7, RoutesNearest
    <2> QED
        BY <1>6, <2>1 DEF e
<1>9. Nearest(s * e, e, s)
    BY <1>2, <1>5 DEF Nearest, Positive
<1> HIDE DEF i
<1>10. i = s
    <2> DEFINE a == s * e
    <2>1. a \in Int
        BY <1>2, <1>5
    <2>2. Nearest(a, e, s) /\ Nearest(a, e, i)
        BY <1>8, <1>9
    <2> HIDE DEF a
    <2> QED
        BY <1>2, <1>5, <1>8, <2>1, <2>2, NearestUnique
<1>11. Fraction(s, e) = value
    <2> DEFINE f == Fraction(s, e)
    <2>1. e \in Int \ {0} /\ d \in Int \ {0}
        BY <1>1, <1>2
    <2>2. f \in Fractions /\ Represents(f, s, e)
        BY <1>5, <2>1, FractionIs
    <2>3. Represents(value, n, d)
        BY RepSelf DEF n, d
    <2>4. s * d = n * e
        <3>1. (n * m) * d = n * (m * d)
            BY <1>1, <1>4
        <3> QED
            BY <1>4, <3>1 DEF s
    <2> HIDE DEF f
    <2>5. f = value
        BY <1>1, <1>5, <2>1, <2>2, <2>3, <2>4, RepEqual
    <2> QED
        BY <2>5 DEF f
<1> QED
    BY <1>7, <1>10, <1>11 DEF to_exact_rational_independent, i, e

\* One comparison, of two tracks.
LEMMA FusedStands ==
    ASSUME NEW doc, NEW n1, NEW n2, NEW x1, NEW x2, NEW o1, NEW o2, NEW p, NEW q,
           FusedPair(doc, n1, n2, x1, x2, o1, o2, p, q)
    PROVE  /\ Stands(doc, FusedIds, <<x1, x2>>, p, FusedComparisons(o1, o2, q), 2, 1)
           /\ doc.edges[1].discrepancy = q /\ DOMAIN doc.edges = {1}
           /\ doc.edges[1].source = "kf-1" /\ doc.edges[1].target = "kf-2"
           /\ doc.transformations[1].offset = o1 /\ doc.transformations[2].offset = o2
           /\ FusedIds[1] = "kf-1" /\ FusedIds[2] = "kf-2"
           /\ DOMAIN doc.tracks = 1..2
<1> DEFINE c == FusedComparisons(o1, o2, q)
           x == c.transformations
           y == c.edges
<1>1. FusedIds[1] = "kf-1" /\ FusedIds[2] = "kf-2" /\ DOMAIN FusedIds = 1..2
    BY DEF FusedIds
<1>2. /\ DOMAIN y = 1..1 /\ DOMAIN x = 1..2
      /\ y[1].id = "kf1-kf2" /\ y[1].source = "kf-1" /\ y[1].target = "kf-2" /\ y[1].discrepancy = q
      /\ x[1].id = 1 /\ x[1].edge = "kf1-kf2" /\ x[1].track = "kf-1" /\ x[1].offset = o1
      /\ x[2].id = 2 /\ x[2].edge = "kf1-kf2" /\ x[2].track = "kf-2" /\ x[2].offset = o2
    BY DEF FusedComparisons
<1>3. LegalDocument(doc) /\ doc.edges = y /\ doc.transformations = x
      /\ SnapshotOf(doc, FusedIds, <<x1, x2>>, p, c)
    BY DEF FusedPair, SnapshotOf
<1> HIDE DEF c
<1>4. Compares(c, FusedIds, 1)
    <2>1. 2 * 1 = 2 /\ 2 * 1 - 1 = 1 /\ 1..1 = {1} /\ "kf-1" # "kf-2"
        OBVIOUS
    <2>2. \A k \in 1..2 : x[k].id = k
        BY <1>2
    <2> HIDE DEF x, y
    <2> QED
        BY <1>1, <1>2, <2>1, <2>2 DEF Compares, x, y
<1>5. DOMAIN doc.tracks = 1..2
    BY <1>1, <1>3 DEF SnapshotOf
<1>6. \A k, l \in 1..2 : FusedIds[k] = FusedIds[l] => k = l
    BY <1>1
<1>7. Stands(doc, FusedIds, <<x1, x2>>, p, c, 2, 1)
    BY <1>1, <1>3, <1>4, <1>6 DEF Stands
<1> QED
    BY <1>1, <1>2, <1>3, <1>5, <1>7 DEF c

\* Its edge holds, and the two tracks and their disagreement are one equation
\* that always has a solution.
LEMMA FusedVerifies ==
    ASSUME NEW doc, NEW n1, NEW n2, NEW x1, NEW x2, NEW o1, NEW o2, NEW p, NEW q,
           FusedPair(doc, n1, n2, x1, x2, o1, o2, p, q)
    PROVE  /\ WithinLimits(doc) /\ Structured(doc) /\ AllScalar(doc) /\ doc.stamped /\ doc.complete
           /\ \A k \in DOMAIN doc.edges : EdgeHolds(doc, doc.edges[k])
           /\ Solvable(Reconstructed(doc).D, Reconstructed(doc).r)
<1> DEFINE c == FusedComparisons(o1, o2, q)
           states == <<x1, x2>>
           e == doc.edges[1]
           one == 1
           two == 2
           conv(t) == to_exact_rational_independent(t, p)
           value == Disagreement(x1, x2, o1, o2, p)
           D == [k \in 1..one |-> RowOf(two, one, two)]
           r == [k \in 1..one |-> value]
           b == [k \in 1..two |-> IF k = one THEN Zero ELSE value]
<1>1. /\ Stands(doc, FusedIds, states, p, c, two, one)
      /\ e.discrepancy = q /\ DOMAIN doc.edges = {1}
      /\ e.source = "kf-1" /\ e.target = "kf-2"
      /\ doc.transformations[1].offset = o1 /\ doc.transformations[2].offset = o2
      /\ FusedIds[1] = "kf-1" /\ FusedIds[2] = "kf-2" /\ DOMAIN doc.tracks = 1..2
    BY FusedStands
<1>2. /\ LegalDocument(doc) /\ x1 \in Text /\ x2 \in Text /\ p \in 0..MaxPlaces
      /\ n1 \in Int /\ n2 \in Int /\ o1 = Decimal(n1) /\ o2 = Decimal(n2)
      /\ q \in _decimal_string_from_fraction(value, p)
      /\ doc.stamped /\ doc.complete
    BY DEF FusedPair, SnapshotOf
<1>3. states[1] = x1 /\ states[2] = x2
    OBVIOUS
<1>4. Crosses(doc, FusedIds, states, p, c, two, one, one, e, o1, o2, one, two)
    <2>1. Ends(FusedIds, two, e, one, two)
        BY <1>1 DEF Ends
    <2>2. 2 * one - 1 = 1 /\ 2 * one = 2 /\ one \in 1..one
        OBVIOUS
    <2> HIDE DEF c, states
    <2> QED
        BY <1>1, <2>1, <2>2 DEF Crosses
<1>5. /\ o1 \in Decimals /\ o2 \in Decimals /\ q \in Decimals
    <2>1. 1 \in DOMAIN doc.transformations /\ 2 \in DOMAIN doc.transformations /\ 1 \in DOMAIN doc.edges
        <3>1. doc.transformations = c.transformations
            BY DEF FusedPair, SnapshotOf
        <3>2. DOMAIN c.transformations = 1..2
            BY DEF FusedComparisons
        <3> QED
            BY <1>1, <3>1, <3>2
    <2> QED
        BY <1>1, <1>2, <2>1 DEF LegalDocument
<1>6. o1 \in Text /\ o1 # NotDecimal /\ o2 \in Text /\ o2 # NotDecimal
    BY <1>2, <1>5, DecimalText
<1>7. x1 # NotDecimal /\ x2 # NotDecimal
    BY <1>2, DraftsAssumption
<1>8. value \in Fractions
    <2>1. conv(x1) \in Fractions /\ conv(x2) \in Fractions /\ conv(o1) \in Fractions /\ conv(o2) \in Fractions
        BY <1>2, <1>6, Converted
    <2> DEFINE y1 == Plus(conv(x1), conv(o1))
               y2 == Plus(conv(x2), conv(o2))
    <2>2. y1 \in Fractions /\ y2 \in Fractions
        BY <2>1, FractionsClosed
    <2>3. value = Minus(y2, y1)
        BY DEF Disagreement
    <2> HIDE DEF y1, y2, value
    <2> QED
        BY <2>2, <2>3, FractionsClosed
<1> HIDE DEF c, states, one, two, e, value
<1>9. q \in Text /\ q # NotDecimal /\ conv(q) = value
    BY <1>2, <1>5, <1>8, InverseConverts
<1>10. Residue(doc, e) = Minus(Plus(conv(states[two]), conv(o2)), Plus(conv(states[one]), conv(o1)))
    BY <1>4, SnapshotEdge
<1>11. Row(doc, e) = RowOf(two, one, two)
    BY <1>4, SnapshotEdge
<1>12. NotDecimal \notin {states[one], states[two], e.discrepancy, o1, o2} => Convertible(doc, e)
    BY <1>4, SnapshotEdge
<1>13. Source(doc, e) = doc.tracks[one] /\ Target(doc, e) = doc.tracks[two] /\ doc.position = p
    BY <1>4, SnapshotEdge
<1>14. states[one] = x1 /\ states[two] = x2
    BY <1>3 DEF one, two
<1>15. Residue(doc, e) = value
    BY <1>10, <1>14 DEF value, Disagreement
<1>16. EdgeHolds(doc, e)
    BY <1>1, <1>6, <1>7, <1>9, <1>12, <1>13, <1>14, <1>15 DEF EdgeHolds
<1>17. \A k \in DOMAIN doc.edges : EdgeHolds(doc, doc.edges[k])
    BY <1>1, <1>16 DEF e
<1>18. WithinLimits(doc) /\ Structured(doc) /\ AllScalar(doc)
    BY <1>1, SnapshotStands
<1>19. UniqueIds(doc.tracks) /\ ReferencesHold(doc) /\ Len(doc.tracks) = two
    BY <1>1, SnapshotStands
<1>20. Reconstructed(doc).D = D /\ Reconstructed(doc).r = r
    <2>1. DOMAIN doc.edges = 1..one /\ \A k \in 1..one : doc.edges[k] = e
        BY <1>1 DEF one, e
    <2>2. Reconstructed(doc) = Problem(D, r)
        BY <1>11, <1>15, <2>1 DEF Reconstructed
    <2> QED
        BY <2>2 DEF Problem
<1>21. one \in Nat /\ two \in Nat /\ one > 0 /\ one # two /\ one \in 1..one /\ one \in 1..two /\ two \in 1..two
       /\ 1..one = {one} /\ 1..two = {one, two}
    BY DEF one, two
<1>22. RowOf(two, one, two) \in FractionRow(two)
    <2>1. <<-1, 1>> \in Fractions
        <3>1. -1 \in Int /\ Integral(-1) = <<-1, 1>>
            BY DEF Integral
        <3> QED
            BY <3>1, IntegralIs
    <2> QED
        BY <2>1, ZeroOne DEF RowOf, FractionRow
<1>23. D \in Rows(one, two) /\ r \in FractionRow(one) /\ b \in FractionRow(two)
    BY <1>8, <1>22, ZeroOne DEF Rows, FractionRow
<1>24. mat_vec(D, b) = r
    <2>1. Len(D) = one /\ Len(b) = two
        <3> HIDE DEF D, b
        <3> QED
            BY <1>21, <1>23 DEF Rows, FractionRow
    <2>2. D[one] = RowOf(two, one, two) /\ b[one] = Zero /\ b[two] = value
        BY <1>21
    <2> DEFINE row == Row(doc, e)
               start == Source(doc, e)
               stop == Target(doc, e)
               size == Len(doc.tracks)
    <2>3. \A h \in DOMAIN doc.tracks : b[h] \in Fractions
        <3>1. DOMAIN doc.tracks = 1..two
            BY <1>1 DEF two
        <3> HIDE DEF b
        <3> QED
            BY <1>23, <3>1 DEF FractionRow
    <2>4. \E i, j \in DOMAIN doc.tracks :
             /\ start = doc.tracks[i] /\ stop = doc.tracks[j]
             /\ SumProducts(row, b, size) = Minus(b[j], b[i])
        <3>1. 1 \in DOMAIN doc.edges /\ e = doc.edges[1]
            BY <1>1 DEF e
        <3> HIDE DEF b
        <3> QED
            BY <1>2, <1>19, <2>3, <3>1, RowProducts
    <2>5. \A g, h \in 1..two : doc.tracks[g] = doc.tracks[h] => g = h
        BY <1>1, <1>19 DEF UniqueIds, two
    <2>6. SumProducts(row, b, two) = Minus(b[two], b[one])
        <3>1. size = two /\ start = doc.tracks[one] /\ stop = doc.tracks[two] /\ DOMAIN doc.tracks = 1..two
            BY <1>1, <1>13, <1>19 DEF two
        <3> HIDE DEF b, row, start, stop, size
        <3> QED
            BY <1>21, <2>4, <2>5, <3>1
    <2>7. Minus(value, Zero) = value
        BY <1>8, ZeroOne, MinusIs
    <2>8. SumProducts(D[one], b, two) = value
        BY <1>11, <2>2, <2>6, <2>7
    <2> HIDE DEF D, b
    <2>9. mat_vec(D, b) = [k \in 1..one |-> SumProducts(D[k], b, two)]
        BY <2>1 DEF mat_vec
    <2> QED
        BY <1>21, <2>8, <2>9
<1>25. Solvable(D, r)
    <2> HIDE DEF D, r, b
    <2> QED
        BY <1>21, <1>23, <1>24, SolvableIs
<1> QED
    BY <1>2, <1>17, <1>18, <1>20, <1>25

(***************************************************************************)
(* Whatever integer the four trackers measured, whatever two decimals the  *)
(* fused pair did, and to however many places the policy rounds them: what *)
(* the three emitters declare is accepted with no claim, and with the      *)
(* generator's if that is not too long, which a four-cycle's never is; the *)
(* coherent offsets repair the four-cycle, the obstructed one is the       *)
(* coarse complex with its residue, and the pair is never obstructed.      *)
(***************************************************************************)
THEOREM EmittersDeclare == DerivationSpec => []EmittedAsDeclared
<1>1. FlowInv => EmittedAsDeclared
    <2> DEFINE p == Reconstructed(document)
               x == [k \in DOMAIN TRACKER_IDS |-> <<COHERENT_OFFSETS[TRACKER_IDS[k]], 1>>]
    <2> SUFFICES ASSUME FlowInv, verdict # "none", ~altered
                 PROVE  /\ Bare(document) \in CoherentSnapshots =>
                             Accepted /\ p.D = delta0(COARSE) /\ mat_vec(p.D, x) = p.r
                        /\ Bare(document) \in ObstructedSnapshots =>
                             Accepted /\ p = Problem(delta0(COARSE), COARSE.residue)
                        /\ Bare(document) \in FusedSnapshots =>
                             (Accepted \/ ClaimTooLong) /\ Solvable(p.D, p.r)
        BY DEF EmittedAsDeclared, Bare
    <2>1. LegalDocument(document)
        BY DerivedIs
    <2>2. ASSUME NEW policy, NEW v, NEW q, FourCycle(document, policy, v, q)
          PROVE  Accepted
        <3>1. ~ClaimTooLong
            BY <2>2, ClaimsAre, FourShort DEF ClaimTooLong
        <3> QED
            BY <2>2, <3>1, FourVerifies, PassesGate
    <2>3. ASSUME Bare(document) \in CoherentSnapshots
          PROVE  Accepted /\ p.D = delta0(COARSE) /\ mat_vec(p.D, x) = p.r
        <3>1. PICK v \in Values, q \in Places : FourCycle(document, "coherent", v, q)
            BY <2>1, <2>3, CoherentIsFour
        <3>2. Accepted
            BY <2>2, <3>1
        <3>3. p.D = FourMatrix
            BY <3>1, FourProblem
        <3>4. mat_vec(FourMatrix, x) = p.r
            BY <3>1, OffsetsRepair
        <3> HIDE DEF p, x
        <3> QED
            BY <3>2, <3>3, <3>4, CoarseMatrix
    <2>4. ASSUME Bare(document) \in ObstructedSnapshots
          PROVE  Accepted /\ p = Problem(delta0(COARSE), COARSE.residue)
        <3>1. PICK v \in Values, q \in Places : FourCycle(document, "canonical_obstruction", v, q)
            BY <2>1, <2>4, ObstructedIsFour
        <3>2. Accepted
            BY <2>2, <3>1
        <3> DEFINE policy == "canonical_obstruction"
                   r == [k \in 1..4 |-> Integral(Second(policy, k) - First(policy, k))]
        <3>3. FourCycle(document, policy, v, q)
            BY <3>1
        <3>4. COARSE.residue = r
            BY CoarseResidue
        <3> HIDE DEF policy
        <3>5. p = Problem(FourMatrix, r)
            BY <3>3, FourProblem
        <3> HIDE DEF p, r
        <3> QED
            BY <3>2, <3>4, <3>5, CoarseMatrix
    <2>5. ASSUME Bare(document) \in FusedSnapshots
          PROVE  (Accepted \/ ClaimTooLong) /\ Solvable(p.D, p.r)
        <3>1. PICK n1, n2, x1, x2, o1, o2, round, q :
                 FusedPair(document, n1, n2, x1, x2, o1, o2, round, q)
            BY <2>1, <2>5, FusedIsPair
        <3>2. /\ WithinLimits(document) /\ Structured(document) /\ AllScalar(document)
              /\ document.stamped /\ document.complete
              /\ \A k \in DOMAIN document.edges : EdgeHolds(document, document.edges[k])
              /\ Solvable(p.D, p.r)
            BY <3>1, FusedVerifies
        <3> QED
            BY <3>2, PassesGate
    <2> QED
        BY <2>3, <2>4, <2>5
<1> QED
    BY <1>1, FlowInvariant, PTL

----------------------------------------------------------------------------
(***************************************************************************)
(* The files.                                                              *)
(***************************************************************************)
AdapterCertificates == Emitted \cup Forgeries

SnapshotFiles    == {{doc} : doc \in Documents} \cup {{}}
CertificateFiles == {{cert} : cert \in AdapterCertificates} \cup {{}}
ProblemFiles     == {{p} : p \in Problems} \cup {{}}
R21Files         == {{c} : c \in {x \in Certificate : Headed(x)}} \cup {{}}

Files ==
    [snapshot : SnapshotFiles, certificate : CertificateFiles,
     roc_input : ProblemFiles, r21 : R21Files]

LEMMA OnlyOne == ASSUME NEW x PROVE Only({x}) = x
    BY DEF Only

\* An emitted certificate says of its snapshot what verify_chain asks.
EmittedFrom(doc, cert) ==
    /\ verify_snapshot_doc(doc) /\ check_independence(doc)
    /\ cert.closed /\ cert.sealed
    /\ BoundToSnapshot(doc, cert) /\ BindingsHold(doc, cert)
    /\ AttestationsHold(doc, cert) /\ MatricesHold(Reconstructed(doc), cert)
    /\ Reconstructed(doc) \in Problems
    /\ cert \in Emitted

LEMMA EmittedShape ==
    ASSUME NEW doc \in Documents
    PROVE  \/ emit_certificate(doc) = {}
           \/ \E cert \in Emitted : emit_certificate(doc) = {cert} /\ EmittedFrom(doc, cert)
<1> SUFFICES ASSUME emit_certificate(doc) # {}
             PROVE  \E cert \in Emitted :
                       emit_certificate(doc) = {cert} /\ EmittedFrom(doc, cert)
    OBVIOUS
<1> DEFINE cert == [closed |-> TRUE, sealed |-> TRUE,
                    snapshot_payload_digest |-> doc.digest,
                    quantisation_policy |-> <<doc.position, doc.transform>>,
                    row_bindings |-> IdsInOrder(doc.edges),
                    column_bindings |-> IdsInOrder(doc.tracks),
                    conversion_attestations |-> AllAttested(doc),
                    D |-> Reconstructed(doc).D, r |-> Reconstructed(doc).r,
                    roc_input |-> Reconstructed(doc), r21_input_digest |-> Reconstructed(doc)]
<1>1. emit_permitted(doc) /\ emit_certificate(doc) = {cert}
    BY DEF emit_certificate
<1>2. verify_snapshot_doc(doc) /\ check_independence(doc) /\ CanAttest(doc)
    BY <1>1 DEF emit_permitted
<1>3. cert \in Emitted
    BY <1>1 DEF Emitted, FilesOf
<1>4. AttestationsHold(doc, cert)
    BY <1>2 DEF AttestationsHold, AllAttested, CanAttest
<1>5. BoundToSnapshot(doc, cert) /\ BindingsHold(doc, cert) /\ MatricesHold(Reconstructed(doc), cert)
    BY DEF BoundToSnapshot, BindingsHold, MatricesHold
<1>6. Reconstructed(doc) \in Problems
    BY <1>2, DocumentAssumption
<1>7. EmittedFrom(doc, cert)
    BY <1>2, <1>3, <1>4, <1>5, <1>6 DEF EmittedFrom
<1> QED
    BY <1>1, <1>3, <1>7

LEMMA Solved ==
    ASSUME NEW p \in Problems
    PROVE  \/ solve[p] = {}
           \/ \E c \in build_certificate(p) : solve[p] = {c}
BY DEF solve, Deciding

\* What the files of a run hold.
LEMMA RunFiles ==
    ASSUME NEW doc \in Documents
    PROVE  /\ FilesOf[doc] \in Files
           /\ FilesOf[doc].snapshot = {doc}
           /\ FilesOf[doc].certificate = emit_certificate(doc)
           /\ \/ FilesOf[doc].certificate = {} /\ FilesOf[doc].roc_input = {} /\ FilesOf[doc].r21 = {}
              \/ \E cert :
                   /\ FilesOf[doc].certificate = {cert} /\ EmittedFrom(doc, cert)
                   /\ FilesOf[doc].roc_input = {cert.roc_input}
                   /\ FilesOf[doc].r21 = solve[cert.roc_input]
<1> DEFINE made == emit_certificate(doc)
           p    == {c.roc_input : c \in made}
           r21  == UNION {solve[q] : q \in p}
<1>1. FilesOf[doc] = [snapshot |-> {doc}, certificate |-> made, roc_input |-> p, r21 |-> r21]
    BY DEF FilesOf
<1>2. CASE made = {}
    <2>1. p = {}
        BY <1>2
    <2>2. r21 = {}
        BY <2>1
    <2> HIDE DEF made, p, r21
    <2>3. FilesOf[doc] \in Files
        BY <1>1, <1>2, <2>1, <2>2
        DEF Files, SnapshotFiles, CertificateFiles, AdapterCertificates, ProblemFiles, R21Files
    <2> QED
        BY <1>1, <1>2, <2>1, <2>2, <2>3 DEF made
<1>3. CASE \E cert : made = {cert} /\ EmittedFrom(doc, cert)
    <2>1. PICK cert : made = {cert} /\ EmittedFrom(doc, cert)
        BY <1>3
    <2>2. cert \in Emitted /\ cert.roc_input \in Problems
        BY <2>1 DEF EmittedFrom, MatricesHold
    <2>3. p = {cert.roc_input}
        BY <2>1
    <2>4. r21 = solve[cert.roc_input]
        BY <2>3
    <2>5. r21 \in R21Files
        BY <2>2, <2>4, Solved, GenuineShape DEF R21Files
    <2> HIDE DEF made, p, r21
    <2>6. FilesOf[doc] \in Files
        BY <1>1, <2>1, <2>2, <2>3, <2>5
        DEF Files, SnapshotFiles, CertificateFiles, AdapterCertificates, ProblemFiles
    <2> QED
        BY <1>1, <2>1, <2>3, <2>4, <2>6 DEF made
<1> QED
    BY <1>2, <1>3, EmittedShape

LEMMA ReplacedFiles ==
    ASSUME NEW f \in {"snapshot", "certificate", "roc_input", "r21"}, NEW contents \in Contents[f]
    PROVE  /\ f = "snapshot" => contents \in SnapshotFiles
           /\ f = "certificate" => contents \in CertificateFiles
           /\ f = "roc_input" => contents \in ProblemFiles
           /\ f = "r21" => contents \in R21Files
<1>1. \A doc \in Documents : FilesOf[doc] \in Files
    BY RunFiles
<1>2. ASSUME NEW c \in ForgedR21 PROVE c \in Certificate /\ Headed(c)
    <2>1. PICK p \in Problems, result \in Results, x \in Entries :
            c = Written(p, result, [k \in 1..3 |-> x])
        BY DEF ForgedR21
    <2>2. [k \in 1..3 |-> x] \in Seq(Entries)
        OBVIOUS
    <2> QED
        BY <2>1, <2>2 DEF Written, Certificate, Headed, KeyNames, Results, CERTIFICATE_KEYS
<1>3. CASE f = "snapshot"
    BY <1>1, <1>3 DEF Contents, Files, SnapshotFiles
<1>4. CASE f = "certificate"
    BY <1>1, <1>4 DEF Contents, Files, CertificateFiles, AdapterCertificates
<1>5. CASE f = "roc_input"
    BY <1>1, <1>5 DEF Contents, Files, ProblemFiles
<1>6. CASE f = "r21"
    BY <1>1, <1>2, <1>6 DEF Contents, Files, R21Files
<1> QED
    BY <1>3, <1>4, <1>5, <1>6

(***************************************************************************)
(* The chain.                                                              *)
(***************************************************************************)
LEMMA ChainMeans ==
    ASSUME NEW doc \in Documents, NEW cert, NEW c \in Certificate, Headed(c),
           verify_chain(doc, cert, c)
    PROVE  OfOnePiece(doc, cert, c) /\ Reconstructed(doc) \in Problems
<1> DEFINE p == Reconstructed(doc)
<1>1. /\ verify_snapshot_doc(doc) /\ BoundToSnapshot(doc, cert) /\ BindingsHold(doc, cert)
      /\ AttestationsHold(doc, cert) /\ MatricesHold(p, cert) /\ check_certificate(p, c) = {}
    BY DEF verify_chain
<1>2. p \in Problems
    BY <1>1, DocumentAssumption
<1>3. c \in Deciding[p]
    <2> HIDE DEF p
    <2> QED
        BY <1>1, <1>2, AcceptedIsGenuine DEF Deciding
<1>4. cert.conversion_attestations \subseteq AllAttested(doc)
    BY <1>1 DEF AttestationsHold, AllAttested
<1>5. cert.snapshot_payload_digest = compute_payload_digest(doc)
    BY <1>1 DEF BoundToSnapshot, verify_snapshot_doc
<1> QED
    BY <1>1, <1>2, <1>3, <1>4, <1>5 DEF OfOnePiece, BindingsHold, MatricesHold

\* The digest that binds an emitted certificate covers the graph and the policy.
LEMMA BoundIsAdmissible ==
    ASSUME NEW doc \in Documents, NEW cert \in Emitted,
           verify_snapshot_doc(doc), BoundToSnapshot(doc, cert)
    PROVE  check_independence(doc)
<1>1. PICK d \in Documents : cert \in emit_certificate(d)
    BY DEF Emitted, FilesOf
<1>2. EmittedFrom(d, cert)
    BY <1>1, EmittedShape
<1>3. compute_payload_digest(doc) = compute_payload_digest(d)
    BY <1>2 DEF EmittedFrom, BoundToSnapshot, verify_snapshot_doc
<1>4. doc.provenance = d.provenance /\ doc.policy = d.policy
    BY <1>3 DEF compute_payload_digest
<1> QED
    BY <1>2, <1>4 DEF EmittedFrom, check_independence

\* All the certificates that decide a problem have the same result.
LEMMA OneResult ==
    ASSUME NEW p \in Problems, NEW c \in Deciding[p], NEW g \in Deciding[p]
    PROVE  g.result = c.result
<1>1. c \in build_certificate(p) /\ g \in build_certificate(p)
    BY DEF Deciding
<1>2. /\ c.result \in Results /\ g.result \in Results
      /\ c.witness \in Vectors(expected(p, c)) /\ Exact(c.witness)
      /\ g.witness \in Vectors(expected(p, g)) /\ Exact(g.witness)
      /\ c.result = "repair" => mat_vec(p.D, c.witness) = p.r
      /\ g.result = "repair" => mat_vec(p.D, g.witness) = p.r
    BY <1>1, GenuineShape
<1>3. ASSUME NEW s \in build_certificate(p), s.result = "separator",
             NEW b \in build_certificate(p), b.result = "repair"
      PROVE  FALSE
    <2>1. b.witness \in Vectors(cols(p)) /\ Exact(b.witness) /\ mat_vec(p.D, b.witness) = p.r
        BY <1>3, GenuineShape DEF expected
    <2> QED
        BY <1>3, <2>1, NeverBoth
<1> QED
    BY <1>1, <1>2, <1>3 DEF Results

(***************************************************************************)
(* The inductive invariant. Each stage leaves in the temporary directory   *)
(* what it made of what the stages before it left there; the auditor has   *)
(* one document of each file that it has read.                             *)
(***************************************************************************)
Stages ==
    {"verify", "emit", "roc_input", "solve", "check", "check_ocaml", "chain",
     "passed", "StageFailure", "lost"}
AfterSolve == {"check", "check_ocaml", "chain", "passed"}
AfterInput == AfterSolve \cup {"solve"}
AfterEmit  == AfterInput \cup {"roc_input"}

FilesInv ==
    /\ tracked \in Files
    /\ replacements \in 0..MaxReplacements

\* The certificate was emitted for some snapshot, though perhaps not for the one
\* that stands there now.
StageInv ==
    /\ stage \in Stages
    /\ tmp \in Files
    /\ stage \in AfterEmit =>
         \E doc \in Documents, cert \in Emitted : tmp.certificate = {cert} /\ EmittedFrom(doc, cert)
    /\ stage \in AfterInput => tmp.roc_input = {Only(tmp.certificate).roc_input}
    /\ stage \in AfterSolve =>
         \E c : /\ tmp.r21 = {c} /\ c \in solve[Only(tmp.roc_input)]
                /\ c.result = expected_result
    /\ stage = "passed" =>
         \E doc \in Documents :
            /\ tmp.snapshot = {doc}
            /\ verify_chain(doc, Only(tmp.certificate), Only(tmp.r21))

AuditorInv ==
    \/ auditor.at = "snapshot" /\ auditor.verdict = "none"
    \/ /\ auditor.at = "certificate" /\ auditor.verdict = "none"
       /\ \E doc \in Documents : auditor.snapshot = {doc}
    \/ /\ auditor.at = "r21" /\ auditor.verdict = "none"
       /\ \E doc \in Documents : auditor.snapshot = {doc}
       /\ \E cert \in AdapterCertificates : auditor.certificate = {cert}
    \/ auditor.at = "done" /\ auditor.verdict = "reject"
    \/ /\ auditor.at = "done" /\ auditor.verdict = "accept"
       /\ \E doc \in Documents, cert \in AdapterCertificates, c \in Certificate :
            /\ auditor.snapshot = {doc} /\ auditor.certificate = {cert} /\ auditor.r21 = {c}
            /\ Headed(c) /\ verify_chain(doc, cert, c)

AuditorType ==
    auditor \in [at : {"snapshot", "certificate", "r21", "done"}, snapshot : SnapshotFiles,
                 certificate : CertificateFiles, r21 : R21Files,
                 verdict : {"none", "accept", "reject"}]

IndInv == FilesInv /\ StageInv /\ AuditorType /\ AuditorInv

LEMMA Initially == Init => IndInv
<1> SUFFICES ASSUME Init PROVE IndInv
    OBVIOUS
<1>1. tracked \in Files
    BY RunFiles DEF Init
<1>2. FilesInv
    BY <1>1, ReplacementsAssumption DEF Init, FilesInv
<1>3. StageInv
    BY DEF Init, StageInv, Stages, AfterEmit, AfterInput, AfterSolve, Empty,
           Files, SnapshotFiles, CertificateFiles, ProblemFiles, R21Files
<1>4. AuditorInv /\ AuditorType
    BY DEF Init, AuditorInv, AuditorType, SnapshotFiles, CertificateFiles, R21Files
<1> QED
    BY <1>2, <1>3, <1>4 DEF IndInv

(***************************************************************************)
(* One lemma for each group of steps.                                      *)
(***************************************************************************)
LEMMA FilesStep ==
    ASSUME IndInv, Next
    PROVE  FilesInv'
<1>1. CASE Replace
    <2>1. PICK f \in DOMAIN tracked :
            \E contents \in Contents[f] : tracked' = [tracked EXCEPT ![f] = contents]
        BY <1>1 DEF Replace
    <2>2. PICK contents \in Contents[f] : tracked' = [tracked EXCEPT ![f] = contents]
        BY <2>1
    <2>3. f \in {"snapshot", "certificate", "roc_input", "r21"}
        BY DEF IndInv, FilesInv, Files
    <2>4. /\ f = "snapshot" => contents \in SnapshotFiles
          /\ f = "certificate" => contents \in CertificateFiles
          /\ f = "roc_input" => contents \in ProblemFiles
          /\ f = "r21" => contents \in R21Files
        BY <2>3, ReplacedFiles
    <2>5. tracked' \in Files
        BY <2>2, <2>3, <2>4 DEF IndInv, FilesInv, Files
    <2> QED
        BY <1>1, <2>5, ReplacementsAssumption DEF Replace, IndInv, FilesInv
<1>2. CASE UNCHANGED <<tracked, replacements>>
    BY <1>2 DEF IndInv, FilesInv
<1> QED
    BY <1>1, <1>2
    DEF Next, VerifySnapshot, EmitCertificate, WriteRocInput, Solve, Check, CheckOCaml,
        VerifyChain, StageLost, AuditSnapshot, AuditCertificate, AuditChain, AuditorReads,
        Done, Advance, Compare, MoveOn, vars

\* A comparison that succeeds leaves one document, that of the tracked file.
LEMMA ComparedAs ==
    ASSUME NEW here, NEW made, NEW file, NEW next,
           next \notin {"StageFailure", "lost"},
           Compare(here, made, file, next)
    PROVE  /\ stage = here /\ stage' \in {next, "StageFailure", "lost"}
           /\ stage' = next => made # {} /\ made = tracked[file]
           /\ UNCHANGED <<tracked, expected_result, auditor, replacements>>
BY DEF Compare, MoveOn

LEMMA StageStep ==
    ASSUME IndInv, Next
    PROVE  StageInv'
<1> USE DEF Stages, AfterEmit, AfterInput, AfterSolve
<1>1. FilesInv /\ StageInv
    BY DEF IndInv
<1>2. CASE VerifySnapshot
    <2>1. stage' \in {"emit", "StageFailure"} /\ tmp' = tmp
        BY <1>2 DEF VerifySnapshot, Advance, MoveOn
    <2> QED
        BY <1>1, <2>1 DEF StageInv
<1>3. CASE EmitCertificate
    <2> DEFINE cert == UNION {emit_certificate(doc) : doc \in tracked.snapshot}
    <2>1. Compare("emit", cert, "certificate", "roc_input")
          /\ tmp' = [tmp EXCEPT !.certificate = cert]
        BY <1>3 DEF EmitCertificate
    <2>2. cert = {} \/ \E doc \in Documents, one \in Emitted : cert = {one} /\ EmittedFrom(doc, one)
        <3>1. tracked.snapshot = {} \/ \E doc \in Documents : tracked.snapshot = {doc}
            BY <1>1 DEF FilesInv, Files, SnapshotFiles
        <3>2. ASSUME NEW doc \in Documents, tracked.snapshot = {doc}
              PROVE  cert = emit_certificate(doc)
            BY <3>2
        <3>3. tracked.snapshot = {} => cert = {}
            OBVIOUS
        <3> HIDE DEF cert
        <3> QED
            BY <3>1, <3>2, <3>3, EmittedShape
    <2> HIDE DEF cert
    <2>3. cert \in CertificateFiles
        BY <2>2 DEF EmittedFrom, CertificateFiles, AdapterCertificates
    <2>4. tmp' \in Files /\ tmp'.certificate = cert
        BY <1>1, <2>1, <2>3 DEF StageInv, Files
    <2>5. stage' \in {"roc_input", "StageFailure", "lost"} /\ (stage' = "roc_input" => cert # {})
        BY <2>1, ComparedAs
    <2> QED
        BY <2>2, <2>4, <2>5 DEF StageInv
<1>4. CASE WriteRocInput
    <2> DEFINE p == {cert.roc_input : cert \in tmp.certificate}
    <2>1. Compare("roc_input", p, "roc_input", "solve") /\ tmp' = [tmp EXCEPT !.roc_input = p]
        BY <1>4 DEF WriteRocInput
    <2>2. stage = "roc_input" /\ stage' \in {"solve", "StageFailure", "lost"}
        BY <2>1, ComparedAs
    <2>3. PICK doc \in Documents, cert \in Emitted : tmp.certificate = {cert} /\ EmittedFrom(doc, cert)
        BY <1>1, <2>2 DEF StageInv
    <2>4. p = {cert.roc_input} /\ Only(tmp.certificate) = cert
        BY <2>3, OnlyOne
    <2> HIDE DEF p
    <2>5. p \in ProblemFiles
        BY <2>3, <2>4 DEF EmittedFrom, MatricesHold, ProblemFiles
    <2>6. tmp' \in Files /\ tmp'.certificate = tmp.certificate /\ tmp'.roc_input = p
        BY <1>1, <2>1, <2>5 DEF StageInv, Files
    <2> QED
        BY <2>2, <2>3, <2>4, <2>6 DEF StageInv
<1>5. CASE Solve
    <2> DEFINE r21 == UNION {solve[p] : p \in tmp.roc_input}
               next == IF Only(r21).result = expected_result THEN "check" ELSE "StageFailure"
    <2>1. Compare("solve", r21, "r21", next) /\ tmp' = [tmp EXCEPT !.r21 = r21]
        BY <1>5 DEF Solve
    <2>2. /\ stage = "solve" /\ stage' \in {"check", "StageFailure", "lost"}
          /\ expected_result' = expected_result
          /\ stage' = "check" => r21 # {} /\ Only(r21).result = expected_result
        BY <2>1 DEF Compare, MoveOn
    <2>3. PICK doc \in Documents, cert \in Emitted : tmp.certificate = {cert} /\ EmittedFrom(doc, cert)
        BY <1>1, <2>2 DEF StageInv
    <2>4. tmp.roc_input = {cert.roc_input} /\ Only(tmp.certificate) = cert
          /\ Only(tmp.roc_input) = cert.roc_input
        <3>1. tmp.roc_input = {Only(tmp.certificate).roc_input}
            BY <1>1, <2>2 DEF StageInv
        <3>2. Only(tmp.certificate) = cert
            BY <2>3, OnlyOne
        <3> QED
            BY <3>1, <3>2, OnlyOne
    <2>5. cert.roc_input \in Problems
        BY <2>3 DEF EmittedFrom, MatricesHold
    <2>6. r21 = solve[cert.roc_input]
        BY <2>4
    <2> HIDE DEF r21, next
    <2>7. r21 = {} \/ \E c \in build_certificate(cert.roc_input) : r21 = {c}
        BY <2>5, <2>6, Solved
    <2>8. r21 \in R21Files
        BY <2>5, <2>7, GenuineShape DEF R21Files
    <2>9. /\ tmp' \in Files /\ tmp'.certificate = tmp.certificate
          /\ tmp'.roc_input = tmp.roc_input /\ tmp'.r21 = r21
        BY <1>1, <2>1, <2>8 DEF StageInv, Files
    <2>10. stage' = "check" => \E c : r21 = {c} /\ c \in solve[cert.roc_input]
                                       /\ c.result = expected_result
        BY <2>2, <2>6, <2>7, OnlyOne
    <2> QED
        BY <2>2, <2>3, <2>4, <2>9, <2>10 DEF StageInv
<1>6. CASE Check \/ CheckOCaml
    <2>1. /\ stage \in {"check", "check_ocaml"} /\ stage' \in {"check_ocaml", "chain", "StageFailure"}
          /\ tmp' = tmp /\ expected_result' = expected_result
        BY <1>6 DEF Check, CheckOCaml, Advance, MoveOn
    <2> QED
        BY <1>1, <2>1 DEF StageInv
<1>7. CASE VerifyChain
    <2>1. /\ stage = "chain" /\ stage' \in {"passed", "StageFailure"}
          /\ expected_result' = expected_result
          /\ tmp' = [tmp EXCEPT !.snapshot = tracked.snapshot]
          /\ stage' = "passed" =>
               \E doc \in tracked.snapshot :
                  verify_chain(doc, Only(tmp.certificate), Only(tmp.r21))
        BY <1>7 DEF VerifyChain, Advance, MoveOn
    <2>2. /\ tmp' \in Files /\ tmp'.certificate = tmp.certificate
          /\ tmp'.roc_input = tmp.roc_input /\ tmp'.r21 = tmp.r21
          /\ tmp'.snapshot = tracked.snapshot
        BY <1>1, <2>1 DEF FilesInv, StageInv, Files
    <2>3. ASSUME NEW doc \in tracked.snapshot PROVE doc \in Documents /\ tracked.snapshot = {doc}
        BY <1>1 DEF FilesInv, Files, SnapshotFiles
    <2>4. stage' = "passed" =>
            \E doc \in Documents :
               /\ tmp'.snapshot = {doc}
               /\ verify_chain(doc, Only(tmp.certificate), Only(tmp.r21))
        BY <2>1, <2>2, <2>3
    <2> QED
        BY <1>1, <2>1, <2>2, <2>4 DEF StageInv
<1>8. CASE StageLost
    <2>1. stage' = "lost" /\ tmp' = tmp
        BY <1>8 DEF StageLost
    <2> QED
        BY <1>1, <2>1 DEF StageInv
<1>9. CASE UNCHANGED <<stage, tmp, expected_result>>
    BY <1>1, <1>9 DEF StageInv
<1> QED
    BY <1>2, <1>3, <1>4, <1>5, <1>6, <1>7, <1>8, <1>9
    DEF Next, Replace, AuditSnapshot, AuditCertificate, AuditChain, AuditorReads, Done, vars

LEMMA AuditorStep ==
    ASSUME IndInv, Next
    PROVE  AuditorInv' /\ AuditorType'
<1>1. FilesInv /\ AuditorInv /\ AuditorType
    BY DEF IndInv
<1>2. CASE AuditSnapshot
    <2>1. /\ auditor.at = "snapshot"
          /\ auditor' = IF tracked.snapshot = {} THEN [auditor EXCEPT !.at = "done", !.verdict = "reject"]
                        ELSE [auditor EXCEPT !.at = "certificate", !.snapshot = tracked.snapshot]
        BY <1>2 DEF AuditSnapshot, AuditorReads
    <2>2. tracked.snapshot = {} \/ \E doc \in Documents : tracked.snapshot = {doc}
        BY <1>1 DEF FilesInv, Files, SnapshotFiles
    <2>3. AuditorType'
        BY <1>1, <2>1 DEF AuditorType, FilesInv, Files
    <2>4. auditor.verdict = "none"
        BY <1>1, <2>1 DEF AuditorInv
    <2> QED
        BY <1>1, <2>1, <2>2, <2>3, <2>4 DEF AuditorInv, AuditorType
<1>3. CASE AuditCertificate
    <2>1. /\ auditor.at = "certificate"
          /\ auditor' = IF tracked.certificate = {} THEN [auditor EXCEPT !.at = "done", !.verdict = "reject"]
                        ELSE [auditor EXCEPT !.at = "r21", !.certificate = tracked.certificate]
        BY <1>3 DEF AuditCertificate, AuditorReads
    <2>2. tracked.certificate = {} \/ \E cert \in AdapterCertificates : tracked.certificate = {cert}
        BY <1>1 DEF FilesInv, Files, CertificateFiles
    <2>3. AuditorType'
        BY <1>1, <2>1 DEF AuditorType, FilesInv, Files
    <2>4. auditor.verdict = "none" /\ \E doc \in Documents : auditor.snapshot = {doc}
        BY <1>1, <2>1 DEF AuditorInv
    <2> QED
        BY <1>1, <2>1, <2>2, <2>3, <2>4 DEF AuditorInv, AuditorType
<1>4. CASE AuditChain
    <2> DEFINE holds == \E r21 \in tracked.r21 :
                          verify_chain(Only(auditor.snapshot), Only(auditor.certificate), r21)
    <2>1. /\ auditor.at = "r21"
          /\ auditor' = [auditor EXCEPT !.at = "done", !.r21 = tracked.r21,
                            !.verdict = IF holds THEN "accept" ELSE "reject"]
        BY <1>4 DEF AuditChain
    <2>2. ASSUME NEW c \in tracked.r21 PROVE tracked.r21 = {c} /\ c \in Certificate /\ Headed(c)
        BY <1>1 DEF FilesInv, Files, R21Files
    <2>3. PICK doc \in Documents, cert \in AdapterCertificates :
            auditor.snapshot = {doc} /\ auditor.certificate = {cert}
        BY <1>1, <2>1 DEF AuditorInv
    <2>4. Only(auditor.snapshot) = doc /\ Only(auditor.certificate) = cert
        BY <2>3, OnlyOne
    <2>5. holds => \E c \in Certificate : tracked.r21 = {c} /\ Headed(c) /\ verify_chain(doc, cert, c)
        BY <2>2, <2>4
    <2> HIDE DEF holds
    <2>6. AuditorType'
        BY <1>1, <2>1 DEF AuditorType, FilesInv, Files
    <2>7. /\ auditor'.at = "done" /\ auditor'.snapshot = {doc} /\ auditor'.certificate = {cert}
          /\ auditor'.r21 = tracked.r21
          /\ auditor'.verdict = IF holds THEN "accept" ELSE "reject"
        BY <1>1, <2>1, <2>3 DEF AuditorType
    <2>8. CASE holds
        <3>1. PICK c \in Certificate :
                tracked.r21 = {c} /\ Headed(c) /\ verify_chain(doc, cert, c)
            BY <2>5, <2>8
        <3>2. /\ auditor'.at = "done" /\ auditor'.verdict = "accept"
              /\ auditor'.snapshot = {doc} /\ auditor'.certificate = {cert} /\ auditor'.r21 = {c}
            BY <2>7, <2>8, <3>1
        <3>3. \E e \in Documents, one \in AdapterCertificates, x \in Certificate :
                /\ auditor'.snapshot = {e} /\ auditor'.certificate = {one} /\ auditor'.r21 = {x}
                /\ Headed(x) /\ verify_chain(e, one, x)
            BY <3>1, <3>2
        <3> QED
            BY <2>6, <3>2, <3>3 DEF AuditorInv
    <2>9. CASE ~holds
        BY <2>6, <2>7, <2>9 DEF AuditorInv
    <2> QED
        BY <2>8, <2>9
<1>5. CASE auditor' = auditor
    BY <1>1, <1>5 DEF AuditorInv, AuditorType
<1> QED
    BY <1>2, <1>3, <1>4, <1>5
    DEF Next, VerifySnapshot, EmitCertificate, WriteRocInput, Solve, Check, CheckOCaml,
        VerifyChain, StageLost, Replace, Done, Advance, Compare, MoveOn, vars

THEOREM Inductive == Spec => []IndInv
<1>1. IndInv /\ UNCHANGED vars => IndInv'
    BY DEF IndInv, FilesInv, StageInv, AuditorInv, AuditorType, vars
<1>2. IndInv /\ [Next]_vars => IndInv'
    BY <1>1, FilesStep, StageStep, AuditorStep DEF IndInv
<1> QED
    BY Initially, <1>2, PTL DEF Spec

(***************************************************************************)
(* Every file holds one document or none.                                  *)
(***************************************************************************)
THEOREM TypeCorrect == Spec => []TypeOK
<1>1. IndInv => TypeOK
    <2> SUFFICES ASSUME IndInv PROVE TypeOK
        OBVIOUS
    <2>1. tracked \in Files /\ tmp \in Files
        BY DEF IndInv, FilesInv, StageInv
    <2>2. \A S \in SnapshotFiles \cup CertificateFiles \cup ProblemFiles \cup R21Files :
             Cardinality(S) <= 1
        <3>1. Cardinality({}) = 0 /\ \A x : Cardinality({x}) = 1
            BY FS_EmptySet, FS_Singleton
        <3>2. \A S \in SnapshotFiles \cup CertificateFiles \cup ProblemFiles \cup R21Files :
                 S = {} \/ \E x : S = {x}
            BY DEF SnapshotFiles, CertificateFiles, ProblemFiles, R21Files
        <3> SUFFICES ASSUME NEW S \in SnapshotFiles \cup CertificateFiles \cup ProblemFiles
                                       \cup R21Files
                     PROVE  Cardinality(S) \in 0..1
            OBVIOUS
        <3>3. CASE S = {}
            BY <3>1, <3>3
        <3>4. CASE \E x : S = {x}
            <4>1. PICK x : S = {x}
                BY <3>4
            <4>2. Cardinality(S) = 1
                BY <3>1, <4>1, Zenon
            <4> QED
                BY <4>2
        <3> QED
            BY <3>2, <3>3, <3>4
    <2>3. ASSUME NEW files \in Files, NEW f \in DOMAIN files PROVE Cardinality(files[f]) <= 1
        BY <2>2 DEF Files
    <2>4. tracked.snapshot \subseteq Documents
        BY <2>1 DEF Files, SnapshotFiles
    <2>5. /\ auditor.at \in {"snapshot", "certificate", "r21", "done"}
          /\ auditor.at = "done" <=> auditor.verdict # "none"
        BY DEF IndInv, AuditorInv
    <2> QED
        BY <2>1, <2>3, <2>4, <2>5 DEF TypeOK, IndInv, FilesInv, StageInv, Stages
<1> QED
    BY <1>1, Inductive, PTL

(***************************************************************************)
(* verify-chain accepts only three documents of one piece: whichever       *)
(* tracked files were replaced between its reads, and however each was     *)
(* forged, what the certificate says is true of the snapshot's own         *)
(* derivation, and the R21 certificate decides that problem.               *)
(***************************************************************************)
THEOREM AcceptedIsOfOnePiece == Spec => []ChainSound
<1>1. IndInv => (auditor.verdict = "accept" =>
         OfOnePiece(Only(auditor.snapshot), Only(auditor.certificate), Only(auditor.r21)))
    <2> SUFFICES ASSUME IndInv, auditor.verdict = "accept"
                 PROVE  OfOnePiece(Only(auditor.snapshot), Only(auditor.certificate),
                                   Only(auditor.r21))
        OBVIOUS
    <2>1. PICK doc \in Documents, cert \in AdapterCertificates, c \in Certificate :
            /\ auditor.snapshot = {doc} /\ auditor.certificate = {cert} /\ auditor.r21 = {c}
            /\ Headed(c) /\ verify_chain(doc, cert, c)
        BY DEF IndInv, AuditorInv
    <2>2. OfOnePiece(doc, cert, c)
        BY <2>1, ChainMeans
    <2> QED
        BY <2>1, <2>2, OnlyOne
<1> QED
    BY <1>1, TypeCorrect, Inductive, PTL DEF ChainSound

(***************************************************************************)
(* verify-chain does not ask about independence, and need not of a         *)
(* certificate that emit_certificate made: the digest that binds it covers *)
(* the ancestry graph and the policy.                                      *)
(***************************************************************************)
THEOREM EmittedIsAdmissible == Spec => []EmittedAdmissible
<1>1. IndInv => EmittedAdmissible
    <2> SUFFICES ASSUME IndInv, auditor.verdict = "accept", auditor.certificate \subseteq Emitted,
                        NEW doc \in auditor.snapshot
                 PROVE  check_independence(doc)
        BY DEF EmittedAdmissible
    <2>1. PICK d \in Documents, cert \in AdapterCertificates, c \in Certificate :
            /\ auditor.snapshot = {d} /\ auditor.certificate = {cert}
            /\ Headed(c) /\ verify_chain(d, cert, c)
        BY DEF IndInv, AuditorInv
    <2>2. doc = d /\ cert \in Emitted
        BY <2>1
    <2>3. verify_snapshot_doc(doc) /\ BoundToSnapshot(doc, cert)
        BY <2>1, <2>2 DEF verify_chain
    <2> QED
        BY <2>1, <2>2, <2>3, BoundIsAdmissible
<1> QED
    BY <1>1, Inductive, PTL

(***************************************************************************)
(* A scenario passes only for a snapshot whose evidence is admissible, with *)
(* documents of one piece and the expected result, which is the true one   *)
(* and the only one: though every stage reads the tracked snapshot anew    *)
(* and any file may be replaced between two stages.                        *)
(***************************************************************************)
THEOREM PassedMeansProved == Spec => []PassMeans
<1>1. IndInv => PassMeans
    <2> SUFFICES ASSUME IndInv, stage = "passed" PROVE PassMeans
        BY DEF PassMeans
    <2>1. PICK doc \in Documents :
            tmp.snapshot = {doc} /\ verify_chain(doc, Only(tmp.certificate), Only(tmp.r21))
        BY DEF IndInv, StageInv
    <2>2. PICK c : tmp.r21 = {c} /\ c \in solve[Only(tmp.roc_input)] /\ c.result = expected_result
        BY DEF IndInv, StageInv, AfterSolve
    <2>3. PICK d \in Documents, cert \in Emitted : tmp.certificate = {cert} /\ EmittedFrom(d, cert)
        BY DEF IndInv, StageInv, AfterEmit, AfterInput, AfterSolve
    <2>4. tmp.snapshot = {doc} /\ Only(tmp.snapshot) = doc /\ Only(tmp.certificate) = cert
          /\ Only(tmp.r21) = c
        BY <2>1, <2>2, <2>3, OnlyOne
    <2>5. c \in Certificate /\ Headed(c)
        BY <2>2 DEF IndInv, StageInv, Files, R21Files
    <2>6. verify_chain(doc, cert, c)
        BY <2>1, <2>4
    <2>7. OfOnePiece(doc, cert, c) /\ Reconstructed(doc) \in Problems
        BY <2>5, <2>6, ChainMeans
    <2>8. check_independence(doc)
        BY <2>3, <2>6, BoundIsAdmissible DEF verify_chain, EmittedFrom
    <2>9. {g.result : g \in Deciding[Reconstructed(doc)]} = {expected_result}
        <3> DEFINE p == Reconstructed(doc)
        <3>1. c \in Deciding[p] /\ p \in Problems
            BY <2>7 DEF OfOnePiece
        <3> HIDE DEF p
        <3>2. \A g \in Deciding[p] : g.result = expected_result
            BY <2>2, <3>1, OneResult
        <3>3. {g.result : g \in Deciding[p]} = {expected_result}
            BY <2>2, <3>1, <3>2
        <3> QED
            BY <3>3 DEF p
    <2> QED
        BY <2>4, <2>7, <2>8, <2>9 DEF PassMeans
<1> QED
    BY <1>1, Inductive, PTL

(***************************************************************************)
(* No failure of its own. MAX_RATIONAL_CHARS bounds what the checkers      *)
(* read, not what the emitter writes, so this is about runs whose exact    *)
(* rationals are short enough.                                             *)
(***************************************************************************)
ShortEnough == \A x \in Entries : IsFraction(x) => parse_rational(x)

\* The untouched files of a run that was certified pass every check.
LEMMA CertifiedHolds ==
    ASSUME ShortEnough, NEW doc \in Documents, FilesOf[doc].r21 # {}
    PROVE  /\ verify_snapshot_doc(doc)
           /\ \E cert \in Emitted :
                /\ emit_certificate(doc) = {cert} /\ FilesOf[doc].certificate = {cert}
                /\ FilesOf[doc].roc_input = {cert.roc_input}
                /\ FilesOf[doc].r21 = solve[cert.roc_input]
                /\ \E c : /\ FilesOf[doc].r21 = {c}
                          /\ check_certificate(cert.roc_input, c) = {} /\ verify(cert.roc_input, c)
                          /\ verify_chain(doc, cert, c)
<1>1. PICK cert : /\ FilesOf[doc].certificate = {cert} /\ EmittedFrom(doc, cert)
                  /\ FilesOf[doc].roc_input = {cert.roc_input}
                  /\ FilesOf[doc].r21 = solve[cert.roc_input]
    BY RunFiles
<1>2. cert.roc_input = Reconstructed(doc) /\ cert.roc_input \in Problems /\ cert \in Emitted
    BY <1>1 DEF EmittedFrom, MatricesHold
<1>3. PICK c \in build_certificate(cert.roc_input) : solve[cert.roc_input] = {c}
    BY <1>1, <1>2, Solved
<1>4. c \in Certificate /\ Exact(c.witness) /\ c.input_digest = cert.roc_input
    BY <1>2, <1>3, GenuineShape DEF Written
<1>5. parse_vector(c.witness)
    BY <1>4 DEF Certificate, Exact, parse_vector, ShortEnough
<1>6. check_certificate(cert.roc_input, c) = {}
    BY <1>2, <1>3, <1>5, GenuineIsAccepted
<1>7. verify(cert.roc_input, c)
    BY <1>2, <1>4, <1>6, CheckersAgree
<1>8. verify_chain(doc, cert, c)
    BY <1>1, <1>2, <1>4, <1>6 DEF EmittedFrom, verify_chain
<1>9. verify_snapshot_doc(doc) /\ emit_certificate(doc) = {cert}
    BY <1>1, RunFiles DEF EmittedFrom
<1> QED
    BY <1>1, <1>2, <1>3, <1>6, <1>7, <1>8, <1>9

\* Until a file is replaced, whoever has read one has that of the same run.
Untouched(doc) ==
    /\ tracked = FilesOf[doc]
    /\ auditor.at \in {"certificate", "r21"} => auditor.snapshot = tracked.snapshot
    /\ auditor.at = "r21" => auditor.certificate = tracked.certificate
    /\ auditor.verdict # "reject"
    /\ stage \in AfterEmit => tmp.certificate = tracked.certificate
    /\ stage \in AfterSolve => tmp.r21 = tracked.r21
    /\ stage = "StageFailure" => \E c \in tmp.r21 : c.result # expected_result

UntouchedInv ==
    replacements = 0 =>
        \E doc \in Documents : tracked = FilesOf[doc] /\ (tracked.r21 # {} => Untouched(doc))

LEMMA UntouchedStep ==
    ASSUME ShortEnough, IndInv, Next, replacements' = 0,
           NEW doc \in Documents, Untouched(doc), tracked.r21 # {}
    PROVE  Untouched(doc)'
<1> USE DEF AfterEmit, AfterInput, AfterSolve
<1>1. tracked = FilesOf[doc] /\ tracked.r21 # {}
    BY DEF Untouched
<1>2. verify_snapshot_doc(doc) /\ tracked.snapshot = {doc}
    BY <1>1, CertifiedHolds, RunFiles
<1>3. PICK cert \in Emitted :
        /\ emit_certificate(doc) = {cert} /\ tracked.certificate = {cert}
        /\ tracked.roc_input = {cert.roc_input} /\ tracked.r21 = solve[cert.roc_input]
        /\ \E c : /\ tracked.r21 = {c}
                  /\ check_certificate(cert.roc_input, c) = {} /\ verify(cert.roc_input, c)
                  /\ verify_chain(doc, cert, c)
    BY <1>1, CertifiedHolds
<1>4. PICK c : /\ tracked.r21 = {c} /\ verify_chain(doc, cert, c)
               /\ check_certificate(cert.roc_input, c) = {} /\ verify(cert.roc_input, c)
    BY <1>3
<1>5. tmp \in Files /\ AuditorType /\ StageInv /\ AuditorInv
    BY DEF IndInv, StageInv
<1>6. CASE VerifySnapshot
    <2>1. stage = "verify" /\ stage' = "emit" /\ UNCHANGED <<tracked, expected_result, auditor, tmp>>
        BY <1>2, <1>6 DEF VerifySnapshot, Advance, MoveOn
    <2> QED
        BY <2>1 DEF Untouched
<1>7. CASE EmitCertificate
    <2>1. UNION {emit_certificate(d) : d \in tracked.snapshot} = {cert}
        BY <1>2, <1>3
    <2>2. Compare("emit", {cert}, "certificate", "roc_input") /\ tmp' = [tmp EXCEPT !.certificate = {cert}]
        BY <1>7, <2>1 DEF EmitCertificate
    <2>3. stage' = "roc_input" /\ UNCHANGED <<tracked, expected_result, auditor>>
        BY <1>3, <2>2 DEF Compare, MoveOn
    <2>4. tmp'.certificate = {cert}
        BY <1>5, <2>2 DEF Files
    <2> QED
        BY <1>3, <2>3, <2>4 DEF Untouched
<1>8. CASE WriteRocInput
    <2>1. stage = "roc_input"
        BY <1>8 DEF WriteRocInput, Compare, MoveOn
    <2>2. tmp.certificate = {cert}
        BY <1>3, <2>1 DEF Untouched
    <2>3. {one.roc_input : one \in tmp.certificate} = {cert.roc_input}
        BY <2>2
    <2>4. Compare("roc_input", {cert.roc_input}, "roc_input", "solve")
          /\ tmp' = [tmp EXCEPT !.roc_input = {cert.roc_input}]
        BY <1>8, <2>3 DEF WriteRocInput
    <2>5. stage' = "solve" /\ UNCHANGED <<tracked, expected_result, auditor>>
        BY <1>3, <2>4 DEF Compare, MoveOn
    <2>6. tmp'.certificate = tmp.certificate
        BY <1>5, <2>4 DEF Files
    <2> QED
        BY <2>1, <2>5, <2>6 DEF Untouched
<1>9. CASE Solve
    <2>1. stage = "solve"
        BY <1>9 DEF Solve, Compare, MoveOn
    <2>2. tmp.roc_input = {cert.roc_input}
        <3>1. tmp.certificate = {cert} /\ Only(tmp.certificate) = cert
            BY <1>3, <2>1, OnlyOne DEF Untouched
        <3>2. tmp.roc_input = {Only(tmp.certificate).roc_input}
            BY <1>5, <2>1 DEF StageInv
        <3> QED
            BY <3>1, <3>2
    <2>3. UNION {solve[p] : p \in tmp.roc_input} = {c}
        <3>1. solve[cert.roc_input] = {c}
            BY <1>3, <1>4
        <3>2. {solve[p] : p \in {cert.roc_input}} = {{c}}
            BY ONLY <3>1
        <3>3. UNION {{c}} = {c}
            OBVIOUS
        <3> QED
            BY ONLY <2>2, <3>2, <3>3
    <2>4. /\ Compare("solve", {c}, "r21",
                     IF Only({c}).result = expected_result THEN "check" ELSE "StageFailure")
          /\ tmp' = [tmp EXCEPT !.r21 = {c}]
        BY <1>9, <2>3 DEF Solve
    <2>5. /\ stage' = IF c.result = expected_result THEN "check" ELSE "StageFailure"
          /\ UNCHANGED <<tracked, expected_result, auditor>>
        <3>1. Only({c}).result = c.result
            BY OnlyOne
        <3>2. tracked["r21"] = {c} /\ {c} # {}
            BY <1>4
        <3> QED
            BY <2>4, <3>1, <3>2 DEF Compare, MoveOn
    <2>6. tmp'.certificate = tmp.certificate /\ tmp'.r21 = {c}
        BY <1>5, <2>4 DEF Files
    <2> QED
        BY <1>4, <2>1, <2>5, <2>6 DEF Untouched
<1>10. ASSUME stage \in AfterSolve
       PROVE  Only(tmp.roc_input) = cert.roc_input /\ Only(tmp.r21) = c /\ Only(tmp.certificate) = cert
    <2>1. tmp.certificate = {cert} /\ tmp.r21 = {c}
        BY <1>3, <1>4, <1>10 DEF Untouched
    <2>2. tmp.roc_input = {Only(tmp.certificate).roc_input}
        BY <1>5, <1>10 DEF StageInv
    <2> QED
        BY <2>1, <2>2, OnlyOne
<1>11. CASE Check \/ CheckOCaml
    <2>1. stage \in {"check", "check_ocaml"}
        BY <1>11 DEF Check, CheckOCaml, Advance, MoveOn
    <2>2. stage' \in {"check_ocaml", "chain"} /\ UNCHANGED <<tracked, expected_result, auditor, tmp>>
        BY <1>4, <1>10, <1>11, <2>1 DEF Check, CheckOCaml, Advance, MoveOn
    <2> QED
        BY <2>1, <2>2 DEF Untouched
<1>12. CASE VerifyChain
    <2>1. stage = "chain" /\ tmp' = [tmp EXCEPT !.snapshot = tracked.snapshot]
        BY <1>12 DEF VerifyChain, Advance, MoveOn
    <2>2. stage' = "passed" /\ UNCHANGED <<tracked, expected_result, auditor>>
        BY <1>2, <1>4, <1>10, <1>12, <2>1 DEF VerifyChain, Advance, MoveOn
    <2>3. tmp'.certificate = tmp.certificate /\ tmp'.r21 = tmp.r21
        BY <1>5, <2>1 DEF Files
    <2> QED
        BY <2>1, <2>2, <2>3 DEF Untouched
<1>13. CASE StageLost
    BY <1>13 DEF StageLost, Untouched
<1>14. CASE Replace
    BY <1>14 DEF Replace, IndInv, FilesInv
<1>15. CASE AuditSnapshot \/ AuditCertificate
    <2>1. /\ \/ /\ auditor.at = "snapshot"
                /\ auditor' = [auditor EXCEPT !.at = "certificate", !.snapshot = tracked.snapshot]
             \/ /\ auditor.at = "certificate"
                /\ auditor' = [auditor EXCEPT !.at = "r21", !.certificate = tracked.certificate]
          /\ UNCHANGED <<tracked, expected_result, stage, tmp>>
        BY <1>2, <1>3, <1>15 DEF AuditSnapshot, AuditCertificate, AuditorReads
    <2> QED
        BY <1>5, <2>1 DEF Untouched, AuditorType
<1>16. CASE AuditChain
    <2>1. Only(auditor.snapshot) = doc /\ Only(auditor.certificate) = cert
        BY <1>2, <1>3, <1>16, OnlyOne DEF AuditChain, Untouched
    <2>2. /\ auditor' = [auditor EXCEPT !.at = "done", !.r21 = tracked.r21, !.verdict = "accept"]
          /\ UNCHANGED <<tracked, expected_result, stage, tmp>>
        BY <1>4, <1>16, <2>1 DEF AuditChain
    <2> QED
        BY <1>5, <2>2 DEF Untouched, AuditorType
<1>17. CASE UNCHANGED vars
    BY <1>17 DEF Untouched, vars
<1> QED
    BY <1>6, <1>7, <1>8, <1>9, <1>11, <1>12, <1>13, <1>14, <1>15, <1>16, <1>17 DEF Next, Done

(***************************************************************************)
(* While no tracked file has been replaced, a scenario over certified      *)
(* files fails only where the other result was expected, or by losing a    *)
(* stage, and the auditor never rejects them.                              *)
(***************************************************************************)
THEOREM FailsOnlyAsExpected ==
    ASSUME ShortEnough
    PROVE  Spec => []NoFalseFailure
<1>1. Init => UntouchedInv
    BY DEF Init, UntouchedInv, Untouched, AfterEmit, AfterInput, AfterSolve
<1>2. ASSUME IndInv, UntouchedInv, [Next]_vars PROVE UntouchedInv'
    <2> SUFFICES ASSUME replacements' = 0 PROVE UntouchedInv'
        BY DEF UntouchedInv
    <2>1. replacements = 0 /\ tracked' = tracked
        BY <1>2 DEF IndInv, FilesInv, Next, VerifySnapshot, EmitCertificate, WriteRocInput, Solve,
                    Check, CheckOCaml, VerifyChain, StageLost, Replace, AuditSnapshot,
                    AuditCertificate, AuditChain, AuditorReads, Done, Advance, Compare, MoveOn, vars
    <2>2. PICK doc \in Documents : tracked = FilesOf[doc] /\ (tracked.r21 # {} => Untouched(doc))
        BY <1>2, <2>1 DEF UntouchedInv
    <2>3. ASSUME tracked.r21 # {}, Next PROVE Untouched(doc)'
        BY <1>2, <2>2, <2>3, UntouchedStep
    <2>4. ASSUME tracked.r21 # {}, UNCHANGED vars PROVE Untouched(doc)'
        BY <2>2, <2>4 DEF Untouched, vars
    <2> QED
        BY <1>2, <2>1, <2>2, <2>3, <2>4 DEF UntouchedInv
<1>3. UntouchedInv => NoFalseFailure
    BY DEF UntouchedInv, Untouched, NoFalseFailure
<1> QED
    BY <1>1, <1>2, <1>3, Inductive, PTL DEF Spec
==============================================================================
