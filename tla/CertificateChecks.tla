------------------------- MODULE CertificateChecks -------------------------
(***************************************************************************)
(* What a repair-or-separator/v1 certificate says, what the generators     *)
(* write and what the two checkers accept: check_certificate in Python and *)
(* verify in OCaml.                                                        *)
(*                                                                         *)
(* The digest of a problem is the problem: SHA-256 is taken to be          *)
(* injective on the serialisation, which spells the dimensions and every   *)
(* entry.                                                                  *)
(***************************************************************************)
EXTENDS RationalText

CONSTANTS
    Problems,  \* the problems [D, r] that occur, well shaped
    Entries    \* the rationals, as spelled, that occur in a witness

Exact(v) == \A k \in DOMAIN v : IsFraction(v[k])

\* What read_input returns: a rectangular matrix and a vector with an entry for
\* each of its rows, all exact.
WellShaped(p) ==
    /\ p.D \in Seq(Seq(Int \X Nat)) /\ p.r \in Seq(Int \X Nat)
    /\ \A i \in 1..Len(p.D) : Len(p.D[i]) = columns(p.D) /\ Exact(p.D[i])
    /\ Len(p.r) = Len(p.D) /\ Exact(p.r)

ASSUME ProblemAssumption == \A p \in Problems : WellShaped(p)

CERTIFICATE_SCHEMA == "repair-or-separator/v1"
Results == {"repair", "separator"}
KeyNames == {"schema", "input_digest", "result", "repair", "separator", "note"}
CERTIFICATE_KEYS(result) == {"schema", "input_digest", "result", result}

\* A certificate file's JSON object; `witness` is what stands under the key
\* that the result names.
Certificate ==
    [schema : {CERTIFICATE_SCHEMA, "other"}, input_digest : Problems,
     result : Results \cup {"other"}, keys : SUBSET KeyNames, witness : Seq(Entries)]

----------------------------------------------------------------------------
(* The checkers.                                                           *)

rows(p) == Len(p.D)
cols(p) == columns(p.D)

\* (slip) The digest is computed and not compared.
BoundToAny(p, c) == c.input_digest \in Problems

BoundTo(p, c) == c.input_digest = p

\* The length of the witness: a repair has an entry for each column of D, a
\* separator one for each row.
expected(p, c) == IF c.result = "repair" THEN cols(p) ELSE rows(p)

\* (slip) The digest was added to the certificate and not to the closed set.
ClosedKeysOld(c) == c.keys \subseteq {"schema", "result", c.result}

\* The keys of the object: the closed set, with the witness among them.
ClosedKeys(c) == c.keys \subseteq CERTIFICATE_KEYS(c.result)
Malformed(c)  == ~ClosedKeys(c) \/ c.result \notin c.keys \/ ~parse_vector(c.witness)

(***************************************************************************)
(* check_certificate: the reasons it records. A rejection ends the check,  *)
(* except that both equations of a separator are looked at.                *)
(***************************************************************************)
check_certificate(p, c) ==
    IF c.schema # CERTIFICATE_SCHEMA THEN {"schema"}
    ELSE IF ~BoundTo(p, c) THEN {"input_digest mismatch"}
    ELSE IF c.result = "repair" THEN
           IF Malformed(c) THEN {"malformed repair witness"}
           ELSE IF Len(c.witness) # expected(p, c) THEN {"length"}
           ELSE IF mat_vec(p.D, c.witness) # p.r THEN {"D b # r"}
           ELSE {}
    ELSE IF c.result = "separator" THEN
           IF Malformed(c) THEN {"malformed separator witness"}
           ELSE IF Len(c.witness) # expected(p, c) THEN {"length"}
           ELSE {reason \in {"D^T y # 0", "y.r # 1"} :
                   IF reason = "y.r # 1" THEN dot(c.witness, p.r) # One
                   ELSE ~is_zero(mat_vec(transpose(p.D), c.witness))}
    ELSE {"unrecognized result"}

(***************************************************************************)
(* verify: the same rules, raising at the first that fails. Its arithmetic *)
(* is its own: rows drive the sums, and `v` is read with their length.     *)
(***************************************************************************)
mat_vec_ml(M, v) == [i \in 1..Len(M) |-> SumProducts(M[i], v, Len(M[i]))]
dot_ml(u, v)     == SumProducts(u, v, Len(u))
transpose_ml(M, ncols) == [j \in 1..ncols |-> [i \in 1..Len(M) |-> M[i][j]]]

Shaped(p, c) ==
    /\ c.schema = CERTIFICATE_SCHEMA
    /\ BoundTo(p, c)
    /\ c.result \in Results
    /\ c.result \in c.keys
    /\ parse_vector(c.witness)
    /\ Len(c.witness) = expected(p, c)

Equations(p, c) ==
    /\ c.result = "repair" => mat_vec_ml(p.D, c.witness) = p.r
    /\ c.result = "separator" =>
         /\ is_zero(mat_vec_ml(transpose_ml(p.D, cols(p)), c.witness))
         /\ dot_ml(c.witness, p.r) = One

\* (slip) Unknown fields are let through.
verify_open(p, c) == Shaped(p, c) /\ Equations(p, c)

verify(p, c) == Shaped(p, c) /\ ClosedKeys(c) /\ Equations(p, c)

----------------------------------------------------------------------------
(* What the files may hold.                                                *)

Written(p, result, witness) ==
    [schema |-> CERTIFICATE_SCHEMA, input_digest |-> p, result |-> result,
     keys |-> CERTIFICATE_KEYS(result), witness |-> witness]

Vectors(size) == [1..size -> Entries]

\* The certificates a generator may write for p: those whose equations hold.
\* Which of them it writes is the elimination's business (Elimination.tla).
build_certificate(p) ==
    {Written(p, "repair", b) :
        b \in {v \in Vectors(cols(p)) : Exact(v) /\ mat_vec(p.D, v) = p.r}}
    \cup
    {Written(p, "separator", y) :
        y \in {v \in Vectors(rows(p)) :
                  Exact(v) /\ is_zero(row_vec_mat(v, p.D)) /\ dot(v, p.r) = One}}

Genuine == UNION {build_certificate(p) : p \in Problems}
=============================================================================
