-------------------------- MODULE AdapterSnapshot --------------------------
(***************************************************************************)
(* A tracking-adapter/v1 snapshot and the problem (D, r) it stands for,    *)
(* derived twice: by the generator (parse_snapshot_doc, generate_problem)  *)
(* and by the verifier (verify_snapshot_doc), which shares no derivation   *)
(* code with it and rounds decimals the other way (DecimalRounding).       *)
(*                                                                         *)
(* A document is a record of the fields that either reads: `closed` says   *)
(* that every object in it has the right keys, kinds and types; `stamped`  *)
(* that every timestamp has the one accepted form, `complete` and          *)
(* `supported` that the quantisation policy has its keys and that the      *)
(* converters know its rounding mode and take its places; `provenance`     *)
(* what the ancestry modules make of the graph and `policy` of the policy; *)
(* `derived` holds the claimed problem, if any (its keys, which the parser *)
(* closes and the verifier does not, are right); `scenario` stands for the *)
(* fields nothing reads. A digest is the value that was digested.          *)
(***************************************************************************)
EXTENDS DecimalRounding, RationalText

CONSTANTS
    NotDecimal,                \* a text _validate_decimal_string refuses
    MaxDepth,                  \* the nesting of calls past which RecursionError is raised
    MAX_SNAPSHOT_LIST_LENGTH   \* the verifier's limit on each list

ASSUME DepthAssumption == MaxDepth \in Nat \ {0}

\* Of a graph: the structural checks refuse it (malformed), or the provenance
\* check refuses it under the policy (shared: most often for a record behind
\* both sides of a comparison), or neither does; how many records it lists; and
\* how deep two recursions nest on it, the parser's `visit` (up to a cycle, if
\* there is one) and compute_closure's `walk`. The verifier does not recurse.
Provenances ==
    [kind : {"none", "disjoint", "shared", "malformed"}, records : Nat, visit : Nat, walk : Nat]
NoGraph == [kind |-> "none", records |-> 0, visit |-> 0, walk |-> 0]

IndependencePolicies == {"absent", "typed", "mistyped"}

Named(list) == {list[k].id : k \in DOMAIN list}
By(list, i) == list[CHOOSE k \in DOMAIN list : list[k].id = i]
UniqueIds(list) == \A k, l \in DOMAIN list : list[k].id = list[l].id => k = l

EvidenceLists(doc) ==
    {doc.sources, doc.detections, doc.tracks, doc.transformations, doc.edges}

\* The transformations declared for an endpoint of an edge.
Declared(doc, e, t) ==
    {k \in DOMAIN doc.transformations :
        doc.transformations[k].edge = e /\ doc.transformations[k].track = t}

\* Nothing dangles, no edge is a loop, and each endpoint of each edge has
\* exactly one transformation.
ReferencesHold(doc) ==
    /\ \A k \in DOMAIN doc.detections : doc.detections[k].source \in Named(doc.sources)
    /\ \A k \in DOMAIN doc.tracks : doc.tracks[k].detections \subseteq Named(doc.detections)
    /\ \A k \in DOMAIN doc.edges :
         /\ {doc.edges[k].source, doc.edges[k].target} \subseteq Named(doc.tracks)
         /\ doc.edges[k].source # doc.edges[k].target
         /\ \A t \in {doc.edges[k].source, doc.edges[k].target} :
              \E one \in DOMAIN doc.transformations : Declared(doc, doc.edges[k].id, t) = {one}
    /\ \A k \in DOMAIN doc.transformations :
         LET x == doc.transformations[k]
         IN \E l \in DOMAIN doc.edges :
              /\ doc.edges[l].id = x.edge
              /\ x.track \in {doc.edges[l].source, doc.edges[l].target}

\* Object by object: closed keys, kinds, types, and a detection for each track.
Closed(doc) == doc.closed /\ \A k \in DOMAIN doc.tracks : doc.tracks[k].detections # {}

\* What the parser and the verifier both ask of the lists, and of a document.
ListsHold(doc) ==
    /\ Closed(doc)
    /\ \A list \in EvidenceLists(doc) : UniqueIds(list)
    /\ ReferencesHold(doc)
Structured(doc) == ListsHold(doc) /\ doc.provenance.kind # "malformed"

\* How parse_snapshot_doc ends. Only the parser recurses over the graph, and
\* only it looks at the types of the policy's values.
parse_snapshot_doc(doc) ==
    IF ~ListsHold(doc) THEN "ValueError"
    ELSE IF doc.provenance.visit > MaxDepth THEN "RecursionError"
    ELSE IF doc.provenance.kind = "malformed" \/ doc.policy = "mistyped" THEN "ValueError"
    ELSE "ok"

Scalar(t) == Len(t.state) = 1
State(t)  == IF Scalar(t) THEN t.state[1] ELSE NotDecimal

Source(doc, e) == By(doc.tracks, e.source)
Target(doc, e) == By(doc.tracks, e.target)
Offset(doc, e, t) ==
    doc.transformations[CHOOSE k \in Declared(doc, e.id, t) : TRUE].offset

\* (slip) Source and target are taken for each other.
RowReversed(doc, e) ==
    [c \in DOMAIN doc.tracks |->
        IF doc.tracks[c].id = e.source THEN One
        ELSE IF doc.tracks[c].id = e.target THEN <<-1, 1>> ELSE Zero]

\* A row has -1 at the source's column and 1 at the target's; the columns are
\* the tracks in document order.
Row(doc, e) ==
    [c \in DOMAIN doc.tracks |->
        IF doc.tracks[c].id = e.source THEN <<-1, 1>>
        ELSE IF doc.tracks[c].id = e.target THEN One ELSE Zero]

Problem(D, r) == [D |-> D, r |-> r]

----------------------------------------------------------------------------
(* The generator.                                                          *)

\* How convert_and_verify ends: a malformed text or rounding mode is a
\* ValueError, a result of too many digits is not.
convert_and_verify(doc, text, places) ==
    IF text = NotDecimal \/ ~doc.supported THEN "ValueError"
    ELSE IF TooLong(Quantized(text, places)) THEN "InvalidOperation"
    ELSE IF Signed(text, Quantized(text, places)) # Independent(text, places) THEN "ValueError"
    ELSE "ok"

Rounded(text, places) == Fraction(Signed(text, Quantized(text, places)), 10^places)

EndpointValue(doc, e, t) ==
    Plus(Rounded(State(t), doc.position), Rounded(Offset(doc, e, t.id), doc.transform))

Discrepancy(doc, e) ==
    Minus(EndpointValue(doc, e, Target(doc, e)), EndpointValue(doc, e, Source(doc, e)))

FirstFailure(outcomes) ==
    LET bad == {k \in DOMAIN outcomes : outcomes[k] # "ok"}
    IN IF bad = {} THEN "ok"
                   ELSE outcomes[CHOOSE k \in bad : \A l \in bad : k <= l]

\* The exceptions of one pass of the loop, in the order they can be raised.
Conversions(doc, e) ==
    LET Endpoint(t) ==
          <<IF Scalar(t) THEN "ok" ELSE "GeneratorError",
            convert_and_verify(doc, State(t), doc.position),
            convert_and_verify(doc, Offset(doc, e, t.id), doc.transform)>>
    IN Endpoint(Source(doc, e)) \o Endpoint(Target(doc, e))
         \o <<convert_and_verify(doc, e.discrepancy, doc.position)>>

\* (slip) The declared discrepancy is converted and not compared.
EdgeOutcomeUnchecked(doc, e) == FirstFailure(Conversions(doc, e))

EdgeOutcome(doc, e) ==
    IF FirstFailure(Conversions(doc, e)) # "ok" THEN FirstFailure(Conversions(doc, e))
    ELSE IF Discrepancy(doc, e) # Rounded(e.discrepancy, doc.position) THEN "GeneratorError"
    ELSE "ok"

generate_problem(doc) ==
    LET outcome ==
          IF ~doc.complete THEN "GeneratorError"
          ELSE FirstFailure([k \in DOMAIN doc.edges |-> EdgeOutcome(doc, doc.edges[k])])
    IN [outcome |-> outcome,
        problems |->
          IF outcome # "ok" THEN {}
          ELSE {Problem([k \in DOMAIN doc.edges |-> Row(doc, doc.edges[k])],
                        [k \in DOMAIN doc.edges |-> Discrepancy(doc, doc.edges[k])])}]

----------------------------------------------------------------------------
(* The verifier.                                                           *)

WithinLimits(doc) ==
    /\ \A list \in EvidenceLists(doc) : Len(list) <= MAX_SNAPSHOT_LIST_LENGTH
    /\ doc.provenance.records <= MAX_SNAPSHOT_LIST_LENGTH

AllScalar(doc)    == \A k \in DOMAIN doc.tracks : Scalar(doc.tracks[k])

to_exact_rational_independent(text, places) ==
    Fraction(Independent(text, places), 10^places)

Convertible(doc, e) ==
    /\ doc.supported
    /\ NotDecimal \notin {State(Source(doc, e)), State(Target(doc, e)), e.discrepancy,
                         Offset(doc, e, e.source), Offset(doc, e, e.target)}

Residue(doc, e) ==
    LET state(t)  == to_exact_rational_independent(State(t), doc.position)
        offset(t) == to_exact_rational_independent(Offset(doc, e, t.id), doc.transform)
        i == Source(doc, e)
        j == Target(doc, e)
    IN Minus(Plus(state(j), offset(j)), Plus(state(i), offset(i)))

EdgeHolds(doc, e) ==
    /\ Convertible(doc, e)
    /\ Residue(doc, e) = to_exact_rational_independent(e.discrepancy, doc.position)

Reconstructed(doc) ==
    Problem([k \in DOMAIN doc.edges |-> Row(doc, doc.edges[k])],
            [k \in DOMAIN doc.edges |-> Residue(doc, doc.edges[k])])

ClaimedRationals(claim) ==
    {claim.r[k] : k \in DOMAIN claim.r}
      \cup UNION {{claim.D[k][c] : c \in DOMAIN claim.D[k]} : k \in DOMAIN claim.D}

\* (slip) Only the matrix of a claim is compared.
ClaimedMatrixHolds(doc) ==
    \A claim \in doc.derived : claim.D \in {<<>>, Reconstructed(doc).D}

\* A claim of nothing is no claim; of any other, every entry has to parse.
ClaimHolds(doc) ==
    \A claim \in doc.derived :
        \/ claim = Problem(<<>>, <<>>)
        \/ /\ \A x \in ClaimedRationals(claim) : parse_rational(x)
           /\ claim = Reconstructed(doc)

\* (slip) The digest from before snapshots had an ancestry graph.
compute_payload_digest_evidence(doc) ==
    <<doc.sources, doc.detections, doc.tracks, doc.transformations, doc.edges>>

compute_payload_digest(doc) ==
    <<doc.sources, doc.detections, doc.tracks, doc.transformations, doc.edges,
      doc.provenance, doc.policy>>

verify_snapshot_doc(doc) ==
    /\ WithinLimits(doc)
    /\ Structured(doc)
    /\ doc.stamped /\ AllScalar(doc)
    /\ doc.complete
    /\ \A k \in DOMAIN doc.edges : EdgeHolds(doc, doc.edges[k])
    /\ ClaimHolds(doc)
    /\ doc.digest = compute_payload_digest(doc)
=============================================================================
