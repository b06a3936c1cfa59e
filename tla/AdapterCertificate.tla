------------------------- MODULE AdapterCertificate -------------------------
(***************************************************************************)
(* tracking-adapter-certificate/v1: what emit_certificate binds together   *)
(* for a snapshot that the verifier accepted and whose evidence is         *)
(* admissible, and what verify_chain asks of a snapshot, an adapter        *)
(* certificate and an R21 certificate that are handed to it side by side.  *)
(*                                                                         *)
(* Bindings are the ids in the order of their indices. `closed` says that  *)
(* the keys and the schema of the certificate are right, `sealed` that its *)
(* own digest is the digest of the rest of it.                             *)
(***************************************************************************)
EXTENDS AdapterSnapshot, CertificateChecks

\* check_independence, of what the graph is under the policy: `shared` is a
\* claimed comparison with undeclared shared ancestry under a prohibition of
\* it. A policy of the wrong types fails only when there is a graph to check,
\* and so does a graph too deep for `walk`: emit_certificate raises either way.
check_independence(doc) ==
    \/ doc.policy = "absent"
    \/ doc.provenance.kind = "none"
    \/ doc.policy = "typed" /\ doc.provenance.kind = "disjoint" /\ doc.provenance.walk <= MaxDepth

IdsInOrder(list) == [k \in DOMAIN list |-> list[k].id]

\* The decimals a problem is built from, wherever they stand in the snapshot.
Attestable(doc) ==
    {[object |-> <<"track", t.id>>, decimal |-> State(t), places |-> doc.position] :
        t \in {doc.tracks[k] : k \in DOMAIN doc.tracks}}
    \cup
    {[object |-> <<"transformation", x.id>>, decimal |-> x.offset, places |-> doc.transform] :
        x \in {doc.transformations[k] : k \in DOMAIN doc.transformations}}
    \cup
    {[object |-> <<"comparison_edge", e.id>>, decimal |-> e.discrepancy, places |-> doc.position] :
        e \in {doc.edges[k] : k \in DOMAIN doc.edges}}

Attested(doc, a) ==
    [object |-> a.object, decimal |-> a.decimal, places |-> a.places,
     converted |-> to_exact_rational_independent(a.decimal, a.places)]

\* A track that no edge uses is attested too, and may be the one that fails.
CanAttest(doc) == doc.supported /\ \A a \in Attestable(doc) : a.decimal # NotDecimal

AllAttested(doc) == {Attested(doc, a) : a \in Attestable(doc)}

\* (slip) The provenance is left to whoever verifies the chain.
emit_unchecked(doc) == verify_snapshot_doc(doc) /\ CanAttest(doc)

\* Does emit_certificate return, rather than raise?
emit_permitted(doc) ==
    /\ verify_snapshot_doc(doc)
    /\ check_independence(doc)
    /\ CanAttest(doc)

emit_certificate(doc) ==
    LET p == Reconstructed(doc)
    IN IF ~emit_permitted(doc) THEN {}
       ELSE {[closed |-> TRUE, sealed |-> TRUE,
              snapshot_payload_digest |-> doc.digest,
              quantisation_policy |-> <<doc.position, doc.transform>>,
              row_bindings |-> IdsInOrder(doc.edges),
              column_bindings |-> IdsInOrder(doc.tracks),
              conversion_attestations |-> AllAttested(doc),
              D |-> p.D, r |-> p.r, roc_input |-> p, r21_input_digest |-> p]}

----------------------------------------------------------------------------
(* verify_chain.                                                           *)

BoundToSnapshot(doc, cert) == cert.snapshot_payload_digest = doc.digest

\* (slip) The names of the columns are compared as a set.
BindingsHoldUnordered(doc, cert) ==
    /\ cert.row_bindings = IdsInOrder(doc.edges)
    /\ {cert.column_bindings[k] : k \in DOMAIN cert.column_bindings} = Named(doc.tracks)

BindingsHold(doc, cert) ==
    /\ cert.row_bindings = IdsInOrder(doc.edges)
    /\ cert.column_bindings = IdsInOrder(doc.tracks)

\* (slip) Every decimal is taken to have the places of a position.
AttestationsHoldAtPosition(doc, cert) ==
    \A att \in cert.conversion_attestations :
        /\ doc.supported
        /\ \E a \in Attestable(doc) :
             a.decimal # NotDecimal /\ att = Attested(doc, [a EXCEPT !.places = doc.position])

\* Each attestation names a decimal of this snapshot, under this snapshot's
\* policy, and the conversion is redone. Those that are missing are not missed.
AttestationsHold(doc, cert) ==
    \A att \in cert.conversion_attestations :
        /\ doc.supported
        /\ \E a \in Attestable(doc) : a.decimal # NotDecimal /\ att = Attested(doc, a)

\* (slip) The R21 certificate is checked against the certificate's own claim.
MatricesHoldLoosely(p, cert) == cert.D = p.D /\ cert.roc_input = cert.r21_input_digest

MatricesHold(p, cert) ==
    /\ cert.D = p.D
    /\ cert.r = p.r
    /\ cert.roc_input = p
    /\ cert.r21_input_digest = p

verify_chain(doc, cert, r21) ==
    /\ verify_snapshot_doc(doc)
    /\ cert.closed /\ cert.sealed
    /\ BoundToSnapshot(doc, cert)
    /\ BindingsHold(doc, cert)
    /\ AttestationsHold(doc, cert)
    /\ MatricesHold(Reconstructed(doc), cert)
    /\ r21.input_digest = Reconstructed(doc)
    /\ check_certificate(Reconstructed(doc), r21) = {}
=============================================================================
