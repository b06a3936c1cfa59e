------------------------- MODULE AdapterDerivation -------------------------
(***************************************************************************)
(* A snapshot on its way from its producer to the verifier. The producer   *)
(* derives the problem with the generator, enters it as derived_problem    *)
(* and puts the digest on the document (as the verifier's tests do), or    *)
(* skips the generator and only digests (as the Stone Soup emitters do);   *)
(* before the verifier reads it, somebody may put another document in its  *)
(* place, with or without the claim and the digest of the first.           *)
(***************************************************************************)
EXTENDS AdapterSnapshot, FiniteSets

CONSTANTS
    Drafts,       \* the documents that occur, with no claim and no digest
    NoDigest      \* the placeholder that stands for a digest before there is one

Fields ==
    {"closed", "stamped", "complete", "supported", "scenario", "position", "transform",
     "provenance", "policy", "sources", "detections", "tracks", "edges", "transformations",
     "derived", "digest"}

Decimals == Text \cup {NotDecimal}

IsList(s) == Len(s) \in Nat /\ DOMAIN s = 1..Len(s)

\* What JSON and the closed keys leave of a document: lists, texts that are
\* decimals or are not, and places that the converters take, where they do.
LegalDocument(doc) ==
    /\ DOMAIN doc = Fields
    /\ \A list \in EvidenceLists(doc) : IsList(list)
    /\ \A k \in DOMAIN doc.tracks :
         /\ IsList(doc.tracks[k].state)
         /\ \A n \in DOMAIN doc.tracks[k].state : doc.tracks[k].state[n] \in Decimals
    /\ \A k \in DOMAIN doc.transformations : doc.transformations[k].offset \in Decimals
    /\ \A k \in DOMAIN doc.edges : doc.edges[k].discrepancy \in Decimals
    /\ doc.supported => doc.position \in 0..MaxPlaces /\ doc.transform \in 0..MaxPlaces
    /\ doc.provenance \in Provenances /\ doc.policy \in IndependencePolicies
    /\ doc.provenance.kind = "none" <=> doc.provenance.records = 0
    /\ {doc.provenance.visit, doc.provenance.walk} \subseteq 0..doc.provenance.records

ASSUME DraftsAssumption ==
    /\ NotDecimal \notin Text
    /\ \A doc \in Drafts :
         LegalDocument(doc) /\ doc.derived = {} /\ doc.digest = NoDigest

VARIABLES
    document,     \* the document as it stands
    sealed,       \* {what was digested}
    generated,    \* what generate_problem returned or raised, once it ran
    altered,      \* has the document been replaced since it was sealed?
    verdict       \* the verifier's, once it has run

derivationVars == <<document, sealed, generated, altered, verdict>>

NotRun == [outcome |-> "not run", problems |-> {}]

InitDerivation ==
    /\ document \in Drafts
    /\ sealed = {}
    /\ generated = NotRun
    /\ altered = FALSE
    /\ verdict = "none"

\* parse_snapshot, then generate_problem.
Generate ==
    /\ sealed = {}
    /\ generated = NotRun
    /\ generated' = IF parse_snapshot_doc(document) = "ok" THEN generate_problem(document)
                    ELSE [outcome |-> parse_snapshot_doc(document), problems |-> {}]
    /\ UNCHANGED <<document, sealed, altered, verdict>>

\* derived_problem is what the generator returned, or empty.
Seal ==
    /\ sealed = {}
    /\ LET claimed == [document EXCEPT !.derived = generated.problems]
       IN /\ document' = [claimed EXCEPT !.digest = compute_payload_digest(claimed)]
          /\ sealed' = {document'}
    /\ UNCHANGED <<generated, altered, verdict>>

Alter ==
    /\ sealed # {}
    /\ ~altered
    /\ verdict = "none"
    /\ \E other \in Drafts, keepClaim, keepDigest \in BOOLEAN :
         document' =
           [other EXCEPT
              !.derived = IF keepClaim THEN document.derived ELSE {},
              !.digest  = IF keepDigest THEN document.digest ELSE compute_payload_digest(other)]
    /\ altered' = TRUE
    /\ UNCHANGED <<sealed, generated, verdict>>

Verify ==
    /\ sealed # {}
    /\ verdict = "none"
    /\ verdict' = IF verify_snapshot_doc(document) THEN "accept" ELSE "reject"
    /\ UNCHANGED <<document, sealed, generated, altered>>

Settled == verdict # "none" /\ UNCHANGED derivationVars

NextDerivation == Generate \/ Seal \/ Alter \/ Verify \/ Settled
DerivationSpec == InitDerivation /\ [][NextDerivation]_derivationVars

----------------------------------------------------------------------------
\* At most one problem is generated, and what is sealed carries its digest.
DerivationTypeOK ==
    /\ Cardinality(generated.problems) <= 1
    /\ generated.outcome \in
         {"not run", "ok", "GeneratorError", "ValueError", "RecursionError", "InvalidOperation"}
    /\ generated.problems # {} <=> generated.outcome = "ok"
    /\ \A doc \in sealed : doc.digest = compute_payload_digest(doc)
    /\ altered \in BOOLEAN
    /\ verdict \in {"none", "accept", "reject"}

Accepted == verdict = "accept"

(***************************************************************************)
(* An accepted document claims nothing, or the very problem that its own   *)
(* evidence derives; and when that evidence is what the generator saw, the *)
(* generator's problem is the verifier's, though the two round and add     *)
(* differently ("the [D,r] verifier must NOT import the same helpers").    *)
(* (The variables have their types.)                                       *)
(***************************************************************************)
OneProblem ==
  /\ DerivationTypeOK
  /\ Accepted =>
      /\ document.derived \subseteq {Problem(<<>>, <<>>), Reconstructed(document)}
      /\ ~altered => generated.problems \subseteq {Reconstructed(document)}

\* The evidence of a document: what the digest is there to protect.
EvidenceOf(doc) ==
    [sources |-> doc.sources, detections |-> doc.detections, tracks |-> doc.tracks,
     transformations |-> doc.transformations, edges |-> doc.edges,
     provenance |-> doc.provenance, policy |-> doc.policy]

(***************************************************************************)
(* Of the documents the producer did not seal, those that keep its digest  *)
(* are accepted only with the producer's evidence, field for field: no     *)
(* list, no ancestry graph and no policy can be exchanged under a digest.  *)
(***************************************************************************)
TamperEvident ==
    \A original \in sealed :
        Accepted /\ document.digest = original.digest
          => EvidenceOf(document) = EvidenceOf(original)

(***************************************************************************)
(* What the residues mean. For an accepted document the states, as rounded *)
(* by its policy, repair the problem up to the declared offsets: r - D x   *)
(* is target offset minus source offset on each edge. With equal offsets   *)
(* at the two ends of every edge nothing is ever obstructed; and since D   *)
(* kills the vector of ones, a common shift of all tracks changes nothing. *)
(***************************************************************************)
OnlyOffsetsObstruct ==
    Accepted =>
      LET p    == Reconstructed(document)
          x    == [c \in DOMAIN document.tracks |->
                     to_exact_rational_independent(document.tracks[c].state[1], document.position)]
          ones == [c \in DOMAIN document.tracks |-> One]
          o(e, t) == to_exact_rational_independent(Offset(document, e, t), document.transform)
      IN (\A c \in DOMAIN document.tracks : document.tracks[c].state[1] # NotDecimal) =>
           /\ is_zero(mat_vec(p.D, ones))
           /\ \A k \in DOMAIN document.edges :
                LET e == document.edges[k]
                IN Minus(p.r[k], mat_vec(p.D, x)[k]) = Minus(o(e, e.target), o(e, e.source))

\* An entry of the claimed problem is longer than the parser of rationals takes,
\* though the decimals it was derived from have no such limit.
ClaimTooLong ==
    \E claim \in document.derived :
        \E x \in ClaimedRationals(claim) : ~(chars(x) <= MAX_RATIONAL_CHARS)

(***************************************************************************)
(* The two gates let the same documents through, up to what the code makes *)
(* them differ in. What the generator derived and nobody altered is        *)
(* rejected only for what the verifier alone looks at: the limit on the    *)
(* six lists, timestamps, tracks that no edge uses, and the length of the  *)
(* claimed rationals. What the verifier accepts the generator derives too, *)
(* but for what stops only the parser or the generator, each with an error *)
(* of its own: an ancestry on which `visit` nests too deep, the types of   *)
(* the policy's values, and the precision of a decimal context.            *)
(***************************************************************************)
GatesAgree ==
    /\ verdict = "reject" /\ ~altered /\ generated.outcome = "ok"
         => \/ ~WithinLimits(document) \/ ~document.stamped \/ ~AllScalar(document)
            \/ ClaimTooLong
    /\ Accepted /\ ~altered /\ generated # NotRun
         => generated.outcome \in
              IF document.provenance.visit > MaxDepth THEN {"RecursionError"}
              ELSE IF document.policy = "mistyped" THEN {"ValueError"}
              ELSE {"ok", "InvalidOperation"}
=============================================================================
