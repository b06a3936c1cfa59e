-------------------------- MODULE AdapterPipeline --------------------------
(***************************************************************************)
(* The evidence chain as files. run_tracking_adapter_pipeline takes a      *)
(* tracked snapshot through the adapter and R21 programs, stage by stage,  *)
(* in a directory of its own, and compares what each stage regenerates     *)
(* with the tracked file of the same name. An auditor runs verify-chain on *)
(* three tracked files. Meanwhile others may replace any tracked file: by  *)
(* that of another run, by a forgery, or by a torn one.                    *)
(***************************************************************************)
EXTENDS AdapterCertificate, FiniteSets

CONSTANTS
    Documents,        \* the snapshots that occur
    OCamlBuilt,       \* is roc-verify-ocaml there?
    MaxReplacements   \* how often a tracked file is replaced (bounds the runs)

ASSUME ReplacementsAssumption == MaxReplacements \in Nat

\* Problems holds what the snapshots that the verifier accepts stand for.
ASSUME DocumentAssumption ==
    \A doc \in Documents : verify_snapshot_doc(doc) => Reconstructed(doc) \in Problems

VARIABLES
    tracked,          \* the four tracked files; {} is a torn or missing one
    expected_result,  \* the result run_scenario is to find
    stage,            \* the next stage of run_scenario, or how it ended; "lost" is
                      \* with an exception that main does not catch
    tmp,              \* its temporary directory, and the snapshot verify-chain read
    auditor,          \* what verify_chain_files has read, and its verdict
    replacements

vars == <<tracked, expected_result, stage, tmp, auditor, replacements>>

\* The certificates that decide each problem.
Deciding == [p \in Problems |-> build_certificate(p)]

\* What the R21 emitter writes: some genuine certificate, always the same one
\* for the same problem; nothing if none is expressible.
solve ==
    [p \in Problems |->
        IF Deciding[p] = {} THEN {} ELSE {CHOOSE c \in Deciding[p] : TRUE}]

Only(S) == CHOOSE x \in S : TRUE

\* The files a run on each snapshot leaves, which is how the tracked ones came
\* about.
FilesOf ==
    [doc \in Documents |->
        LET cert == emit_certificate(doc)
            p    == {c.roc_input : c \in cert}
        IN [snapshot |-> {doc}, certificate |-> cert, roc_input |-> p,
            r21 |-> UNION {solve[q] : q \in p}]]

Emitted == UNION {FilesOf[doc].certificate : doc \in Documents}

\* What somebody may make of emitted certificates: one with a field of another
\* or bound to another snapshot, with attestations left out or untrue, its
\* digest made anew (or not: then `sealed` is FALSE).
Forgeries ==
    {[c EXCEPT ![f] = d[f]] :
        c \in Emitted, d \in Emitted,
        f \in {"snapshot_payload_digest", "row_bindings", "column_bindings",
               "conversion_attestations", "D", "r", "roc_input", "r21_input_digest"}}
    \cup {[c EXCEPT !.snapshot_payload_digest = doc.digest] : c \in Emitted, doc \in Documents}
    \cup {[c EXCEPT !.conversion_attestations = {}] : c \in Emitted}
    \cup {[c EXCEPT !.conversion_attestations = {[a EXCEPT !.converted = Zero] : a \in @}] : c \in Emitted}
    \cup {[c EXCEPT !.closed = FALSE] : c \in Emitted} \cup {[c EXCEPT !.sealed = FALSE] : c \in Emitted}

\* R21 certificates with the right digest and any witness of the right length.
ForgedR21 ==
    {Written(p, result, [k \in 1..3 |-> x]) :
        p \in Problems, result \in Results, x \in Entries}

\* What may come to stand in each tracked file.
Contents ==
    [f \in {"snapshot", "certificate", "roc_input", "r21"} |->
        {FilesOf[doc][f] : doc \in Documents} \cup
        CASE f = "certificate" -> {{}} \cup {{c} : c \in Forgeries}
          [] f = "r21"         -> {{}} \cup {{c} : c \in ForgedR21}
          [] OTHER             -> {{}}]

Empty == [certificate |-> {}, roc_input |-> {}, r21 |-> {}, snapshot |-> {}]

Init ==
    /\ tracked \in {FilesOf[doc] : doc \in Documents}
    /\ expected_result \in Results
    /\ stage = "verify"
    /\ tmp = Empty
    /\ auditor = [at |-> "snapshot", snapshot |-> {}, certificate |-> {}, r21 |-> {},
                   verdict |-> "none"]
    /\ replacements = 0

----------------------------------------------------------------------------
(* run_scenario.                                                           *)

MoveOn(here, next) ==
    /\ stage = here
    /\ stage' = next
    /\ UNCHANGED <<tracked, expected_result, auditor, replacements>>

Advance(here, ok, next) == MoveOn(here, IF ok THEN next ELSE "StageFailure")

\* What was made is compared with the tracked file, whose JSON must parse: that
\* it does not is no StageFailure.
Compare(here, made, file, next) ==
    MoveOn(here, IF made # {} /\ tracked[file] = {} THEN "lost"
                 ELSE IF made = {} \/ made # tracked[file] THEN "StageFailure"
                 ELSE next)

VerifySnapshot ==
    /\ Advance("verify", \E doc \in tracked.snapshot : verify_snapshot_doc(doc), "emit")
    /\ UNCHANGED tmp

\* The certificate is emitted, then compared with the tracked one.
EmitCertificate ==
    \E cert \in {UNION {emit_certificate(doc) : doc \in tracked.snapshot}} :
        /\ Compare("emit", cert, "certificate", "roc_input")
        /\ tmp' = [tmp EXCEPT !.certificate = cert]

WriteRocInput ==
    \E p \in {{cert.roc_input : cert \in tmp.certificate}} :
        /\ Compare("roc_input", p, "roc_input", "solve")
        /\ tmp' = [tmp EXCEPT !.roc_input = p]

\* (slip) The result is not compared with the expected one.
SolveUnexpected ==
    \E c \in {UNION {solve[p] : p \in tmp.roc_input}} :
        /\ Compare("solve", c, "r21", "check")
        /\ tmp' = [tmp EXCEPT !.r21 = c]

Solve ==
    \E c \in {UNION {solve[p] : p \in tmp.roc_input}} :
        /\ Compare("solve", c, "r21",
                   IF Only(c).result = expected_result THEN "check" ELSE "StageFailure")
        /\ tmp' = [tmp EXCEPT !.r21 = c]

Check ==
    /\ Advance("check", check_certificate(Only(tmp.roc_input), Only(tmp.r21)) = {},
               IF OCamlBuilt THEN "check_ocaml" ELSE "chain")
    /\ UNCHANGED tmp

CheckOCaml ==
    /\ Advance("check_ocaml", verify(Only(tmp.roc_input), Only(tmp.r21)), "chain")
    /\ UNCHANGED tmp

VerifyChain ==
    /\ Advance("chain",
               \E doc \in tracked.snapshot : verify_chain(doc, Only(tmp.certificate), Only(tmp.r21)),
               "passed")
    /\ tmp' = [tmp EXCEPT !.snapshot = tracked.snapshot]

Running == stage \notin {"passed", "StageFailure", "lost"}

\* A stage's program is killed with the driver, or takes longer than
\* SUBPROCESS_TIMEOUT (which is no StageFailure); writing the R21 input starts no
\* program.
StageLost ==
    /\ Running /\ stage # "roc_input"
    /\ stage' = "lost"
    /\ UNCHANGED <<tracked, expected_result, tmp, auditor, replacements>>

----------------------------------------------------------------------------
(* Others, and the auditor.                                                *)

Replace ==
    /\ replacements < MaxReplacements
    /\ replacements' = replacements + 1
    /\ \E f \in DOMAIN tracked :
         \E contents \in Contents[f] : tracked' = [tracked EXCEPT ![f] = contents]
    /\ UNCHANGED <<expected_result, stage, tmp, auditor>>

AuditorReads(file, next) ==
    /\ auditor.at = file
    /\ auditor' = IF tracked[file] = {} THEN [auditor EXCEPT !.at = "done", !.verdict = "reject"]
                  ELSE [auditor EXCEPT !.at = next, ![file] = tracked[file]]
    /\ UNCHANGED <<tracked, expected_result, stage, tmp, replacements>>

AuditSnapshot    == AuditorReads("snapshot", "certificate")
AuditCertificate == AuditorReads("certificate", "r21")
AuditChain ==
    /\ auditor.at = "r21"
    /\ auditor' =
         [auditor EXCEPT !.at = "done", !.r21 = tracked.r21,
            !.verdict =
               IF \E r21 \in tracked.r21 :
                    verify_chain(Only(auditor.snapshot), Only(auditor.certificate), r21)
               THEN "accept" ELSE "reject"]
    /\ UNCHANGED <<tracked, expected_result, stage, tmp, replacements>>

Done == ~Running /\ auditor.at = "done" /\ UNCHANGED vars

Next ==
    \/ VerifySnapshot \/ EmitCertificate \/ WriteRocInput \/ Solve
    \/ Check \/ CheckOCaml \/ VerifyChain \/ StageLost
    \/ Replace
    \/ AuditSnapshot \/ AuditCertificate \/ AuditChain
    \/ Done

Spec == Init /\ [][Next]_vars

----------------------------------------------------------------------------
\* Every file holds one document or none, and who is done has a verdict.
TypeOK ==
    /\ \A f \in DOMAIN tracked : Cardinality(tracked[f]) <= 1
    /\ \A f \in DOMAIN tmp : Cardinality(tmp[f]) <= 1
    /\ tracked.snapshot \subseteq Documents
    /\ stage \in {"verify", "emit", "roc_input", "solve", "check", "check_ocaml", "chain",
                   "passed", "StageFailure", "lost"}
    /\ auditor.at \in {"snapshot", "certificate", "r21", "done"}
    /\ auditor.at = "done" <=> auditor.verdict # "none"
    /\ replacements \in 0..MaxReplacements

\* The three documents are of one piece: everything the certificate says is
\* true of the snapshot's own derivation, and the R21 certificate decides it.
OfOnePiece(doc, cert, r21) ==
    LET p == Reconstructed(doc)
    IN /\ verify_snapshot_doc(doc)
       /\ r21 \in Deciding[p]
       /\ cert.D = p.D /\ cert.r = p.r /\ cert.roc_input = p /\ cert.r21_input_digest = p
       /\ cert.column_bindings = IdsInOrder(doc.tracks)
       /\ cert.row_bindings = IdsInOrder(doc.edges)
       /\ cert.conversion_attestations \subseteq AllAttested(doc)
       /\ cert.snapshot_payload_digest = compute_payload_digest(doc)

(***************************************************************************)
(* verify-chain accepts no mix of files, whichever were replaced between   *)
(* its reads and however well each was forged ("rejecting any mix-and-     *)
(* match substitution across the chain's stages"). (The variables have     *)
(* their types: a file holds one document or none.)                        *)
(***************************************************************************)
ChainSound ==
    /\ TypeOK
    /\ auditor.verdict = "accept" =>
         OfOnePiece(Only(auditor.snapshot), Only(auditor.certificate), Only(auditor.r21))

(***************************************************************************)
(* verify-chain never asks about independence. It need not, of a           *)
(* certificate that emit_certificate made: the digest that binds it covers *)
(* the graph and the policy, so that no snapshot accepted with it carries  *)
(* evidence that is not admissible.                                        *)
(***************************************************************************)
EmittedAdmissible ==
    auditor.verdict = "accept" /\ auditor.certificate \subseteq Emitted =>
        \A doc \in auditor.snapshot : check_independence(doc)

(***************************************************************************)
(* A scenario that passes has proved its point about the snapshot that its *)
(* last stage read, though every stage read the file anew: the evidence is *)
(* admissible, the three documents are of one piece, and the result is the *)
(* expected one and the true one, which rules the other out.               *)
(***************************************************************************)
PassMeans ==
    stage = "passed" =>
        LET doc == Only(tmp.snapshot)
        IN /\ OfOnePiece(doc, Only(tmp.certificate), Only(tmp.r21))
           /\ check_independence(doc)
           /\ {g.result : g \in Deciding[Reconstructed(doc)]} = {expected_result}

(***************************************************************************)
(* Nothing fails of itself: while no tracked file has been replaced, a     *)
(* scenario over certified files fails only where the other result was     *)
(* expected, or by losing a stage, and the auditor never rejects them.     *)
(***************************************************************************)
NoFalseFailure ==
    replacements = 0 /\ tracked.r21 # {} =>
        /\ stage = "StageFailure" => \E c \in tmp.r21 : c.result # expected_result
        /\ auditor.verdict # "reject"
=============================================================================
