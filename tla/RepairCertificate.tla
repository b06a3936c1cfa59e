------------------------- MODULE RepairCertificate -------------------------
(***************************************************************************)
(* The life of a repair-or-separator/v1 certificate: a generator (roc-solve *)
(* or roc-solve-extracted) reads an input file and writes a certificate    *)
(* file; the Python checker (roc-verify) and the OCaml one                 *)
(* (roc-verify-ocaml) each read both files and answer ACCEPT or REJECT.    *)
(* The programs are separate processes that share nothing but the two      *)
(* files, and somebody else may replace either file at any time.           *)
(***************************************************************************)
EXTENDS CertificateChecks, FiniteSets

CONSTANT MaxReplacements   \* how often somebody replaces a file (bounds the runs)

ASSUME ReplacementAssumption == MaxReplacements \in Nat

Checkers == {"roc-verify", "roc-verify-ocaml"}

VARIABLES
    inputFile,     \* {p}, or {} when read_input raises on it
    certFile,      \* {c}, or {} when it is absent, truncated or not strict JSON
    generator,     \* where roc-solve stands and the problem it has read
    checker,       \* where each checker stands, what it has read, its verdict
    replacements

vars == <<inputFile, certFile, generator, checker, replacements>>

Only(S) == CHOOSE x \in S : TRUE

Accepts(k, p, c) == IF k = "roc-verify" THEN check_certificate(p, c) = {} ELSE verify(p, c)

\* What somebody else may put there: any witness under any digest (a genuine
\* certificate of an earlier run for one), or a genuine one with a flaw.
Forgeries ==
    {Written(p, result, v) : p \in Problems, result \in Results, v \in Vectors(1) \cup Vectors(2)}
    \cup {[c EXCEPT !.schema = "other"] : c \in Genuine}
    \cup {[c EXCEPT !.result = "other"] : c \in Genuine}
    \cup {[c EXCEPT !.keys = @ \cup {"note"}] : c \in Genuine}
    \cup {[c EXCEPT !.keys = @ \ {c.result}] : c \in Genuine}

Idle == [at |-> "idle", problem |-> {}]

Init ==
    /\ inputFile \in {{p} : p \in Problems} \cup {{}}
    /\ certFile = {}
    /\ generator = Idle
    /\ checker = [k \in Checkers |-> [at |-> "idle", read |-> {}, judged |-> {}, verdict |-> "none"]]
    /\ replacements = 0

----------------------------------------------------------------------------
(* The generator.                                                          *)

\* read_input; on a malformed file it stops and writes nothing.
GeneratorRead ==
    /\ generator.at = "idle"
    /\ generator' = IF inputFile = {} THEN [at |-> "stopped", problem |-> {}]
                                      ELSE [at |-> "solved", problem |-> inputFile]
    /\ UNCHANGED <<inputFile, certFile, checker, replacements>>

\* open(path, "w") truncates whatever is there.
GeneratorOpen ==
    /\ generator.at = "solved"
    /\ certFile' = {}
    /\ generator' = [generator EXCEPT !.at = "writing"]
    /\ UNCHANGED <<inputFile, checker, replacements>>

GeneratorWrite ==
    /\ generator.at = "writing"
    /\ \E c \in build_certificate(Only(generator.problem)) : certFile' = {c}
    /\ generator' = [generator EXCEPT !.at = "stopped"]
    /\ UNCHANGED <<inputFile, checker, replacements>>

\* The process dies, possibly between the two.
GeneratorDies ==
    /\ generator.at \in {"solved", "writing"}
    /\ generator' = [generator EXCEPT !.at = "stopped"]
    /\ UNCHANGED <<inputFile, certFile, checker, replacements>>

(* Somebody else. *)

ReplaceInput ==
    /\ replacements < MaxReplacements
    /\ \E p \in Problems : inputFile' = {p}
    /\ replacements' = replacements + 1
    /\ UNCHANGED <<certFile, generator, checker>>

ReplaceCertificate ==
    /\ replacements < MaxReplacements
    /\ \E c \in Forgeries : certFile' = {c}
    /\ replacements' = replacements + 1
    /\ UNCHANGED <<inputFile, generator, checker>>

(* check_files, in either language: the input, then the certificate. *)

Answer(k, judged, accepted) ==
    checker' = [checker EXCEPT ![k].at = "done", ![k].judged = judged,
                               ![k].verdict = IF accepted THEN "ACCEPT" ELSE "REJECT"]

CheckerRead(k) ==
    /\ checker[k].at = "idle"
    /\ IF inputFile = {}
         THEN Answer(k, {}, FALSE)
         ELSE checker' = [checker EXCEPT ![k].at = "read", ![k].read = inputFile]
    /\ UNCHANGED <<inputFile, certFile, generator, replacements>>

CheckerJudge(k) ==
    /\ checker[k].at = "read"
    /\ Answer(k, certFile, \E c \in certFile : Accepts(k, Only(checker[k].read), c))
    /\ UNCHANGED <<inputFile, certFile, generator, replacements>>

Stopped ==
    /\ generator.at = "stopped"
    /\ \A k \in Checkers : checker[k].at = "done"
    /\ UNCHANGED vars

Next ==
    \/ GeneratorRead \/ GeneratorOpen \/ GeneratorWrite \/ GeneratorDies
    \/ ReplaceInput \/ ReplaceCertificate
    \/ \E k \in Checkers : CheckerRead(k) \/ CheckerJudge(k)
    \/ Stopped

Spec == Init /\ [][Next]_vars

----------------------------------------------------------------------------
\* A file holds one document or none, and a checker answers once.
TypeOK ==
    /\ inputFile \in {{p} : p \in Problems} \cup {{}}
    /\ Cardinality(certFile) <= 1 /\ certFile \subseteq Certificate
    /\ generator.at \in {"idle", "solved", "writing", "stopped"}
    /\ generator.problem \in {{p} : p \in Problems} \cup {{}}
    /\ \A k \in Checkers :
         /\ checker[k].at \in {"idle", "read", "done"}
         /\ checker[k].read \in {{p} : p \in Problems} \cup {{}}
         /\ checker[k].verdict \in {"none", "ACCEPT", "REJECT"}
    /\ replacements \in 0..MaxReplacements

Accepted(k) == checker[k].verdict = "ACCEPT"
Problem(k)  == Only(checker[k].read)
Judged(k)   == Only(checker[k].judged)

(***************************************************************************)
(* ACCEPT means what it says of the problem the checker read, whoever      *)
(* wrote the certificate and for whatever problem: a repair repairs it; a  *)
(* separator kills D and pairs with r to one, so that nothing repairs it.  *)
(* The reference looks at all vectors over the entries, not at a checker's *)
(* sums ("never one it wrongly accepts"). (The variables have their types: *)
(* a file holds one document or none.)                                     *)
(***************************************************************************)
Sound ==
  /\ TypeOK
  /\ \A k \in Checkers : Accepted(k) =>
        LET p == Problem(k)
            c == Judged(k)
        IN /\ c.input_digest = p
           /\ c \in build_certificate(p)
           /\ c.result = "separator" =>
                \A b \in Vectors(cols(p)) : Exact(b) => mat_vec(p.D, b) # p.r

(***************************************************************************)
(* The two checkers agree on everything they both judged: one problem, one *)
(* certificate, one verdict ("the accept/reject verdict itself, which is   *)
(* the only thing the cross-language agreement tests require to match").   *)
(***************************************************************************)
Agree ==
    \A k, l \in Checkers :
        /\ checker[k].judged # {} /\ checker[k].judged = checker[l].judged
        /\ checker[k].read = checker[l].read
        => checker[k].verdict = checker[l].verdict

(***************************************************************************)
(* A genuine certificate for the problem the checker read, with entries    *)
(* that are short enough, is accepted: no false REJECT but for size.       *)
(***************************************************************************)
GenuineAccepted ==
    \A k \in Checkers : checker[k].judged # {} =>
        LET c == Judged(k)
        IN c \in build_certificate(Problem(k)) /\ parse_vector(c.witness) => Accepted(k)

(***************************************************************************)
(* What the tests say of the generator: "every certificate the extracted   *)
(* generator emits must be independently ACCEPTed by BOTH existing         *)
(* checkers". Nothing bounds the text of the rationals a generator writes. *)
(***************************************************************************)
EmittedAccepted ==
    \A k \in Checkers : checker[k].judged # {} =>
        (Judged(k) \in build_certificate(Problem(k)) => Accepted(k))
=============================================================================
