--------------------------- MODULE FirstOrderRun ---------------------------
(***************************************************************************)
(* run_associator_obstruction.run as a process beside its reader: it       *)
(* compiles the residue, attempts the repair, and writes a certificate,    *)
(* which the independent checker reads whenever it is started. The file is *)
(* written in place and may be replaced at any time.                       *)
(***************************************************************************)
EXTENDS FirstOrderCertificate

CONSTANTS Sources,       \* [seam_order, instances, d0, z, d1, expected]
          Edited(_)      \* the certificates somebody can make of a given one

VARIABLES src,           \* the input file, read once
          stage,         \* where the run is
          file,          \* what the path of the certificate holds
          judged, answer \* what the checker read last, and its answer

foVars == <<src, stage, file, judged, answer>>

Absent   == [kind |-> "absent"]
Torn     == [kind |-> "torn"]
Saved(c) == [kind |-> "certificate", cert |-> c]

\* The certificate of a source, unless the expected residue is another one.
emitted(s) == {c \in build_certificate(s) : s.expected = {} \/ s.expected = {c.seam_residue}}

(***************************************************************************)
(* What parsing leaves of a file. Nothing is asked of how the lengths of   *)
(* vectors and matrices fit, but that C^2 takes the residue: mat_vec       *)
(* raises before anything is written when it does not.                     *)
(***************************************************************************)
SeamInstance == [seam : STRING, U : Regions, V : Regions, W : Regions, mu : SeamCorrectionData]

LegalSource(s) ==
    /\ s.seam_order \in Seq(STRING) /\ s.instances \in Seq(SeamInstance)
    /\ ExactMatrix(s.d0) /\ ExactVector(s.z)
    /\ ExactMatrix(s.d1) /\ (s.d1 # <<>> => columns(s.d1) >= Len(s.seam_order))

LegalCertificate(c) ==
    /\ c.seam_order \in Seq(STRING) /\ ExactVector(c.seam_residue)
    /\ \A seam \in DOMAIN c.mu_by_seam : c.mu_by_seam[seam] \in SeamCorrectionData
    /\ ExactMatrix(c.coboundary_1) /\ ExactMatrix(c.coboundary_0) /\ ExactVector(c.cycle)
    /\ \A b \in c.correction : ExactVector(b)

ASSUME FilesAssumption ==
    /\ \A s \in Sources : LegalSource(s)
    /\ \A s \in Sources : \A c \in emitted(s) : \A other \in Edited(c) : LegalCertificate(other)

InitFirstOrder ==
    /\ src \in Sources
    /\ stage = "start" /\ file = Absent /\ judged = Absent /\ answer = "none"

\* A ValueError, an AssertionError or a KeyError: nothing is written.
Raise ==
    /\ stage = "start" /\ emitted(src) = {}
    /\ stage' = "raised"
    /\ UNCHANGED <<src, file, judged, answer>>

\* Everything is computed before open() truncates the file.
OpenFile ==
    /\ stage = "start" /\ emitted(src) # {}
    /\ stage' = "open" /\ file' = Torn
    /\ UNCHANGED <<src, judged, answer>>

Write ==
    /\ stage = "open"
    /\ stage' = "written" /\ \E c \in emitted(src) : file' = Saved(c)
    /\ UNCHANGED <<src, judged, answer>>

Die ==
    /\ stage = "open"
    /\ stage' = "died"
    /\ UNCHANGED <<src, file, judged, answer>>

Replace ==
    /\ stage \in {"open", "written", "died"}
    /\ \E c \in emitted(src) : \E other \in Edited(c) : file' = Saved(other)
    /\ UNCHANGED <<src, stage, judged, answer>>

\* A file that is missing or not JSON ends the checker, as Crashes does.
check_file(f) ==
    IF f.kind # "certificate" THEN "crash"
    ELSE IF Crashes(f.cert) THEN "crash"
    ELSE IF check_certificate(f.cert) = {} THEN "ACCEPT" ELSE "REJECT"

Check ==
    /\ judged' = file
    /\ answer' = check_file(file)
    /\ UNCHANGED <<src, stage, file>>

FirstOrder == Raise \/ OpenFile \/ Write \/ Die \/ Replace \/ Check
=============================================================================
