---------------------- MODULE RepairCertificateProofs ----------------------
(***************************************************************************)
(* What an ACCEPT of a repair-or-separator certificate means, for every    *)
(* set of well-shaped problems, every set of rationals that occur and any  *)
(* number of replaced files.                                               *)
(***************************************************************************)
EXTENDS RepairCertificate, CertificateChecksProofs

(***************************************************************************)
(* The processes and the files.                                            *)
(***************************************************************************)
ProblemFiles     == {{p} : p \in Problems} \cup {{}}
CertificateFiles == {{c} : c \in {x \in Certificate : Headed(x)}} \cup {{}}

\* A checker that is done has judged the certificate file as it stood, of the
\* problem that it had read; one that is not has no verdict.
CheckerInv(k) ==
    \/ /\ checker[k].at = "idle"
       /\ checker[k].judged = {} /\ checker[k].verdict = "none"
    \/ /\ checker[k].at = "read" /\ checker[k].read # {}
       /\ checker[k].judged = {} /\ checker[k].verdict = "none"
    \/ /\ checker[k].at = "done"
       /\ checker[k].judged = {} /\ checker[k].verdict = "REJECT"
    \/ /\ checker[k].at = "done"
       /\ \E p \in Problems, c \in Certificate :
            /\ Headed(c)
            /\ checker[k].read = {p} /\ checker[k].judged = {c}
            /\ checker[k].verdict = IF Accepts(k, p, c) THEN "ACCEPT" ELSE "REJECT"

FilesInv ==
    /\ inputFile \in ProblemFiles
    /\ certFile \in CertificateFiles
    /\ generator \in [at : {"idle", "solved", "writing", "stopped"}, problem : ProblemFiles]
    /\ generator.at \in {"solved", "writing"} => generator.problem # {}
    /\ replacements \in 0..MaxReplacements

CheckersInv ==
    /\ checker \in [Checkers -> [at : {"idle", "read", "done"}, read : ProblemFiles,
                                 judged : CertificateFiles,
                                 verdict : {"none", "ACCEPT", "REJECT"}]]
    /\ \A k \in Checkers : CheckerInv(k)

IndInv == FilesInv /\ CheckersInv

LEMMA OnlyOne == ASSUME NEW x PROVE Only({x}) = x
    BY DEF Only

\* Whatever is put in place of a certificate still names its own keys.
LEMMA ForgedShape ==
    ASSUME NEW c \in Forgeries
    PROVE  c \in Certificate /\ Headed(c)
<1>1. ASSUME NEW p \in Problems, NEW result \in Results, NEW v \in Vectors(1) \cup Vectors(2)
      PROVE  Written(p, result, v) \in Certificate /\ Headed(Written(p, result, v))
    <2>1. v \in Seq(Entries)
        <3>1. \A n \in Nat : Vectors(n) \subseteq Seq(Entries)
            BY DEF Vectors
        <3> QED
            BY <3>1
    <2> QED
        BY <2>1 DEF Written, Certificate, Headed, KeyNames, Results, CERTIFICATE_KEYS
<1>2. ASSUME NEW d \in Genuine
      PROVE  d \in Certificate /\ Headed(d) /\ d.result \in Results
    BY GenuineShape DEF Genuine
<1>3. ASSUME NEW d \in Genuine
      PROVE  /\ [d EXCEPT !.schema = "other"] \in Certificate
             /\ Headed([d EXCEPT !.schema = "other"])
    BY <1>2 DEF Certificate, Headed
<1>4. ASSUME NEW d \in Genuine
      PROVE  /\ [d EXCEPT !.result = "other"] \in Certificate
             /\ Headed([d EXCEPT !.result = "other"])
    BY <1>2 DEF Certificate, Headed
<1>5. ASSUME NEW d \in Genuine
      PROVE  /\ [d EXCEPT !.keys = @ \cup {"note"}] \in Certificate
             /\ Headed([d EXCEPT !.keys = @ \cup {"note"}])
    BY <1>2 DEF Certificate, Headed, KeyNames
<1>6. ASSUME NEW d \in Genuine
      PROVE  /\ [d EXCEPT !.keys = @ \ {d.result}] \in Certificate
             /\ Headed([d EXCEPT !.keys = @ \ {d.result}])
    BY <1>2 DEF Certificate, Headed, KeyNames, Results
<1> QED
    BY <1>1, <1>3, <1>4, <1>5, <1>6 DEF Forgeries

LEMMA InitEstablishes == Init => IndInv
<1> SUFFICES ASSUME Init PROVE IndInv
    OBVIOUS
<1>1. FilesInv
    BY ReplacementAssumption DEF Init, FilesInv, ProblemFiles, CertificateFiles, Idle
<1>2. CheckersInv
    BY DEF Init, CheckersInv, CheckerInv, ProblemFiles, CertificateFiles
<1> QED
    BY <1>1, <1>2 DEF IndInv

LEMMA StepPreserves == IndInv /\ [Next]_vars => IndInv'
<1> SUFFICES ASSUME IndInv, [Next]_vars PROVE IndInv'
    OBVIOUS
<1>1. FilesInv /\ CheckersInv
    BY DEF IndInv
\* What a checker holds depends on the checker alone.
<1>2. ASSUME UNCHANGED checker PROVE CheckersInv'
    BY <1>1, <1>2 DEF CheckersInv, CheckerInv, Accepts, ProblemFiles, CertificateFiles
<1>3. ASSUME GeneratorRead PROVE IndInv'
    <2>1. FilesInv'
        BY <1>1, <1>3 DEF GeneratorRead, FilesInv, ProblemFiles
    <2> QED
        BY <1>2, <1>3, <2>1 DEF GeneratorRead, IndInv
<1>4. ASSUME GeneratorOpen PROVE IndInv'
    <2>1. FilesInv'
        BY <1>1, <1>4 DEF GeneratorOpen, FilesInv, CertificateFiles
    <2> QED
        BY <1>2, <1>4, <2>1 DEF GeneratorOpen, IndInv
<1>5. ASSUME GeneratorWrite PROVE IndInv'
    <2>1. PICK p \in Problems : generator.problem = {p}
        BY <1>1, <1>5 DEF GeneratorWrite, FilesInv, ProblemFiles
    <2>2. PICK c \in build_certificate(p) : certFile' = {c}
        BY <1>5, <2>1, OnlyOne DEF GeneratorWrite
    <2>3. c \in Certificate /\ Headed(c)
        BY <2>2, GenuineShape
    <2>4. FilesInv'
        BY <1>1, <1>5, <2>2, <2>3 DEF GeneratorWrite, FilesInv, CertificateFiles
    <2> QED
        BY <1>2, <1>5, <2>4 DEF GeneratorWrite, IndInv
<1>6. ASSUME GeneratorDies PROVE IndInv'
    <2>1. FilesInv'
        BY <1>1, <1>6 DEF GeneratorDies, FilesInv
    <2> QED
        BY <1>2, <1>6, <2>1 DEF GeneratorDies, IndInv
<1>7. ASSUME ReplaceInput PROVE IndInv'
    <2>1. FilesInv'
        BY <1>1, <1>7, ReplacementAssumption DEF ReplaceInput, FilesInv, ProblemFiles
    <2> QED
        BY <1>2, <1>7, <2>1 DEF ReplaceInput, IndInv
<1>8. ASSUME ReplaceCertificate PROVE IndInv'
    <2>1. PICK c \in Forgeries : certFile' = {c}
        BY <1>8 DEF ReplaceCertificate
    <2>2. c \in Certificate /\ Headed(c)
        BY ForgedShape
    <2>3. FilesInv'
        BY <1>1, <1>8, <2>1, <2>2, ReplacementAssumption
        DEF ReplaceCertificate, FilesInv, CertificateFiles
    <2> QED
        BY <1>2, <1>8, <2>3 DEF ReplaceCertificate, IndInv
<1>9. ASSUME NEW k \in Checkers, CheckerRead(k) PROVE IndInv'
    <2>1. FilesInv'
        BY <1>1, <1>9 DEF CheckerRead, FilesInv
    <2>2. ASSUME NEW l \in Checkers, l # k PROVE CheckerInv(l)'
        <3>1. checker'[l] = checker[l]
            BY <1>1, <1>9, <2>2 DEF CheckerRead, Answer, CheckersInv
        <3> QED
            BY <1>1, <3>1 DEF CheckersInv, CheckerInv, Accepts
    <2>3. CheckerInv(k)'
        BY <1>1, <1>9 DEF CheckerRead, Answer, CheckersInv, CheckerInv
    <2>4. CheckersInv'
        BY <1>1, <1>9, <2>2, <2>3
        DEF CheckerRead, Answer, CheckersInv, FilesInv, CertificateFiles
    <2> QED
        BY <2>1, <2>4 DEF IndInv
<1>10. ASSUME NEW k \in Checkers, CheckerJudge(k) PROVE IndInv'
    <2>1. FilesInv'
        BY <1>1, <1>10 DEF CheckerJudge, FilesInv
    <2>2. ASSUME NEW l \in Checkers, l # k PROVE CheckerInv(l)'
        <3>1. checker'[l] = checker[l]
            BY <1>1, <1>10, <2>2 DEF CheckerJudge, Answer, CheckersInv
        <3> QED
            BY <1>1, <3>1 DEF CheckersInv, CheckerInv, Accepts
    <2>3. PICK p \in Problems : checker[k].read = {p}
        BY <1>1, <1>10 DEF CheckerJudge, CheckersInv, CheckerInv, ProblemFiles
    <2>4. checker'[k] = [checker[k] EXCEPT !.at = "done", !.judged = certFile,
             !.verdict = IF \E c \in certFile : Accepts(k, p, c) THEN "ACCEPT" ELSE "REJECT"]
        <3>1. Only(checker[k].read) = p
            BY <2>3, OnlyOne
        <3>2. checker' = [checker EXCEPT ![k].at = "done", ![k].judged = certFile,
                 ![k].verdict = IF \E c \in certFile : Accepts(k, p, c)
                                  THEN "ACCEPT" ELSE "REJECT"]
            BY <1>10, <3>1 DEF CheckerJudge, Answer
        <3>3. k \in DOMAIN checker
            BY <1>1 DEF CheckersInv
        <3> QED
            BY ONLY <3>2, <3>3
    <2>5. CheckerInv(k)'
        <3>1. CASE certFile = {}
            BY <1>1, <2>4, <3>1 DEF CheckersInv, CheckerInv
        <3>2. CASE certFile # {}
            <4>1. PICK c \in Certificate : Headed(c) /\ certFile = {c}
                BY <1>1, <3>2 DEF FilesInv, CertificateFiles
            <4>2. /\ checker'[k].at = "done" /\ checker'[k].read = {p}
                  /\ checker'[k].judged = {c}
                  /\ checker'[k].verdict = IF Accepts(k, p, c) THEN "ACCEPT" ELSE "REJECT"
                BY <1>1, <2>3, <2>4, <4>1 DEF CheckersInv
            <4> QED
                BY <4>1, <4>2 DEF CheckerInv, Accepts
        <3> QED
            BY <3>1, <3>2
    <2>6. checker' \in [Checkers -> [at : {"idle", "read", "done"}, read : ProblemFiles,
                                 judged : CertificateFiles,
                                 verdict : {"none", "ACCEPT", "REJECT"}]]
        BY <1>1, <1>10, ZenonT(40) DEF CheckerJudge, Answer, CheckersInv, FilesInv
    <2>7. CheckersInv'
        BY <2>2, <2>5, <2>6 DEF CheckersInv, ProblemFiles, CertificateFiles
    <2> QED
        BY <2>1, <2>7 DEF IndInv
<1>11. ASSUME UNCHANGED vars PROVE IndInv'
    <2>1. FilesInv'
        BY <1>1, <1>11 DEF vars, FilesInv
    <2> QED
        BY <1>2, <1>11, <2>1 DEF vars, IndInv
<1> QED
    BY <1>3, <1>4, <1>5, <1>6, <1>7, <1>8, <1>9, <1>10, <1>11 DEF Next, Stopped

\* The inductive invariant holds in every behaviour.
THEOREM Inductive == Spec => []IndInv
    BY InitEstablishes, StepPreserves, PTL DEF Spec

LEMMA TypesFollow == IndInv => TypeOK
<1> SUFFICES ASSUME IndInv PROVE TypeOK
    OBVIOUS
<1>1. FilesInv /\ CheckersInv
    BY DEF IndInv
<1>2. Cardinality(certFile) <= 1 /\ certFile \subseteq Certificate
    <2>1. CASE certFile = {}
        BY <2>1, FS_EmptySet
    <2>2. CASE certFile # {}
        <3>1. PICK c \in Certificate : certFile = {c}
            BY <1>1, <2>2 DEF FilesInv, CertificateFiles
        <3> QED
            BY <3>1, FS_Singleton
    <2> QED
        BY <2>1, <2>2
<1> QED
    BY <1>1, <1>2 DEF FilesInv, CheckersInv, TypeOK, ProblemFiles

\* Files and processes keep their types.
THEOREM TypeCorrect == Spec => []TypeOK
    BY Inductive, TypesFollow, PTL

(***************************************************************************)
(* ACCEPT means what it says, of the problem that the checker read and the *)
(* certificate that it judged, whichever files were replaced and when.     *)
(***************************************************************************)
LEMMA SoundFollows == IndInv => Sound
<1> SUFFICES ASSUME IndInv, NEW k \in Checkers, Accepted(k)
             PROVE  LET p == Problem(k)
                        c == Judged(k)
                    IN /\ c.input_digest = p
                       /\ c \in build_certificate(p)
                       /\ c.result = "separator" =>
                            \A b \in Vectors(cols(p)) : Exact(b) => mat_vec(p.D, b) # p.r
    BY TypesFollow DEF Sound
<1>1. PICK p \in Problems, c \in Certificate :
        Headed(c) /\ checker[k].read = {p} /\ checker[k].judged = {c} /\ Accepts(k, p, c)
    BY DEF IndInv, CheckersInv, CheckerInv, Accepted
<1>2. Problem(k) = p /\ Judged(k) = c
    BY <1>1, OnlyOne DEF Problem, Judged
<1>3. check_certificate(p, c) = {}
    BY <1>1, CheckersAgree DEF Accepts
<1>4. c.input_digest = p /\ c \in build_certificate(p)
    BY <1>1, <1>3, AcceptedIsGenuine
<1>5. c.result = "separator" =>
        \A b \in Vectors(cols(p)) : Exact(b) => mat_vec(p.D, b) # p.r
    BY <1>4, NeverBoth
<1> QED
    BY <1>2, <1>4, <1>5

THEOREM AcceptMeansDecided == Spec => []Sound
    BY Inductive, SoundFollows, PTL

(***************************************************************************)
(* The two checkers agree on whatever they both judged.                    *)
(***************************************************************************)
LEMMA AgreeFollows == IndInv => Agree
<1> SUFFICES ASSUME IndInv, NEW k \in Checkers, NEW l \in Checkers,
                    checker[k].judged # {}, checker[k].judged = checker[l].judged,
                    checker[k].read = checker[l].read
             PROVE  checker[k].verdict = checker[l].verdict
    BY DEF Agree
<1>1. PICK p \in Problems, c \in Certificate :
        /\ checker[k].read = {p} /\ checker[k].judged = {c}
        /\ checker[k].verdict = IF Accepts(k, p, c) THEN "ACCEPT" ELSE "REJECT"
    BY DEF IndInv, CheckersInv, CheckerInv
<1>2. checker[l].verdict = IF Accepts(l, p, c) THEN "ACCEPT" ELSE "REJECT"
    BY <1>1 DEF IndInv, CheckersInv, CheckerInv
<1>3. Accepts(k, p, c) <=> Accepts(l, p, c)
    BY CheckersAgree DEF Accepts
<1> QED
    BY <1>1, <1>2, <1>3

THEOREM OneVerdict == Spec => []Agree
    BY Inductive, AgreeFollows, PTL

(***************************************************************************)
(* A genuine certificate whose rationals are short enough is accepted.     *)
(***************************************************************************)
LEMMA GenuineFollows == IndInv => GenuineAccepted
<1> SUFFICES ASSUME IndInv, NEW k \in Checkers, checker[k].judged # {},
                    Judged(k) \in build_certificate(Problem(k)), parse_vector(Judged(k).witness)
             PROVE  Accepted(k)
    BY DEF GenuineAccepted
<1>1. PICK p \in Problems, c \in Certificate :
        /\ checker[k].read = {p} /\ checker[k].judged = {c}
        /\ checker[k].verdict = IF Accepts(k, p, c) THEN "ACCEPT" ELSE "REJECT"
    BY DEF IndInv, CheckersInv, CheckerInv
<1>2. Problem(k) = p /\ Judged(k) = c
    BY <1>1, OnlyOne DEF Problem, Judged
<1>3. check_certificate(p, c) = {}
    BY <1>2, GenuineIsAccepted
<1>4. Accepts(k, p, c)
    BY <1>3, CheckersAgree DEF Accepts
<1> QED
    BY <1>1, <1>4 DEF Accepted

THEOREM NoFalseReject == Spec => []GenuineAccepted
    BY Inductive, GenuineFollows, PTL
=============================================================================
