------------------------ MODULE ContributionAssembly ------------------------
(***************************************************************************)
(* The two OCaml checkers between a seam's constants and a global vector:  *)
(* associator_contribution_checker.ml, which verifies one seam's certified *)
(* contribution, and assembly_checker.ml, which decides whether the        *)
(* evidence at hand completes, refuses or leaves open the whole vector.    *)
(* Lists keep their order and their repetitions, as in the code; what has  *)
(* some identifier is the set of its places.                               *)
(***************************************************************************)
EXTENDS RegionalComposition, LinearAlgebra

slot_coefficient == [VW |-> 1, UvV_W |-> -1, U_VvW |-> 1, UV |-> -1]

\* The four constants printed in lowest terms: no two prints are the same.
compute_digest(mu) == [seam |-> mu]

other_slots_zero(slot, mu) == \A s \in DOMAIN mu \ {slot} : mu[s] = 0

First(ks)   == CHOOSE k \in ks : \A j \in ks : k <= j
Several(ks) == \E j, k \in ks : j # k

lookup(registry, id) == {k \in DOMAIN registry : registry[k].id = id}

\* The checks in their order; the value of a verified contribution is a rational.
verify_contribution(registry, cert) ==
    LET found == lookup(registry, cert.interface_id)
        no(why) == [verified |-> FALSE, reason |-> why]
    IN IF found = {} THEN no("unknown interface identifier")
       ELSE IF compute_digest(cert.witness) # cert.digest THEN no("digest mismatch")
       ELSE IF ~other_slots_zero(registry[First(found)].slot, cert.witness) THEN no("slot violation")
       ELSE IF cert.contribution # <<closed_form_delta(cert.witness), 1>> THEN no("value mismatch")
       ELSE [verified |-> TRUE, value |-> cert.contribution]

----------------------------------------------------------------------------
(* Required interfaces and certificates: [id, digest], [id, digest, kind]  *)
(* and [id, digest, value].                                                *)

matching(id, certs) == {k \in DOMAIN certs : certs[k].id = id}

\* (slip) The first certificate of a name is taken, whatever follows it.
classify_first(req, adm, con) ==
    LET as == matching(req.id, adm)
        cs == matching(req.id, con)
        a == adm[First(as)]
        c == con[First(cs)]
    IN IF as = {} THEN "missing_admissibility"
       ELSE IF a.digest # req.digest THEN "coreference_mismatch"
       ELSE IF a.kind = "Incompatible" THEN "Refused"
       ELSE IF a.kind = "Unresolved" THEN "unresolved_admissibility"
       ELSE IF cs = {} THEN "missing_contribution"
       ELSE IF c.digest # req.digest THEN "coreference_mismatch"
       ELSE "Satisfied"

classify_interface(req, adm, con) ==
    LET as == matching(req.id, adm)
        cs == matching(req.id, con)
        a == adm[First(as)]
        c == con[First(cs)]
    IN IF Several(as) \/ Several(cs) THEN "duplicate_interface_evidence"
       ELSE IF as = {} THEN "missing_admissibility"
       ELSE IF a.digest # req.digest THEN "coreference_mismatch"
       ELSE IF a.kind = "Incompatible" THEN "Refused"
       ELSE IF a.kind = "Unresolved" THEN "unresolved_admissibility"
       ELSE IF cs = {} THEN "missing_contribution"
       ELSE IF c.digest # req.digest THEN "coreference_mismatch"
       ELSE "Satisfied"

Ids(certs) == {certs[k].id : k \in DOMAIN certs}

unexpected_ids(required, certs) == Ids(certs) \ Ids(required)

\* A refusal goes first; the reasons of an open outcome are kept as a set.
assemble(required, adm, con) ==
    LET status(k) == classify_interface(required[k], adm, con)
        refused == {required[k].id : k \in {i \in DOMAIN required : status(i) = "Refused"}}
        unresolved ==
            {<<required[k].id, status(k)>> : k \in {i \in DOMAIN required : status(i) # "Satisfied"}}
            \cup ((unexpected_ids(required, adm) \cup unexpected_ids(required, con)) \X {"unexpected_interface"})
    IN IF refused # {} THEN [outcome |-> "Refused", ids |-> refused]
       ELSE IF unresolved # {} THEN [outcome |-> "Unresolved", reasons |-> unresolved]
       ELSE [outcome |-> "Complete",
             values |-> [k \in DOMAIN required |-> con[First(matching(required[k].id, con))].value]]
=============================================================================
