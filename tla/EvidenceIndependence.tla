------------------------ MODULE EvidenceIndependence ------------------------
(***************************************************************************)
(* The provenance check (tracking_adapter_provenance.check_independence):  *)
(* is the snapshot's independence policy supported by its ancestry graph?  *)
(* One step per pass of the loop over policy["independent_comparisons"].   *)
(* The graph is one the structural checks accepted.                        *)
(***************************************************************************)
EXTENDS AncestryGraph

CONSTANTS
    Edges,        \* the edge ids a policy may name
    Comparison,   \* Comparison[e] is the id "comparison:<e>"
    Policies,     \* the independence policies a snapshot may carry
    NoPolicy      \* the absence of one

Policy ==
    [independent : Seq(Edges), prohibited : BOOLEAN, correlated : SUBSET Edges]

ASSUME IndependenceAssumption ==
    /\ Comparison \in [Edges -> Ids]
    /\ Policies \subseteq Policy
    /\ NoPolicy \notin Policy

VARIABLES
    policy,       \* verified.independence_policy
    turn,         \* the position of the loop in policy.independent
    claimed,      \* result.claimed_independent_edges
    correlated,   \* result.correlated_reuse_edges
    outcome       \* "running", "accept" or the reason of the refusal

input == <<nodes, policy>>
policyVars  == <<nodes, policy, turn, claimed, correlated, outcome>>

InitPolicy ==
    /\ nodes \in Lists
    /\ WellFormed(nodes)
    /\ policy \in Policies \cup {NoPolicy}
    /\ turn = 1
    /\ claimed = <<>>
    /\ correlated = <<>>
    /\ outcome = "running"

NoClaim == policy = NoPolicy \/ nodes = <<>>
More    == outcome = "running" /\ ~NoClaim /\ turn <= Len(policy.independent)
edge    == policy.independent[turn]

HasComparison(e) ==
    /\ Comparison[e] \in DefinedIds(nodes)
    /\ ById(nodes, Comparison[e]).type = "declared_comparison"
Sides(e) == ParentsOf(nodes, Comparison[e])
\* (slip) Only the direct parents of the two sides are compared.
SharedParents(e) ==
    LET Near(i) == SourceRecords(nodes, {i} \cup ParentSet(nodes, i))
    IN Near(Sides(e)[1]) \cap Near(Sides(e)[2])

Shared(e) == compute_closure(nodes, Sides(e)[1]) \cap compute_closure(nodes, Sides(e)[2])

Refuse(reason) ==
    /\ outcome' = reason
    /\ UNCHANGED <<input, turn, claimed, correlated>>

RefuseMissing ==
    /\ More
    /\ ~HasComparison(edge)
    /\ Refuse("MISSING_COMPARISON_NODE")

RefuseMalformed ==
    /\ More
    /\ HasComparison(edge)
    /\ Len(Sides(edge)) # 2
    /\ Refuse("MALFORMED_COMPARISON_NODE")

Comparable == More /\ HasComparison(edge) /\ Len(Sides(edge)) = 2
Offends    == Shared(edge) # {} /\ policy.prohibited

RefuseShared ==
    /\ Comparable
    /\ Offends
    /\ edge \notin policy.correlated
    /\ Refuse("UNDECLARED_SHARED_ANCESTRY")

\* (slip) A declared reuse goes into both lists.
AdmitRelabelled ==
    /\ Comparable
    /\ Offends
    /\ edge \in policy.correlated
    /\ correlated' = Append(correlated, edge)
    /\ claimed' = Append(claimed, edge)
    /\ turn' = turn + 1
    /\ UNCHANGED <<input, outcome>>

\* Declared reuse is let through, but not as an independent comparison.
AdmitCorrelated ==
    /\ Comparable
    /\ Offends
    /\ edge \in policy.correlated
    /\ correlated' = Append(correlated, edge)
    /\ turn' = turn + 1
    /\ UNCHANGED <<input, claimed, outcome>>

AdmitIndependent ==
    /\ Comparable
    /\ ~Offends
    /\ claimed' = Append(claimed, edge)
    /\ turn' = turn + 1
    /\ UNCHANGED <<input, correlated, outcome>>

\* The early return: nothing is claimed, so nothing is checked.
AcceptNoClaim ==
    /\ outcome = "running"
    /\ NoClaim
    /\ outcome' = "accept"
    /\ UNCHANGED <<input, turn, claimed, correlated>>

AcceptPolicy ==
    /\ outcome = "running"
    /\ ~NoClaim
    /\ turn > Len(policy.independent)
    /\ outcome' = "accept"
    /\ UNCHANGED <<input, turn, claimed, correlated>>

PolicyStep ==
    \/ RefuseMissing \/ RefuseMalformed \/ RefuseShared
    \/ AdmitCorrelated \/ AdmitIndependent
    \/ AcceptNoClaim \/ AcceptPolicy
PolicyDecided == outcome # "running" /\ UNCHANGED policyVars
NextPolicy == PolicyStep \/ PolicyDecided

PolicySpec == InitPolicy /\ [][NextPolicy]_policyVars

----------------------------------------------------------------------------
Elements(s) == {s[k] : k \in DOMAIN s}

Refusals ==
    {"MISSING_COMPARISON_NODE", "MALFORMED_COMPARISON_NODE", "UNDECLARED_SHARED_ANCESTRY"}

\* The result lists hold edge ids, and a refusal has one of three reasons.
PolicyTypeOK ==
    /\ nodes \in Seq(NodeRecord)
    /\ policy \in Policies \cup {NoPolicy}
    /\ turn \in Nat \ {0}
    /\ claimed \in Seq(Edges)
    /\ correlated \in Seq(Edges)
    /\ outcome \in {"running", "accept"} \cup Refusals

\* The source records that both sides of a comparison descend from, stated on
\* the graph and not by any walk.
CommonRecords(e) ==
    SourceRecords(nodes, Ancestors(nodes, Sides(e)[1]) \cap Ancestors(nodes, Sides(e)[2]))

(***************************************************************************)
(* Under a policy that prohibits shared ancestry, an edge reported as      *)
(* claimed independent has no source record behind both of its sides,      *)
(* however far back: evidence counted twice is never called independent.   *)
(* (The variables have their types.)                                       *)
(***************************************************************************)
ClaimsSupported ==
  /\ PolicyTypeOK
  /\ \A e \in Elements(claimed) :
        policy.prohibited => HasComparison(e) /\ CommonRecords(e) = {}

\* What the graph says of one comparison of the policy.
Fault(e) ==
    IF ~HasComparison(e) THEN "MISSING_COMPARISON_NODE"
    ELSE IF Len(Sides(e)) # 2 THEN "MALFORMED_COMPARISON_NODE"
    ELSE IF policy.prohibited /\ e \notin policy.correlated /\ CommonRecords(e) # {}
           THEN "UNDECLARED_SHARED_ANCESTRY"
    ELSE "none"

(***************************************************************************)
(* A refusal names what is wrong with the first faulty comparison of the   *)
(* policy, and a policy with no faulty comparison is never refused. An     *)
(* accepted policy has every comparison accounted for, in one list only:   *)
(* correlated exactly when declared so and really sharing a record.        *)
(***************************************************************************)
OutcomeExact ==
    LET P == policy.independent IN
    /\ outcome \in Refusals =>
         \E k \in DOMAIN P : /\ Fault(P[k]) = outcome
                             /\ \A j \in 1..(k - 1) : Fault(P[j]) = "none"
    /\ outcome = "accept" /\ ~NoClaim =>
         \A e \in Elements(P) :
            /\ Fault(e) = "none"
            /\ e \in Elements(correlated) <=>
                 policy.prohibited /\ CommonRecords(e) # {} /\ e \in policy.correlated
            /\ e \in Elements(claimed) <=> e \notin Elements(correlated)

(***************************************************************************)
(* What the module's docstring says of PROVENANCE ACCEPT: where a shared   *)
(* ancestry was declared as correlated reuse, the comparison is accepted   *)
(* but never relabelled independent, so that one claimed independent and   *)
(* declared correlated shares no record after all. (AdmitIndependent does  *)
(* not ask for the declaration where the policy prohibits nothing.)        *)
(***************************************************************************)
NeverRelabelled ==
    outcome = "accept" =>
      \A e \in Elements(claimed) : e \in policy.correlated => CommonRecords(e) = {}

----------------------------------------------------------------------------
\* Declared reuse: let through, but not called independent.
Reused(e) == policy.prohibited /\ CommonRecords(e) # {} /\ e \in policy.correlated

\* The comparisons that the loop has been through.
Judged == {policy.independent[k] : k \in 1..(turn - 1)}

(***************************************************************************)
(* The inductive invariant of the loop: nothing is wrong with what it has  *)
(* been through, each of which is in the list that it belongs to.          *)
(***************************************************************************)
PolicyInv ==
    /\ PolicyTypeOK
    /\ WellFormed(nodes)
    /\ NoClaim => claimed = <<>> /\ correlated = <<>> /\ outcome \notin Refusals
    /\ ~NoClaim =>
         /\ turn <= Len(policy.independent) + 1
         /\ \A k \in 1..(turn - 1) : Fault(policy.independent[k]) = "none"
         /\ Elements(claimed) = {e \in Judged : ~Reused(e)}
         /\ Elements(correlated) = {e \in Judged : Reused(e)}
         /\ outcome \in Refusals => turn <= Len(policy.independent) /\ Fault(edge) = outcome
         /\ outcome = "accept" => turn > Len(policy.independent)
=============================================================================
