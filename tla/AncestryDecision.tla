-------------------------- MODULE AncestryDecision --------------------------
(***************************************************************************)
(* What each structural check of the ancestry graph promises: one verdict, *)
(* accept exactly when the list is well formed. A check that runs on a     *)
(* bounded call stack may give up instead, but may not answer wrongly.     *)
(***************************************************************************)
EXTENDS AncestryGraph

CONSTANT MayGiveUp   \* TRUE or FALSE: does the check run on a bounded call stack?

VARIABLE verdict

Init == nodes \in Lists /\ verdict = "pending"

Decide ==
    /\ verdict = "pending"
    /\ verdict' \in {"accept", "reject"}
    /\ verdict' = "accept" <=> WellFormed(nodes)
    /\ UNCHANGED nodes

GiveUp ==
    /\ MayGiveUp
    /\ verdict = "pending"
    /\ verdict' = "gave_up"
    /\ UNCHANGED nodes

Next == Decide \/ GiveUp

SafeSpec == Init /\ [][Next]_<<nodes, verdict>>
Spec     == SafeSpec /\ WF_<<nodes, verdict>>(Next)
=============================================================================
