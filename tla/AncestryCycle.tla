--------------------------- MODULE AncestryCycle ---------------------------
(***************************************************************************)
(* The verifier's structural check of the ancestry graph                   *)
(* (tracking_adapter_verifier._verify_ancestry_graph): duplicate ids, then *)
(* dangling parents, then a search for cycles that colours the nodes with  *)
(* an explicit stack of (node, iterator over its parents). The dict        *)
(* comprehension and the two list passes are one step each; every pass     *)
(* through the `for parent_id in it` loop is a step of its own.            *)
(***************************************************************************)
EXTENDS AncestryColouring

VARIABLES
    pc,       \* "duplicates", "dangling", "colour" or "done"
    start,    \* the position of `for start in nodes`
    reasons   \* what result.reject recorded

vars == <<nodes, pc, start, color, stack, reasons>>

Reason == {"duplicate", "dangling", "cycle"} \X Ids

accepted == reasons = {}
Init ==
    /\ nodes \in Lists
    /\ pc = "duplicates"
    /\ start = 1
    /\ color = AllWhite
    /\ stack = <<>>
    /\ reasons = {}

CheckDuplicates ==
    /\ pc = "duplicates"
    /\ reasons' = {<<"duplicate", i>> : i \in Duplicates(nodes)}
    /\ pc' = IF reasons' = {} THEN "dangling" ELSE "done"
    /\ UNCHANGED <<nodes, start, color, stack>>

CheckDangling ==
    /\ pc = "dangling"
    /\ reasons' = {<<"dangling", i>> : i \in Dangling(nodes)}
    /\ pc' = IF reasons' = {} THEN "colour" ELSE "done"
    /\ UNCHANGED <<nodes, start, color, stack>>

\* `for start in nodes`: a node that has a colour already is passed over.
PickStart ==
    /\ pc = "colour"
    /\ stack = <<>>
    /\ start <= Len(nodes)
    /\ LET s == nodes[start].id IN
         IF color[s] = "WHITE" THEN Enter(s, <<>>) ELSE UNCHANGED <<color, stack>>
    /\ start' = start + 1
    /\ UNCHANGED <<nodes, pc, reasons>>

Finish ==
    /\ pc = "colour"
    /\ stack = <<>>
    /\ start > Len(nodes)
    /\ pc' = "done"
    /\ UNCHANGED <<nodes, start, color, stack, reasons>>

\* (slip) The node the search set out from is blamed, not the gray parent.
RejectAtStart ==
    /\ pc = "colour"
    /\ AtParent("GRAY")
    /\ reasons' = reasons \cup {<<"cycle", stack[1].node>>}
    /\ pc' = "done"
    /\ UNCHANGED <<nodes, start, color, stack>>

\* A gray parent is on the stack: the cycle is reported and the check returns.
RejectCycle ==
    /\ pc = "colour"
    /\ AtParent("GRAY")
    /\ reasons' = reasons \cup {<<"cycle", Parent>>}
    /\ pc' = "done"
    /\ UNCHANGED <<nodes, start, color, stack>>

\* (slip) The parent is looked at without the iterator moving on.
DescendPeeking ==
    /\ pc = "colour"
    /\ AtParent("WHITE")
    /\ Enter(Parent, stack)
    /\ UNCHANGED <<nodes, pc, start, reasons>>

Descend ==
    /\ pc = "colour"
    /\ AtParent("WHITE")
    /\ Enter(Parent, Advanced)
    /\ UNCHANGED <<nodes, pc, start, reasons>>

\* (slip) `continue` without taking the parent from the iterator.
PassOverStuck ==
    /\ pc = "colour"
    /\ AtParent("BLACK")
    /\ UNCHANGED vars

PassOver ==
    /\ pc = "colour"
    /\ AtParent("BLACK")
    /\ Pass
    /\ UNCHANGED <<nodes, pc, start, reasons>>

\* (slip) An exhausted node is popped but stays gray.
RetireGray ==
    /\ pc = "colour"
    /\ AtEnd
    /\ stack' = SubSeq(stack, 1, Len(stack) - 1)
    /\ UNCHANGED <<nodes, pc, start, color, reasons>>

Retire ==
    /\ pc = "colour"
    /\ AtEnd
    /\ Leave
    /\ UNCHANGED <<nodes, pc, start, reasons>>

Terminated == pc = "done" /\ UNCHANGED vars

Step ==
    \/ CheckDuplicates \/ CheckDangling \/ PickStart \/ Finish
    \/ RejectCycle \/ Descend \/ PassOver \/ Retire

Next == Step \/ Terminated

Spec     == Init /\ [][Next]_vars
FairSpec == Spec /\ WF_vars(Step)

----------------------------------------------------------------------------
\* The frames' iterators and `start` stay within their lists, and every defined
\* id keeps a colour.
TypeOK ==
    /\ nodes \in Seq(NodeRecord)
    /\ pc \in {"duplicates", "dangling", "colour", "done"}
    /\ start \in 1..(Len(nodes) + 1)
    /\ ColouringType
    /\ reasons \in SUBSET Reason

(***************************************************************************)
(* The verdict the rest of the verifier acts on is exact: an accepted list *)
(* has no duplicate, no dangling parent and no cycle, and a rejected one   *)
(* has one of them (_verify_ancestry_graph's docstring).                   *)
(***************************************************************************)
VerdictExact == pc = "done" => (accepted <=> WellFormed(nodes))

(***************************************************************************)
(* "cycle involving p" is true of p itself, not only of the graph: p is an *)
(* ancestor of one of its own parents' children, that is, of itself.       *)
(***************************************************************************)
BlameOnCycle ==
    \A i \in Ids : <<"cycle", i>> \in reasons =>
        \E q \in ParentSet(nodes, i) : i \in Ancestors(nodes, q)

\* The answer as the abstract check sees it.
verdict == IF pc # "done" THEN "pending" ELSE IF accepted THEN "accept" ELSE "reject"

Decision == INSTANCE AncestryDecision WITH MayGiveUp <- FALSE

\* The check implements the abstract one: on every list it answers, once, and
\* the answer is the right one (`while stack` is left in the end).
DecidesAncestry == Decision!Spec

----------------------------------------------------------------------------
\* One conjunct per phase of the check.
Phases ==
    /\ pc = "duplicates" => reasons = {}
    /\ pc = "dangling" => reasons = {} /\ Duplicates(nodes) = {}
    /\ pc \in {"duplicates", "dangling"} =>
         stack = <<>> /\ start = 1 /\ color = AllWhite
    /\ pc = "colour" =>
         reasons = {} /\ Duplicates(nodes) = {} /\ Dangling(nodes) = {}

Colouring == pc = "colour" => Coloured /\ LookedAt(start - 1)

(***************************************************************************)
(* The inductive invariant: the phases establish what the next one needs,  *)
(* and the colouring keeps the black nodes closed and free of cycles.      *)
(***************************************************************************)
IndInv == TypeOK /\ Phases /\ Colouring /\ VerdictExact
============================================================================
