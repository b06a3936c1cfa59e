-------------------------- MODULE AncestryClosure --------------------------
(***************************************************************************)
(* The source records behind a node, as the verifier computes them         *)
(* (tracking_adapter_verifier.compute_ancestry_closure): a work-list, with *)
(* one step per iteration of its loop. AncestryGraph has the second        *)
(* implementation, which it is compared with.                              *)
(***************************************************************************)
EXTENDS AncestryGraph

VARIABLES
    root,       \* the node whose closure is wanted
    worklist,   \* ids to look at, taken from the end
    seen,       \* ids looked at
    records,    \* the source records among them
    returned    \* has the loop ended?

closureVars == <<nodes, root, worklist, seen, records, returned>>

current == worklist[Len(worklist)]
Rest    == SubSeq(worklist, 1, Len(worklist) - 1)

\* Both functions index by_id with every id they meet, on graphs that passed
\* the structural checks.
InitClosure ==
    /\ nodes \in Lists
    /\ WellFormed(nodes)
    /\ root \in DefinedIds(nodes)
    /\ worklist = <<root>>
    /\ seen = {}
    /\ records = {}
    /\ returned = FALSE

\* (slip) A node looked at before goes back on the work-list.
PopSeenKept ==
    /\ worklist # <<>>
    /\ current \in seen
    /\ worklist' = <<current>> \o Rest
    /\ UNCHANGED <<nodes, root, seen, records, returned>>

PopSeen ==
    /\ worklist # <<>>
    /\ current \in seen
    /\ worklist' = Rest
    /\ UNCHANGED <<nodes, root, seen, records, returned>>

\* (slips) Only the first parent is followed; source records are the nodes
\* without parents; `seen` is not kept.
PopNewWith(parents, found, looked) ==
    /\ worklist # <<>>
    /\ current \notin seen
    /\ seen' = looked
    /\ records' = records \cup found
    /\ worklist' = Rest \o parents
    /\ UNCHANGED <<nodes, root, returned>>
PopNewFirstParent ==
    LET parents == ParentsOf(nodes, current)
    IN PopNewWith(IF parents = <<>> THEN <<>> ELSE <<parents[1]>>,
                  SourceRecords(nodes, {current}), seen \cup {current})
PopNewRoots ==
    PopNewWith(ParentsOf(nodes, current),
               {x \in {current} : ParentSet(nodes, x) = {}}, seen \cup {current})
PopNewForgetful ==
    PopNewWith(ParentsOf(nodes, current), SourceRecords(nodes, {current}), seen)

PopNew ==
    /\ worklist # <<>>
    /\ current \notin seen
    /\ seen' = seen \cup {current}
    /\ records' = records \cup SourceRecords(nodes, {current})
    /\ worklist' = Rest \o ParentsOf(nodes, current)
    /\ UNCHANGED <<nodes, root, returned>>

Return ==
    /\ worklist = <<>>
    /\ ~returned
    /\ returned' = TRUE
    /\ UNCHANGED <<nodes, root, worklist, seen, records>>

ClosureStep == PopSeen \/ PopNew \/ Return
ClosureReturned == returned /\ UNCHANGED closureVars
NextClosure == ClosureStep \/ ClosureReturned

ClosureSpec     == InitClosure /\ [][NextClosure]_closureVars
FairClosureSpec == ClosureSpec /\ WF_closureVars(ClosureStep)

----------------------------------------------------------------------------
Waiting == {worklist[k] : k \in DOMAIN worklist}

\* Only defined ids are ever queued (by_id[current] does not raise), and only
\* nodes that were seen are collected.
ClosureTypeOK ==
    /\ nodes \in Seq(NodeRecord)
    /\ root \in DefinedIds(nodes)
    /\ worklist \in Seq(DefinedIds(nodes))
    /\ seen \in SUBSET DefinedIds(nodes)
    /\ records \in SUBSET seen
    /\ returned \in BOOLEAN

(***************************************************************************)
(* compute_ancestry_closure returns the source records among all ancestors *)
(* of the root, "arbitrarily far back", and no others.                     *)
(***************************************************************************)
ClosureExact == returned => records = SourceRecords(nodes, Ancestors(nodes, root))

(***************************************************************************)
(* The two implementations agree, as compute_closure's docstring has it,   *)
(* on every graph the structural checks accept.                            *)
(***************************************************************************)
ClosuresAgree == returned => records = compute_closure(nodes, root)

\* The loop ends: a node's parents join the work-list once, when it is seen.
Returns == <>returned

(***************************************************************************)
(* While the loop runs, everything behind what was seen is seen or         *)
(* waiting, and everything seen or waiting is an ancestor of the root.     *)
(***************************************************************************)
Frontier ==
    /\ root \in seen \cup Waiting
    /\ \A x \in seen : ParentSet(nodes, x) \subseteq seen \cup Waiting
    /\ seen \cup Waiting \subseteq Ancestors(nodes, root)
    /\ records = SourceRecords(nodes, seen)

\* The inductive invariant of the loop.
ClosureInv ==
    /\ ClosureTypeOK
    /\ Dangling(nodes) = {}
    /\ Frontier
    /\ returned => worklist = <<>>
============================================================================
