------------------------- MODULE AncestryColouring -------------------------
(***************************************************************************)
(* The depth-first search that both structural checks of the ancestry      *)
(* graph make (tracking_adapter_verifier._verify_ancestry_graph with an    *)
(* explicit stack, tracking_adapter_format._validate_ancestry_graph with   *)
(* calls of `visit`): three colours, and a frame for each node that is not *)
(* finished. A frame's `at` is the position of its iterator over the       *)
(* node's parents.                                                         *)
(***************************************************************************)
EXTENDS AncestryGraph

VARIABLES
    color,   \* the colour of each defined id
    stack    \* the frames, or the calls in progress, the innermost last

Colours == {"WHITE", "GRAY", "BLACK"}
Frame   == [node : Ids, at : Nat \ {0}]

AllWhite  == [i \in DefinedIds(nodes) |-> "WHITE"]
Top       == stack[Len(stack)]
Parent    == ParentsOf(nodes, Top.node)[Top.at]
Exhausted == Top.at > Len(ParentsOf(nodes, Top.node))

\* The search is at a parent of the innermost node, of a given colour.
AtParent(c) == stack # <<>> /\ ~Exhausted /\ color[Parent] = c
AtEnd       == stack # <<>> /\ Exhausted

\* The iterator of the innermost frame moves on by one.
Advanced == [stack EXCEPT ![Len(stack)].at = @ + 1]

\* A node is entered above the frames `below`; the innermost one is left.
Enter(i, below) ==
    /\ color' = [color EXCEPT ![i] = "GRAY"]
    /\ stack' = Append(below, [node |-> i, at |-> 1])
Pass  == stack' = Advanced /\ UNCHANGED color
Leave ==
    /\ color' = [color EXCEPT ![Top.node] = "BLACK"]
    /\ stack' = SubSeq(stack, 1, Len(stack) - 1)

----------------------------------------------------------------------------
(* Why the colouring is right.                                             *)

Black == {i \in DefinedIds(nodes) : color[i] = "BLACK"}

\* Every defined id has a colour.
ColouringType == color \in [DefinedIds(nodes) -> Colours] /\ stack \in Seq(Frame)

\* The gray nodes are the frames' nodes, each with one frame.
GrayOnStack ==
    /\ \A k \in DOMAIN stack : /\ stack[k].node \in DefinedIds(nodes)
                               /\ color[stack[k].node] = "GRAY"
    /\ \A i \in DefinedIds(nodes) :
         color[i] = "GRAY" => \E k \in DOMAIN stack : stack[k].node = i
    /\ \A k, l \in DOMAIN stack : stack[k].node = stack[l].node => k = l

\* A frame stands on the parent it descended into last.
Linked ==
    \A k \in DOMAIN stack :
        /\ stack[k].at <= Len(ParentsOf(nodes, stack[k].node)) + 1
        /\ k < Len(stack) =>
             /\ stack[k].at > 1
             /\ ParentsOf(nodes, stack[k].node)[stack[k].at - 1] = stack[k + 1].node

\* What an iterator has passed is finished, but for the frame above.
Consumed ==
    \A k \in DOMAIN stack : \A j \in 1..(stack[k].at - 1) :
        LET p == ParentsOf(nodes, stack[k].node)[j] IN
            \/ p \in Black
            \/ k < Len(stack) /\ p = stack[k + 1].node

\* The finished nodes keep their parents among them, and hold no cycle.
BlackFinished ==
    /\ ParentClosed(nodes, Black)
    /\ Wellfounded(nodes, Black)

\* The colouring of a graph without dangling parents, at every moment.
Coloured ==
    /\ nodes \in Seq(NodeRecord) /\ Dangling(nodes) = {}
    /\ ColouringType
    /\ GrayOnStack /\ Linked /\ Consumed /\ BlackFinished

\* The first nodes of the list have been looked at.
LookedAt(k) == \A l \in 1..k : color[nodes[l].id] # "WHITE"
=============================================================================
