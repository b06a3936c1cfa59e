--------------------------- MODULE AncestryProofs ---------------------------
(***************************************************************************)
(* What the three checks of an ancestry graph promise, for every list of   *)
(* records: the colouring decides acyclicity, both closures collect the    *)
(* source records among the ancestors, and the independence check calls    *)
(* independent what has no record in common.                               *)
(***************************************************************************)
EXTENDS AncestryCycle, AncestryParse, AncestryClosure, EvidenceIndependence, SequenceTheorems,
        FiniteSetTheorems, WellFoundedInduction, TLAPS

(***************************************************************************)
(* `by_id` of a defined id is a record of the list, and in a list without  *)
(* dangling parents a node's parents are defined.                          *)
(***************************************************************************)
LEMMA ByIdIsRecord ==
    ASSUME NEW ns \in Seq(NodeRecord), NEW i \in DefinedIds(ns)
    PROVE  /\ ById(ns, i) \in NodeRecord
           /\ \E k \in DOMAIN ns : ById(ns, i) = ns[k]
           /\ ParentsOf(ns, i) \in Seq(Ids)
           /\ DefinedIds(ns) \subseteq Ids
<1>1. PICK k \in DOMAIN ns : ns[k].id = i
    BY DEF DefinedIds
<1>2. \E m \in DOMAIN ns : ById(ns, i) = ns[m]
    BY <1>1 DEF ById
<1>3. \A m \in DOMAIN ns : ns[m] \in NodeRecord
    OBVIOUS
<1> QED
    BY <1>2, <1>3 DEF ParentsOf, NodeRecord, DefinedIds

LEMMA ParentsDefined ==
    ASSUME NEW ns \in Seq(NodeRecord), Dangling(ns) = {},
           NEW i \in DefinedIds(ns)
    PROVE  /\ ParentsOf(ns, i) \in Seq(DefinedIds(ns))
           /\ ParentSet(ns, i) \subseteq DefinedIds(ns)
<1>1. PICK k \in DOMAIN ns : ById(ns, i) = ns[k]
    BY ByIdIsRecord
<1>2. ParentsOf(ns, i) \in Seq(Ids)
    BY ByIdIsRecord
<1>3. \A j \in DOMAIN ParentsOf(ns, i) : ParentsOf(ns, i)[j] \in DefinedIds(ns)
    BY <1>1 DEF Dangling, ParentsOf
<1> QED
    BY <1>2, <1>3 DEF ParentSet

LEMMA RecordFields ==
    ASSUME NEW ns \in Seq(NodeRecord), NEW k \in DOMAIN ns
    PROVE  /\ ns[k].id \in Ids
           /\ ns[k].id \in DefinedIds(ns)
           /\ ns[k].parents \in Seq(Ids)
<1>1. ns[k] \in NodeRecord
    OBVIOUS
<1> QED
    BY <1>1 DEF NodeRecord, DefinedIds

\* What a step may read of the frame on top of the stack.
LEMMA TopFrame ==
    ASSUME Coloured, stack # <<>>
    PROVE  /\ Len(stack) \in Nat \ {0}
           /\ Len(stack) \in DOMAIN stack
           /\ Top \in Frame
           /\ Top.node \in DefinedIds(nodes)
           /\ color[Top.node] = "GRAY"
           /\ ParentsOf(nodes, Top.node) \in Seq(DefinedIds(nodes))
           /\ Top.at \in 1..(Len(ParentsOf(nodes, Top.node)) + 1)
           /\ ~Exhausted => /\ Top.at \in DOMAIN ParentsOf(nodes, Top.node)
                            /\ Parent \in DefinedIds(nodes)
                            /\ Parent \in ParentSet(nodes, Top.node)
<1>1. Len(stack) \in Nat \ {0} /\ Len(stack) \in DOMAIN stack /\ Top \in Frame
    BY DEF Coloured, ColouringType, Top
<1>2. Top.node \in DefinedIds(nodes) /\ color[Top.node] = "GRAY"
    BY <1>1 DEF Coloured, GrayOnStack, Top
<1>3. ParentsOf(nodes, Top.node) \in Seq(DefinedIds(nodes))
    BY <1>2, ParentsDefined DEF Coloured
<1>4. Top.at \in 1..(Len(ParentsOf(nodes, Top.node)) + 1)
    BY <1>1, <1>3 DEF Coloured, Linked, Top, Frame
<1> QED
    BY <1>1, <1>2, <1>3, <1>4 DEF Exhausted, Parent, ParentSet

\* The frames after an iterator has moved on: only the top one's `at` differs.
LEMMA AdvancedFrames ==
    ASSUME stack \in Seq(Frame), stack # <<>>
    PROVE  /\ Advanced \in Seq(Frame)
           /\ Len(Advanced) = Len(stack)
           /\ \A k \in 1..Len(stack) :
                /\ Advanced[k].node = stack[k].node
                /\ k < Len(stack) => Advanced[k].at = stack[k].at
           /\ Advanced[Len(stack)].at = Top.at + 1
<1> DEFINE n == Len(stack)
           f == [stack[n] EXCEPT !.at = @ + 1]
<1>1. n \in 1..Len(stack) /\ stack[n] \in Frame
    BY EmptySeq
<1>2. Advanced = [stack EXCEPT ![n] = f]
    BY DEF Advanced
<1>3. f \in Frame /\ f.node = stack[n].node /\ f.at = stack[n].at + 1
    BY <1>1 DEF Frame
<1> HIDE DEF f
<1>4. /\ Advanced \in Seq(Frame)
      /\ Len(Advanced) = n
      /\ \A k \in 1..n : Advanced[k] = IF k = n THEN f ELSE stack[k]
    BY <1>1, <1>2, <1>3, ExceptSeq
<1> QED
    BY <1>1, <1>3, <1>4 DEF Top

\* A frame's node is a parent of the node below it.
LEMMA FrameAbove ==
    ASSUME Coloured, NEW l \in DOMAIN stack, l < Len(stack)
    PROVE  stack[l + 1].node \in ParentSet(nodes, stack[l].node)
<1>1. /\ stack \in Seq(Frame) /\ nodes \in Seq(NodeRecord)
      /\ GrayOnStack /\ Linked
    BY DEF Coloured, ColouringType
<1>2. /\ stack[l].at > 1
      /\ stack[l].at <= Len(ParentsOf(nodes, stack[l].node)) + 1
      /\ ParentsOf(nodes, stack[l].node)[stack[l].at - 1] = stack[l + 1].node
    BY <1>1 DEF Linked
<1>3. stack[l].at \in Nat /\ stack[l].node \in DefinedIds(nodes)
    <2>1. stack[l] \in Frame
        BY <1>1
    <2> QED
        BY <2>1, <1>1 DEF Frame, GrayOnStack
<1>4. ParentsOf(nodes, stack[l].node) \in Seq(Ids)
    BY <1>3, <1>1, ByIdIsRecord
<1>5. stack[l].at - 1 \in DOMAIN ParentsOf(nodes, stack[l].node)
    BY <1>2, <1>3, <1>4
<1> QED
    BY <1>2, <1>5 DEF ParentSet

(***************************************************************************)
(* The frames from one with a given node up to the top, when the top node  *)
(* has that node as a parent: a set of nodes that feeds on itself.         *)
(***************************************************************************)
LEMMA GrayParentClosesCycle ==
    ASSUME Coloured, AtParent("GRAY")
    PROVE  ~Acyclic(nodes)
<1>0. /\ stack \in Seq(Frame)
      /\ nodes \in Seq(NodeRecord)
      /\ GrayOnStack /\ Linked
    BY DEF Coloured, ColouringType
<1>t. /\ Len(stack) \in DOMAIN stack
      /\ Parent \in ParentSet(nodes, Top.node)
      /\ Parent \in DefinedIds(nodes)
      /\ color[Parent] = "GRAY"
    BY TopFrame DEF AtParent
<1>1. PICK k \in DOMAIN stack : stack[k].node = Parent
    BY <1>0, <1>t DEF GrayOnStack
<1> DEFINE S == {stack[l].node : l \in k..Len(stack)}
<1>2. S \in SUBSET DefinedIds(nodes) /\ S # {}
    BY <1>0, <1>1 DEF GrayOnStack
<1>3. ASSUME NEW l \in k..Len(stack)
      PROVE  ParentSet(nodes, stack[l].node) \cap S # {}
    <2>1. CASE l = Len(stack)
        BY <2>1, <1>0, <1>1, <1>t DEF Top
    <2>2. CASE l < Len(stack)
        <3>1. l \in DOMAIN stack /\ l + 1 \in k..Len(stack)
            BY <2>2, <1>0, <1>1
        <3>2. stack[l + 1].node \in ParentSet(nodes, stack[l].node)
            BY <3>1, <2>2, FrameAbove
        <3> QED
            BY <3>1, <3>2
    <2> QED
        BY <2>1, <2>2, <1>0, <1>1
<1>4. \A x \in S : ParentSet(nodes, x) \cap S # {}
    BY <1>3
<1> HIDE DEF S
<1> QED
    BY <1>2, <1>4 DEF Acyclic, Wellfounded, Founders

----------------------------------------------------------------------------
(* Why the blame is right.                                                 *)

\* A non-empty set of positions has a first one.
LEMMA Least ==
    ASSUME NEW S \in SUBSET Nat, S # {}
    PROVE  \E n \in S : \A k \in S : n <= k
<1> DEFINE Below(n) == 0..n
           T == {Below(n) : n \in S}
<1>1. IsWellFoundedOn(StrictSubsetOrdering(Nat), FiniteSubsetsOf(Nat))
    BY FS_StrictSubsetOrderingWellFounded
<1>2. T \subseteq FiniteSubsetsOf(Nat)
    <2>1. \A n \in S : IsFiniteSet(Below(n))
        BY FS_Interval
    <2>2. \A n \in S : Below(n) \in SUBSET Nat
        OBVIOUS
    <2> HIDE DEF Below
    <2> QED
        BY <2>1, <2>2 DEF FiniteSubsetsOf
<1>3. \E x \in T : \A y \in T : <<y, x>> \notin StrictSubsetOrdering(Nat)
    <2>1. T # {}
        OBVIOUS
    <2> HIDE DEF T
    <2> QED
        BY <1>1, <1>2, <2>1, WFMin
<1>4. PICK n \in S : \A k \in S : <<Below(k), Below(n)>> \notin StrictSubsetOrdering(Nat)
    BY <1>3
<1>5. ASSUME NEW k \in S, k < n PROVE FALSE
    <2>1. Below(k) \subseteq Below(n) /\ n \in Below(n) /\ n \notin Below(k)
        BY <1>5
    <2>2. Below(k) \in SUBSET Nat /\ Below(n) \in SUBSET Nat
        OBVIOUS
    <2> HIDE DEF Below
    <2>3. <<Below(k), Below(n)>> \in StrictSubsetOrdering(Nat)
        BY <2>1, <2>2 DEF StrictSubsetOrdering
    <2> QED
        BY <2>3, <1>4
<1> QED
    BY <1>5

\* A set that keeps its parents has all frames above one that it has.
LEMMA ClosedUpwards ==
    ASSUME Coloured, NEW k \in DOMAIN stack, NEW S,
           ParentClosed(nodes, S), stack[k].node \in S
    PROVE  \A l \in k..Len(stack) : stack[l].node \in S
<1>1. stack \in Seq(Frame)
    BY DEF Coloured, ColouringType
<1>2. Len(stack) \in Nat /\ DOMAIN stack = 1..Len(stack)
    BY <1>1
<1> SUFFICES ASSUME NEW bad \in k..Len(stack), stack[bad].node \notin S
             PROVE  FALSE
    OBVIOUS
<1> DEFINE T == {l \in k..Len(stack) : stack[l].node \notin S}
<1>3. T \in SUBSET Nat /\ T # {}
    BY <1>2
<1>4. PICK l \in T : \A m \in T : l <= m
    BY <1>3, Least
<1>5. l # k /\ l - 1 \in k..Len(stack) /\ l - 1 \in DOMAIN stack /\ l - 1 < Len(stack)
    BY <1>2, <1>4
<1>6. stack[l - 1].node \in S
    BY <1>2, <1>4, <1>5
<1>7. stack[(l - 1) + 1].node \in ParentSet(nodes, stack[l - 1].node)
    BY <1>5, FrameAbove
<1>8. (l - 1) + 1 = l
    BY <1>2, <1>4
<1> QED
    BY <1>4, <1>6, <1>7, <1>8 DEF ParentClosed

\* A gray parent is an ancestor of one of its own parents.
LEMMA GrayParentOnCycle ==
    ASSUME Coloured, AtParent("GRAY")
    PROVE  \E q \in ParentSet(nodes, Parent) : Parent \in Ancestors(nodes, q)
<1>1. /\ stack \in Seq(Frame)
      /\ GrayOnStack
    BY DEF Coloured, ColouringType
<1>2. /\ Len(stack) \in DOMAIN stack /\ Len(stack) \in Nat
      /\ Parent \in ParentSet(nodes, Top.node)
      /\ Parent \in DefinedIds(nodes)
      /\ color[Parent] = "GRAY"
    BY TopFrame DEF AtParent
<1>3. PICK k \in DOMAIN stack : stack[k].node = Parent
    BY <1>1, <1>2 DEF GrayOnStack
<1>4. CASE k = Len(stack)
    BY <1>4, <1>2, <1>3 DEF Top, Ancestors
<1>5. CASE k < Len(stack)
    <2>1. stack[k + 1].node \in ParentSet(nodes, Parent)
        BY <1>3, <1>5, FrameAbove
    <2>2. k + 1 \in DOMAIN stack /\ Len(stack) \in (k + 1)..Len(stack)
        BY <1>1, <1>5
    <2>3. ASSUME NEW S \in SUBSET DefinedIds(nodes), stack[k + 1].node \in S, ParentClosed(nodes, S)
          PROVE  Parent \in S
        <3>1. Top.node \in S
            BY <2>2, <2>3, ClosedUpwards DEF Top
        <3> QED
            BY <3>1, <2>3, <1>2 DEF ParentClosed
    <2>4. Parent \in Ancestors(nodes, stack[k + 1].node)
        BY <2>3, <1>2 DEF Ancestors
    <2> QED
        BY <2>1, <2>4
<1> QED
    BY <1>1, <1>4, <1>5

----------------------------------------------------------------------------
(* Each move of the search keeps the colouring, whichever check makes it.  *)

LEMMA Uncoloured ==
    ASSUME nodes \in Seq(NodeRecord), Dangling(nodes) = {}, color = AllWhite, stack = <<>>
    PROVE  Coloured
<1>1. ColouringType
    BY DEF ColouringType, AllWhite, Colours, Frame
<1>2. Black = {}
    BY DEF Black, AllWhite
<1> QED
    BY <1>1, <1>2 DEF Coloured, GrayOnStack, Linked, Consumed, BlackFinished, ParentClosed,
                      Wellfounded, AllWhite

LEMMA ColouredStutters ==
    ASSUME Coloured, UNCHANGED <<nodes, color, stack>>
    PROVE  Coloured'
    BY DEF Coloured, ColouringType, GrayOnStack, Linked, Consumed, BlackFinished, Black

LEMMA EnterKeeps ==
    ASSUME Coloured, stack = <<>>, NEW i \in DefinedIds(nodes), color[i] = "WHITE",
           Enter(i, <<>>), UNCHANGED nodes
    PROVE  Coloured'
<1> DEFINE f == [node |-> i, at |-> 1]
<1>1. /\ nodes \in Seq(NodeRecord) /\ i \in Ids
      /\ color \in [DefinedIds(nodes) -> Colours]
    BY ByIdIsRecord DEF Coloured, ColouringType
<1>2. \A j \in DefinedIds(nodes) : color[j] # "GRAY"
    BY DEF Coloured, GrayOnStack
<1>3. stack' = <<f>> /\ color' = [color EXCEPT ![i] = "GRAY"] /\ nodes' = nodes
    BY DEF Enter
<1>4. Black' = Black
    BY <1>1, <1>3 DEF Black
<1>5. ColouringType'
    <2>1. color' \in [DefinedIds(nodes) -> Colours]
        BY <1>1, <1>3 DEF Colours
    <2>2. f \in Frame
        BY <1>1 DEF Frame
    <2>3. stack' \in Seq(Frame)
        BY <2>2, <1>3
    <2> QED
        BY <2>1, <2>3, <1>3 DEF ColouringType
<1>6. BlackFinished'
    BY <1>3, <1>4 DEF Coloured, BlackFinished, ParentClosed, Wellfounded
<1>7. (GrayOnStack /\ Linked /\ Consumed)'
    <2>1. ParentsOf(nodes, i) \in Seq(Ids)
        BY <1>1, ByIdIsRecord
    <2> QED
        BY <2>1, <1>1, <1>2, <1>3 DEF GrayOnStack, Linked, Consumed
<1> QED
    BY <1>3, <1>5, <1>6, <1>7 DEF Coloured

LEMMA PassKeeps ==
    ASSUME Coloured, AtParent("BLACK"), Pass, UNCHANGED nodes
    PROVE  Coloured'
<1> DEFINE n == Len(stack)
<1>1. /\ nodes \in Seq(NodeRecord) /\ stack \in Seq(Frame) /\ stack # <<>>
      /\ GrayOnStack /\ Linked /\ Consumed /\ BlackFinished
    BY DEF Coloured, ColouringType, AtParent
<1>2. /\ n \in Nat \ {0} /\ n \in DOMAIN stack
      /\ Top \in Frame /\ Top.at \in Nat \ {0}
      /\ Top.at \in DOMAIN ParentsOf(nodes, Top.node)
      /\ ParentsOf(nodes, Top.node) \in Seq(DefinedIds(nodes))
      /\ Parent \in Black
    BY TopFrame DEF AtParent, Black, Frame
<1>3. /\ stack' = Advanced
      /\ nodes' = nodes /\ color' = color
    BY DEF Pass
<1>4. /\ stack' \in Seq(Frame)
      /\ Len(stack') = n
      /\ \A k \in 1..n : /\ stack'[k].node = stack[k].node
                         /\ k < n => stack'[k].at = stack[k].at
      /\ stack'[n].at = Top.at + 1
    BY <1>1, <1>2, <1>3, AdvancedFrames
<1>5. DOMAIN stack' = 1..n /\ DOMAIN stack = 1..n
    BY <1>1, <1>4
<1>6. ColouringType'
    BY <1>4, <1>3 DEF Coloured, ColouringType
<1>7. GrayOnStack'
    <2>1. \A k \in 1..n : stack'[k].node = stack[k].node
        BY <1>4
    <2>2. \A k \in 1..n : /\ stack[k].node \in DefinedIds(nodes)
                           /\ color[stack[k].node] = "GRAY"
        BY ONLY <1>1, <1>5 DEF GrayOnStack
    <2>3. \A i \in DefinedIds(nodes) :
             color[i] = "GRAY" => \E k \in 1..n : stack[k].node = i
        BY ONLY <1>1, <1>5 DEF GrayOnStack
    <2>4. \A k, l \in 1..n : stack[k].node = stack[l].node => k = l
        BY ONLY <1>1, <1>5 DEF GrayOnStack
    <2> HIDE DEF n
    <2>5. /\ \A k \in DOMAIN stack' : /\ stack'[k].node \in DefinedIds(nodes)
                                     /\ color[stack'[k].node] = "GRAY"
          /\ \A i \in DefinedIds(nodes) :
                color[i] = "GRAY" => \E k \in DOMAIN stack' : stack'[k].node = i
          /\ \A k, l \in DOMAIN stack' : stack'[k].node = stack'[l].node => k = l
        BY ONLY <1>5, <2>1, <2>2, <2>3, <2>4
    <2> QED
        BY ONLY <1>3, <2>5 DEF GrayOnStack
<1>8. Linked'
    <2>1. ASSUME NEW k \in 1..n, k < n
          PROVE  /\ stack'[k].at <= Len(ParentsOf(nodes, stack'[k].node)) + 1
                 /\ stack'[k].at > 1
                 /\ ParentsOf(nodes, stack'[k].node)[stack'[k].at - 1] = stack'[k + 1].node
        <3>1. k \in DOMAIN stack /\ k + 1 \in 1..n
            BY <2>1, <1>2, <1>5
        <3>2. /\ stack[k].at <= Len(ParentsOf(nodes, stack[k].node)) + 1
              /\ stack[k].at > 1
              /\ ParentsOf(nodes, stack[k].node)[stack[k].at - 1] = stack[k + 1].node
            BY <3>1, <2>1, <1>1 DEF Linked
        <3>3. /\ stack'[k].node = stack[k].node
              /\ stack'[k].at = stack[k].at
              /\ stack'[k + 1].node = stack[k + 1].node
            BY <3>1, <2>1, <1>4
        <3> QED
            BY <3>2, <3>3
    <2>2. stack'[n].at <= Len(ParentsOf(nodes, stack'[n].node)) + 1
        BY <1>2, <1>4 DEF Top
    <2>3. \A k \in 1..n : k < n \/ k = n
        BY <1>2
    <2>4. ASSUME NEW k \in 1..n
          PROVE  stack'[k].at <= Len(ParentsOf(nodes, stack'[k].node)) + 1
        BY <2>1, <2>2, <2>3
    <2> QED
        BY <2>1, <2>4, <1>3, <1>4, <1>5 DEF Linked
<1>9. Consumed'
    <2>1. Black' = Black
        BY <1>3 DEF Black
    <2>2. ASSUME NEW k \in 1..n, k < n,
                 NEW j \in 1..(stack[k].at - 1)
          PROVE  LET p == ParentsOf(nodes, stack[k].node)[j] IN
                   p \in Black \/ p = stack'[k + 1].node
        <3>1. k \in DOMAIN stack /\ k < Len(stack) /\ k + 1 \in 1..n
            BY <2>2, <1>2, <1>5
        <3>2. LET p == ParentsOf(nodes, stack[k].node)[j] IN p \in Black \/ p = stack[k + 1].node
            BY <3>1, <2>2, <1>1, SMT DEF Consumed
        <3> QED
            BY <3>1, <3>2, <1>4
    <2>3. ASSUME NEW j \in 1..Top.at
          PROVE  ParentsOf(nodes, Top.node)[j] \in Black
        <3>1. CASE j = Top.at
            BY <3>1, <1>2 DEF Parent
        <3>2. CASE j < Top.at
            BY <3>2, <1>1, <1>2 DEF Consumed, Top
        <3> QED
            BY <3>1, <3>2, <1>2
    <2> QED
        <3>1. ASSUME NEW k \in 1..n, NEW j \in 1..(stack'[k].at - 1)
              PROVE  LET p == ParentsOf(nodes, stack'[k].node)[j] IN
                       p \in Black \/ (k < n /\ p = stack'[k + 1].node)
            <4>1. CASE k < n
                BY <4>1, <2>2, <1>4
            <4>2. CASE k = n
                BY <4>2, <2>3, <1>2, <1>4 DEF Top
            <4> QED
                BY <4>1, <4>2, <1>2
        <3> QED
            BY <3>1, <2>1, <1>3, <1>4, <1>5 DEF Consumed
<1>10. BlackFinished'
    BY <1>1, <1>3 DEF BlackFinished, Black, ParentClosed, Wellfounded
<1> QED
    BY <1>3, <1>6, <1>7, <1>8, <1>9, <1>10 DEF Coloured

LEMMA DescendKeeps ==
    ASSUME Coloured, AtParent("WHITE"), Enter(Parent, Advanced), UNCHANGED nodes
    PROVE  Coloured'
<1> DEFINE n == Len(stack)
           f == [node |-> Parent, at |-> 1]
<1>1. /\ nodes \in Seq(NodeRecord) /\ stack \in Seq(Frame) /\ stack # <<>>
      /\ color \in [DefinedIds(nodes) -> Colours]
      /\ GrayOnStack /\ Linked /\ Consumed /\ BlackFinished
    BY DEF Coloured, ColouringType, AtParent
<1>2. /\ n \in Nat \ {0} /\ n \in DOMAIN stack
      /\ Top.at \in Nat \ {0} /\ Top.node \in DefinedIds(nodes)
      /\ Top.at \in DOMAIN ParentsOf(nodes, Top.node)
      /\ ParentsOf(nodes, Top.node) \in Seq(DefinedIds(nodes))
      /\ Parent \in DefinedIds(nodes) /\ Parent \in Ids
      /\ ParentsOf(nodes, Parent) \in Seq(Ids)
    BY <1>1, TopFrame, ByIdIsRecord DEF AtParent, Frame
<1>3. /\ stack' = Append(Advanced, f)
      /\ color' = [color EXCEPT ![Parent] = "GRAY"]
      /\ color[Parent] = "WHITE"
      /\ nodes' = nodes
    BY DEF Enter, AtParent
<1>4. f \in Frame /\ f.node = Parent /\ f.at = 1
    BY <1>2 DEF Frame
<1>5. /\ stack' \in Seq(Frame)
      /\ Len(stack') = n + 1
      /\ \A k \in 1..n : /\ stack'[k].node = stack[k].node
                         /\ k < n => stack'[k].at = stack[k].at
      /\ stack'[n].at = Top.at + 1
      /\ stack'[n + 1] = f
    <2>1. Advanced \in Seq(Frame) /\ Len(Advanced) = n
        BY <1>1, AdvancedFrames
    <2>2. /\ Append(Advanced, f) \in Seq(Frame)
          /\ Len(Append(Advanced, f)) = n + 1
          /\ \A k \in 1..n : Append(Advanced, f)[k] = Advanced[k]
          /\ Append(Advanced, f)[n + 1] = f
        <3> HIDE DEF f
        <3> QED
            BY <2>1, <1>4, AppendProperties
    <2> HIDE DEF f
    <2> QED
        BY <2>2, <1>1, <1>2, <1>3, AdvancedFrames
<1>6. DOMAIN stack' = 1..(n + 1) /\ DOMAIN stack = 1..n
    BY <1>1, <1>5
<1>7. stack'[n + 1].node = Parent /\ stack'[n + 1].at = 1
    BY <1>4, <1>5
<1>8. Black' = Black
    BY <1>1, <1>2, <1>3 DEF Black
<1> HIDE DEF f
<1>9. ColouringType'
    <2>1. color' \in [DefinedIds(nodes) -> Colours]
        BY <1>1, <1>3 DEF Colours
    <2> QED
        BY <2>1, <1>3, <1>5 DEF ColouringType
<1>10. GrayOnStack'
    <2>0. /\ \A k \in 1..n : stack[k].node \in DefinedIds(nodes) /\ color[stack[k].node] = "GRAY"
          /\ \A i \in DefinedIds(nodes) : color[i] = "GRAY" => \E k \in 1..n : stack[k].node = i
          /\ \A k, l \in 1..n : stack[k].node = stack[l].node => k = l
        BY <1>1, <1>6 DEF GrayOnStack
    <2>1. \A k \in 1..n : stack[k].node # Parent /\ stack'[k].node = stack[k].node
        BY <2>0, <1>3, <1>5
    <2>c. \A k \in 1..(n + 1) : k \in 1..n \/ k = n + 1
        BY <1>2
    <2>2. ASSUME NEW k \in 1..(n + 1)
          PROVE  stack'[k].node \in DefinedIds(nodes) /\ color'[stack'[k].node] = "GRAY"
        <3>1. CASE k \in 1..n
            BY <3>1, <2>0, <2>1, <1>1, <1>3
        <3>2. CASE k = n + 1
            BY <3>2, <1>1, <1>2, <1>3, <1>7
        <3> QED
            BY <3>1, <3>2, <2>c
    <2>3. ASSUME NEW i \in DefinedIds(nodes), color'[i] = "GRAY"
          PROVE  \E k \in 1..(n + 1) : stack'[k].node = i
        <3>1. CASE i = Parent
            BY <3>1, <1>2, <1>7
        <3>2. CASE i # Parent
            <4>1. color[i] = "GRAY"
                BY <3>2, <2>3, <1>1, <1>3
            <4>2. PICK k \in 1..n : stack[k].node = i
                BY <4>1, <2>0
            <4> QED
                BY <4>2, <2>1, <1>2
        <3> QED
            BY <3>1, <3>2
    <2>4. ASSUME NEW k \in 1..(n + 1), NEW l \in 1..(n + 1), stack'[k].node = stack'[l].node
          PROVE  k = l
        <3>1. CASE k \in 1..n /\ l \in 1..n
            BY <3>1, <2>4, <2>0, <2>1
        <3>2. CASE k = n + 1 \/ l = n + 1
            BY <3>2, <2>4, <2>1, <2>c, <1>7, SMTT(30)
        <3> QED
            BY <3>1, <3>2, <2>c
    <2> QED
        BY <2>2, <2>3, <2>4, <1>3, <1>6 DEF GrayOnStack
<1>11. Linked'
    <2>1. ASSUME NEW k \in 1..n
          PROVE  /\ stack'[k].at <= Len(ParentsOf(nodes, stack'[k].node)) + 1
                 /\ stack'[k].at > 1
                 /\ ParentsOf(nodes, stack'[k].node)[stack'[k].at - 1] = stack'[k + 1].node
        <3>1. CASE k = n
            <4>1. stack'[k].node = Top.node /\ stack'[k].at = Top.at + 1
                BY <3>1, <1>2, <1>5 DEF Top
            <4> QED
                BY <4>1, <3>1, <1>2, <1>7 DEF Parent
        <3>2. CASE k < n
            <4>1. k + 1 \in 1..n
                BY <3>2, <1>2
            <4>2. /\ stack[k].at <= Len(ParentsOf(nodes, stack[k].node)) + 1
                  /\ stack[k].at > 1
                  /\ ParentsOf(nodes, stack[k].node)[stack[k].at - 1] = stack[k + 1].node
                BY <3>2, <1>1, <1>6 DEF Linked
            <4> QED
                BY <4>1, <4>2, <3>2, <1>5
        <3> QED
            BY <3>1, <3>2, <1>2
    <2>2. stack'[n + 1].at <= Len(ParentsOf(nodes, stack'[n + 1].node)) + 1
        BY <1>2, <1>7
    <2>3. \A k \in 1..(n + 1) : (k < n + 1 => k \in 1..n) /\ (k \in 1..n \/ k = n + 1)
        BY <1>2
    <2> QED
        BY <2>1, <2>2, <2>3, <1>3, <1>5, <1>6 DEF Linked
<1>12. Consumed'
    <2>1. ASSUME NEW k \in 1..(n + 1), NEW j \in 1..(stack'[k].at - 1)
          PROVE  LET p == ParentsOf(nodes, stack'[k].node)[j] IN
                   p \in Black \/ (k < n + 1 /\ p = stack'[k + 1].node)
        <3>1. CASE k < n
            <4>1. /\ k + 1 \in 1..n /\ j \in 1..(stack[k].at - 1)
                  /\ k \in DOMAIN stack /\ k < Len(stack)
                BY <3>1, <1>2, <1>5, <1>6
            <4>2. LET p == ParentsOf(nodes, stack[k].node)[j] IN p \in Black \/ p = stack[k + 1].node
                BY <4>1, <1>1 DEF Consumed
            <4> QED
                BY <4>1, <4>2, <3>1, <1>5
        <3>2. CASE k = n
            <4>1. stack'[k].node = Top.node /\ j \in 1..Top.at
                BY <3>2, <1>2, <1>5 DEF Top
            <4>2. CASE j = Top.at
                BY <4>1, <4>2, <3>2, <1>2, <1>7 DEF Parent
            <4>3. CASE j < Top.at
                <5>1. n \in DOMAIN stack /\ j \in 1..(stack[n].at - 1)
                    BY <4>1, <4>3, <1>2 DEF Top
                <5>2. ParentsOf(nodes, stack[n].node)[j] \in Black
                    BY <5>1, <1>1, <1>2 DEF Consumed
                <5> QED
                    BY <5>2, <4>1 DEF Top
            <4> QED
                BY <4>1, <4>2, <4>3, <1>2
        <3>3. CASE k = n + 1
            BY <3>3, <1>7
        <3> QED
            BY <3>1, <3>2, <3>3, <1>2
    <2>2. DOMAIN stack' = 1..(n + 1) /\ Len(stack') = n + 1 /\ nodes' = nodes
        BY <1>3, <1>5, <1>6
    <2>3. ASSUME NEW k \in DOMAIN stack', NEW j \in 1..(stack'[k].at - 1)
          PROVE  LET p == ParentsOf(nodes', stack'[k].node)[j] IN
                   p \in Black' \/ (k < Len(stack') /\ p = stack'[k + 1].node)
        BY <2>1, <2>2, <1>8
    <2> QED
        BY <2>3 DEF Consumed
<1>13. BlackFinished'
    BY <1>1, <1>3, <1>8 DEF BlackFinished, ParentClosed, Wellfounded
<1> QED
    BY <1>3, <1>9, <1>10, <1>11, <1>12, <1>13 DEF Coloured

(***************************************************************************)
(* A finished node joins sets of finished nodes without closing a cycle:   *)
(* its parents were finished before it.                                    *)
(***************************************************************************)
LEMMA WellfoundedExtends ==
    ASSUME NEW ns, NEW B, NEW x,
           Wellfounded(ns, B), ParentClosed(ns, B), x \notin B,
           ParentSet(ns, x) \subseteq B
    PROVE  Wellfounded(ns, B \cup {x}) /\ ParentClosed(ns, B \cup {x})
<1>1. ASSUME NEW S \in SUBSET (B \cup {x}), S # {}
      PROVE  Founders(ns, S) # {}
    <2>1. CASE S \cap B = {}
        <3>1. S = {x}
            BY <1>1, <2>1
        <3> QED
            BY <3>1 DEF Founders
    <2>2. CASE S \cap B # {}
        <3>1. S \cap B \in SUBSET B
            OBVIOUS
        <3>2. PICK y \in S \cap B : ParentSet(ns, y) \cap (S \cap B) = {}
            BY <3>1, <2>2 DEF Wellfounded, Founders
        <3>3. ParentSet(ns, y) \subseteq B
            BY DEF ParentClosed
        <3> QED
            BY <3>2, <3>3 DEF Founders
    <2> QED
        BY <2>1, <2>2
<1>2. ParentClosed(ns, B \cup {x})
    BY DEF ParentClosed
<1> QED
    BY <1>1, <1>2 DEF Wellfounded

LEMMA LeaveKeeps ==
    ASSUME Coloured, AtEnd, Leave, UNCHANGED nodes
    PROVE  Coloured'
<1> DEFINE n == Len(stack)
           x == Top.node
<1>1. /\ nodes \in Seq(NodeRecord) /\ stack \in Seq(Frame) /\ stack # <<>>
      /\ color \in [DefinedIds(nodes) -> Colours]
      /\ GrayOnStack /\ Linked /\ Consumed /\ BlackFinished
    BY DEF Coloured, ColouringType, AtEnd
<1>2. /\ n \in Nat \ {0} /\ n \in DOMAIN stack
      /\ x \in DefinedIds(nodes) /\ color[x] = "GRAY"
      /\ Top.at = Len(ParentsOf(nodes, x)) + 1
      /\ ParentsOf(nodes, x) \in Seq(DefinedIds(nodes))
    BY TopFrame DEF AtEnd, Exhausted
<1>3. /\ stack' = SubSeq(stack, 1, n - 1)
      /\ color' = [color EXCEPT ![x] = "BLACK"]
      /\ nodes' = nodes
    BY DEF Leave
<1>4. /\ stack' \in Seq(Frame)
      /\ Len(stack') = n - 1
      /\ \A k \in 1..(n - 1) : stack'[k] = stack[k]
    <2>1. \A k \in 1..(n - 1) : stack[k] \in Frame
        BY <1>1, <1>2
    <2>2. /\ SubSeq(stack, 1, n - 1) \in Seq(Frame)
          /\ Len(SubSeq(stack, 1, n - 1)) = IF 1 <= n - 1 THEN (n - 1) - 1 + 1 ELSE 0
          /\ \A k \in 1..((n - 1) - 1 + 1) : SubSeq(stack, 1, n - 1)[k] = stack[1 + k - 1]
        BY <2>1, <1>2, SubSeqProperties
    <2>3. (n - 1) - 1 + 1 = n - 1 /\ (1 <= n - 1 \/ n - 1 = 0)
        <3>1. n \in Nat \ {0}
            BY <1>2
        <3> HIDE DEF n
        <3> QED
            BY <3>1
    <2>4. \A k \in 1..(n - 1) : 1 + k - 1 = k
        OBVIOUS
    <2> QED
        BY <2>2, <2>3, <2>4, <1>3
<1>5. DOMAIN stack' = 1..(n - 1) /\ DOMAIN stack = 1..n
    BY <1>1, <1>4
<1>6. Black' = Black \cup {x} /\ x \notin Black
    BY <1>1, <1>2, <1>3 DEF Black
<1>7. ColouringType'
    <2>1. color' \in [DefinedIds(nodes) -> Colours]
        BY <1>1, <1>3 DEF Colours
    <2> QED
        BY <2>1, <1>3, <1>4 DEF ColouringType
<1>8. /\ \A k \in 1..n : stack[k].node \in DefinedIds(nodes) /\ color[stack[k].node] = "GRAY"
      /\ \A i \in DefinedIds(nodes) : color[i] = "GRAY" => \E k \in 1..n : stack[k].node = i
      /\ \A k, l \in 1..n : stack[k].node = stack[l].node => k = l
    BY <1>1, <1>5 DEF GrayOnStack
<1>9. \A k \in 1..(n - 1) : k \in 1..n /\ k < n /\ stack[k].node # x
    BY <1>2, <1>8 DEF Top
<1>10. GrayOnStack'
    <2>1. \A k \in 1..(n - 1) :
            stack'[k].node \in DefinedIds(nodes) /\ color'[stack'[k].node] = "GRAY"
        BY <1>1, <1>3, <1>4, <1>8, <1>9
    <2>2. ASSUME NEW i \in DefinedIds(nodes), color'[i] = "GRAY"
          PROVE  \E k \in 1..(n - 1) : stack'[k].node = i
        <3>1. i # x /\ color[i] = "GRAY"
            BY <2>2, <1>1, <1>2, <1>3
        <3>2. PICK k \in 1..n : stack[k].node = i
            BY <3>1, <1>8
        <3>3. k \in 1..(n - 1)
            BY <3>1, <3>2, <1>2 DEF Top
        <3> QED
            BY <3>2, <3>3, <1>4
    <2>3. \A k, l \in 1..(n - 1) : stack'[k].node = stack'[l].node => k = l
        BY <1>4, <1>8, <1>9
    <2> QED
        BY <2>1, <2>2, <2>3, <1>3, <1>5 DEF GrayOnStack
<1>11. Linked'
    <2>1. ASSUME NEW k \in 1..(n - 1)
          PROVE  /\ stack'[k].at <= Len(ParentsOf(nodes, stack'[k].node)) + 1
                 /\ k < n - 1 =>
                      /\ stack'[k].at > 1
                      /\ ParentsOf(nodes, stack'[k].node)[stack'[k].at - 1] = stack'[k + 1].node
        <3>1. k < n - 1 => k + 1 \in 1..(n - 1)
            BY <1>2
        <3> QED
            BY <3>1, <1>1, <1>4, <1>5, <1>9 DEF Linked
    <2> QED
        BY <2>1, <1>3, <1>4, <1>5 DEF Linked
<1>12. Consumed'
    <2>1. ASSUME NEW k \in 1..(n - 1), NEW j \in 1..(stack'[k].at - 1)
          PROVE  LET p == ParentsOf(nodes, stack'[k].node)[j] IN
                   p \in Black \cup {x} \/ (k < n - 1 /\ p = stack'[k + 1].node)
        <3>1. LET p == ParentsOf(nodes, stack[k].node)[j] IN
                p \in Black \/ p = stack[k + 1].node
            BY <1>1, <1>4, <1>5, <1>9 DEF Consumed
        <3>2. CASE k < n - 1
            <4>1. k + 1 \in 1..(n - 1)
                BY <3>2, <1>2
            <4> QED
                BY <4>1, <3>1, <3>2, <1>4
        <3>3. CASE k = n - 1
            BY <3>1, <3>3, <1>2, <1>4 DEF Top
        <3> QED
            BY <3>2, <3>3, <1>2
    <2> QED
        BY <2>1, <1>3, <1>4, <1>5, <1>6, ZenonT(40) DEF Consumed
<1>13. BlackFinished'
    <2>1. ASSUME NEW j \in DOMAIN ParentsOf(nodes, x)
          PROVE  ParentsOf(nodes, x)[j] \in Black
        <3>1. j \in 1..(stack[n].at - 1) /\ n \in DOMAIN stack
            BY <1>2 DEF Top
        <3> QED
            BY <3>1, <1>1, <1>2 DEF Consumed, Top
    <2>2. ParentSet(nodes, x) \subseteq Black
        BY <2>1 DEF ParentSet
    <2>3. Wellfounded(nodes, Black \cup {x}) /\ ParentClosed(nodes, Black \cup {x})
        BY <2>2, <1>1, <1>6, WellfoundedExtends DEF BlackFinished
    <2> QED
        BY <2>3, <1>3, <1>6 DEF BlackFinished, Wellfounded, ParentClosed
<1> QED
    BY <1>3, <1>7, <1>10, <1>11, <1>12, <1>13 DEF Coloured

\* No move makes a node white again.
LEMMA LookedAtKept ==
    ASSUME Coloured, UNCHANGED nodes, NEW k \in 0..Len(nodes), LookedAt(k),
           \/ UNCHANGED color
           \/ \E i \in DefinedIds(nodes), c \in {"GRAY", "BLACK"} : color' = [color EXCEPT ![i] = c]
    PROVE  \A l \in 1..k : color'[nodes[l].id] # "WHITE"
<1>1. nodes \in Seq(NodeRecord) /\ color \in [DefinedIds(nodes) -> Colours]
    BY DEF Coloured, ColouringType
<1>2. \A i \in DefinedIds(nodes) : color[i] # "WHITE" => color'[i] # "WHITE"
    BY <1>1
<1>3. \A l \in 1..k : nodes[l].id \in DefinedIds(nodes)
    BY <1>1, RecordFields
<1> QED
    BY <1>2, <1>3 DEF LookedAt

\* The steps of either check that LookedAtKept speaks of.
LEMMA MovesColour ==
    ASSUME Coloured
    PROVE  /\ AtParent("WHITE") /\ Enter(Parent, Advanced) =>
                \E i \in DefinedIds(nodes) : color' = [color EXCEPT ![i] = "GRAY"]
           /\ AtEnd /\ Leave =>
                \E i \in DefinedIds(nodes) : color' = [color EXCEPT ![i] = "BLACK"]
    BY TopFrame DEF AtParent, AtEnd, Enter, Leave

\* The outer loop has looked at one node more, and entered it if it was white.
LEMMA EnteredLookedAt ==
    ASSUME Coloured, UNCHANGED nodes, NEW k \in 1..Len(nodes), LookedAt(k - 1),
           IF color[nodes[k].id] = "WHITE" THEN color' = [color EXCEPT ![nodes[k].id] = "GRAY"]
                                           ELSE UNCHANGED color
    PROVE  \A l \in 1..k : color'[nodes[l].id] # "WHITE"
<1>1. nodes \in Seq(NodeRecord) /\ color \in [DefinedIds(nodes) -> Colours]
    BY DEF Coloured, ColouringType
<1>2. k - 1 \in 0..Len(nodes) /\ nodes[k].id \in DefinedIds(nodes)
    BY <1>1, RecordFields
<1>3. \A l \in 1..(k - 1) : color'[nodes[l].id] # "WHITE"
    BY <1>2, LookedAtKept
<1>4. color'[nodes[k].id] # "WHITE"
    BY <1>1, <1>2
<1>5. \A l \in 1..k : l \in 1..(k - 1) \/ l = k
    OBVIOUS
<1> QED
    BY <1>3, <1>4, <1>5

\* Once every node has been looked at and the search is over, all are black.
LEMMA SearchedAcyclic ==
    ASSUME Coloured, stack = <<>>, LookedAt(Len(nodes))
    PROVE  Acyclic(nodes)
<1>1. \A i \in DefinedIds(nodes) : color[i] # "GRAY"
    BY DEF Coloured, GrayOnStack
<1>2. nodes \in Seq(NodeRecord) /\ \A i \in DefinedIds(nodes) : color[i] # "WHITE"
    BY DEF Coloured, LookedAt, DefinedIds
<1>3. Black = DefinedIds(nodes)
    BY <1>1, <1>2 DEF Coloured, ColouringType, Colours, Black
<1> QED
    BY <1>3 DEF Coloured, BlackFinished, Acyclic

----------------------------------------------------------------------------
(* The verifier's check.                                                   *)

\* It holds before the first pass.
LEMMA InitEstablishes == Init => IndInv
<1> SUFFICES ASSUME Init PROVE IndInv
    OBVIOUS
<1>1. nodes \in Seq(NodeRecord)
    BY ListsAssumption DEF Init
<1>2. TypeOK
    BY <1>1 DEF Init, TypeOK, ColouringType, AllWhite, Colours, Frame
<1> QED
    BY <1>2 DEF Init, IndInv, Phases, Colouring, VerdictExact

LEMMA ChecksKeep ==
    IndInv /\ (CheckDuplicates \/ CheckDangling) => IndInv'
<1> SUFFICES ASSUME IndInv, CheckDuplicates \/ CheckDangling PROVE IndInv'
    OBVIOUS
<1>1. /\ nodes \in Seq(NodeRecord) /\ stack = <<>> /\ start = 1 /\ color = AllWhite
      /\ UNCHANGED <<nodes, start, color, stack>>
    BY DEF IndInv, TypeOK, Phases, CheckDuplicates, CheckDangling
<1>2. Duplicates(nodes) \subseteq Ids /\ Dangling(nodes) \subseteq Ids
    <2>1. \A k \in DOMAIN nodes : nodes[k].id \in Ids /\ nodes[k].parents \in Seq(Ids)
        BY <1>1, RecordFields
    <2> QED
        BY <2>1 DEF Duplicates, Dangling
<1>3. TypeOK'
    <2>1. reasons' \in SUBSET Reason
        BY <1>2 DEF Reason, CheckDuplicates, CheckDangling
    <2> QED
        BY <2>1, <1>1 DEF IndInv, TypeOK, ColouringType, CheckDuplicates, CheckDangling
<1>4. Phases'
    BY <1>1 DEF IndInv, Phases, CheckDuplicates, CheckDangling, AllWhite
<1>5. Colouring'
    <2> SUFFICES ASSUME pc' = "colour" PROVE (Coloured /\ LookedAt(start - 1))'
        BY DEF Colouring
    <2>1. Dangling(nodes) = {}
        BY <1>1 DEF CheckDuplicates, CheckDangling
    <2>2. Coloured
        BY <2>1, <1>1, Uncoloured
    <2>3. Coloured'
        BY <2>2, <1>1, ColouredStutters
    <2>4. LookedAt(start - 1)'
        BY <1>1 DEF LookedAt
    <2> QED
        BY <2>3, <2>4
<1>6. VerdictExact'
    BY DEF IndInv, Phases, VerdictExact, CheckDuplicates, CheckDangling, WellFormed, accepted
<1> QED
    BY <1>3, <1>4, <1>5, <1>6 DEF IndInv

\* The steps of the search: what is left to show is that `start` keeps pace.
LEMMA MovesKeep ==
    ASSUME IndInv, pc = "colour", UNCHANGED <<nodes, pc, start, reasons>>,
           Coloured', LookedAt(start - 1)'
    PROVE  IndInv'
<1>1. TypeOK'
    BY DEF IndInv, TypeOK, Coloured
<1> QED
    BY <1>1 DEF IndInv, Phases, Colouring, VerdictExact

LEMMA SearchKeeps == IndInv /\ (Descend \/ PassOver \/ Retire) => IndInv'
<1> SUFFICES ASSUME IndInv, Descend \/ PassOver \/ Retire PROVE IndInv'
    OBVIOUS
<1>1. /\ pc = "colour" /\ UNCHANGED <<nodes, pc, start, reasons>>
      /\ Coloured /\ LookedAt(start - 1) /\ start - 1 \in 0..Len(nodes)
    BY DEF IndInv, TypeOK, Colouring, Descend, PassOver, Retire
<1>2. Coloured'
    BY <1>1, DescendKeeps, PassKeeps, LeaveKeeps DEF Descend, PassOver, Retire
<1>3. \/ UNCHANGED color
      \/ \E i \in DefinedIds(nodes), c \in {"GRAY", "BLACK"} : color' = [color EXCEPT ![i] = c]
    BY <1>1, MovesColour DEF Descend, PassOver, Retire, Pass
<1>4. \A l \in 1..(start - 1) : color'[nodes[l].id] # "WHITE"
    BY <1>1, <1>3, LookedAtKept
<1>5. LookedAt(start - 1)'
    BY <1>1, <1>4 DEF LookedAt
<1> QED
    BY <1>1, <1>2, <1>5, MovesKeep

LEMMA PickStartKeeps == IndInv /\ PickStart => IndInv'
<1> SUFFICES ASSUME IndInv, PickStart PROVE IndInv'
    OBVIOUS
<1> DEFINE s == nodes[start].id
<1>1. /\ nodes \in Seq(NodeRecord) /\ start \in 1..Len(nodes)
      /\ s \in DefinedIds(nodes)
      /\ color \in [DefinedIds(nodes) -> Colours]
      /\ reasons = {} /\ stack = <<>> /\ Coloured /\ LookedAt(start - 1)
      /\ UNCHANGED <<nodes, pc, reasons>> /\ start' = start + 1 /\ pc = "colour"
      /\ IF color[s] = "WHITE" THEN Enter(s, <<>>) ELSE UNCHANGED <<color, stack>>
    BY RecordFields DEF IndInv, TypeOK, ColouringType, Phases, Colouring, PickStart
<1>2. Coloured'
    <2>1. CASE color[s] = "WHITE"
        BY <2>1, <1>1, EnterKeeps
    <2>2. CASE color[s] # "WHITE"
        BY <2>2, <1>1, ColouredStutters
    <2> QED
        BY <2>1, <2>2
<1>3. (LookedAt(start - 1))'
    <2>1. IF color[s] = "WHITE" THEN color' = [color EXCEPT ![s] = "GRAY"] ELSE UNCHANGED color
        BY <1>1 DEF Enter
    <2>2. \A l \in 1..start : color'[nodes[l].id] # "WHITE"
        BY <2>1, <1>1, EnteredLookedAt
    <2>3. start' - 1 = start /\ nodes' = nodes
        BY <1>1
    <2> QED
        BY <2>2, <2>3 DEF LookedAt
<1>4. TypeOK'
    BY <1>1, <1>2 DEF IndInv, TypeOK, Coloured
<1> QED
    BY <1>1, <1>2, <1>3, <1>4 DEF IndInv, Phases, Colouring, VerdictExact

LEMMA FinishKeeps == IndInv /\ Finish => IndInv'
<1> SUFFICES ASSUME IndInv, Finish PROVE IndInv'
    OBVIOUS
<1>1. /\ stack = <<>> /\ reasons = {} /\ Coloured /\ LookedAt(Len(nodes))
      /\ Duplicates(nodes) = {} /\ Dangling(nodes) = {}
    <2>1. start = Len(nodes) + 1
        BY DEF IndInv, TypeOK, Finish
    <2>2. start - 1 = Len(nodes)
        BY <2>1 DEF IndInv, TypeOK
    <2> QED
        BY <2>2 DEF IndInv, Phases, Colouring, Finish
<1>2. Acyclic(nodes)
    BY <1>1, SearchedAcyclic
<1>3. VerdictExact'
    BY <1>1, <1>2 DEF VerdictExact, accepted, WellFormed, Finish
<1>4. TypeOK'
    BY DEF IndInv, TypeOK, ColouringType, Finish
<1> QED
    BY <1>3, <1>4 DEF IndInv, Phases, Colouring, Finish

LEMMA RejectCycleKeeps == IndInv /\ RejectCycle => IndInv'
<1> SUFFICES ASSUME IndInv, RejectCycle PROVE IndInv'
    OBVIOUS
<1>1. Coloured
    BY DEF IndInv, Colouring, RejectCycle
<1>2. ~Acyclic(nodes)
    BY <1>1, GrayParentClosesCycle DEF RejectCycle
<1>3. Parent \in Ids
    <2>1. Parent \in DefinedIds(nodes)
        BY <1>1, TopFrame DEF RejectCycle, AtParent
    <2> QED
        BY <2>1, ByIdIsRecord DEF IndInv, TypeOK
<1>4. TypeOK'
    <2>1. <<"cycle", Parent>> \in Reason
        BY <1>3 DEF Reason
    <2> QED
        BY <2>1 DEF IndInv, TypeOK, ColouringType, RejectCycle
<1>5. VerdictExact'
    BY <1>2 DEF VerdictExact, accepted, WellFormed, RejectCycle
<1> QED
    BY <1>4, <1>5 DEF IndInv, Phases, Colouring, RejectCycle

LEMMA NextKeeps == IndInv /\ [Next]_vars => IndInv'
<1> SUFFICES ASSUME IndInv, [Next]_vars PROVE IndInv'
    OBVIOUS
<1>1. CASE UNCHANGED vars
    <2>1. Coloured => Coloured'
        BY <1>1, ColouredStutters DEF vars
    <2> QED
        BY <2>1, <1>1 DEF vars, IndInv, TypeOK, ColouringType, Phases, Colouring, VerdictExact,
                          accepted, LookedAt, AllWhite
<1>2. CASE Step
    BY <1>2, ChecksKeep, PickStartKeeps, FinishKeeps, RejectCycleKeeps, SearchKeeps DEF Step
<1> QED
    BY <1>1, <1>2 DEF Next, Terminated

\* Both modules read the same predicate off the list.
LEMMA SameWellFormed == Decision!WellFormed(nodes) <=> WellFormed(nodes)
BY DEF Decision!WellFormed, Decision!Duplicates, Decision!Dangling, Decision!Acyclic,
       Decision!Wellfounded, Decision!Founders, Decision!ParentSet, Decision!ParentsOf, Decision!ById,
       Decision!DefinedIds, WellFormed, Duplicates, Dangling, Acyclic, Wellfounded,
       Founders, ParentSet, ParentsOf, ById, DefinedIds

\* The inductive invariant: what the colouring knows at every step.
THEOREM Inductive == Spec => []IndInv
<1>1. Init => IndInv
    BY InitEstablishes
<1>2. IndInv /\ [Next]_vars => IndInv'
    BY NextKeeps
<1> QED
    BY <1>1, <1>2, PTL DEF Spec

\* The state keeps its type: colours on defined ids, frames on the stack.
THEOREM TypeCorrect == Spec => []TypeOK
<1>1. IndInv => TypeOK
    BY DEF IndInv
<1> QED
    BY <1>1, Inductive, PTL

(***************************************************************************)
(* _verify_ancestry_graph accepts a list exactly when it has no duplicate  *)
(* id, no dangling parent and no cycle, for lists of any length.           *)
(***************************************************************************)
THEOREM VerdictCorrect == Spec => []VerdictExact
<1>1. IndInv => VerdictExact
    BY DEF IndInv
<1> QED
    BY <1>1, Inductive, PTL

(***************************************************************************)
(* "cycle involving p" is only ever said of a p that is its own ancestor,  *)
(* by way of one of its parents, however deep the search was.              *)
(***************************************************************************)
THEOREM BlameJustified == Spec => []BlameOnCycle
<1>1. Init => BlameOnCycle
    BY DEF Init, BlameOnCycle
<1>2. IndInv /\ BlameOnCycle /\ [Next]_vars => BlameOnCycle'
    <2> SUFFICES ASSUME IndInv, BlameOnCycle, [Next]_vars,
                        NEW i \in Ids, <<"cycle", i>> \in reasons'
                 PROVE  \E q \in ParentSet(nodes', i) : i \in Ancestors(nodes', q)
        BY DEF BlameOnCycle
    <2>1. nodes' = nodes
        BY DEF Next, Step, Terminated, vars, CheckDuplicates, CheckDangling, PickStart, Finish,
               RejectCycle, Descend, PassOver, Retire
    <2>2. CASE <<"cycle", i>> \in reasons
        BY <2>1, <2>2 DEF BlameOnCycle
    <2>3. CASE <<"cycle", i>> \notin reasons
        <3>1. RejectCycle
            BY <2>3 DEF Next, Step, Terminated, vars, CheckDuplicates, CheckDangling, PickStart,
                        Finish, Descend, PassOver, Retire
        <3>2. i = Parent
            BY <3>1, <2>3 DEF RejectCycle
        <3> QED
            BY <3>1, <3>2, <2>1, GrayParentOnCycle DEF RejectCycle, IndInv, Colouring
    <2> QED
        BY <2>2, <2>3
<1> QED
    BY <1>1, <1>2, Inductive, PTL DEF Spec

(***************************************************************************)
(* The check implements the abstract decision, as far as safety goes: it   *)
(* answers once, rightly, and never changes the list.                      *)
(***************************************************************************)
THEOREM DecidesSafely == Spec => Decision!SafeSpec
<1>1. Init => Decision!Init
    BY DEF Init, Decision!Init, verdict
<1>2. IndInv /\ IndInv' /\ [Next]_vars => [Decision!Next]_<<nodes, verdict>>
    <2> SUFFICES ASSUME IndInv, IndInv', [Next]_vars
                 PROVE  [Decision!Next]_<<nodes, verdict>>
        OBVIOUS
    <2>1. CASE UNCHANGED vars
        BY <2>1 DEF vars, verdict, accepted
    <2>2. CASE Terminated
        BY <2>2 DEF Terminated, vars, verdict, accepted
    <2>3. CASE Step
        <3>1. pc # "done" /\ nodes' = nodes
            BY <2>3 DEF Step, CheckDuplicates, CheckDangling, PickStart, Finish, RejectCycle,
                        Descend, PassOver, Retire
        <3>2. CASE pc' = "done"
            <4>1. verdict = "pending" /\ verdict' \in {"accept", "reject"}
                BY <3>1, <3>2 DEF verdict
            <4>2. verdict' = "accept" <=> accepted'
                BY <3>2 DEF verdict
            <4>3. accepted' <=> WellFormed(nodes)
                BY <3>1, <3>2 DEF IndInv, VerdictExact
            <4> QED
                BY <4>1, <4>2, <4>3, <3>1, SameWellFormed DEF Decision!Next, Decision!Decide
        <3>3. CASE pc' # "done"
            BY <3>1, <3>3 DEF verdict
        <3> QED
            BY <3>2, <3>3
    <2> QED
        BY <2>1, <2>2, <2>3 DEF Next
<1> QED
    BY <1>1, <1>2, Inductive, PTL DEF Spec, Decision!SafeSpec

----------------------------------------------------------------------------
(* The parser's check.                                                     *)

\* While nothing has been raised, nothing is claimed of it.
LEMMA Quiet ==
    ASSUME ParseTypeOK, raised = Nothing, phase # "done"
    PROVE  TraceIsLasso /\ RecursionNeedsDepth /\ AnswerExact
    BY DEF TraceIsLasso, RecursionNeedsDepth, AnswerExact, answer, Nothing

LEMMA ParseStarts == InitParse => ParseInv
<1> SUFFICES ASSUME InitParse PROVE ParseInv
    OBVIOUS
<1>1. nodes \in Seq(NodeRecord)
    BY ListsAssumption DEF InitParse
<1>2. ParseTypeOK
    BY <1>1 DEF InitParse, ParseTypeOK, ColouringType, AllWhite, Colours, Frame, Nothing, Errors
<1>3. ParsePhases /\ PathOfCalls
    BY <1>1 DEF InitParse, ParsePhases, PathOfCalls
<1> QED
    BY <1>2, <1>3, Quiet DEF ParseInv, InitParse

LEMMA CheckIdKeeps == ParseInv /\ CheckId => ParseInv'
<1> SUFFICES ASSUME ParseInv, CheckId PROVE ParseInv'
    OBVIOUS
<1>1. /\ nodes \in Seq(NodeRecord) /\ at \in 1..Len(nodes) /\ phase = "ids"
      /\ UNCHANGED <<nodes, color, stack, path>> /\ raised = Nothing /\ path = <<>>
      /\ stack = <<>> /\ color = AllWhite
      /\ \A k, l \in 1..(at - 1) : nodes[k].id = nodes[l].id => k = l
    BY DEF ParseInv, ParseTypeOK, ParsePhases, CheckId
<1>2. nodes[at].id \in Ids
    BY <1>1, RecordFields
<1>3. CASE \E l \in 1..(at - 1) : nodes[l].id = nodes[at].id
    <2>1. phase' = "done" /\ raised' = [error |-> "duplicate", trace |-> <<nodes[at].id>>] /\ at' = at
        BY <1>3 DEF CheckId, Raise
    <2>2. ParseTypeOK'
        BY <2>1, <1>1, <1>2 DEF ParseInv, ParseTypeOK, ColouringType, Errors
    <2>3. Duplicates(nodes) # {}
        <3>1. at \in DOMAIN nodes
            BY <1>1
        <3>2. at \in {m \in DOMAIN nodes : \E l \in 1..(m - 1) : nodes[l].id = nodes[m].id}
            BY <3>1, <1>3
        <3> QED
            BY <3>2 DEF Duplicates
    <2>4. AnswerExact'
        BY <2>1, <2>3, <1>1 DEF AnswerExact, answer, WellFormed
    <2> QED
        BY <2>1, <2>2, <2>4
        DEF ParseInv, ParsePhases, PathOfCalls, TraceIsLasso, RecursionNeedsDepth
<1>4. CASE ~\E l \in 1..(at - 1) : nodes[l].id = nodes[at].id
    <2>1. phase' = phase /\ raised' = raised /\ at' = at + 1
        BY <1>4 DEF CheckId
    <2>2. ParseTypeOK'
        BY <2>1, <1>1 DEF ParseInv, ParseTypeOK, ColouringType
    <2>3. \A k, l \in 1..(at' - 1) : nodes'[k].id = nodes'[l].id => k = l
        <3>1. \A k \in 1..(at' - 1) : k \in 1..(at - 1) \/ k = at
            BY <2>1, <1>1
        <3> QED
            BY <3>1, <1>1, <1>4
    <2>4. ParsePhases' /\ PathOfCalls'
        BY <2>1, <2>3, <1>1 DEF ParsePhases, PathOfCalls, AllWhite
    <2> QED
        BY <2>1, <2>2, <2>4, <1>1, Quiet DEF ParseInv, Nothing, TraceIsLasso, RecursionNeedsDepth,
              AnswerExact, answer
<1> QED
    BY <1>3, <1>4

LEMMA IdsPassed == ParseInv /\ NextPhase("ids", "parents") => ParseInv'
<1> SUFFICES ASSUME ParseInv, NextPhase("ids", "parents") PROVE ParseInv'
    OBVIOUS
<1>1. /\ nodes \in Seq(NodeRecord) /\ at = Len(nodes) + 1 /\ phase = "ids"
      /\ UNCHANGED <<nodes, color, stack, path, raised>> /\ raised = Nothing /\ path = <<>>
      /\ stack = <<>> /\ color = AllWhite /\ phase' = "parents" /\ at' = 1
      /\ \A k, l \in 1..(at - 1) : nodes[k].id = nodes[l].id => k = l
    BY DEF ParseInv, ParseTypeOK, ParsePhases, NextPhase
<1>2. ParseTypeOK'
    BY <1>1 DEF ParseInv, ParseTypeOK, ColouringType
<1>3. Duplicates(nodes) = {}
    BY <1>1 DEF Duplicates
<1>4. ParsePhases' /\ PathOfCalls'
    BY <1>1, <1>3 DEF ParsePhases, PathOfCalls, AllWhite
<1> QED
    BY <1>1, <1>2, <1>4 DEF ParseInv, Nothing, TraceIsLasso, RecursionNeedsDepth, AnswerExact, answer

LEMMA CheckParentsKeeps == ParseInv /\ CheckParents => ParseInv'
<1> SUFFICES ASSUME ParseInv, CheckParents PROVE ParseInv'
    OBVIOUS
<1> DEFINE ps == nodes[at].parents
           unknown == {j \in DOMAIN ps : ps[j] \notin DefinedIds(nodes)}
<1>1. /\ nodes \in Seq(NodeRecord) /\ at \in 1..Len(nodes) /\ phase = "parents"
      /\ UNCHANGED <<nodes, color, stack, path>> /\ raised = Nothing /\ path = <<>>
      /\ stack = <<>> /\ color = AllWhite /\ Duplicates(nodes) = {}
      /\ \A k \in 1..(at - 1) : \A j \in DOMAIN nodes[k].parents :
            nodes[k].parents[j] \in DefinedIds(nodes)
    BY DEF ParseInv, ParseTypeOK, ParsePhases, CheckParents
<1>2. ps \in Seq(Ids)
    BY <1>1, RecordFields
<1>3. CASE unknown # {}
    <2> DEFINE j == CHOOSE j \in unknown : \A l \in unknown : j <= l
    <2>1. phase' = "done" /\ raised' = [error |-> "dangling", trace |-> <<ps[j]>>] /\ at' = at
        BY <1>3 DEF CheckParents, Raise
    <2>2. j \in unknown
        <3>1. unknown \in SUBSET Nat
            BY <1>2
        <3>2. \E n \in unknown : \A k \in unknown : n <= k
            BY <3>1, <1>3, Least
        <3> HIDE DEF unknown
        <3> QED
            BY <3>2
    <2> HIDE DEF j
    <2>3. ps[j] \in Ids /\ ps[j] \notin DefinedIds(nodes)
        BY <2>2, <1>2
    <2>4. ParseTypeOK'
        BY <2>1, <2>3, <1>1 DEF ParseInv, ParseTypeOK, ColouringType, Errors
    <2>5. Dangling(nodes) # {}
        BY <2>2, <2>3, <1>1 DEF Dangling
    <2>6. AnswerExact'
        BY <2>1, <2>5, <1>1 DEF AnswerExact, answer, WellFormed
    <2> QED
        BY <2>1, <2>4, <2>6
        DEF ParseInv, ParsePhases, PathOfCalls, TraceIsLasso, RecursionNeedsDepth
<1>4. CASE unknown = {}
    <2>1. phase' = phase /\ raised' = raised /\ at' = at + 1
        BY <1>4 DEF CheckParents
    <2>2. ParseTypeOK'
        BY <2>1, <1>1 DEF ParseInv, ParseTypeOK, ColouringType
    <2>3. \A k \in 1..(at' - 1) : \A j \in DOMAIN nodes'[k].parents :
            nodes'[k].parents[j] \in DefinedIds(nodes')
        <3>1. \A k \in 1..(at' - 1) : k \in 1..(at - 1) \/ k = at
            BY <2>1, <1>1
        <3> QED
            BY <3>1, <1>1, <1>4
    <2>4. ParsePhases' /\ PathOfCalls'
        BY <2>1, <2>3, <1>1 DEF ParsePhases, PathOfCalls, AllWhite
    <2> QED
        BY <2>1, <2>2, <2>4, <1>1
        DEF ParseInv, Nothing, TraceIsLasso, RecursionNeedsDepth, AnswerExact, answer
<1> QED
    BY <1>3, <1>4

LEMMA ParentsPassed == ParseInv /\ NextPhase("parents", "visit") => ParseInv'
<1> SUFFICES ASSUME ParseInv, NextPhase("parents", "visit") PROVE ParseInv'
    OBVIOUS
<1>1. /\ nodes \in Seq(NodeRecord) /\ at = Len(nodes) + 1 /\ phase = "parents"
      /\ UNCHANGED <<nodes, color, stack, path, raised>> /\ raised = Nothing /\ path = <<>>
      /\ stack = <<>> /\ color = AllWhite /\ phase' = "visit" /\ at' = 1 /\ Duplicates(nodes) = {}
      /\ \A k \in 1..(at - 1) : \A j \in DOMAIN nodes[k].parents :
            nodes[k].parents[j] \in DefinedIds(nodes)
    BY DEF ParseInv, ParseTypeOK, ParsePhases, NextPhase
<1>2. ParseTypeOK'
    BY <1>1 DEF ParseInv, ParseTypeOK, ColouringType
<1>3. Dangling(nodes) = {}
    BY <1>1 DEF Dangling
<1>4. Coloured /\ Coloured'
    BY <1>1, <1>3, Uncoloured, ColouredStutters
<1>5. PathOfCalls'
    BY <1>1, <1>4, MaxDepthAssumption DEF PathOfCalls, LookedAt
<1>6. ParsePhases'
    BY <1>1 DEF ParsePhases, AllWhite
<1> QED
    BY <1>1, <1>2, <1>5, <1>6
    DEF ParseInv, Nothing, TraceIsLasso, RecursionNeedsDepth, AnswerExact, answer

\* What holds during the visits.
LEMMA InVisit ==
    ASSUME ParseInv, phase = "visit"
    PROVE  /\ nodes \in Seq(NodeRecord) /\ Coloured /\ stack \in Seq(Frame)
           /\ color \in [DefinedIds(nodes) -> Colours]
           /\ at \in 1..(Len(nodes) + 1) /\ LookedAt(at - 1) /\ at - 1 \in 0..Len(nodes)
           /\ path \in Seq(Ids) /\ Len(path) = Len(stack)
           /\ \A k \in 1..Len(stack) : path[k] = stack[k].node
           /\ Len(stack) <= MaxDepth /\ Len(stack) \in Nat
           /\ raised = Nothing
           /\ Duplicates(nodes) = {} /\ Dangling(nodes) = {}
    BY DEF ParseInv, ParseTypeOK, ParsePhases, PathOfCalls, Coloured, ColouringType

\* A search step that raises nothing: the path is still that of the calls.
LEMMA VisitsOn ==
    ASSUME ParseInv, phase = "visit", UNCHANGED <<nodes, phase, raised>>,
           at' \in 1..(Len(nodes) + 1), Coloured', Len(stack') <= MaxDepth,
           path' \in Seq(Ids), Len(path') = Len(stack'),
           \A k \in 1..Len(stack') : path'[k] = stack'[k].node,
           \A l \in 1..(at' - 1) : color'[nodes[l].id] # "WHITE"
    PROVE  ParseInv'
<1>1. ParseTypeOK'
    BY DEF ParseInv, ParseTypeOK, Coloured
<1>2. ParsePhases'
    BY DEF ParseInv, ParsePhases
<1>3. path' = [k \in 1..Len(stack') |-> stack'[k].node]
    OBVIOUS
<1>4. PathOfCalls'
    BY <1>3 DEF PathOfCalls, LookedAt
<1>5. raised' = Nothing /\ phase' = "visit"
    BY InVisit
<1> QED
    BY <1>1, <1>2, <1>4, <1>5
    DEF ParseInv, Nothing, TraceIsLasso, RecursionNeedsDepth, AnswerExact, answer

\* The path, with the parent looked at put after it: a walk along parent links.
LEMMA TraceIs ==
    ASSUME ParseInv, phase = "visit", stack # <<>>, ~Exhausted, NEW t, t = Append(path, Parent)
    PROVE  /\ t \in Seq(Ids) /\ Len(t) = Len(stack) + 1
           /\ \A k \in 1..Len(stack) : t[k] = stack[k].node
           /\ t[Len(stack) + 1] = Parent
           /\ \A k \in 1..Len(stack) : t[k + 1] \in ParentSet(nodes, t[k])
<1> DEFINE n == Len(stack)
<1>1. /\ Coloured /\ nodes \in Seq(NodeRecord) /\ path \in Seq(Ids) /\ Len(path) = n /\ n \in Nat
      /\ \A k \in 1..n : path[k] = stack[k].node
      /\ DOMAIN stack = 1..n
    BY InVisit
<1>2. /\ Parent \in ParentSet(nodes, Top.node) /\ n \in 1..n /\ Parent \in Ids
    <2>1. Parent \in ParentSet(nodes, Top.node) /\ n \in 1..n /\ Parent \in DefinedIds(nodes)
        BY <1>1, TopFrame
    <2> QED
        BY <2>1, <1>1, ByIdIsRecord
<1>3. /\ t \in Seq(Ids) /\ Len(t) = n + 1 /\ t[n + 1] = Parent
      /\ \A k \in 1..n : t[k] = path[k]
    BY <1>1, <1>2, AppendProperties
<1>4. ASSUME NEW k \in 1..n PROVE t[k + 1] \in ParentSet(nodes, t[k])
    <2>1. CASE k = n
        BY <2>1, <1>1, <1>2, <1>3 DEF Top
    <2>2. CASE k < n
        <3>1. k + 1 \in 1..n
            BY <2>2, <1>1
        <3>2. stack[k + 1].node \in ParentSet(nodes, stack[k].node)
            BY <2>2, <1>1, FrameAbove
        <3> QED
            BY <3>1, <3>2, <1>1, <1>3
    <2> QED
        BY <2>1, <2>2, <1>1
<1> QED
    BY <1>1, <1>3, <1>4

LEMMA RaiseCycleKeeps == ParseInv /\ RaiseCycle => ParseInv'
<1> SUFFICES ASSUME ParseInv, RaiseCycle PROVE ParseInv'
    OBVIOUS
<1> DEFINE t == Append(path, Parent)
           n == Len(stack)
<1>1. /\ phase = "visit" /\ stack # <<>> /\ ~Exhausted /\ color[Parent] = "GRAY" /\ AtParent("GRAY")
      /\ phase' = "done" /\ raised' = [error |-> "cycle", trace |-> t]
      /\ UNCHANGED <<nodes, at, color, stack, path>>
    BY DEF RaiseCycle, Raise, AtParent
<1>2. Coloured /\ n \in Nat /\ DOMAIN stack = 1..n
    BY <1>1, InVisit
<1>3. /\ t \in Seq(Ids) /\ Len(t) = n + 1
      /\ \A k \in 1..n : t[k] = stack[k].node
      /\ t[n + 1] = Parent
      /\ \A k \in 1..n : t[k + 1] \in ParentSet(nodes, t[k])
    BY <1>1, TraceIs
<1>4. \E k \in 1..n : t[k] = t[n + 1]
    <2>1. Parent \in DefinedIds(nodes)
        BY <1>1, <1>2, TopFrame
    <2>2. PICK k \in DOMAIN stack : stack[k].node = Parent
        BY <2>1, <1>1, <1>2 DEF Coloured, GrayOnStack
    <2> QED
        BY <2>2, <1>2, <1>3
<1> HIDE DEF t
<1>5. ParseTypeOK'
    BY <1>1, <1>3 DEF ParseInv, ParseTypeOK, ColouringType, Errors
<1>6. TraceIsLasso'
    <2>1. raised'.trace = t /\ Len(t) - 1 = n /\ Len(t) = n + 1 /\ nodes' = nodes
        BY <1>1, <1>2, <1>3
    <2> QED
        BY <2>1, <1>3, <1>4, <1>5 DEF TraceIsLasso
<1>7. AnswerExact'
    <2>1. ~Acyclic(nodes)
        BY <1>1, <1>2, GrayParentClosesCycle
    <2> QED
        BY <2>1, <1>1 DEF AnswerExact, answer, WellFormed
<1> QED
    BY <1>1, <1>5, <1>6, <1>7 DEF ParseInv, ParsePhases, PathOfCalls, RecursionNeedsDepth

LEMMA RecurseKeeps == ParseInv /\ Recurse => ParseInv'
<1> SUFFICES ASSUME ParseInv, Recurse PROVE ParseInv'
    OBVIOUS
<1> DEFINE t == Append(path, Parent)
           n == Len(stack)
           f == [node |-> Parent, at |-> 1]
<1>1. /\ phase = "visit" /\ stack # <<>> /\ ~Exhausted /\ color[Parent] = "WHITE" /\ AtParent("WHITE")
      /\ Call(Parent, Advanced, t) /\ UNCHANGED <<nodes, at>>
    BY DEF Recurse, AtParent
<1>2. /\ Coloured /\ n \in Nat /\ DOMAIN stack = 1..n /\ n <= MaxDepth /\ stack \in Seq(Frame)
      /\ color \in [DefinedIds(nodes) -> Colours] /\ nodes \in Seq(NodeRecord)
      /\ at \in 1..(Len(nodes) + 1) /\ LookedAt(at - 1) /\ at - 1 \in 0..Len(nodes)
    BY <1>1, InVisit
<1>3. /\ t \in Seq(Ids) /\ Len(t) = n + 1
      /\ \A k \in 1..n : t[k] = stack[k].node
      /\ t[n + 1] = Parent
      /\ \A k \in 1..n : t[k + 1] \in ParentSet(nodes, t[k])
    BY <1>1, TraceIs
<1>4. /\ Advanced \in Seq(Frame) /\ Len(Advanced) = n
      /\ \A k \in 1..n : Advanced[k].node = stack[k].node
    BY <1>1, <1>2, AdvancedFrames
<1>5. Parent \in DefinedIds(nodes) /\ Parent \in Ids
    BY <1>1, <1>2, TopFrame, ByIdIsRecord
<1> HIDE DEF t
<1>6. CASE n >= MaxDepth
    <2>1. /\ phase' = "done" /\ raised' = [error |-> "recursion", trace |-> t]
          /\ UNCHANGED <<nodes, at, color, stack, path>>
        <3>1. Len(Advanced) >= MaxDepth
            BY <1>4, <1>6
        <3> QED
            BY <3>1, <1>1 DEF Call, Raise
    <2>2. n = MaxDepth
        <3>1. n \in Nat /\ n <= MaxDepth
            BY <1>2
        <3> HIDE DEF n
        <3> QED
            BY <3>1, <1>6, MaxDepthAssumption
    <2>3. ParseTypeOK'
        BY <2>1, <1>3 DEF ParseInv, ParseTypeOK, ColouringType, Errors
    <2>4. \A k \in 1..n : color[stack[k].node] = "GRAY"
        BY <1>2 DEF Coloured, GrayOnStack
    <2>5. \A k, l \in 1..n : stack[k].node = stack[l].node => k = l
        BY <1>2 DEF Coloured, GrayOnStack
    <2>6. \A k, l \in 1..(n + 1) : t[k] = t[l] => k = l
        <3>1. \A k \in 1..(n + 1) : k \in 1..n \/ k = n + 1
            BY <1>2
        <3>2. \A k \in 1..n : t[k] # Parent
            BY <2>4, <1>1, <1>3
        <3> QED
            BY <3>1, <3>2, <2>5, <1>3
    <2>7. RecursionNeedsDepth'
        <3>1. raised'.trace = t /\ Len(t) = MaxDepth + 1 /\ DOMAIN t = 1..(n + 1) /\ nodes' = nodes
            BY <2>1, <2>2, <1>3
        <3> QED
            BY <3>1, <2>2, <2>6, <1>3 DEF RecursionNeedsDepth
    <2> QED
        BY <2>1, <2>3, <2>7 DEF ParseInv, ParsePhases, PathOfCalls, TraceIsLasso, AnswerExact, answer
<1>7. CASE n < MaxDepth
    <2>1. Enter(Parent, Advanced) /\ path' = t /\ UNCHANGED <<nodes, at, phase, raised>>
        BY <1>1, <1>2, <1>4, <1>7, MaxDepthAssumption DEF Call
    <2>2. Coloured'
        BY <2>1, <1>1, <1>2, DescendKeeps
    <2>3. f \in Frame /\ f.node = Parent
        BY <1>5 DEF Frame
    <2>4. /\ Len(stack') = n + 1
          /\ \A k \in 1..n : stack'[k] = Advanced[k]
          /\ stack'[n + 1] = f
        <3>1. stack' = Append(Advanced, f)
            BY <2>1 DEF Enter
        <3> HIDE DEF f
        <3> QED
            BY <3>1, <2>3, <1>4, AppendProperties
    <2>5. \A k \in 1..Len(stack') : path'[k] = stack'[k].node
        <3>1. \A k \in 1..(n + 1) : k \in 1..n \/ k = n + 1
            BY <1>2
        <3>2. stack'[n + 1].node = Parent
            BY <2>3, <2>4
        <3> HIDE DEF f
        <3> QED
            BY <3>1, <3>2, <2>1, <2>4, <1>3, <1>4
    <2>6. \A l \in 1..(at - 1) : color'[nodes[l].id] # "WHITE"
        <3>1. color' = [color EXCEPT ![Parent] = "GRAY"]
            BY <2>1 DEF Enter
        <3> QED
            BY <3>1, <2>1, <1>2, <1>5, LookedAtKept
    <2>7. Len(stack') <= MaxDepth /\ Len(path') = Len(stack') /\ path' \in Seq(Ids)
        BY <2>1, <2>4, <1>2, <1>3, <1>7, MaxDepthAssumption
    <2> QED
        BY <2>1, <2>2, <2>5, <2>6, <2>7, <1>1, <1>2, VisitsOn
<1> QED
    BY <1>2, <1>6, <1>7, MaxDepthAssumption

LEMMA LookOverKeeps == ParseInv /\ LookOver => ParseInv'
<1> SUFFICES ASSUME ParseInv, LookOver PROVE ParseInv'
    OBVIOUS
<1>1. /\ phase = "visit" /\ stack # <<>> /\ AtParent("BLACK") /\ Pass
      /\ UNCHANGED <<nodes, at, phase, path, raised, color>> /\ stack' = Advanced
    BY DEF LookOver, AtParent, Pass
<1>2. Coloured'
    BY <1>1, InVisit, PassKeeps
<1>3. /\ Len(stack') = Len(stack)
      /\ \A k \in 1..Len(stack) : stack'[k].node = stack[k].node
    BY <1>1, InVisit, AdvancedFrames
<1>4. \A l \in 1..(at - 1) : color'[nodes[l].id] # "WHITE"
    BY <1>1, InVisit DEF LookedAt
<1> QED
    BY <1>1, <1>2, <1>3, <1>4, InVisit, VisitsOn

LEMMA EndKeeps == ParseInv /\ End => ParseInv'
<1> SUFFICES ASSUME ParseInv, End PROVE ParseInv'
    OBVIOUS
<1> DEFINE n == Len(stack)
<1>1. /\ phase = "visit" /\ stack # <<>> /\ AtEnd /\ Leave
      /\ UNCHANGED <<nodes, at, phase, raised>>
      /\ path' = SubSeq(path, 1, Len(path) - 1)
    BY DEF End, AtEnd
<1>2. /\ Coloured /\ n \in Nat /\ stack \in Seq(Frame) /\ n <= MaxDepth
      /\ path \in Seq(Ids) /\ Len(path) = n /\ \A k \in 1..n : path[k] = stack[k].node
      /\ at \in 1..(Len(nodes) + 1) /\ LookedAt(at - 1) /\ at - 1 \in 0..Len(nodes)
    BY <1>1, InVisit
<1>3. Coloured'
    BY <1>1, <1>2, LeaveKeeps
<1>4. n >= 1 /\ n - 1 \in Nat
    BY <1>1, <1>2, TopFrame
<1>5. /\ Len(stack') = n - 1 /\ \A k \in 1..(n - 1) : stack'[k] = stack[k]
    BY <1>1, <1>2, <1>4 DEF Leave
<1>6. /\ Len(path') = n - 1 /\ path' \in Seq(Ids) /\ \A k \in 1..(n - 1) : path'[k] = path[k]
    BY <1>1, <1>2, <1>4
<1>7. \A l \in 1..(at - 1) : color'[nodes[l].id] # "WHITE"
    <2>1. \E i \in DefinedIds(nodes) : color' = [color EXCEPT ![i] = "BLACK"]
        BY <1>1, <1>2, MovesColour
    <2> QED
        BY <2>1, <1>1, <1>2, LookedAtKept
<1>8. /\ Len(stack') <= MaxDepth /\ Len(path') = Len(stack')
      /\ \A k \in 1..Len(stack') : path'[k] = stack'[k].node
    <2>1. \A k \in 1..(n - 1) : k \in 1..n
        BY <1>4
    <2>2. n - 1 <= MaxDepth
        BY <1>2, <1>4, MaxDepthAssumption
    <2> QED
        BY <2>1, <2>2, <1>2, <1>5, <1>6
<1> QED
    BY <1>1, <1>2, <1>3, <1>6, <1>7, <1>8, VisitsOn

LEMMA VisitKeeps == ParseInv /\ Visit => ParseInv'
<1> SUFFICES ASSUME ParseInv, Visit PROVE ParseInv'
    OBVIOUS
<1> DEFINE i == nodes[at].id
<1>1. /\ phase = "visit" /\ stack = <<>> /\ at \in 1..Len(nodes) /\ at' = at + 1 /\ UNCHANGED nodes
      /\ IF color[i] = "WHITE" THEN Call(i, <<>>, <<i>>)
                               ELSE UNCHANGED <<phase, color, stack, path, raised>>
    BY InVisit DEF Visit
<1>2. /\ Coloured /\ nodes \in Seq(NodeRecord) /\ LookedAt(at - 1)
      /\ path \in Seq(Ids) /\ Len(path) = 0
    BY <1>1, InVisit
<1>3. i \in DefinedIds(nodes) /\ i \in Ids
    BY <1>1, <1>2, RecordFields
<1>4. at' \in 1..(Len(nodes) + 1) /\ at' - 1 = at
    BY <1>1, <1>2
<1> HIDE DEF i
<1>5. CASE color[i] = "WHITE"
    <2>1. Enter(i, <<>>) /\ path' = <<i>> /\ UNCHANGED <<phase, raised>>
        BY <1>1, <1>5, MaxDepthAssumption DEF Call
    <2>2. Coloured'
        BY <2>1, <1>1, <1>2, <1>3, <1>5, EnterKeeps
    <2>3. color' = [color EXCEPT ![i] = "GRAY"] /\ stack' = <<[node |-> i, at |-> 1]>>
        BY <2>1 DEF Enter
    <2>4. \A l \in 1..at : color'[nodes[l].id] # "WHITE"
        BY <2>3, <1>1, <1>2, <1>5, EnteredLookedAt DEF i
    <2>5. /\ path' \in Seq(Ids) /\ Len(path') = 1 /\ Len(stack') = 1 /\ 1 <= MaxDepth
          /\ path'[1] = i /\ stack'[1].node = i
        BY <2>1, <2>3, <1>3, MaxDepthAssumption
    <2>6. \A k \in 1..Len(stack') : path'[k] = stack'[k].node
        BY <2>5
    <2> QED
        BY <2>1, <2>2, <2>4, <2>5, <2>6, <1>1, <1>4, VisitsOn
<1>6. CASE color[i] # "WHITE"
    <2>1. UNCHANGED <<phase, color, stack, path, raised>>
        BY <1>1, <1>6
    <2>2. Coloured'
        BY <2>1, <1>1, <1>2, ColouredStutters
    <2>3. \A l \in 1..at : color'[nodes[l].id] # "WHITE"
        BY <2>1, <1>1, <1>2, <1>6, EnteredLookedAt DEF i
    <2> QED
        BY <2>1, <2>2, <2>3, <1>1, <1>2, <1>4, MaxDepthAssumption, VisitsOn
<1> QED
    BY <1>5, <1>6

LEMMA EndParseKeeps == ParseInv /\ EndParse => ParseInv'
<1> SUFFICES ASSUME ParseInv, EndParse PROVE ParseInv'
    OBVIOUS
<1>1. /\ phase = "visit" /\ stack = <<>> /\ at > Len(nodes) /\ phase' = "done"
      /\ UNCHANGED <<nodes, at, color, stack, path, raised>>
    BY DEF EndParse
<1>2. /\ Coloured /\ LookedAt(Len(nodes)) /\ raised = Nothing
      /\ Duplicates(nodes) = {} /\ Dangling(nodes) = {}
    <2>1. at \in 1..(Len(nodes) + 1) /\ LookedAt(at - 1) /\ nodes \in Seq(NodeRecord)
        BY <1>1, InVisit
    <2>2. at - 1 = Len(nodes)
        BY <2>1, <1>1
    <2> QED
        BY <2>1, <2>2, <1>1, InVisit
<1>3. Acyclic(nodes)
    BY <1>1, <1>2, SearchedAcyclic
<1>4. ParseTypeOK'
    BY <1>1 DEF ParseInv, ParseTypeOK, ColouringType
<1>5. AnswerExact'
    BY <1>1, <1>2, <1>3 DEF AnswerExact, answer, WellFormed, Nothing
<1> QED
    BY <1>1, <1>2, <1>4, <1>5
    DEF ParseInv, ParsePhases, PathOfCalls, TraceIsLasso, RecursionNeedsDepth, Nothing

\* The inductive invariant of the parser's check: the list that the calls hand
\* down is the nodes of the calls in progress.
THEOREM ParseInductive == ParseSpec => []ParseInv
<1>1. ParseInv /\ [NextParse]_parseVars => ParseInv'
    <2> SUFFICES ASSUME ParseInv, [NextParse]_parseVars PROVE ParseInv'
        OBVIOUS
    <2>1. CASE ParseStep
        BY <2>1, CheckIdKeeps, IdsPassed, CheckParentsKeeps, ParentsPassed, VisitKeeps,
           RaiseCycleKeeps, RecurseKeeps, LookOverKeeps, EndKeeps, EndParseKeeps DEF ParseStep
    <2>2. CASE UNCHANGED parseVars
        <3>1. Coloured => Coloured'
            BY <2>2, ColouredStutters DEF parseVars
        <3>2. ParseTypeOK' /\ ParsePhases'
            BY <2>2 DEF parseVars, ParseInv, ParseTypeOK, ColouringType, ParsePhases, AllWhite
        <3>3. PathOfCalls'
            BY <3>1, <2>2 DEF parseVars, ParseInv, PathOfCalls, LookedAt
        <3> QED
            BY <3>2, <3>3, <2>2
            DEF parseVars, ParseInv, TraceIsLasso, RecursionNeedsDepth, AnswerExact, answer
    <2> QED
        BY <2>1, <2>2 DEF NextParse, Parsed
<1> QED
    BY <1>1, ParseStarts, PTL DEF ParseSpec

(***************************************************************************)
(* The cycle that _validate_ancestry_graph prints is one: the walk along   *)
(* parent links comes back to a node it has, for every list of nodes.      *)
(***************************************************************************)
THEOREM TracePrinted == ParseSpec => []TraceIsLasso
<1>1. ParseInv => TraceIsLasso
    BY DEF ParseInv
<1> QED
    BY <1>1, ParseInductive, PTL

(***************************************************************************)
(* The parser runs out of stack only on a graph with a chain of more than  *)
(* MaxDepth different nodes, whatever the interpreter's limit is.          *)
(***************************************************************************)
THEOREM GivesUpOnlyDeep == ParseSpec => []RecursionNeedsDepth
<1>1. ParseInv => RecursionNeedsDepth
    BY DEF ParseInv
<1> QED
    BY <1>1, ParseInductive, PTL

LEMMA SameForParser == ParserDecision!WellFormed(nodes) <=> WellFormed(nodes)
BY DEF ParserDecision!WellFormed, ParserDecision!Duplicates, ParserDecision!Dangling, ParserDecision!Acyclic,
       ParserDecision!Wellfounded, ParserDecision!Founders, ParserDecision!ParentSet, ParserDecision!ParentsOf,
       ParserDecision!ById, ParserDecision!DefinedIds, WellFormed, Duplicates, Dangling, Acyclic, Wellfounded,
       Founders, ParentSet, ParentsOf, ById, DefinedIds

(***************************************************************************)
(* The parser's check implements the abstract decision that may give up,   *)
(* as far as safety goes: one answer, right where it is one.               *)
(***************************************************************************)
THEOREM ParserDecidesSafely == ParseSpec => ParserDecision!SafeSpec
<1>1. InitParse => ParserDecision!Init
    BY DEF InitParse, ParserDecision!Init, answer
<1>2. ParseInv /\ ParseInv' /\ [NextParse]_parseVars => [ParserDecision!Next]_<<nodes, answer>>
    <2> SUFFICES ASSUME ParseInv, ParseInv', [NextParse]_parseVars
                 PROVE  [ParserDecision!Next]_<<nodes, answer>>
        OBVIOUS
    <2>1. CASE UNCHANGED parseVars
        BY <2>1 DEF parseVars, answer
    <2>2. CASE ParseStep
        <3>1. phase # "done" /\ nodes' = nodes
            BY <2>2 DEF ParseStep, CheckId, NextPhase, CheckParents, Visit, RaiseCycle, Recurse, LookOver,
                        End, EndParse
        <3>2. answer = "pending"
            BY <3>1 DEF answer
        <3>3. AnswerExact' /\ raised'.error \in Errors \cup {"none"}
            BY DEF ParseInv, ParseTypeOK
        <3>4. answer' \in {"pending", "accept", "gave_up", "reject"}
            BY <3>3 DEF answer
        <3>5. CASE answer' = "pending"
            BY <3>1, <3>2, <3>5
        <3>6. CASE answer' = "gave_up"
            BY <3>1, <3>2, <3>6 DEF ParserDecision!Next, ParserDecision!GiveUp
        <3>7. CASE answer' \in {"accept", "reject"}
            <4>1. answer' = "accept" <=> WellFormed(nodes)
                <5>1. answer' = "accept" => WellFormed(nodes)
                    BY <3>1, <3>3 DEF AnswerExact
                <5>2. answer' = "reject" => ~WellFormed(nodes)
                    BY <3>1, <3>3 DEF AnswerExact
                <5> QED
                    BY <5>1, <5>2, <3>7
            <4> QED
                BY <4>1, <3>1, <3>2, <3>7, SameForParser DEF ParserDecision!Next, ParserDecision!Decide
        <3> QED
            BY <3>4, <3>5, <3>6, <3>7
    <2> QED
        BY <2>1, <2>2 DEF NextParse, Parsed
<1> QED
    BY <1>1, <1>2, ParseInductive, PTL DEF ParseSpec, ParserDecision!SafeSpec

----------------------------------------------------------------------------
(* The work-list closure.                                                  *)

(***************************************************************************)
(* The ancestors of i are the least set with i that keeps its parents.     *)
(***************************************************************************)
LEMMA AncestorsLeast ==
    ASSUME NEW ns, NEW i \in DefinedIds(ns),
           \A x \in DefinedIds(ns) : ParentSet(ns, x) \subseteq DefinedIds(ns)
    PROVE  /\ i \in Ancestors(ns, i)
           /\ ParentClosed(ns, Ancestors(ns, i))
           /\ \A S \in SUBSET DefinedIds(ns) :
                i \in S /\ ParentClosed(ns, S) => Ancestors(ns, i) \subseteq S
<1>1. ASSUME NEW x \in Ancestors(ns, i), NEW p \in ParentSet(ns, x)
      PROVE  p \in Ancestors(ns, i)
    <2>1. x \in DefinedIds(ns) /\ p \in DefinedIds(ns)
        BY DEF Ancestors
    <2>2. ASSUME NEW S \in SUBSET DefinedIds(ns), i \in S, ParentClosed(ns, S)
          PROVE  p \in S
        <3>1. x \in S
            BY <2>2 DEF Ancestors
        <3> QED
            BY <3>1, <2>2 DEF ParentClosed
    <2> QED
        BY <2>1, <2>2 DEF Ancestors
<1>2. ParentClosed(ns, Ancestors(ns, i))
    BY <1>1 DEF ParentClosed
<1> QED
    BY <1>2 DEF Ancestors

LEMMA InitClosureEstablishes == InitClosure => ClosureInv
<1> SUFFICES ASSUME InitClosure PROVE ClosureInv
    OBVIOUS
<1>1. nodes \in Seq(NodeRecord) /\ Dangling(nodes) = {}
    BY ListsAssumption DEF InitClosure, WellFormed
<1>2. ClosureTypeOK
    <2>1. worklist \in Seq(DefinedIds(nodes))
        <3>1. root \in DefinedIds(nodes) /\ worklist = <<root>>
            BY DEF InitClosure
        <3> QED
            BY <3>1
    <2> QED
        BY <1>1, <2>1 DEF InitClosure, ClosureTypeOK
<1>3. Waiting = {root}
    BY DEF InitClosure, Waiting
<1>4. root \in Ancestors(nodes, root)
    BY <1>1, ParentsDefined, AncestorsLeast DEF InitClosure
<1>5. Frontier
    BY <1>3, <1>4 DEF InitClosure, Frontier, SourceRecords
<1> QED
    BY <1>1, <1>2, <1>5 DEF InitClosure, ClosureInv

\* The parts of the work-list: its last id and what precedes it.
LEMMA Popped ==
    ASSUME NEW D, worklist \in Seq(D), worklist # <<>>
    PROVE  /\ current \in D
           /\ Rest \in Seq(D)
           /\ Waiting = {Rest[k] : k \in DOMAIN Rest} \cup {current}
<1> DEFINE n == Len(worklist)
<1>1. n \in Nat \ {0} /\ DOMAIN worklist = 1..n
    BY EmptySeq, LenProperties
<1>2. \A k \in 1..(n - 1) : worklist[k] \in D
    BY <1>1, ElementOfSeq
<1> HIDE DEF n
<1>3. /\ SubSeq(worklist, 1, n - 1) \in Seq(D)
      /\ Len(SubSeq(worklist, 1, n - 1)) = IF 1 <= n - 1 THEN n - 1 - 1 + 1 ELSE 0
      /\ \A k \in 1..(n - 1 - 1 + 1) : SubSeq(worklist, 1, n - 1)[k] = worklist[1 + k - 1]
    BY <1>1, <1>2, SubSeqProperties
<1>4. n - 1 - 1 + 1 = n - 1 /\ (1 <= n - 1 \/ n - 1 = 0)
    BY <1>1
<1>5. \A k \in 1..(n - 1) : 1 + k - 1 = k
    OBVIOUS
<1>6. Rest = SubSeq(worklist, 1, n - 1) /\ current = worklist[n]
    BY DEF Rest, current, n
<1>7. Rest \in Seq(D) /\ Len(Rest) = n - 1 /\ \A k \in 1..(n - 1) : Rest[k] = worklist[k]
    BY <1>3, <1>4, <1>5, <1>6
<1>8. DOMAIN Rest = 1..(n - 1)
    BY <1>7, LenProperties
<1>9. current \in D
    BY <1>1, <1>6
<1>10. \A k \in 1..n : k \in 1..(n - 1) \/ k = n
    BY <1>1
<1>11. n \in 1..n /\ \A k \in 1..(n - 1) : k \in 1..n
    BY <1>1
<1> QED
    BY <1>1, <1>6, <1>7, <1>8, <1>9, <1>10, <1>11 DEF Waiting

LEMMA PopSeenKeeps == ClosureInv /\ PopSeen => ClosureInv'
<1> SUFFICES ASSUME ClosureInv, PopSeen PROVE ClosureInv'
    OBVIOUS
<1>1. /\ Rest \in Seq(DefinedIds(nodes))
      /\ Waiting = {Rest[k] : k \in DOMAIN Rest} \cup {current}
    BY Popped DEF ClosureInv, ClosureTypeOK, PopSeen
<1>2. seen' \cup Waiting' = seen \cup Waiting
    BY <1>1 DEF PopSeen, Waiting
<1>3. ClosureTypeOK'
    BY <1>1 DEF ClosureInv, ClosureTypeOK, PopSeen
<1>4. Frontier'
    BY <1>2 DEF ClosureInv, Frontier, PopSeen
<1> QED
    BY <1>3, <1>4 DEF ClosureInv, PopSeen

LEMMA PopNewKeeps == ClosureInv /\ PopNew => ClosureInv'
<1> SUFFICES ASSUME ClosureInv, PopNew PROVE ClosureInv'
    OBVIOUS
<1> DEFINE D == DefinedIds(nodes)
           ps == ParentsOf(nodes, current)
<1>0. nodes \in Seq(NodeRecord) /\ Dangling(nodes) = {} /\ root \in D /\ nodes' = nodes
    BY DEF ClosureInv, ClosureTypeOK, PopNew
<1>1. /\ current \in D
      /\ Rest \in Seq(D)
      /\ Waiting = {Rest[k] : k \in DOMAIN Rest} \cup {current}
    BY Popped DEF ClosureInv, ClosureTypeOK, PopNew
<1>2. ps \in Seq(D) /\ ParentSet(nodes, current) \subseteq D
    BY <1>0, <1>1, ParentsDefined
<1>3. worklist' = Rest \o ps
    BY DEF PopNew
<1>4. worklist' \in Seq(D)
    BY <1>1, <1>2, <1>3, ConcatProperties
<1>5. Waiting' = {Rest[k] : k \in DOMAIN Rest} \cup ParentSet(nodes, current)
    <2>1. Range(Rest \o ps) = Range(Rest) \cup Range(ps)
        BY <1>1, <1>2, RangeConcatenation
    <2> QED
        BY <2>1, <1>3 DEF Waiting, ParentSet, Range
<1>6. ClosureTypeOK'
    <2>1. records' \subseteq seen' /\ seen' \subseteq D
        BY <1>1 DEF ClosureInv, ClosureTypeOK, PopNew, SourceRecords
    <2> QED
        BY <2>1, <1>0, <1>4 DEF ClosureInv, ClosureTypeOK, PopNew
<1>7. Frontier'
    <2>1. seen' = seen \cup {current}
        BY DEF PopNew
    <2>2. seen' \cup Waiting' = seen \cup Waiting \cup ParentSet(nodes, current)
        BY <2>1, <1>1, <1>5
    <2>3. \A x \in seen' : ParentSet(nodes, x) \subseteq seen' \cup Waiting'
        BY <2>1, <2>2 DEF ClosureInv, Frontier
    <2>4. seen' \cup Waiting' \subseteq Ancestors(nodes, root)
        <3>1. current \in Ancestors(nodes, root)
            BY <1>1 DEF ClosureInv, Frontier
        <3>2. ParentSet(nodes, current) \subseteq Ancestors(nodes, root)
            BY <3>1, <1>0, ParentsDefined, AncestorsLeast DEF ParentClosed
        <3> QED
            BY <3>2, <2>2 DEF ClosureInv, Frontier
    <2>5. records' = SourceRecords(nodes, seen')
        BY <2>1 DEF ClosureInv, Frontier, PopNew, SourceRecords
    <2> QED
        BY <2>2, <2>3, <2>4, <2>5, <1>0 DEF ClosureInv, Frontier, PopNew
<1> QED
    BY <1>0, <1>6, <1>7 DEF ClosureInv, PopNew

LEMMA NextClosureKeeps == ClosureInv /\ [NextClosure]_closureVars => ClosureInv'
<1> SUFFICES ASSUME ClosureInv, [NextClosure]_closureVars PROVE ClosureInv'
    OBVIOUS
<1>1. CASE UNCHANGED closureVars
    BY <1>1 DEF closureVars, ClosureInv, ClosureTypeOK, Frontier, Waiting
<1>2. CASE Return
    BY <1>2 DEF Return, ClosureInv, ClosureTypeOK, Frontier, Waiting
<1> QED
    BY <1>1, <1>2, PopSeenKeeps, PopNewKeeps DEF NextClosure, ClosureStep, ClosureReturned

\* The inductive invariant of the loop.
THEOREM ClosureInductive == ClosureSpec => []ClosureInv
BY InitClosureEstablishes, NextClosureKeeps, PTL DEF ClosureSpec

\* The work-list holds defined ids only, so by_id[current] never fails.
THEOREM ClosureTypeCorrect == ClosureSpec => []ClosureTypeOK
<1>1. ClosureInv => ClosureTypeOK
    BY DEF ClosureInv
<1> QED
    BY <1>1, ClosureInductive, PTL

(***************************************************************************)
(* compute_ancestry_closure returns exactly the source records among the   *)
(* ancestors of the root, on every graph without dangling parents.         *)
(***************************************************************************)
THEOREM ClosureCorrect == ClosureSpec => []ClosureExact
<1>1. ClosureInv => ClosureExact
    <2> SUFFICES ASSUME ClosureInv, returned
                 PROVE  records = SourceRecords(nodes, Ancestors(nodes, root))
        BY DEF ClosureExact
    <2>1. Waiting = {}
        BY DEF ClosureInv, Waiting
    <2>2. root \in seen /\ ParentClosed(nodes, seen) /\ seen \in SUBSET DefinedIds(nodes)
        BY <2>1 DEF ClosureInv, ClosureTypeOK, Frontier, ParentClosed
    <2>3. Ancestors(nodes, root) \subseteq seen
        BY <2>2, ParentsDefined, AncestorsLeast DEF ClosureInv, ClosureTypeOK
    <2> QED
        BY <2>1, <2>3 DEF ClosureInv, Frontier
<1> QED
    BY <1>1, ClosureInductive, PTL

----------------------------------------------------------------------------
(* The recursive closure.                                                  *)

\* What one call of `walk` returns, given what the calls it makes return.
Calls(ns) == DefinedIds(ns) \X SUBSET DefinedIds(ns)
Answer(ns, f, call) ==
    IF call[1] \in call[2]
      THEN {}
      ELSE SourceRecords(ns, {call[1]})
             \cup UNION {f[<<p, call[2] \cup {call[1]}>>] : p \in ParentSet(ns, call[1])}
Answers(ns, f) == f = [call \in Calls(ns) |-> Answer(ns, f, call)]

(***************************************************************************)
(* What a call returns, said without recursion: the source records that    *)
(* parent links lead to without passing through a node being visited.      *)
(***************************************************************************)
ClosedAround(ns, S, visiting) == \A y \in S : ParentSet(ns, y) \ visiting \subseteq S
Reached(ns, x, visiting) ==
    {y \in DefinedIds(ns) :
        \A S \in SUBSET DefinedIds(ns) : x \in S /\ ClosedAround(ns, S, visiting) => y \in S}
Found(ns, call) ==
    IF call[1] \in call[2] THEN {} ELSE SourceRecords(ns, Reached(ns, call[1], call[2]))

\* The parents of a defined node are defined.
Linkage(ns) == \A x \in DefinedIds(ns) : ParentSet(ns, x) \subseteq DefinedIds(ns)

LEMMA ReachedLeast ==
    ASSUME NEW ns, Linkage(ns), NEW x \in DefinedIds(ns), NEW visiting
    PROVE  /\ x \in Reached(ns, x, visiting)
           /\ Reached(ns, x, visiting) \in SUBSET DefinedIds(ns)
           /\ ClosedAround(ns, Reached(ns, x, visiting), visiting)
           /\ \A S \in SUBSET DefinedIds(ns) :
                x \in S /\ ClosedAround(ns, S, visiting) => Reached(ns, x, visiting) \subseteq S
<1>1. ASSUME NEW y \in Reached(ns, x, visiting), NEW p \in ParentSet(ns, y) \ visiting
      PROVE  p \in Reached(ns, x, visiting)
    <2>1. y \in DefinedIds(ns) /\ p \in DefinedIds(ns)
        BY DEF Reached, Linkage
    <2>2. ASSUME NEW S \in SUBSET DefinedIds(ns), x \in S, ClosedAround(ns, S, visiting)
          PROVE  p \in S
        <3>1. y \in S
            BY <2>2 DEF Reached
        <3> QED
            BY <3>1, <2>2 DEF ClosedAround
    <2> QED
        BY <2>1, <2>2 DEF Reached
<1>2. ClosedAround(ns, Reached(ns, x, visiting), visiting)
    BY <1>1 DEF ClosedAround
<1> QED
    BY <1>2 DEF Reached

(***************************************************************************)
(* One step of the walk: the node itself, and what is reached from each    *)
(* parent when the node is being visited as well.                          *)
(***************************************************************************)
LEMMA ReachedSplits ==
    ASSUME NEW ns, Linkage(ns), NEW x \in DefinedIds(ns), NEW v, x \notin v
    PROVE  Reached(ns, x, v) =
             {x} \cup UNION {Reached(ns, p, v \cup {x}) : p \in ParentSet(ns, x) \ (v \cup {x})}
<1> DEFINE w == v \cup {x}
           P == ParentSet(ns, x) \ w
           R == {x} \cup UNION {Reached(ns, p, w) : p \in P}
<1>1. P \subseteq DefinedIds(ns)
    BY DEF Linkage
<1>2. \A p \in P : /\ p \in Reached(ns, p, w)
                   /\ Reached(ns, p, w) \in SUBSET DefinedIds(ns)
                   /\ ClosedAround(ns, Reached(ns, p, w), w)
    BY <1>1, ReachedLeast
<1>3. R \in SUBSET DefinedIds(ns) /\ x \in R
    BY <1>2
<1>4. ClosedAround(ns, R, v)
    <2> SUFFICES ASSUME NEW y \in R, NEW q \in ParentSet(ns, y), q \notin v, q # x
                 PROVE  q \in R
        BY <1>3 DEF ClosedAround
    <2>1. CASE y = x
        <3>1. q \in P
            BY <2>1
        <3> QED
            BY <3>1, <1>2
    <2>2. CASE y # x
        <3>1. PICK p \in P : y \in Reached(ns, p, w)
            BY <2>2
        <3>2. q \in Reached(ns, p, w)
            BY <3>1, <1>2 DEF ClosedAround
        <3> QED
            BY <3>1, <3>2
    <2> QED
        BY <2>1, <2>2
<1>5. Reached(ns, x, v) \subseteq R
    <2> HIDE DEF R
    <2> QED
        BY <1>3, <1>4, ReachedLeast
<1>6. ASSUME NEW p \in P
      PROVE  Reached(ns, p, w) \subseteq Reached(ns, x, v)
    <2>1. /\ x \in Reached(ns, x, v)
          /\ Reached(ns, x, v) \in SUBSET DefinedIds(ns)
          /\ ClosedAround(ns, Reached(ns, x, v), v)
        BY ReachedLeast
    <2>2. p \in Reached(ns, x, v) /\ ClosedAround(ns, Reached(ns, x, v), w)
        BY <2>1 DEF ClosedAround
    <2> HIDE DEF w
    <2>3. p \in DefinedIds(ns)
        BY <1>1
    <2> QED
        BY <2>1, <2>2, <2>3, ReachedLeast
<1>7. x \in Reached(ns, x, v)
    BY ReachedLeast
<1> QED
    BY <1>5, <1>6, <1>7

\* The records found solve the recursion, whatever the graph.
LEMMA FoundAnswers ==
    ASSUME NEW ns, Linkage(ns)
    PROVE  Answers(ns, [call \in Calls(ns) |-> Found(ns, call)])
<1> DEFINE f == [call \in Calls(ns) |-> Found(ns, call)]
<1>1. ASSUME NEW x \in DefinedIds(ns), NEW v \in SUBSET DefinedIds(ns)
      PROVE  Found(ns, <<x, v>>) = Answer(ns, f, <<x, v>>)
    <2>1. CASE x \in v
        BY <2>1 DEF Found, Answer
    <2>2. CASE x \notin v
        <3> DEFINE w == v \cup {x}
        <3>1. \A p \in ParentSet(ns, x) : <<p, w>> \in Calls(ns)
            BY DEF Calls, Linkage
        <3>2. \A p \in ParentSet(ns, x) : f[<<p, w>>] = Found(ns, <<p, w>>)
            BY <3>1
        <3>3. \A p \in ParentSet(ns, x) :
                 f[<<p, w>>] = IF p \in w THEN {} ELSE SourceRecords(ns, Reached(ns, p, w))
            BY <3>2 DEF Found
        <3>4. Answer(ns, f, <<x, v>>) =
                SourceRecords(ns, {x}) \cup UNION {f[<<p, w>>] : p \in ParentSet(ns, x)}
            BY <2>2 DEF Answer
        <3>5. Found(ns, <<x, v>>) = SourceRecords(ns, Reached(ns, x, v))
            BY <2>2 DEF Found
        <3>6. Reached(ns, x, v) = {x} \cup UNION {Reached(ns, p, w) : p \in ParentSet(ns, x) \ w}
            BY <2>2, ReachedSplits
        <3> HIDE DEF w, f
        <3>7. SourceRecords(ns, Reached(ns, x, v)) =
                SourceRecords(ns, {x})
                  \cup UNION {SourceRecords(ns, Reached(ns, p, w)) : p \in ParentSet(ns, x) \ w}
            BY <3>6 DEF SourceRecords
        <3>8. UNION {f[<<p, w>>] : p \in ParentSet(ns, x)} =
                UNION {SourceRecords(ns, Reached(ns, p, w)) : p \in ParentSet(ns, x) \ w}
            BY <3>3
        <3> QED
            BY <3>4, <3>5, <3>7, <3>8
    <2> QED
        BY <2>1, <2>2
<1>2. \A call \in Calls(ns) : Found(ns, call) = Answer(ns, f, call)
    <2> SUFFICES ASSUME NEW call \in Calls(ns) PROVE Found(ns, call) = Answer(ns, f, call)
        OBVIOUS
    <2>1. PICK x \in DefinedIds(ns), v \in SUBSET DefinedIds(ns) : call = <<x, v>>
        BY DEF Calls
    <2> HIDE DEF f
    <2> QED
        BY <2>1, <1>1
<1>3. f = [call \in Calls(ns) |-> Answer(ns, f, call)]
    <2> DEFINE A(call) == Answer(ns, f, call)
    <2>1. \A call \in Calls(ns) : Found(ns, call) = A(call)
        BY <1>2
    <2>2. [call \in Calls(ns) |-> Found(ns, call)] = [call \in Calls(ns) |-> A(call)]
        <3> HIDE DEF A
        <3> QED BY <2>1
    <2> QED
        BY <2>2
<1> QED
    BY <1>3 DEF Answers

(***************************************************************************)
(* In a graph without cycles nothing else solves it: a set of nodes where  *)
(* two solutions differ would have no founder.                             *)
(***************************************************************************)
LEMMA AnswersUnique ==
    ASSUME NEW ns, Linkage(ns), Acyclic(ns), NEW f, Answers(ns, f), NEW g, Answers(ns, g)
    PROVE  \A call \in Calls(ns) : f[call] = g[call]
<1> DEFINE Odd == {x \in DefinedIds(ns) : \E v \in SUBSET DefinedIds(ns) : f[<<x, v>>] # g[<<x, v>>]}
<1>0. ASSUME NEW h, Answers(ns, h), NEW call \in Calls(ns)
      PROVE  h[call] = Answer(ns, h, call)
    <2> DEFINE A(c) == Answer(ns, h, c)
    <2>1. h = [c \in Calls(ns) |-> A(c)]
        BY <1>0 DEF Answers
    <2> HIDE DEF A
    <2>2. h[call] = A(call)
        BY <2>1
    <2> QED
        BY <2>2 DEF A
<1>1. Odd = {}
    <2> SUFFICES ASSUME Odd # {} PROVE FALSE
        OBVIOUS
    <2>1. PICK x \in Odd : ParentSet(ns, x) \cap Odd = {}
        <3> HIDE DEF Odd
        <3>1. Odd \in SUBSET DefinedIds(ns)
            BY DEF Odd
        <3> QED
            BY <3>1 DEF Acyclic, Wellfounded, Founders
    <2>2. PICK v \in SUBSET DefinedIds(ns) : f[<<x, v>>] # g[<<x, v>>]
        OBVIOUS
    <2>3. \A p \in ParentSet(ns, x) : f[<<p, v \cup {x}>>] = g[<<p, v \cup {x}>>]
        BY <2>1 DEF Linkage
    <2>4. <<x, v>> \in Calls(ns)
        BY DEF Calls
    <2>5. Answer(ns, f, <<x, v>>) = Answer(ns, g, <<x, v>>)
        <3> DEFINE F(p) == f[<<p, v \cup {x}>>]
                   G(p) == g[<<p, v \cup {x}>>]
        <3>1. /\ Answer(ns, f, <<x, v>>) = IF x \in v THEN {} ELSE SourceRecords(ns, {x}) \cup UNION {F(p) : p \in ParentSet(ns, x)}
              /\ Answer(ns, g, <<x, v>>) = IF x \in v THEN {} ELSE SourceRecords(ns, {x}) \cup UNION {G(p) : p \in ParentSet(ns, x)}
            BY DEF Answer
        <3>2. \A p \in ParentSet(ns, x) : F(p) = G(p)
            BY <2>3
        <3> HIDE DEF F, G
        <3>3. {F(p) : p \in ParentSet(ns, x)} = {G(p) : p \in ParentSet(ns, x)}
            BY <3>2
        <3> QED
            BY <3>1, <3>3
    <2> QED
        BY <2>2, <2>4, <2>5, <1>0
<1> QED
    BY <1>1 DEF Calls

\* On a graph that passed the structural checks the recursion returns what the
\* specification of a closure asks for.
LEMMA WalkFinds ==
    ASSUME NEW ns \in Seq(NodeRecord), WellFormed(ns), NEW i \in DefinedIds(ns)
    PROVE  compute_closure(ns, i) = SourceRecords(ns, Ancestors(ns, i))
<1>1. Linkage(ns) /\ Acyclic(ns)
    BY ParentsDefined DEF Linkage, WellFormed
<1>2. Walk(ns) = CHOOSE f : f = [call \in Calls(ns) |-> Answer(ns, f, call)]
    BY Zenon DEF Walk, Calls, Answer
<1>3. Walk(ns) = CHOOSE f : Answers(ns, f)
    BY <1>2, Zenon DEF Answers
<1>4. Answers(ns, [call \in Calls(ns) |-> Found(ns, call)])
    BY <1>1, FoundAnswers
<1>5. Answers(ns, Walk(ns))
    BY <1>3, <1>4, Zenon
<1>6. <<i, {}>> \in Calls(ns)
    BY DEF Calls
<1>7. Walk(ns)[<<i, {}>>] = [call \in Calls(ns) |-> Found(ns, call)][<<i, {}>>]
    BY <1>1, <1>4, <1>5, <1>6, AnswersUnique
<1>8. Found(ns, <<i, {}>>) = SourceRecords(ns, Reached(ns, i, {}))
    BY DEF Found
<1>9. Reached(ns, i, {}) = Ancestors(ns, i)
    <2>1. \A S : ClosedAround(ns, S, {}) <=> ParentClosed(ns, S)
        BY DEF ClosedAround, ParentClosed
    <2> QED
        BY <2>1 DEF Reached, Ancestors
<1> QED
    BY <1>6, <1>7, <1>8, <1>9 DEF compute_closure

(***************************************************************************)
(* The verifier's work-list and the provenance module's recursion return   *)
(* the same records, for every node of every accepted graph.               *)
(***************************************************************************)
THEOREM OneClosure == ClosureSpec => []ClosuresAgree
<1>1. InitClosure => WellFormed(nodes)
    BY DEF InitClosure
<1>2. WellFormed(nodes) /\ [NextClosure]_closureVars => WellFormed(nodes)'
    <2> SUFFICES ASSUME WellFormed(nodes), [NextClosure]_closureVars PROVE WellFormed(nodes)'
        OBVIOUS
    <2>1. nodes' = nodes
        BY DEF NextClosure, ClosureStep, ClosureReturned, PopSeen, PopNew, Return, closureVars
    <2> QED
        BY <2>1
<1>3. ClosureTypeOK /\ WellFormed(nodes) /\ ClosureExact => ClosuresAgree
    BY WalkFinds DEF ClosureTypeOK, ClosureExact, ClosuresAgree
<1> QED
    BY <1>1, <1>2, <1>3, ClosureTypeCorrect, ClosureCorrect, PTL DEF ClosureSpec

----------------------------------------------------------------------------
(* The independence check.                                                 *)

\* What the two walks share is what the graph says is behind both sides.
LEMMA SharedIsCommon ==
    ASSUME nodes \in Seq(NodeRecord), WellFormed(nodes),
           NEW e, HasComparison(e), Len(Sides(e)) = 2
    PROVE  Shared(e) = CommonRecords(e)
<1>0. Comparison[e] \in DefinedIds(nodes) /\ Dangling(nodes) = {}
    BY DEF HasComparison, WellFormed
<1> DEFINE c == Comparison[e]
<1>1. Sides(e) \in Seq(DefinedIds(nodes))
    <2>1. c \in DefinedIds(nodes)
        BY <1>0
    <2> HIDE DEF c
    <2>2. ParentsOf(nodes, c) \in Seq(DefinedIds(nodes))
        BY <1>0, <2>1, ParentsDefined
    <2> QED
        BY <2>2 DEF Sides, c
<1>2. Sides(e)[1] \in DefinedIds(nodes) /\ Sides(e)[2] \in DefinedIds(nodes)
    <2>1. 1 \in 1..Len(Sides(e)) /\ 2 \in 1..Len(Sides(e))
        OBVIOUS
    <2> QED
        BY <1>1, <2>1, ElementOfSeq
<1>3. /\ compute_closure(nodes, Sides(e)[1]) = SourceRecords(nodes, Ancestors(nodes, Sides(e)[1]))
      /\ compute_closure(nodes, Sides(e)[2]) = SourceRecords(nodes, Ancestors(nodes, Sides(e)[2]))
    BY <1>2, WalkFinds
<1> QED
    BY <1>3 DEF Shared, CommonRecords, SourceRecords

\* No step changes what is asked of the check, nor what the graph says of it.
LEMMA SameQuestion ==
    ASSUME UNCHANGED input
    PROVE  /\ nodes' = nodes /\ policy' = policy
           /\ NoClaim' <=> NoClaim
           /\ \A e : /\ Fault(e)' = Fault(e)
                     /\ Reused(e)' <=> Reused(e)
<1>1. nodes' = nodes /\ policy' = policy
    BY DEF input
<1>2. \A e : HasComparison(e)' <=> HasComparison(e)
    BY <1>1 DEF HasComparison
<1>3. \A e : Sides(e)' = Sides(e)
    BY <1>1 DEF Sides
<1>4. \A e : CommonRecords(e)' = CommonRecords(e)
    BY <1>1, <1>3 DEF CommonRecords
<1>5. \A e : Fault(e)' = Fault(e)
    BY <1>1, <1>2, <1>3, <1>4 DEF Fault
<1>6. \A e : Reused(e)' <=> Reused(e)
    BY <1>1, <1>4 DEF Reused
<1>7. NoClaim' <=> NoClaim
    BY <1>1 DEF NoClaim
<1> QED
    BY <1>1, <1>5, <1>6, <1>7

LEMMA InitPolicyEstablishes == InitPolicy => PolicyInv
<1> SUFFICES ASSUME InitPolicy PROVE PolicyInv
    OBVIOUS
<1>1. nodes \in Seq(NodeRecord) /\ WellFormed(nodes)
    BY ListsAssumption DEF InitPolicy
<1>2. PolicyTypeOK
    BY <1>1 DEF InitPolicy, PolicyTypeOK
<1>3. Judged = {} /\ Elements(claimed) = {} /\ Elements(correlated) = {}
    BY DEF InitPolicy, Judged, Elements
<1>4. ~NoClaim => policy \in Policy
    BY IndependenceAssumption DEF InitPolicy, NoClaim
<1>5. ~NoClaim => Len(policy.independent) \in Nat
    BY <1>4 DEF Policy
<1> QED
    BY <1>1, <1>2, <1>3, <1>5 DEF InitPolicy, PolicyInv, Refusals

\* What the loop reads of the policy.
LEMMA EdgeRead ==
    ASSUME PolicyInv, ~NoClaim, turn <= Len(policy.independent)
    PROVE  /\ policy \in Policy
           /\ Len(policy.independent) \in Nat
           /\ DOMAIN policy.independent = 1..Len(policy.independent)
           /\ turn \in DOMAIN policy.independent
           /\ edge \in Edges
<1>1. policy \in Policy
    BY IndependenceAssumption DEF PolicyInv, PolicyTypeOK, NoClaim
<1>2. policy.independent \in Seq(Edges) /\ turn \in Nat \ {0}
    BY <1>1 DEF Policy, PolicyInv, PolicyTypeOK
<1> QED
    BY <1>1, <1>2 DEF edge

LEMMA RefuseKeeps ==
    PolicyInv /\ (RefuseMissing \/ RefuseMalformed \/ RefuseShared) => PolicyInv'
<1> SUFFICES ASSUME PolicyInv, RefuseMissing \/ RefuseMalformed \/ RefuseShared PROVE PolicyInv'
    OBVIOUS
<1>1. /\ UNCHANGED <<input, turn, claimed, correlated>>
      /\ outcome = "running" /\ ~NoClaim /\ turn <= Len(policy.independent)
    BY DEF RefuseMissing, RefuseMalformed, RefuseShared, Refuse, Comparable, More
<1>2. outcome' \in Refusals /\ Fault(edge) = outcome'
    <2>1. CASE RefuseMissing
        BY <2>1 DEF RefuseMissing, Refuse, Refusals, Fault
    <2>2. CASE RefuseMalformed
        BY <2>2 DEF RefuseMalformed, Refuse, Refusals, Fault
    <2>3. CASE RefuseShared
        <3>1. Shared(edge) = CommonRecords(edge)
            BY <2>3, SharedIsCommon DEF RefuseShared, Comparable, PolicyInv, PolicyTypeOK
        <3>2. policy.prohibited /\ CommonRecords(edge) # {} /\ edge \notin policy.correlated
            BY <2>3, <3>1 DEF RefuseShared, Offends
        <3>3. HasComparison(edge) /\ Len(Sides(edge)) = 2 /\ outcome' = "UNDECLARED_SHARED_ANCESTRY"
            BY <2>3 DEF RefuseShared, Comparable, Refuse
        <3> QED
            BY <3>2, <3>3 DEF Fault, Refusals
    <2> QED
        BY <2>1, <2>2, <2>3
<1>3. /\ nodes' = nodes /\ policy' = policy /\ (NoClaim' <=> NoClaim)
      /\ \A e : (Fault(e)' = Fault(e)) /\ (Reused(e)' <=> Reused(e))
    BY <1>1, SameQuestion
<1>4. edge' = edge /\ Judged' = Judged
    BY <1>1, <1>3 DEF edge, Judged
<1>5. PolicyTypeOK'
    BY <1>1, <1>2, <1>3 DEF PolicyInv, PolicyTypeOK
<1>6. Elements(claimed)' = Elements(claimed) /\ Elements(correlated)' = Elements(correlated)
    BY <1>1 DEF Elements
<1>7. outcome' # "accept"
    BY <1>2 DEF Refusals
<1>8. Fault(edge)' = Fault(edge)
    BY <1>3, <1>4
<1>9. WellFormed(nodes)'
    BY <1>3 DEF PolicyInv
<1>10. {e \in Judged : Reused(e)}' = {e \in Judged : Reused(e)} /\ {e \in Judged : ~Reused(e)}' = {e \in Judged : ~Reused(e)}
    BY <1>3, <1>4
<1> QED
    BY <1>1, <1>2, <1>3, <1>5, <1>6, <1>7, <1>8, <1>9, <1>10 DEF PolicyInv


\* A comparison joins what the loop has been through.
LEMMA JudgedGrows ==
    ASSUME PolicyInv, ~NoClaim, turn <= Len(policy.independent), UNCHANGED input, turn' = turn + 1
    PROVE  /\ Judged' = Judged \cup {edge}
           /\ \A k \in 1..(turn' - 1) : k \in 1..(turn - 1) \/ k = turn
<1>1. turn \in Nat \ {0}
    BY DEF PolicyInv, PolicyTypeOK
<1>2. 1..(turn' - 1) = 1..(turn - 1) \cup {turn}
    BY <1>1
<1>3. policy' = policy
    BY DEF input
<1> QED
    BY <1>1, <1>2, <1>3 DEF Judged, edge

LEMMA ElementsAppend ==
    ASSUME NEW s \in Seq(Edges), NEW e \in Edges
    PROVE  Append(s, e) \in Seq(Edges) /\ Elements(Append(s, e)) = Elements(s) \cup {e}
<1>1. /\ Append(s, e) \in Seq(Edges)
      /\ Len(Append(s, e)) = Len(s) + 1
      /\ \A k \in 1..Len(s) : Append(s, e)[k] = s[k]
      /\ Append(s, e)[Len(s) + 1] = e
    BY AppendProperties
<1>2. Len(s) \in Nat /\ DOMAIN s = 1..Len(s) /\ DOMAIN Append(s, e) = 1..(Len(s) + 1)
    BY <1>1
<1>3. 1..(Len(s) + 1) = 1..Len(s) \cup {Len(s) + 1}
    BY <1>2
<1> QED
    BY <1>1, <1>2, <1>3 DEF Elements

LEMMA AdmitKeeps == PolicyInv /\ (AdmitCorrelated \/ AdmitIndependent) => PolicyInv'
<1> SUFFICES ASSUME PolicyInv, AdmitCorrelated \/ AdmitIndependent PROVE PolicyInv'
    OBVIOUS
<1>1. /\ UNCHANGED input /\ UNCHANGED outcome /\ turn' = turn + 1
      /\ outcome = "running" /\ ~NoClaim /\ turn <= Len(policy.independent)
      /\ HasComparison(edge) /\ Len(Sides(edge)) = 2
    BY DEF AdmitCorrelated, AdmitIndependent, Comparable, More
<1>2. /\ policy \in Policy /\ Len(policy.independent) \in Nat
      /\ edge \in Edges /\ turn \in Nat \ {0}
    BY <1>1, EdgeRead DEF PolicyInv, PolicyTypeOK
<1>3. Shared(edge) = CommonRecords(edge)
    BY <1>1, SharedIsCommon DEF PolicyInv, PolicyTypeOK
<1>4. Fault(edge) = "none"
    BY <1>1, <1>3 DEF Fault, AdmitCorrelated, AdmitIndependent, Offends
<1>5. Reused(edge) <=> AdmitCorrelated
    BY <1>3 DEF Reused, AdmitCorrelated, AdmitIndependent, Offends
<1>6. /\ nodes' = nodes /\ policy' = policy /\ (NoClaim' <=> NoClaim)
      /\ \A e : (Fault(e)' = Fault(e)) /\ (Reused(e)' <=> Reused(e))
    BY <1>1, SameQuestion
<1>7. /\ Judged' = Judged \cup {edge}
      /\ \A k \in 1..(turn' - 1) : k \in 1..(turn - 1) \/ k = turn
    BY <1>1, JudgedGrows
<1>8. claimed \in Seq(Edges) /\ correlated \in Seq(Edges)
    BY DEF PolicyInv, PolicyTypeOK
<1>9. /\ Append(claimed, edge) \in Seq(Edges)
      /\ Elements(Append(claimed, edge)) = Elements(claimed) \cup {edge}
      /\ Append(correlated, edge) \in Seq(Edges)
      /\ Elements(Append(correlated, edge)) = Elements(correlated) \cup {edge}
    BY <1>2, <1>8, ElementsAppend
<1>10. /\ Elements(claimed) = {e \in Judged : ~Reused(e)}
       /\ Elements(correlated) = {e \in Judged : Reused(e)}
    BY <1>1 DEF PolicyInv
<1>11. /\ {e \in Judged : Reused(e)}' = {e \in Judged \cup {edge} : Reused(e)}
       /\ {e \in Judged : ~Reused(e)}' = {e \in Judged \cup {edge} : ~Reused(e)}
    BY <1>6, <1>7
<1>12. /\ claimed' \in Seq(Edges) /\ correlated' \in Seq(Edges)
       /\ Elements(claimed') = {e \in Judged \cup {edge} : ~Reused(e)}
       /\ Elements(correlated') = {e \in Judged \cup {edge} : Reused(e)}
    <2>1. CASE AdmitCorrelated
        <3>1. claimed' = claimed /\ correlated' = Append(correlated, edge) /\ Reused(edge)
            BY <2>1, <1>5 DEF AdmitCorrelated
        <3> QED
            BY <3>1, <1>8, <1>9, <1>10
    <2>2. CASE ~AdmitCorrelated
        <3>1. claimed' = Append(claimed, edge) /\ correlated' = correlated /\ ~Reused(edge)
            BY <2>2, <1>5 DEF AdmitIndependent
        <3> QED
            BY <3>1, <1>8, <1>9, <1>10
    <2> QED
        BY <2>1, <2>2
<1>13. Elements(claimed)' = Elements(claimed') /\ Elements(correlated)' = Elements(correlated')
    BY DEF Elements
<1>14. PolicyTypeOK'
    BY <1>1, <1>2, <1>6, <1>12 DEF PolicyInv, PolicyTypeOK
<1>15. (\A k \in 1..(turn - 1) : Fault(policy.independent[k]) = "none")'
    <2> SUFFICES ASSUME NEW k \in 1..(turn' - 1) PROVE Fault(policy.independent[k]) = "none"
        BY <1>6
    <2>1. CASE k = turn
        BY <2>1, <1>4 DEF edge
    <2>2. CASE k \in 1..(turn - 1)
        BY <2>2, <1>1 DEF PolicyInv
    <2> QED
        BY <2>1, <2>2, <1>7
<1>16. turn' <= Len(policy'.independent) + 1
    BY <1>1, <1>2, <1>6
<1>17. outcome' \notin Refusals /\ outcome' # "accept"
    BY <1>1 DEF Refusals
<1>18. WellFormed(nodes)'
    BY <1>6 DEF PolicyInv
<1>19. (NoClaim => claimed = <<>> /\ correlated = <<>> /\ outcome \notin Refusals)'
    BY <1>1, <1>6
<1>20. (~NoClaim =>
         /\ turn <= Len(policy.independent) + 1
         /\ \A k \in 1..(turn - 1) : Fault(policy.independent[k]) = "none"
         /\ Elements(claimed) = {e \in Judged : ~Reused(e)}
         /\ Elements(correlated) = {e \in Judged : Reused(e)}
         /\ outcome \in Refusals => turn <= Len(policy.independent) /\ Fault(edge) = outcome
         /\ outcome = "accept" => turn > Len(policy.independent))'
    BY <1>11, <1>12, <1>13, <1>15, <1>16, <1>17
<1> QED
    BY <1>14, <1>18, <1>19, <1>20 DEF PolicyInv

LEMMA AcceptKeeps ==
    PolicyInv /\ (AcceptNoClaim \/ AcceptPolicy \/ UNCHANGED policyVars) => PolicyInv'
<1> SUFFICES ASSUME PolicyInv, AcceptNoClaim \/ AcceptPolicy \/ UNCHANGED policyVars PROVE PolicyInv'
    OBVIOUS
<1>1. UNCHANGED <<input, turn, claimed, correlated>>
    BY DEF AcceptNoClaim, AcceptPolicy, policyVars, input
<1>2. /\ nodes' = nodes /\ policy' = policy /\ (NoClaim' <=> NoClaim)
      /\ \A e : (Fault(e)' = Fault(e)) /\ (Reused(e)' <=> Reused(e))
    BY <1>1, SameQuestion
<1>3. edge' = edge /\ Judged' = Judged
    BY <1>1, <1>2 DEF edge, Judged
<1>4. \/ outcome' = outcome
      \/ outcome' = "accept" /\ (~NoClaim => turn > Len(policy.independent))
    BY DEF AcceptNoClaim, AcceptPolicy, policyVars
<1>5. PolicyTypeOK'
    BY <1>1, <1>2, <1>4 DEF PolicyInv, PolicyTypeOK
<1>6. Elements(claimed)' = Elements(claimed) /\ Elements(correlated)' = Elements(correlated)
    BY <1>1 DEF Elements
<1>7. Fault(edge)' = Fault(edge) /\ WellFormed(nodes)'
    BY <1>2, <1>3 DEF PolicyInv
<1>8. {e \in Judged : Reused(e)}' = {e \in Judged : Reused(e)} /\ {e \in Judged : ~Reused(e)}' = {e \in Judged : ~Reused(e)}
    BY <1>2, <1>3
<1>9. "accept" \notin Refusals
    BY DEF Refusals
<1> QED
    BY <1>1, <1>2, <1>3, <1>4, <1>5, <1>6, <1>7, <1>8, <1>9 DEF PolicyInv

\* The inductive invariant of the loop over the policy.
THEOREM PolicyInductive == PolicySpec => []PolicyInv
<1>1. InitPolicy => PolicyInv
    BY InitPolicyEstablishes
<1>2. PolicyInv /\ [NextPolicy]_policyVars => PolicyInv'
    BY RefuseKeeps, AdmitKeeps, AcceptKeeps DEF NextPolicy, PolicyStep, PolicyDecided
<1> QED
    BY <1>1, <1>2, PTL DEF PolicySpec

(***************************************************************************)
(* Under a policy that prohibits shared ancestry, what the check calls     *)
(* independent has no source record behind both of its sides, for every    *)
(* graph and every policy.                                                 *)
(***************************************************************************)
THEOREM ClaimsHold == PolicySpec => []ClaimsSupported
<1>1. PolicyInv => ClaimsSupported
    <2> SUFFICES ASSUME PolicyInv, NEW e \in Elements(claimed), policy.prohibited
                 PROVE  HasComparison(e) /\ CommonRecords(e) = {}
        BY DEF ClaimsSupported, PolicyInv
    <2>1. ~NoClaim
        BY DEF PolicyInv, Elements
    <2>2. e \in Judged /\ ~Reused(e)
        BY <2>1 DEF PolicyInv
    <2>3. Fault(e) = "none"
        BY <2>1, <2>2 DEF PolicyInv, Judged
    <2> QED
        BY <2>2, <2>3 DEF Fault, Reused
<1> QED
    BY <1>1, PolicyInductive, PTL

(***************************************************************************)
(* The check refuses a policy for its first fault and only for one, and    *)
(* sorts every comparison of a policy that it accepts.                     *)
(***************************************************************************)
THEOREM OutcomeJustified == PolicySpec => []OutcomeExact
<1>1. PolicyInv => OutcomeExact
    <2> SUFFICES ASSUME PolicyInv PROVE OutcomeExact
        OBVIOUS
    <2> DEFINE P == policy.independent
    <2>1. ASSUME outcome \in Refusals
          PROVE  \E k \in DOMAIN P : /\ Fault(P[k]) = outcome
                                     /\ \A j \in 1..(k - 1) : Fault(P[j]) = "none"
        <3>1. ~NoClaim /\ turn <= Len(P) /\ Fault(edge) = outcome
            BY <2>1 DEF PolicyInv
        <3>2. turn \in DOMAIN P /\ edge = P[turn]
            BY <3>1, EdgeRead DEF edge
        <3>3. \A j \in 1..(turn - 1) : Fault(P[j]) = "none"
            BY <3>1 DEF PolicyInv
        <3> QED
            BY <3>1, <3>2, <3>3
    <2>2. ASSUME outcome = "accept", ~NoClaim, NEW e \in Elements(P)
          PROVE  /\ Fault(e) = "none"
                 /\ e \in Elements(correlated) <=> Reused(e)
                 /\ e \in Elements(claimed) <=> e \notin Elements(correlated)
        <3>1. policy \in Policy
            BY <2>2, IndependenceAssumption DEF PolicyInv, PolicyTypeOK, NoClaim
        <3>2. P \in Seq(Edges) /\ turn \in Nat \ {0}
            BY <3>1 DEF Policy, PolicyInv, PolicyTypeOK
        <3>3. turn = Len(P) + 1
            BY <2>2, <3>2 DEF PolicyInv
        <3>4. DOMAIN P = 1..(turn - 1)
            BY <3>2, <3>3
        <3>5. e \in Judged
            BY <3>4 DEF Elements, Judged
        <3>6. Fault(e) = "none"
            BY <2>2, <3>5 DEF PolicyInv, Judged
        <3> QED
            BY <2>2, <3>5, <3>6 DEF PolicyInv
    <2> QED
        BY <2>1, <2>2 DEF OutcomeExact, Reused
<1> QED
    BY <1>1, PolicyInductive, PTL
=============================================================================
