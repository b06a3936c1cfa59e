--------------------------- MODULE AncestryParse ---------------------------
(***************************************************************************)
(* The snapshot parser's own check of the ancestry graph                   *)
(* (tracking_adapter_format._validate_ancestry_graph): the first offence   *)
(* raises, and cycles are found by `visit`, which calls itself. A frame is *)
(* a call in progress; `path` is the list the calls hand down. The calls   *)
(* nest as deep as the graph is, and the interpreter allows MaxDepth.      *)
(***************************************************************************)
EXTENDS AncestryColouring

CONSTANT MaxDepth   \* the nesting of `visit` at which RecursionError is raised

ASSUME MaxDepthAssumption == MaxDepth \in Nat \ {0}

VARIABLES
    at,        \* the position of the pass in progress over `nodes`
    phase,     \* "ids", "parents", "visit" or "done"
    path,      \* the path of the innermost call
    raised     \* the error that the caller sees, and the ids it names

parseVars == <<nodes, at, phase, color, stack, path, raised>>

Errors == {"duplicate", "dangling", "cycle", "recursion"}

Nothing == [error |-> "none", trace |-> <<>>]

InitParse ==
    /\ nodes \in Lists
    /\ at = 1
    /\ phase = "ids"
    /\ color = AllWhite
    /\ stack = <<>>
    /\ path = <<>>
    /\ raised = Nothing

Raise(error, trace) ==
    /\ raised' = [error |-> error, trace |-> trace]
    /\ phase' = "done"

\* One pass of a `for node in nodes` loop ends and the next begins.
NextPhase(from, to) ==
    /\ phase = from
    /\ at > Len(nodes)
    /\ phase' = to
    /\ at' = 1
    /\ UNCHANGED <<nodes, color, stack, path, raised>>

CheckId ==
    /\ phase = "ids"
    /\ at <= Len(nodes)
    /\ IF \E l \in 1..(at - 1) : nodes[l].id = nodes[at].id
         THEN Raise("duplicate", <<nodes[at].id>>) /\ UNCHANGED at
         ELSE at' = at + 1 /\ UNCHANGED <<phase, raised>>
    /\ UNCHANGED <<nodes, color, stack, path>>

\* The parents of a record are looked up in order: the first unknown raises.
CheckParents ==
    /\ phase = "parents"
    /\ at <= Len(nodes)
    /\ LET ps      == nodes[at].parents
           unknown == {j \in DOMAIN ps : ps[j] \notin DefinedIds(nodes)}
       IN IF unknown # {}
            THEN /\ Raise("dangling", <<ps[CHOOSE j \in unknown : \A l \in unknown : j <= l]>>)
                 /\ UNCHANGED at
            ELSE at' = at + 1 /\ UNCHANGED <<phase, raised>>
    /\ UNCHANGED <<nodes, color, stack, path>>

\* (slip) The limit is met one call early.
CallTooStrict(i, suspended, newPath) ==
    IF Len(suspended) + 1 >= MaxDepth
      THEN Raise("recursion", newPath) /\ UNCHANGED <<color, stack, path>>
      ELSE /\ Enter(i, suspended)
           /\ path' = newPath
           /\ UNCHANGED <<phase, raised>>

\* visit(i, path): either the interpreter refuses the call, or it begins.
Call(i, suspended, newPath) ==
    IF Len(suspended) >= MaxDepth
      THEN Raise("recursion", newPath) /\ UNCHANGED <<color, stack, path>>
      ELSE /\ Enter(i, suspended)
           /\ path' = newPath
           /\ UNCHANGED <<phase, raised>>

Visit ==
    /\ phase = "visit"
    /\ stack = <<>>
    /\ at <= Len(nodes)
    /\ at' = at + 1
    /\ LET i == nodes[at].id IN
         IF color[i] = "WHITE"
           THEN Call(i, <<>>, <<i>>)
           ELSE UNCHANGED <<phase, color, stack, path, raised>>
    /\ UNCHANGED nodes

RaiseCycle ==
    /\ phase = "visit"
    /\ AtParent("GRAY")
    /\ Raise("cycle", Append(path, Parent))
    /\ UNCHANGED <<nodes, at, color, stack, path>>

Recurse ==
    /\ phase = "visit"
    /\ AtParent("WHITE")
    /\ Call(Parent, Advanced, Append(path, Parent))
    /\ UNCHANGED <<nodes, at>>

LookOver ==
    /\ phase = "visit"
    /\ AtParent("BLACK")
    /\ Pass
    /\ UNCHANGED <<nodes, at, phase, path, raised>>

\* (slips) The path is one list that `visit` appends to and nobody pops; the
\* node stays gray.
EndSharedPath ==
    /\ phase = "visit"
    /\ AtEnd
    /\ Leave
    /\ UNCHANGED <<nodes, at, phase, path, raised>>
EndGray ==
    /\ phase = "visit"
    /\ AtEnd
    /\ stack' = SubSeq(stack, 1, Len(stack) - 1)
    /\ path' = SubSeq(path, 1, Len(path) - 1)
    /\ UNCHANGED <<nodes, at, phase, color, raised>>

\* The innermost call ends; its caller's path is one node shorter.
End ==
    /\ phase = "visit"
    /\ AtEnd
    /\ Leave
    /\ path' = SubSeq(path, 1, Len(path) - 1)
    /\ UNCHANGED <<nodes, at, phase, raised>>

\* The last call has returned: the function returns None.
EndParse ==
    /\ phase = "visit"
    /\ stack = <<>>
    /\ at > Len(nodes)
    /\ phase' = "done"
    /\ UNCHANGED <<nodes, at, color, stack, path, raised>>

ParseStep ==
    \/ CheckId \/ NextPhase("ids", "parents")
    \/ CheckParents \/ NextPhase("parents", "visit")
    \/ Visit \/ RaiseCycle \/ Recurse \/ LookOver \/ End \/ EndParse

Parsed    == phase = "done" /\ UNCHANGED parseVars
NextParse == ParseStep \/ Parsed

ParseSpec     == InitParse /\ [][NextParse]_parseVars
FairParseSpec == ParseSpec /\ WF_parseVars(ParseStep)

----------------------------------------------------------------------------
\* `color` has exactly the defined ids, so that `visit` never fails to find one,
\* and the path handed down is made of them.
ParseTypeOK ==
    /\ nodes \in Seq(NodeRecord)
    /\ at \in 1..(Len(nodes) + 1)
    /\ phase \in {"ids", "parents", "visit", "done"}
    /\ ColouringType
    /\ path \in Seq(Ids)
    /\ raised \in [error : Errors \cup {"none"}, trace : Seq(Ids)]

(***************************************************************************)
(* The list printed with "ancestry graph contains a cycle" is a walk along *)
(* parent links whose last node occurs in it before: the cycle the message *)
(* speaks of is there, though the walk may lead up to it first. (The       *)
(* variables have their types.)                                            *)
(***************************************************************************)
TraceIsLasso ==
    /\ ParseTypeOK
    /\ raised.error = "cycle" =>
         LET t == raised.trace IN
             /\ \A k \in 1..(Len(t) - 1) : t[k + 1] \in ParentSet(nodes, t[k])
             /\ \E k \in 1..(Len(t) - 1) : t[k] = t[Len(t)]

(***************************************************************************)
(* RecursionError, which no caller of the parser expects, needs a graph    *)
(* that has a chain of more than MaxDepth distinct nodes.                  *)
(***************************************************************************)
RecursionNeedsDepth ==
    raised.error = "recursion" =>
        LET t == raised.trace IN
            /\ Len(t) = MaxDepth + 1
            /\ \A k \in 1..MaxDepth : t[k + 1] \in ParentSet(nodes, t[k])
            /\ \A k, l \in DOMAIN t : t[k] = t[l] => k = l

\* Which answer the parser gives, as the abstract check sees it.
answer ==
    IF phase # "done" THEN "pending"
    ELSE IF raised.error = "none" THEN "accept"
    ELSE IF raised.error = "recursion" THEN "gave_up" ELSE "reject"

ParserDecision == INSTANCE AncestryDecision WITH MayGiveUp <- TRUE, verdict <- answer

\* The parser implements the abstract check: it answers once, and an answer
\* that is not RecursionError is right.
ParserDecides == ParserDecision!Spec

----------------------------------------------------------------------------
\* Two passes of the list leave it without duplicates and dangling parents.
ParsePhases ==
    /\ phase # "done" => raised = Nothing
    /\ phase \in {"ids", "parents"} => stack = <<>> /\ path = <<>> /\ color = AllWhite
    /\ phase = "ids" =>
         \A k, l \in 1..(at - 1) : nodes[k].id = nodes[l].id => k = l
    /\ phase \in {"parents", "visit"} => Duplicates(nodes) = {}
    /\ phase = "parents" =>
         \A k \in 1..(at - 1) : \A j \in DOMAIN nodes[k].parents :
            nodes[k].parents[j] \in DefinedIds(nodes)

\* The path handed down is the nodes of the calls in progress, no more of them
\* than the interpreter allows.
PathOfCalls ==
    phase = "visit" =>
        /\ Coloured /\ LookedAt(at - 1)
        /\ Len(stack) <= MaxDepth
        /\ path = [k \in 1..Len(stack) |-> stack[k].node]

\* The answer is right, where the parser does not give up.
AnswerExact ==
    /\ answer = "accept" => WellFormed(nodes)
    /\ answer = "reject" => ~WellFormed(nodes)

\* The inductive invariant.
ParseInv ==
    ParseTypeOK /\ ParsePhases /\ PathOfCalls /\ TraceIsLasso /\ RecursionNeedsDepth /\ AnswerExact
============================================================================
