--------------------------- MODULE AncestryGraph ---------------------------
(***************************************************************************)
(* The evidence-ancestry graph of a snapshot: the list of node records the *)
(* parsers hand to the structural checks, and what those checks mean.      *)
(* `Acyclic` and `Ancestors` are stated without recursion, so that they    *)
(* say nothing about how any of the three walks in the code goes about it. *)
(***************************************************************************)
EXTENDS Integers, Sequences

CONSTANTS
    Ids,     \* the identifiers that may occur in a record
    Types,   \* the node types; "source_record" is the one closures collect
    Lists    \* the lists of node records a snapshot may carry

\* One parsed record (the fields that no check reads are left out).
NodeRecord == [id : Ids, type : Types, parents : Seq(Ids)]

ASSUME ListsAssumption == Lists \subseteq Seq(NodeRecord)

VARIABLE nodes   \* the list that a check is given; no step assigns it

----------------------------------------------------------------------------
\* The ids defined by a list, and `by_id`: in a list without duplicates the
\* dict has exactly one record for each of them.
DefinedIds(ns) == {ns[k].id : k \in DOMAIN ns}
ById(ns, i)    == ns[CHOOSE k \in DOMAIN ns : ns[k].id = i]
ParentsOf(ns, i) == ById(ns, i).parents
ParentSet(ns, i) ==
    {ParentsOf(ns, i)[k] : k \in DOMAIN ParentsOf(ns, i)}

Duplicates(ns) ==
    {ns[k].id : k \in {m \in DOMAIN ns :
                            \E l \in 1..(m - 1) : ns[l].id = ns[m].id}}

Dangling(ns) ==
    (UNION {{ns[k].parents[j] : j \in DOMAIN ns[k].parents} : k \in DOMAIN ns})
        \ DefinedIds(ns)

----------------------------------------------------------------------------
\* No set of nodes feeds on itself: each non-empty set has a member with no
\* parent in the set. For a finite graph this is the absence of cycles.
Founders(ns, S) == {x \in S : ParentSet(ns, x) \cap S = {}}
Wellfounded(ns, U) == \A S \in SUBSET U : S # {} => Founders(ns, S) # {}

Acyclic(ns) == Wellfounded(ns, DefinedIds(ns))

WellFormed(ns) ==
    /\ Duplicates(ns) = {}
    /\ Dangling(ns) = {}
    /\ Acyclic(ns)

\* i and everything its parent links lead to: what every parent-closed set
\* that holds i has in common.
ParentClosed(ns, S) == \A x \in S : ParentSet(ns, x) \subseteq S
Ancestors(ns, i) ==
    {x \in DefinedIds(ns) :
        \A S \in SUBSET DefinedIds(ns) :
            i \in S /\ ParentClosed(ns, S) => x \in S}

SourceRecords(ns, S) == {x \in S : ById(ns, x).type = "source_record"}

----------------------------------------------------------------------------
(* The source records behind a node, as the provenance check computes them *)
(* (tracking_adapter_provenance.compute_closure): `walk` calls itself      *)
(* along every path and stops at an id it is already inside.               *)

Walk(ns) ==
    LET walk[call \in DefinedIds(ns) \X SUBSET DefinedIds(ns)] ==
          LET nid == call[1]
              visiting == call[2]
          IN IF nid \in visiting
               THEN {}
               ELSE SourceRecords(ns, {nid})
                      \cup UNION {walk[<<p, visiting \cup {nid}>>] : p \in ParentSet(ns, nid)}
    IN walk

compute_closure(ns, i) == Walk(ns)[<<i, {}>>]
=============================================================================
