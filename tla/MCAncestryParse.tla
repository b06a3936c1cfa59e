-------------------------- MODULE MCAncestryParse --------------------------
EXTENDS AncestryParse, SequencesExt

CONSTANTS a, b, c, d

MCIds   == {a, b, c, d}
MCTypes == {"track"}

Rec(i, ps) == [id |-> i, type |-> "track", parents |-> ps]

\* All graphs on three nodes with at most two parents each, all chains and
\* rings on four (deeper than MaxDepth), dangling parents and duplicate ids.
Parents3 == SeqOf({a, b, c}, 2) \cup {<<d>>, <<b, d>>}
Parents4 == {<<>>} \cup {<<x>> : x \in MCIds}
MCLists ==
    {<<Rec(a, x), Rec(b, y), Rec(c, z)>> : x \in Parents3, y \in Parents3, z \in Parents3}
    \cup {<<Rec(a, w), Rec(b, x), Rec(c, y), Rec(d, z)>> :
             w \in Parents4, x \in Parents4, y \in Parents4, z \in Parents4}
    \cup SeqOf({Rec(i, ps) : i \in {a, b}, ps \in SeqOf({a, b}, 2)}, 2)
============================================================================
