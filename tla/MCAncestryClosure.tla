------------------------- MODULE MCAncestryClosure -------------------------
EXTENDS AncestryClosure, SequencesExt

CONSTANTS a, b, c, d

MCIds   == {a, b, c, d}
MCTypes == {"source_record", "track"}

Rec(i, t, ps) == [id |-> i, type |-> t, parents |-> ps]

\* Four nodes: a and b with up to two parents (diamonds, repeated parents), c
\* and d with up to one; every choice of types. WellFormed keeps the acyclic.
MCLists ==
    {<<Rec(a, "track", w), Rec(b, tb, x), Rec(c, tc, y), Rec(d, "source_record", z)>> :
        w \in SeqOf({b, c, d}, 2), x \in SeqOf({a, c, d}, 2),
        y \in SeqOf({b, d}, 1), z \in SeqOf({a, c}, 1),
        tb \in MCTypes, tc \in MCTypes}
============================================================================
