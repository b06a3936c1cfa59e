-------------------------- MODULE MCAncestryCycle --------------------------
EXTENDS AncestryCycle, SequencesExt

CONSTANTS a, b, c, d

MCIds   == {a, b, c, d}
MCTypes == {"track"}

Rec(i, ps) == [id |-> i, type |-> "track", parents |-> ps]

\* Every graph on three nodes whose nodes have at most two parents, in either
\* order and with repetition, d being undefined; all chains, rings and forests
\* on four; and every list of at most two records, duplicate ids included.
Parents3 == SeqOf({a, b, c}, 2) \cup {<<d>>, <<b, d>>}
Parents4 == {<<>>} \cup {<<x>> : x \in MCIds}
MCLists ==
    {<<Rec(a, x), Rec(b, y), Rec(c, z)>> : x \in Parents3, y \in Parents3, z \in Parents3}
    \cup {<<Rec(a, w), Rec(b, x), Rec(c, y), Rec(d, z)>> :
             w \in Parents4, x \in Parents4, y \in Parents4, z \in Parents4}
    \cup SeqOf({Rec(i, ps) : i \in {a, b}, ps \in SeqOf({a, b}, 2)}, 2)

=============================================================================
