----------------------- MODULE MCEvidenceIndependence -----------------------
EXTENDS EvidenceIndependence, StoneSoupProvenance, SequencesExt

CONSTANTS s1, s2, t1, t2, c1, c2, e1, e2, none

\* The graphs of the Stone Soup emitters: of the four-cycle the one edge whose
\* ancestry differs from variant to variant, and the fused pair.
Tids  == <<"t1", "t2">>
Path  == <<[id |-> "e12", i |-> "t1", j |-> "t2"]>>
Soups == {build_disjoint(Tids, Path), build_duplicated_path(Tids, Path), _build_provenance}

MCIds      == {s1, s2, t1, t2, c1, c2} \cup UNION {DefinedIds(soup) : soup \in Soups}
MCTypes    == {"source_record", "track", "declared_comparison", "detection", "local_track",
               "track_feeder", "fusion_stage_track"}
MCEdges    == {e1, e2, "e12", "kf1-kf2"}
MCComparison ==
    [e \in MCEdges |-> CASE e = e1 -> c1 [] e = e2 -> c2 [] OTHER -> Compared(e)]

Rec(i, t, ps) == [id |-> i, type |-> t, parents |-> ps]

\* Two tracks over two source records, one of which may descend from the other
\* track; comparisons with two sides, with one, with the same side twice, of
\* another type, or missing.
Origins  == {<<>>, <<s1>>, <<s2>>, <<s1, s2>>}
Second   == Origins \cup {<<t1>>, <<s2, t1>>}
MCSides  == {<<t1, t2>>, <<t2, t1>>, <<t1, t1>>, <<t1>>, <<t1, s2>>}

MCLists ==
    {<<Rec(c1, "declared_comparison", p), Rec(t1, "track", x), Rec(t2, "track", y),
       Rec(s1, "source_record", <<>>), Rec(s2, "source_record", <<>>),
       Rec(c2, tc, q)>> :
        p \in MCSides, q \in {<<t1, t2>>, <<t2>>}, x \in Origins, y \in Second,
        tc \in {"declared_comparison", "track"}}
    \cup {<<>>, <<Rec(s1, "source_record", <<>>)>>} \cup Soups

MCPolicies ==
    [independent : SeqOf({e1, e2}, 2), prohibited : BOOLEAN, correlated : SUBSET {e1, e2}]
    \cup {_independence_policy(Path, {}), _independence_policy(Path, {"e12"}),
          _independence_policy(FUSED_EDGES, {})}
=============================================================================
