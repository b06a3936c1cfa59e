------------------------ MODULE StoneSoupProvenance ------------------------
(***************************************************************************)
(* The ancestry graphs and independence policies that the Stone Soup       *)
(* emitters declare. The trackers tids and the compared pairs edges, four  *)
(* of each in the code, are parameters. An edge is [id, i, j].             *)
(***************************************************************************)
EXTENDS Integers, Sequences

LOCAL Seqs == INSTANCE SequencesExt

Node(i, type, parents) == [id |-> i, type |-> type, parents |-> parents]

Record(t)    == "source_record:" \o t
Detection(t) == "detection:det-" \o t
Tracked(t)   == "track:trk-" \o t
Compared(e)  == "comparison:" \o e

_comparison_nodes(edges) ==
    [k \in DOMAIN edges |->
        Node(Compared(edges[k].id), "declared_comparison", <<Tracked(edges[k].i), Tracked(edges[k].j)>>)]

\* A detection of a record, the feeders, and the track made of it and of them.
Traced(t, record, feeders) ==
    <<Node(Detection(t), "detection", <<record>>)>> \o feeders
      \o <<Node(Tracked(t), "local_track", <<Detection(t)>> \o [k \in DOMAIN feeders |-> feeders[k].id])>>

Own(t, feeders) == <<Node(Record(t), "source_record", <<>>)>> \o Traced(t, Record(t), feeders)

build_disjoint(tids, edges) ==
    Seqs!FlattenSeq([k \in DOMAIN tids |-> Own(tids[k], <<>>)]) \o _comparison_nodes(edges)

\* t2 is detected in the shared record; t1 has a record of its own and reaches
\* the shared one by a feeder.
build_duplicated_path(tids, edges) ==
    LET shared == Record("shared")
        feeder == Node("feeder:t1-secondary", "track_feeder", <<shared>>)
        of(t) == CASE t = "t2" -> Traced(t, shared, <<>>)
                   [] t = "t1" -> Own(t, <<feeder>>)
                   [] OTHER    -> Own(t, <<>>)
    IN <<Node(shared, "source_record", <<>>)>>
         \o Seqs!FlattenSeq([k \in DOMAIN tids |-> of(tids[k])]) \o _comparison_nodes(edges)

_independence_policy(edges, declared) ==
    [independent |-> [k \in DOMAIN edges |-> edges[k].id], prohibited |-> TRUE, correlated |-> declared]

\* Two radars; the fused track descends from both local tracks and is behind
\* no comparison.
FUSED_EDGES == <<[id |-> "kf1-kf2", i |-> "kf-1", j |-> "kf-2"]>>

_build_provenance ==
    [k \in 1..2 |-> Node(Record(<<"kf-1", "kf-2">>[k]), "source_record", <<>>)]
      \o Traced("kf-1", Record("kf-1"), <<>>) \o Traced("kf-2", Record("kf-2"), <<>>)
      \o <<Node("feeder:chernoff-fusion-input", "track_feeder", <<Tracked("kf-1"), Tracked("kf-2")>>),
           Node("fusion:chernoff-fused", "fusion_stage_track", <<"feeder:chernoff-fusion-input">>)>>
      \o _comparison_nodes(FUSED_EDGES)
=============================================================================
