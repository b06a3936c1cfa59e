------------------------- MODULE MCAdapterPipeline -------------------------
EXTENDS AdapterPipeline, SequencesExt

CONSTANTS s1, d1, a, b, c, ab, bc, ac, garbled

T(n) == [negative |-> n < 0, digits |-> Magnitude(n), fraction |-> 0]

Track(t, x) == [id |-> t, state |-> <<x>>, detections |-> {d1}]
Edge(e, i, j, x) == [id |-> e, source |-> i, target |-> j, discrepancy |-> x]
Xf(n, e, t, x) == [id |-> n, edge |-> e, track |-> t, offset |-> x]

Sealed(doc) == [doc EXCEPT !.digest = compute_payload_digest(doc)]

\* A triangle over states 0, 1, 1; the only offset is w, on the edge ac. With
\* w = 0 the states repair the problem, with w = -1 the loop does not close.
Triangle(w) ==
    Sealed([closed |-> TRUE, stamped |-> TRUE, complete |-> TRUE, supported |-> TRUE,
            scenario |-> 1, position |-> 1, transform |-> 1,
            provenance |-> NoGraph, policy |-> "absent",
            sources |-> <<[id |-> s1]>>, detections |-> <<[id |-> d1, source |-> s1]>>,
            tracks |-> <<Track(a, T(0)), Track(b, T(1)), Track(c, T(1))>>,
            edges |-> <<Edge(ab, a, b, T(1)), Edge(bc, b, c, T(0)), Edge(ac, a, c, T(1 + w))>>,
            transformations |->
              <<Xf(1, ab, a, T(0)), Xf(2, ab, b, T(0)), Xf(3, bc, b, T(0)), Xf(4, bc, c, T(0)),
                Xf(5, ac, a, T(0)), Xf(6, ac, c, T(w))>>,
            derived |-> {}, digest |-> <<>>])

Good == Triangle(0)

\* A graph of six records, with these closures, this deep for `walk`.
Graph(kind, walk) == [kind |-> kind, records |-> 6, visit |-> 1, walk |-> walk]

\* Only the first edge; c is on none, and has a state that is no decimal.
Spare ==
    Sealed([Good EXCEPT !.edges = SubSeq(@, 1, 1), !.transformations = SubSeq(@, 1, 2),
                        !.tracks[3].state = <<garbled>>])

MCDocuments ==
    {Good, Triangle(-1),
     [Good EXCEPT !.scenario = 2],
     [Good EXCEPT !.position = 0],
     Sealed([Good EXCEPT !.edges = Reverse(@)]),
     Sealed([Good EXCEPT !.tracks[1].id = b, !.tracks[2].id = a, !.edges[1].source = b,
                         !.edges[1].target = a, !.edges[2].source = a, !.edges[3].source = b,
                         !.transformations[1].track = b, !.transformations[2].track = a,
                         !.transformations[3].track = a, !.transformations[5].track = b]),
     [Good EXCEPT !.digest = Triangle(-1).digest],
     Sealed([Good EXCEPT !.provenance = Graph("shared", 3), !.policy = "typed"]),
     Sealed([Good EXCEPT !.provenance = Graph("shared", 3)]),
     Sealed([Good EXCEPT !.provenance = Graph("disjoint", 3), !.policy = "mistyped"]),
     Sealed([Good EXCEPT !.provenance = Graph("disjoint", 3), !.policy = "typed"]),
     Sealed([Good EXCEPT !.provenance = Graph("disjoint", 4), !.policy = "typed"]),
     Spare}

MCProblems == {Reconstructed(doc) : doc \in {d \in MCDocuments : verify_snapshot_doc(d)}}
MCEntries  == {<<-1, 1>>, <<0, 1>>, <<1, 1>>}
=============================================================================
