------------------------ MODULE MCAdapterDerivation ------------------------
EXTENDS StoneSoupSnapshots

CONSTANTS s1, d1, a, b, c, ab, bc, garbled, placeholder

\* A text of n / 10^k.
T(n, k) == [negative |-> n < 0, digits |-> Magnitude(n), fraction |-> k]

Track(t, x) == [id |-> t, state |-> <<x>>, detections |-> {d1}]
Compare(e, i, j, x) == [id |-> e, source |-> i, target |-> j, discrepancy |-> x]
Xf(n, e, t, x) == [id |-> n, edge |-> e, track |-> t, offset |-> x]

\* Two edges over three tracks: x is the state of b, o its offset on both edges,
\* z the offset of c, q both discrepancies, p the places of a state.
Doc(x, o, z, q, p) ==
    [closed |-> TRUE, stamped |-> TRUE, complete |-> TRUE, supported |-> TRUE,
     scenario |-> 1, position |-> p, transform |-> 1,
     provenance |-> NoGraph, policy |-> "absent",
     sources |-> <<[id |-> s1]>>, detections |-> <<[id |-> d1, source |-> s1]>>,
     tracks |-> <<Track(a, T(1, 0)), Track(b, x), Track(c, T(-5, 1))>>,
     edges |-> <<Compare(ab, a, b, q), Compare(bc, c, b, q)>>,
     transformations |-> <<Xf(1, ab, a, T(0, 0)), Xf(2, ab, b, o), Xf(3, bc, b, o),
                           Xf(4, bc, c, z)>>,
     derived |-> {}, digest |-> NoDigest]

\* 0.25 and 0.35 round to 0.2 and 0.4 at one place; 99.96 needs four digits.
Texts == {T(25, 2), T(-35, 2), T(2, 0), garbled}
Sound ==
    {Doc(x, o, z, q, p) :
        x \in Texts \cup {T(9996, 2)}, o \in {T(0, 0), T(-5, 1), garbled}, z \in {T(15, 1), T(1, 0)},
        q \in {T(1, 0), T(-13, 1), T(-14, 1), T(-1, 0), T(-8, 1)}, p \in {0, 1}}

Base  == Doc(T(2, 0), T(0, 0), T(15, 1), T(1, 0), 1)

\* -113/100 is two characters too long for a claim.
LongClaim == Doc(T(-13, 2), T(0, 0), T(15, 1), T(-113, 2), 2)

\* The state of b is 100.0 at one place, which the generator's precision forbids.
TooPrecise == Doc(T(9996, 2), T(0, 0), T(15, 1), T(99, 0), 1)

Graph(kind, records, visit, walk) ==
    [kind |-> kind, records |-> records, visit |-> visit, walk |-> walk]
Flaws ==
    {[Base EXCEPT !.closed = FALSE], [Base EXCEPT !.stamped = FALSE],
     [Base EXCEPT !.complete = FALSE], [Base EXCEPT !.supported = FALSE],
     [Base EXCEPT !.scenario = 2], LongClaim, TooPrecise,
     [Base EXCEPT !.provenance = Graph("malformed", 2, 2, 0)],
     [Base EXCEPT !.provenance = Graph("malformed", 4, 4, 0)],
     [Base EXCEPT !.provenance = Graph("disjoint", 4, 4, 0)],
     [Base EXCEPT !.provenance = Graph("disjoint", 4, 4, 4), !.policy = "mistyped"],
     [Base EXCEPT !.provenance = Graph("disjoint", 17, 3, 3), !.policy = "typed"],
     [Base EXCEPT !.provenance = Graph("disjoint", 18, 1, 3), !.policy = "typed"],
     [Base EXCEPT !.provenance = Graph("shared", 9, 1, 3), !.policy = "typed"],
     [Base EXCEPT !.provenance = Graph("disjoint", 9, 1, 3), !.policy = "mistyped"],
     [Base EXCEPT !.detections[1].source = d1], [Base EXCEPT !.tracks[1].detections = {s1}],
     [Base EXCEPT !.tracks[1].detections = {}], [Base EXCEPT !.tracks[3].state = <<>>],
     [Base EXCEPT !.tracks[2].id = a], [Base EXCEPT !.edges[2].id = ab],
     [Base EXCEPT !.edges[1].target = a], [Base EXCEPT !.edges[1].source = d1],
     [Base EXCEPT !.transformations[2].id = 1], [Base EXCEPT !.transformations[2].track = c],
     [Base EXCEPT !.transformations[2].edge = s1], [Base EXCEPT !.transformations = SubSeq(@, 1, 3)],
     [Base EXCEPT !.transformations = Append(@, Xf(5, ab, a, T(0, 0)))],
     [Base EXCEPT !.sources = [k \in 1..18 |-> [id |-> <<k>>]], !.detections[1].source = <<1>>]}

\* One edge: the third track is on no edge, and may be anything.
Short(doc) == [doc EXCEPT !.edges = SubSeq(@, 1, 1), !.transformations = SubSeq(@, 1, 2)]
Spare == {Short(Base), [Short(Base) EXCEPT !.tracks[3].state = <<>>],
          [Short(Base) EXCEPT !.tracks[3].state = <<garbled>>],
          [Short(Base) EXCEPT !.tracks = SubSeq(@, 1, 2)],
          [Short(Base) EXCEPT !.edges = <<>>, !.transformations = <<>>]}

MCPositions == {T(25, 2), T(-35, 2)}

MCDrafts ==
    Sound \cup Flaws \cup Spare \cup CoherentSnapshots \cup ObstructedSnapshots \cup FusedSnapshots
MCCoefficients == 0..9999
=============================================================================
