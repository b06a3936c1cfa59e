------------------------- MODULE StoneSoupSnapshots -------------------------
(***************************************************************************)
(* The snapshots that the three Stone Soup emitters build over what the    *)
(* tracker measured: one value for all four trackers, or two positions of  *)
(* a fused pair. The value (100 in the code) and the places of the         *)
(* quantisation policy (6) are parameters, so that short decimals will do. *)
(* The emitters digest what they build and never run the generator.        *)
(***************************************************************************)
EXTENDS AdapterDerivation, Refinement, StoneSoupProvenance

CONSTANTS
    Values,       \* what all four trackers measured
    Positions,    \* the texts of what a fused pair measured
    Places        \* of the quantisation policy

Ancestry == INSTANCE AncestryGraph WITH Ids <- STRING, Types <- STRING, Lists <- {}, nodes <- <<>>

TRACKER_IDS == <<"t1", "t2", "t3", "t4">>
EDGES == <<[id |-> "e12", i |-> "t1", j |-> "t2"], [id |-> "e23", i |-> "t2", j |-> "t3"],
           [id |-> "e34", i |-> "t3", j |-> "t4"], [id |-> "e14", i |-> "t1", j |-> "t4"]>>

EmittedGraphs ==
    {build_disjoint(TRACKER_IDS, EDGES), build_duplicated_path(TRACKER_IDS, EDGES), _build_provenance}

\* A record is listed after its parents, so `visit` never finds a white one.
ParentsFirst(nodes) ==
    \A k \in DOMAIN nodes :
        \A i \in Ancestry!ParentSet(nodes, nodes[k].id) : \E l \in 1..(k - 1) : nodes[l].id = i

\* Decimals are measured; the verifier's limits (10,000 entries, 1,000
\* characters) let through the eight transformations of the four-cycle, the
\* graphs and the integers of a four-cycle's problem. A text that is no decimal
\* is no decimal of any length.
ASSUME EmitterAssumption ==
    /\ Values \subseteq Int
    /\ Positions \subseteq Text
    /\ Places \subseteq 0..MaxPlaces
    /\ MAX_SNAPSHOT_LIST_LENGTH \in Nat /\ 8 <= MAX_SNAPSHOT_LIST_LENGTH
    /\ \A nodes \in EmittedGraphs : Len(nodes) <= MAX_SNAPSHOT_LIST_LENGTH /\ ParentsFirst(nodes)
    /\ \A n \in -2..2 : parse_rational(<<n, 1>>)
    /\ NotDecimal \notin [negative : BOOLEAN, digits : Nat, fraction : Nat]

COHERENT_OFFSETS   == [t1 |-> 0, t2 |-> 1, t3 |-> 3, t4 |-> 2]
INCOHERENT_OFFSETS == [e12 |-> [t1 |-> 0, t2 |-> 1], e23 |-> [t2 |-> 0, t3 |-> 1],
                       e34 |-> [t3 |-> 0, t4 |-> 1], e14 |-> [t1 |-> 0, t4 |-> -2]]

\* (slip) The obstructing offset is looked up under the other end of its edge.
_offset_swapped(policy, edge, t) ==
    IF policy = "coherent" THEN COHERENT_OFFSETS[t]
    ELSE INCOHERENT_OFFSETS[edge.id][IF t = edge.i THEN edge.j ELSE edge.i]

_offset_for(policy, edge, t) ==
    IF policy = "coherent" THEN COHERENT_OFFSETS[t] ELSE INCOHERENT_OFFSETS[edge.id][t]

\* str(n).
Decimal(n) == [negative |-> n < 0, digits |-> Magnitude(n), fraction |-> 0]

\* What all the emitters put in; a track has one detection, of one source.
Snapshot(tids, states, places, comparisons) ==
    [closed |-> TRUE, stamped |-> TRUE, complete |-> TRUE, supported |-> TRUE, scenario |-> 1,
     position |-> places, transform |-> places, provenance |-> NoGraph, policy |-> "absent",
     sources    |-> [k \in DOMAIN tids |-> [id |-> tids[k]]],
     detections |-> [k \in DOMAIN tids |-> [id |-> tids[k], source |-> tids[k]]],
     tracks     |-> [k \in DOMAIN tids |-> [id |-> tids[k], state |-> <<states[k]>>, detections |-> {tids[k]}]],
     transformations |-> comparisons.transformations, edges |-> comparisons.edges,
     derived |-> {}, digest |-> NoDigest]

\* For each edge its two transformations, and the discrepancy computed from the
\* same track and offset values in integers.
build_transformations_and_edges(policy, value) ==
    [transformations |->
        [k \in 1..(2 * Len(EDGES)) |->
            LET edge == EDGES[(k + 1) \div 2]
                t == IF k % 2 = 1 THEN edge.i ELSE edge.j
            IN [id |-> k, edge |-> edge.id, track |-> t, offset |-> Decimal(_offset_for(policy, edge, t))]],
     edges |->
        [k \in DOMAIN EDGES |->
            [id |-> EDGES[k].id, source |-> EDGES[k].i, target |-> EDGES[k].j,
             discrepancy |-> Decimal((value + _offset_for(policy, EDGES[k], EDGES[k].j))
                                       - (value + _offset_for(policy, EDGES[k], EDGES[k].i)))]]]

build_snapshot(policy, value, places) ==
    Snapshot(TRACKER_IDS, [k \in DOMAIN TRACKER_IDS |-> Decimal(value)], places,
             build_transformations_and_edges(policy, value))

\* What the ancestry modules make of a graph and a policy: every comparison the
\* policy lists is of two closures without a common record, or declared.
Admitted(nodes, policy) ==
    \A k \in DOMAIN policy.independent :
        LET sides == Ancestry!ParentsOf(nodes, Compared(policy.independent[k]))
        IN \/ policy.independent[k] \in policy.correlated
           \/ Ancestry!compute_closure(nodes, sides[1]) \cap Ancestry!compute_closure(nodes, sides[2]) = {}

\* How deep `walk` nests that starts at a record: the longest chain from it.
Chain(nodes) ==
    LET chain[i \in Ancestry!DefinedIds(nodes)] ==
          LET behind == {chain[p] : p \in Ancestry!ParentSet(nodes, i)}
          IN 1 + (CHOOSE n \in behind \cup {0} : \A m \in behind : m <= n)
    IN chain

Nesting(nodes, policy) ==
    LET compared == {Compared(policy.independent[k]) : k \in DOMAIN policy.independent}
        sides    == UNION {Ancestry!ParentSet(nodes, i) : i \in compared}
    IN CHOOSE n \in {Chain(nodes)[i] : i \in sides} : \A i \in sides : Chain(nodes)[i] <= n

With(doc, nodes, policy) ==
    [doc EXCEPT !.provenance = [kind |-> IF Admitted(nodes, policy) THEN "disjoint" ELSE "shared",
                                records |-> Len(nodes), visit |-> 1, walk |-> Nesting(nodes, policy)],
                !.policy = "typed"]

build_disjoint_snapshot(value, places) ==
    With(build_snapshot("coherent", value, places),
         build_disjoint(TRACKER_IDS, EDGES), _independence_policy(EDGES, {}))

build_duplicated_path_snapshot(declared, value, places) ==
    With(build_snapshot("coherent", value, places),
         build_duplicated_path(TRACKER_IDS, EDGES), _independence_policy(EDGES, declared))

\* The artificial perturbation moves kf-2 alone.
_offsets_for(policy) == IF policy = "natural" THEN <<0, 0>> ELSE <<0, 10>>

\* The exact inverse of the conversion, or nothing.
_decimal_string_from_fraction(value, places) ==
    {[negative |-> value[1] < 0, digits |-> Magnitude(value[1]) * (10^places \div value[2]), fraction |-> places] :
        exact \in {v \in {value} : 10^places % v[2] = 0}}

\* The discrepancy is put together from quantised values, as the verifier does.
build_fused_snapshot(policy, x1, x2, places) ==
    LET converted(text) == to_exact_rational_independent(text, places)
        offset(k) == Decimal(_offsets_for(policy)[k])
        residue == Minus(Plus(converted(x2), converted(offset(2))), Plus(converted(x1), converted(offset(1))))
        comparisons(q) ==
          [transformations |-> <<[id |-> 1, edge |-> "kf1-kf2", track |-> "kf-1", offset |-> offset(1)],
                                 [id |-> 2, edge |-> "kf1-kf2", track |-> "kf-2", offset |-> offset(2)]>>,
           edges |-> <<[id |-> "kf1-kf2", source |-> "kf-1", target |-> "kf-2", discrepancy |-> q]>>]
    IN {With(Snapshot(<<"kf-1", "kf-2">>, <<x1, x2>>, places, comparisons(q)),
             _build_provenance, _independence_policy(FUSED_EDGES, {})) :
          q \in _decimal_string_from_fraction(residue, places)}

----------------------------------------------------------------------------
\* Everything the emitters emit, over what was measured.
CoherentSnapshots ==
    UNION {{build_snapshot("coherent", v, p), build_disjoint_snapshot(v, p),
            build_duplicated_path_snapshot({}, v, p), build_duplicated_path_snapshot({"e12"}, v, p)} :
              v \in Values, p \in Places}
ObstructedSnapshots == {build_snapshot("canonical_obstruction", v, p) : v \in Values, p \in Places}
FusedSnapshots ==
    UNION {build_fused_snapshot(policy, x1, x2, p) :
              policy \in {"natural", "artificial_perturbation"}, x1 \in Positions, x2 \in Positions, p \in Places}

(***************************************************************************)
(* What the emitters declare is what the verifier reconstructs, though no  *)
(* emitter derives a problem, and nothing they emit is rejected (a fused   *)
(* pair can be, once somebody derives a claim for it that is too long).    *)
(* Under the coherent policy, whatever the ancestry declared with it, the  *)
(* offsets themselves are a repair; the canonical obstruction is the       *)
(* coarse complex of the refinement witnesses with its residue, row for    *)
(* row and column for column; a fused pair, perturbed or not, is never     *)
(* obstructed.                                                             *)
(***************************************************************************)
EmittedAsDeclared ==
    verdict # "none" /\ ~altered =>
      LET p == Reconstructed(document)
          emitted(snapshots) == [document EXCEPT !.derived = {}, !.digest = NoDigest] \in snapshots
      IN /\ emitted(CoherentSnapshots) =>
              /\ Accepted /\ p.D = delta0(COARSE)
              /\ mat_vec(p.D, [k \in DOMAIN TRACKER_IDS |-> <<COHERENT_OFFSETS[TRACKER_IDS[k]], 1>>]) = p.r
         /\ emitted(ObstructedSnapshots) =>
              Accepted /\ p = Problem(delta0(COARSE), COARSE.residue)
         /\ emitted(FusedSnapshots) => (Accepted \/ ClaimTooLong) /\ Solvable(p.D, p.r)
=============================================================================
