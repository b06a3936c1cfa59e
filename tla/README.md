# TLA+ models of the regional obstruction calculus

This directory models the executable part of the repository: the programs that
decide whether a linear system over the rationals can be repaired or carries a
separator, the certificates they exchange, the tracking adapter that turns a
snapshot of tracks into such a system, and the older chain that computes a residue
from seam constants, certifies its obstruction and follows it through
refinements. The Rocq development (`src/rocq`) proves
the mathematics; the models here are about what the programs do with it:
searches that keep state, files that others replace, two implementations of one
rule that have to agree.

## The system

| Part | Source | State | Operations |
|---|---|---|---|
| Ancestry structure check | `tracking_adapter_verifier._verify_ancestry_graph`, `tracking_adapter_format._validate_ancestry_graph` | colours, explicit stack of iterators / call stack and path | duplicate ids, dangling parents, cycles |
| Ancestry closure | `tracking_adapter_verifier.compute_ancestry_closure`, `tracking_adapter_provenance.compute_closure` | work list and visited set / set of the current path | source records reachable from a node |
| Independence check | `tracking_adapter_provenance.check_independence` | result lists, first refusal | one comparison at a time |
| Decimal canonicalisation | `tracking_adapter_canon` | none | two roundings and their comparison |
| Rational linear algebra | `rational_linear_algebra`, `r21_repair_or_separator` | augmented matrix, pivot row and columns | solve, null space, repair or separator |
| R21 certificates | `r21_certificate_{format,emitter,checker}`, `ocaml/r21_*.ml` | two files | emit, check (twice, in two languages) |
| Adapter snapshot, generator, verifier | `tracking_adapter_{format,generator,verifier}` | a snapshot document | derive `(D, r)` twice, independently |
| Adapter certificate and chain | `tracking_adapter_certificate` | three files | emit, verify-chain |
| Pipeline | `run_tracking_adapter_pipeline` | tracked files, temporary directory | seven stages for each of two scenarios |
| Stone Soup layer | `tracking_adapter_stonesoup_*` | a snapshot document | build graphs, policies, offsets and snapshots from a tracker's output |
| Regional algebra and residue | `regional_composition`, `associator_residue` | none | multiply out an associator, read its coefficient |
| First-order certificates | `repair_solver`, `certificate_emitter`, `first_order_certificate_checker`, `residue_classifier`, `run_associator_obstruction` | one file | run, check |
| Refinement checker and probes | `refinement_checker`, `refinement_witnesses`, six `refinement_witness_*` probes | the loops' current case | check a witness, compose, glue, search |
| Realisability diagnostics | seven `*_diagnostic` and `carrier_matrix_infrastructure` | none | ranks of what a population rule reaches |
| Contribution checker and assembler | `ocaml/associator_contribution_checker.ml`, `ocaml/assembly_checker.ml` | lists of evidence | verify a contribution, assemble |

The parts call one another in a line: parser, verifier (structure check, then
conversion, then reconstruction of `(D, r)`), provenance check, R21 emitter, R21
checkers, chain verification; and, beside it, residue generator, repair attempt,
first-order emitter, its checker, and the refinement programs and diagnostics on
the complex so certified. They are separate processes sharing files
wherever a certificate crosses from an untrusted producer to a checker. There are
no threads. What is hard is (a) that every important rule is implemented twice on
purpose, and the value of the second implementation is that it agrees with the
first; (b) searches whose correctness rests on the order of several updates;
(c) files read one after the other and written in place; (d) limits (digits,
characters, stack) enforced by one of two parties only; (e) conditions that a
program reports without solving anything (a pairing, a kernel, a rank), and that
mean what they are taken to mean only together with others.

## Modules

`AncestryGraph` defines a list of ancestry nodes, its duplicates, dangling
parents, and reachability without recursion (there is a path of some length).
`AncestryDecision` is the abstract promise: one decision, never taken back, and
the right one, eventually.

`AncestryColouring` is what the two searches share: the colours, the stack of calls or
frames in progress, and what entering, passing over and leaving a node do to them.
`AncestryCycle` is the verifier's search: `stack` is the list of frames
`(node_id, iterator)`, a frame's `at` the position of its iterator, and
`next` the position of the outer `for`. Each pass of `for parent_id in it` is an
action (`RejectCycle`, `Descend`, `PassOver`), as is popping a finished frame
(`Retire`). `AncestryParse` is the parser's recursion: a frame also carries the
path that the error message prints, and the interpreter's stack holds `MaxDepth`
frames. Both are shown to implement `AncestryDecision` (properties
`DecidesAncestry` and, while the stack suffices, `ParserDecides`).

`AncestryClosure` is the work-list closure step by step; the provenance module's
recursion is a function of it (`compute_closure`), and `ClosuresAgree` compares
the two. `EvidenceIndependence` runs `check_independence` one comparison a step.

`LinearAlgebra` (pairs in lowest terms, products as the code forms them, the solving
routines as functions, and the row operations they repeat) serves `Elimination`, which takes the
four Gauss-Jordan loops column by column and compares its results with
`LinearAlgebra`'s. `RationalText` is the parser of rationals that every reader shares,
with its limit on their length. `CertificateChecks` is what an R21 certificate says and what
each of the two checkers, Python and OCaml, asks of it; `RepairCertificate` adds
the generator, the processes that run the checkers and the two files.

`DecimalRounding` holds the two decimal roundings, `DecimalCanon` the converter
that runs both. A text is its sign, digits and number of fractional digits; a
result over `10^places` is its numerator.

`AdapterSnapshot` is a snapshot document and the two derivations of `(D, r)` from
it: `generate_problem` with the exceptions it can end in, and `verify_snapshot_doc`,
with the digest and the comparison with a claimed problem, whose entries have to
parse. The ancestry graph and the policy enter as what the ancestry modules make of
them: `provenance` is a record of the verdict on the graph (`kind`), of its length,
which the verifier limits with that of the five other lists, and of how deep the two
recursions on it nest, `visit` of the parser and `walk` of the provenance check. So
`parse_snapshot_doc` ends in one of three ways, `RecursionError` among them, while the
verifier, whose search keeps its own stack, goes on; `AncestryParse` is where that
error is modelled call by call. `AdapterDerivation` composes them: a producer generates (or does not)
and seals, somebody may exchange the document, the verifier reads.

`AdapterCertificate` is `emit_certificate` and `verify_chain` over
`AdapterSnapshot` and `CertificateChecks`, and `AdapterPipeline` composes all of
it as files: `run_scenario` with one action a stage, each re-reading the tracked
snapshot, and an auditor who runs `verify-chain` and reads its three files one
after the other, while others replace tracked files.

`StoneSoupProvenance` and `StoneSoupSnapshots` are the three Stone Soup emitters:
the graphs and policies they declare, node for node, and the snapshots they put
together. The tracker is external: what it measured is a parameter (`Values`, the
`Positions` of a fused pair), and the code's value of 100 with 6 places is stood
for by a small one. The snapshots are documents of `AdapterDerivation`'s
instance, the graphs lists of `EvidenceIndependence`'s.

`RegionalComposition` is the algebra of dual numbers over a finite universe with
the associator multiplied out as in the code, and the seam residue with the
exceptions it can end in. `FirstOrderCertificate` is the repair
attempt, the certificate, and the independent checker layer by layer, including
where it crashes; `FirstOrderRun` makes a process of it, with an in-place write,
a run that can die, others who replace the file, and a checker started at any
time. `Refinement` is one call of `check_witness`, with the coarse
four-cycle and the four declared refinements, `RefinementProbes` the constructions
of new complexes and what a probe computes of them, and
`RefinementRun` the loops of the probes: an action is one turn, and leaves its
report in `probe`. `CoverDiagnostics` is the diagnostics: a population rule is what
each slot of a seam is made of, and the basis probe, rank, quotient and verdict
are common to all. The code writes covers into most of these programs; here a
cover is a parameter, and those are among the instance's. `ContributionAssembly`
is the two OCaml checkers.

`ObstructionChain` composes all of these: the first-order run, and, from the state
in which the certificate of the coarse complex has been accepted, the refinement
checker and probes, the diagnostics, and an assembly of the same residue from
contributions that arrive one piece at a time.

Operators commented `(slip)` are deliberate mistakes: each is a plausible bug of
the operator defined after it, and replacing the one by the other makes a
property fail. They take no part in the specifications.

## Runs

| Run | Instance | Shows |
|---|---|---|
| `ancestry_cycle` | all graphs on three nodes with up to two parents each, dangling parents, all functional graphs on four, all lists of two records | the verdict is exact, the blamed node is on a cycle, the search ends, refinement |
| `ancestry_parse` | the same, stack of 3 frames | same decision, the printed trace is a lasso in the graph, the stack runs out only on deep graphs |
| `ancestry_closure` | four nodes, two with two parents, all types | closure exact, both closures agree, the work list empties |
| `evidence_independence` | two sources, two tracks, two comparisons (well formed, malformed, missing, wrong type), all policies of up to two claims; the Stone Soup graphs with their own policies | claims supported, nothing left unclassified, refusal exact |
| `evidence_relabelled` | the same | *violated*: a comparison with a common record that the policy declares as correlated reuse is listed as independent when the prohibition is off |
| `elimination` | all sign patterns of 3x2 and 2x3, 2x2 with fractions, empty shapes | elimination invariants, right witnesses, whole null space, and the functions used elsewhere agree |
| `repair_certificate` | eight problems (unique, none, many solutions, no columns, no rows), six spellings of entries, one replacement | acceptance is sound, checkers agree, genuine certificates pass |
| `oversized_witness` | the same without replacement | *violated*: an emitted certificate is rejected for the length of its text |
| `adapter_derivation` | 300 two-edge documents (ties, negatives, malformed and too long decimals, zero or one place), 34 flawed or degenerate ones (among them ancestries past the depth or the length limit, a claim too long to parse, a value past the generator's precision) and 13 of the three Stone Soup emitters; any document may replace any other, with the claim and the digest of the first | an emitted document verifies and states the problem of its offsets, one problem from both derivations, tampering is evident, only offsets obstruct, the gates differ only where the code makes them, each difference being reached |
| `adapter_pipeline` | thirteen snapshots over three tracks (repairable, obstructed, reordered, renamed, other precision, wrong digest, shared ancestry with each kind of policy, an ancestry too deep for the provenance check, an unused track), one replacement by another run's file, a forged or a torn one | chain acceptance is sound, an emitted certificate brings no inadmissible evidence, a pass means what it says, nothing fails by itself |
| `decimal_canon` | 143 coefficients around the powers of ten and the ties, three places, three digits of precision | routes agree, round to nearest even, refuse only for length |
| `obstruction_chain` | fourteen sources (Venn, nested and wide regions, a seam twice or missing, wrong or short vectors, a bridge, fractions, a C^2); 30-odd edits of a genuine certificate; five refinements, every second step, pair and gluing of them; first steps as 0/1 matrices; 56 covers; assemblies of two interfaces with up to five pieces of evidence | see below |

`obstruction_chain` checks what is asked of each program. `CertificateSound`: an
accepted certificate is true, though the checker solves nothing and compares no
shapes. `JudgedAsComputed`: what the run wrote is accepted exactly when its source
supports it. `PairingCertifies`: wherever (A3) and (A4) are found, elimination finds
no correction. `VerdictTransported`: (N0) carries corrections to the refinement, and
(E0) holds exactly when they all come from the coarse complex; the residues tried are
the sums of edges, the declared one, and those that pair to zero with every cycle
brought back, among which there is one that tells if any does.
`StepsCompose`, `CombinedAsBranches`, `CancellationSolved`: what the probes report of
two steps, of two branches and of a partner made to cancel is what the parts
determine. `RealisedAsMeasured`: ranks, quotients and verdicts against a solver that
knows no rank, and what each rule can reach on every cover of the instance.
`AssembledAsSupported`: an assembly is complete or refused exactly when its evidence
says so, its values are the generator's residue, and no later piece turns a
refusal into completion.

Bounds. Three nodes with two parents each hold every way two paths can meet; four
are needed for a ring behind a tail. `MaxDepth = 3` is less than the longest
chain, so the overflow occurs. For the elimination, entries in -1..1 give every
rank and every pattern of pivots, and 0..2 the first fractions; the null space
and unsolvability are compared with small integer vectors, which is enough
because by Cramer's rule these systems have witnesses with numerators and
denominators within the reference's range. `MAX_RATIONAL_CHARS = 2` lets `-1` in
and keeps `1/3` out, so a problem of admissible entries has an inadmissible
witness. `MaxReplacements = 1` puts a replacement between any two steps.
`Precision = 3` stands for the 28 digits of a decimal context. In the adapter runs
two edges that meet in one track, and a triangle, are the smallest shapes on which
a shared state and a loop occur. There `MAX_SNAPSHOT_LIST_LENGTH = 17` is the length of
the longest list of a good document, an emitter's ancestry graph, and flawed ones
exceed it in the sources and in the graph; `MaxDepth = 3` is what the emitters'
graphs nest to; and `MAX_RATIONAL_CHARS = 6` lets the claims of one decimal place
through and keeps one of two places out. The thirteen snapshots differ pairwise in one thing
that one check of the chain is there to see, and the forgeries take one field of
one certificate into another with the certificate's digest made anew, so each of
those checks is the only one left to catch some forgery. In the obstruction chain
the complexes are the repository's own; a second step on top of each, and matrices
over 0 and 1 (with -1 in the second map), hold the kernels that grow and shrink.
`MaxEvidence = 5` and `MaxOfAKind = 3` complete an assembly of two interfaces, with
four pieces, and add one more of either kind. The covers have one point in all
regions or one for each seam, with points of two regions for eight sets of pairs and for all
six, and points of one region for none, one and all; and two covers on which the
generator raises. One pair of trackers stands for the Stone Soup four in the
evidence run, whose comparisons are pairwise.

Fairness. The two searches and the closure are loops of one process that nothing suspends: weak fairness of the step says
that the program runs on, and nothing more. The other loops (the elimination's
over columns, the independence check's over edges, the probes') run over lists
fixed beforehand, and no liveness is stated of them. The certificate files have no
liveness property: a process may die and a checker need never run. The same holds
of the pipeline, whose stages can be lost to a timeout.

Abstractions. SHA-256 of a canonical serialisation is taken to be injective (the
document stands for its digest). JSON syntax, limits on file and matrix sizes, and the wording of messages are left
out; the limits on the snapshot's lists, on nesting and on a rational's text are in.
One `MaxDepth` stands for the interpreter's recursion limit wherever it bites, though
a few calls more or less are on the stack there. A value of more than 4,300 digits,
which Python refuses to print, is not in the model: it ends `to_roc_input` and the
verifier's last steps in an error for documents whose decimals have thousands of
places. The committed digest
of a contribution, which prints the four constants in lowest terms, is injective.
Random searches take their matrices from the instance's sets.

What the adapter runs also record, as guards the code does not have: `verify-chain`
does not ask whether the conversion attestations are complete, does not compare
the certificate's own `quantisation_policy` with the snapshot's, and does not run
the independence check; the payload digest does not cover `scenario_id` or
`quantisation_policy`. `ChainSound` holds all the same, because the problem is
reconstructed from the snapshot and never taken from the certificate, and
`EmittedAdmissible` says what is left of the independence check: it holds of the
certificates that `emit_certificate` made, and not of forged ones.

What the chain of the first-order run records in the same way: the emitter does not
check that the declared vector is a cycle, so a right verdict can be written and
then refused; the checker compares no lengths of residue and matrix, so what a
certificate of mismatched shapes claims is true of the parts that match (`Fit`); of
two instances of a seam the last one counts; the gluing probe reports
`disjoint_like_preserved` without looking at (A3), and the glued vector is a cycle
only if the seam's coefficient is zero or the seam a loop; what a caller declares of the seam in
branch b's place reaches the compatibility gate and nothing after it. A refused
assembly can become an open one by a second certificate for the refused
interface, never a complete one.

## Proofs

Eight modules, each about the components it names; no proof takes anything but the
assumptions of the modules, all of which TLC evaluates on the instances.

`AncestryProofs` (search, closure, independence check). For every set of ids and
every set of node lists the search decides exactly, `Spec => []VerdictExact`, and
implements the safety part of `AncestryDecision` (`DecidesSafely`). The verdict
alone is not inductive. `IndInv` adds that the grey nodes are exactly those on the
stack, that consecutive frames are child and parent, that every parent before a
frame's position is no longer white, and that a black node has black parents and
cannot reach itself. A grey parent then closes a cycle through the stack
(`BlameJustified`: the frames above the grey node are a path back to it), and when
all nodes are black the graph has no cycle. One set of lemmas about colouring serves both
searches; for the parser `ParseInv` adds that the path of a call is the list of the
nodes of the calls in progress, so the printed trace is a lasso in the graph
(`TracePrinted`), and a call at depth `MaxDepth` has a chain of as many different
nodes under it (`GivesUpOnlyDeep`); every other answer is the right one
(`ParserDecidesSafely`). The lemmas carry paths of some length
by taking their first edge. Of the closure, `ClosureInv`: visited nodes are
reachable, a parent of a visited node is visited or on the work list, and the records
found are the visited source records; with the work list empty the visited set is
closed. `OneClosure` compares that with the recursion of `compute_closure`, which
carries the set of nodes of the current path: the recursion has a solution, what is
reachable around the visited nodes, and no other, by induction on what is not
visited yet; on an acyclic graph nothing is ever cut off. Of the independence check,
`PolicyInv`: a comparison that has been passed is in the list it belongs to and has
no fault, so what is listed as independent is (`ClaimsHold`), and a refusal names the
first fault (`OutcomeJustified`). Assumed: `ListsAssumption`,
`IndependenceAssumption` (types) and `MaxDepthAssumption` (the stack holds a frame).

`AdapterProofs` first takes the two conversions by themselves: rounding the
magnitude half-even and putting the sign back is the same function as flooring the
signed value and looking at the remainder (`OneFunction`), by cases on the remainder;
the theorems about the converter follow. Then the document. `FlowInv`: it is one of
those that occur, but for its claim and its digest; a sealed one carries its own
digest and, until another takes its place, is the document with what the generator
made as its claim; a verdict is of the document as it stands. With `OneFunction` the
comparison in `convert_and_verify` makes both derivations find the same decimals
acceptable and the same matrix and column, whence `OneProblemHolds`. The digest is
recomputed over the evidence, so under the digest of what was sealed no other evidence
is accepted (`TamperIsEvident`). Generator and verifier go through the same gates but for
a list that `GatesAlwaysAgree` takes from the code, for all limits and documents of any
size. What the generator derived is rejected only for one of six lists that is too
long, a timestamp, a track without a scalar state, or a claimed rational too long to
parse. Of what is accepted the statement is exact: the parser raises `RecursionError`
when the ancestry is deeper than its stack; else `ValueError` when the policy's values
have wrong types; else the generator returns, or its decimal context runs out of
digits. That the two round alike (`OneFunction`), that the claim has exact entries
(`ResidueExact`, so that length is all that can be wrong with it, `ParsesUnlessLong`), and that
whatever the verifier reconstructs the generator finds the same way, is what there
is to prove. A row of the matrix takes the entry of the source
from that of the target, so targets and sources summed apart give the
measurements: an obstruction comes from offsets that do not cancel
(`OffsetsObstruct`). Last the emitters (`EmittersDeclare`), for whatever integer the
trackers measured and any number of places: what a builder puts together refers to
nothing that is not there (`SnapshotStands`), the text of an integer is converted to
that integer (`DecimalConverts`), so each residue is what two offsets differ by
(`FourEdge`); the four rows are those of the coarse complex (`CoarseMatrix`). For a
fused pair the inverse of the conversion is converted back (`InverseConverts`), so its
discrepancy is accepted, and one equation in two unknowns has a solution
(`FusedVerifies`). Only such a pair has decimals of any length, and so the
exception of `EmittedAsDeclared`: a claim derived for it may be too long to parse; the
four-cycle's is of integers from -2 to 2 (`FourShort`). Assumed: `CanonAssumption` and `PowersOfTen` (what is used of
`10^k`), `DraftsAssumption` (documents as parsing leaves them, nothing derived or
sealed yet; a text that is not a decimal is not one), `EmitterAssumption` (decimals
are measured; the verifier's limits let through eight transformations, the emitters'
graphs and the integers from -2 to 2, as 10,000 and 1,000 do; a record of those graphs
comes after its parents), `DepthAssumption` and `LimitAssumption` (both limits are
positive).

`LinearAlgebraProofs` is about `rational_linear_algebra` as functions, for matrices
of every size. The arithmetic is exact: normalisation by `gcd` respects equality of
fractions, so sums and products are associative, commutative and distributive on
`Fractions`. Sums over index ranges are recursive functions; what is proved of them is
proved by induction on a set of numbers, and two of them are interchanged, which
gives `SeparatorRefutes`: a vector that annihilates the columns and not the
right-hand side rules out every solution. A row operation keeps the set of solutions
(`SameSpaces`); after the loop the matrix is in echelon form (`Echelon`), so a solution
can be read off or the last row refutes all of them: `SolvesExactly`. `KernelBasisIs`
says the same of `nullspace_over_Q`: its vectors are in the kernel, and a kernel
vector is the combination of them that its free entries say. For refinement there
are products of matrices (`ProductAssociates`, `ApplyProduct`) and spans: membership
as `in_span_over_Q` decides it is being a combination. For the diagnostics there is
dimension: more vectors than an independent list has, in its span, are dependent
(`Exchange`, by `MoreUnknowns`), the columns at the pivots are independent and reach
all (`RankBasis`), so the number that elimination counts is the length of every
independent list with that span, however the vectors were listed
(`RankOfIndependent`).

`EliminationProofs` carries this to the loop as it runs. `IndInv` is `RunsTo`: after
the columns before `col` the state is what the function of these columns gives, with
the identity block of `repair_or_separate` beside it. `LoopInvariantHolds`,
`AnswerRightHolds` and `BasisSpansKernelHolds` are the run's three properties, for
matrices of any shape and any fractions. Assumed: `ProblemAssumption` (a problem is
rectangular and of exact entries, as `read_input` leaves it).

`CertificateChecksProofs`: the Python and the OCaml checker accept the same
certificates (`CheckersAgree`), though one tests lengths first and the other stops
where lists end. `RepairCertificateProofs`: a checker that is done has judged the file
as it stood, of the problem that it had read (`IndInv`); so an ACCEPT means that the
problem is as the certificate says (`AcceptMeansDecided`), the two agree
(`OneVerdict`), and a genuine certificate is not rejected for anything but length
(`NoFalseReject`). For the pipeline, `AdapterProofs` has one invariant for the stages
(what lies in the temporary directory, and of which snapshot it was made), one for the
auditor, who reads three files one after the other, and one for tracked files that
nobody replaced (`UntouchedInv`): `AcceptedIsOfOnePiece`, `EmittedIsAdmissible`,
`PassedMeansProved`, `FailsOnlyAsExpected`. The last has the hypothesis `ShortEnough`,
the limit on characters that the emitters do not ask about; without it the statement
is false, which is what `oversized_witness` shows. Assumed: `ProblemAssumption`,
`DocumentAssumption` (the problem list has every problem that an accepted document
stands for), `ReplacementsAssumption`.

`ObstructionChainProofs`: for every finite universe of points, every
three regions and all integer constants, the associator multiplied out in the
algebra is the closed form on the triple overlap and zero elsewhere (`Localised`);
hence the support check of `compute_seam_residue` cannot fail (`SupportInOverlap`).
`FilesInv` says that the path of the certificate holds nothing, a torn file, what the
run wrote or an edit of that, and that the checker's answer is `check_file` of what
it last read. With `SeparatorRefutes` and `SolvesExactly` this gives `AcceptanceSound`
(an accepted certificate is true) and `RunJudged` (what the run writes is accepted
exactly when its source supports it). Assumed: `PointsAssumption` and `FilesAssumption`
(sources and edited certificates are what parsing leaves of a file; nothing is asked
of how lengths fit, but that C^2 takes the residue). The proof found one thing that
TLC had not: `NoCorrection` was stated by appending the residue as a column, which
for a matrix of empty rows is a system without unknowns that the appended one does
not describe; it now says that such a system has no correction exactly when the
residue is not zero, and the instance has the edit that shows it.

Of refinement, `ProbeInv`: whatever a probe holds is a complex with integer
coboundaries, derived by subdividing, bridging, gluing or setting side by side, its
listed cycle is a vector over its edges, and its report is of it (`ProbesReport`). A
subdivision removes one edge and appends two, a bridge adds one, a gluing renames
vertices and drops the shared edge: that each keeps end points among the vertices is
most of the work. `PairingIsCertificate` then is `SeparatorRefutes`.
`VerdictsTransported` turns (E0), a statement about spans of cycles, into one about
corrections: by `SolvesExactly` and the separators a residue has a correction exactly
when it pairs to zero with each listed cycle (`CyclesDecide`), a refined cycle pairs
with a refined residue as what it is brought back to pairs with the residue, and a
coarse cycle outside the span of those brought back is told apart from them by one of
the residues that the property tries (`Separated`). Two statements had to be
strengthened to be provable: the property tried only sums of edges, which cannot
tell every span; and it is now about what is brought back. `RefinementsCompose`
follows from the associativity of the product.

Two branches are one complex whose edges are those of the first, then those of the
second under new names, without the seam when they are glued there. `TurnInv` says of which
witnesses the branches of a turn are. From the names (`NamesApart`,
`RenamedIs`) follows where an edge of the glued complex came from, hence its
boundary, the image of a vector and the lift of a cycle in parts (`SewnBoundaryIs`,
`SewnImageIs`, `SewnLifts`, `SewnNatural`), and the reports are compared conjunct by
conjunct (`SideBySideIs`, `GluedAsBranches`): `BranchesCombine`. `CancellationIsSolved`
follows the search: an off-seam direction is a cycle that is zero on the seam
(`DirectionIs`), so a partner moved along it agrees there and
still brings back a cycle, and the step that is solved for takes the sum of the
pairings to zero (`PartnerCancels`). Two statements
were false as TLC had passed them. A glued complex satisfies (E0) when
the span of what *both* branches bring back contains the coarse cycles, which is more than
that each does; the conjunction is what holds side by side. And a seam that
is a loop, not only one with coefficient zero, leaves the glued vector a cycle, as
the partner that is solved for is a cycle only when the declared vector is
(`Unmoved`, `branch_b.A3 = branch_a.A3`). Assumed: `RefinementAssumption`
(witnesses and gluings name existing vertices and edges, matrices are rectangular)
and `NamesAssumption` (what is used of the prefix that renames: it makes names apart from all that
are declared, and different ones of different ones; and of the declared
witnesses, that they lie over the coarse complex and the gluings' seam is in both).

Of assembly, `AssemblyInv`: each value among the evidence is backed by the
certificate beside it (`EvidenceKept`). What `classify_interface` says of one name is a
statement about the set of its places in each list (`InterfaceIs`); with one
entry for each name, as many entries as names means no other (`OneForEach`); and a piece
that opposes an interface stays where it is (`OneKind`). So `AssemblySupported`,
whose second half is an action property. Assumed: `EvidenceAssumption` (types of the
lists that arrive, and the points on which the values are compared).

`CoverDiagnosticsProofs` is about the diagnostics, on every cover of every universe by
four regions. A column is written entry by entry (`EntryIs`: what the four slots of a
seam say of one parameter); a generator that runs gives the same column
(`PlacedResidueIs`), and each parameter that is named is a key, of which there are
finitely many (`ParametersFinite`), so the columns can be listed and eliminated. Then rule
by rule. Independent and inclusion keys give each seam a unit column, so everything is
reached (`IndependentReaches`, `InclusionReaches`). A key on adjacent overlaps is added by
one seam and taken away by the next: columns sum to zero, and three of them are a staircase
that reaches all such vectors (`StairsReach`), which are what the cyclic coboundary reaches too
(`AdjacentReport`). With restriction to the triple supports, a seam whose support is its
own has its unit; where the four coincide, a region's key is met by two opposite
seams with opposite signs, and the rank is two (`RestrictionReport`). `MeasureInv` says
that a probe holds what `measure` computed of its own cover; with it,
`MeasuredAsRealised`. Assumed: `CoversAssumption` (a cover names four subsets of the
universe).

Only model-checked: every liveness property, for which the prover has no fairness, and
which of the emitted ancestry graphs are independent (names there are concatenated
strings and the graphs are flattened lists, which no prover opens;
`EmittersDeclare` holds for either answer, as `verify_snapshot_doc` takes both).

## Disagreements with the repository's own text

Both are statements of a doc or a test that the code does not keep; PROJECT.json
quotes them. `NeverRelabelled`: a policy with `shared_ancestry_prohibited` false
declares a comparison as correlated reuse, and both of its sides rest on one record;
`check_independence` does not read the declaration then, and lists the comparison as
independent.
`EmittedAccepted`: the emitters do not bound the text of a witness and the
checkers do.

## Not modelled

The OCaml mirror of the refinement checker has the same definitions over the same
hard-coded witnesses as the Python one, and `ocaml/linear_algebra.ml` is built by no
target. `finite_algebra` is imported by its test only, the conflict probes print
tables of fixed cases, and the trackers behind the Stone Soup layer are a
third-party library on seeded measurements. The Rocq development is machine-checked
mathematics; the solver extracted from it is modelled through the OCaml program
that runs it. What the checker of first-order certificates does with texts that are no
rationals, or have a denominator of zero, is left out: `FilesAssumption` has
certificates of exact entries. JSON text, argument parsing and printed reports are left
out throughout, and `main` of the pipeline, which runs two scenarios that share
nothing.
