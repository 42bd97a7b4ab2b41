-------------------------- MODULE TopologyAnalysis --------------------------
(***************************************************************************)
(* A boundary proposal, analysed and corrected over and over: detection    *)
(* snaps it to its parcel and the neighbours and reports on the result;    *)
(* applying the suggestion of a finding makes the snapped ring a proposal  *)
(* of its own, which is analysed again, with any tolerance.                *)
(***************************************************************************)
EXTENDS PlanarGeometry

CONSTANTS Base,            \* the parcel's boundary
          Neighbourhoods,  \* sequences of boundaries, in the order of their parcels' ids
          Drawings,        \* the rings a proposal may be drawn as
          Tolerances,
          MaxApplied       \* bound: suggestions applied one after the other

ASSUME AnalysisAssumption ==
    /\ Base \in Ring /\ ValidRing(Base) /\ AlongAxes(Base)
    /\ \A hood \in Neighbourhoods :
          /\ hood \in Seq(Ring)
          /\ \A n \in DOMAIN hood : ValidRing(hood[n]) /\ AlongAxes(hood[n])
    /\ \A ring \in Drawings : ring \in Ring /\ ValidRing(ring)
    /\ Tolerances \subseteq Nat \ {0} /\ Tolerances # {}
    /\ MaxApplied \in Nat

VARIABLES
    neighbours,  \* the active parcels around
    drawn,       \* the ring the first proposal was drawn as
    proposal,    \* the ring of the proposal in hand
    tolerance,   \* of the last detection
    suggestion,  \* its snapped ring, or no ring
    findings,
    applied,     \* suggestions applied so far
    moves        \* how often every corner has moved

vars == <<neighbours, drawn, proposal, tolerance, suggestion, findings, applied, moves>>

NoRing == <<>>

\* Stands for the findings if not all the rings are rectangles.
Unexamined == Finding("any", {}, 0, 0)

\* The rings snapped to, the parcel's own first.
References == <<Base>> \o neighbours

SnapToReferences(ring, t) ==
    LET vertices == InTurn(References)
        segments == InTurn([r \in DOMAIN References |-> Sides(References[r])])
    IN  [i \in DOMAIN ring |-> SnapTarget(ring[i], vertices, segments, t)]

\* What is found about a suggestion is modelled.
Examined(ring) == IsRectangle(ring) /\ \A r \in DOMAIN References : IsRectangle(References[r])

-----------------------------------------------------------------------------
Init ==
    /\ neighbours \in Neighbourhoods
    /\ drawn \in Drawings
    /\ proposal = drawn
    /\ tolerance = 0 /\ suggestion = NoRing /\ findings = {} /\ applied = 0
    /\ moves = [i \in DOMAIN drawn |-> 0]

\* DetectConflicts between its reads and its transaction.  A ring that would
\* not be valid is refused (422).
Detect(t) ==
    /\ suggestion = NoRing
    /\ suggestion' = SnapToReferences(proposal, t)
    /\ ValidRing(suggestion')
    /\ tolerance' = t
    /\ IF Examined(suggestion')
       THEN findings' = DetectTopology(Base, suggestion', neighbours, t)
       ELSE findings' \in {{}, {Unexamined}}
    /\ UNCHANGED <<neighbours, drawn, proposal, applied, moves>>

\* ApplyConflictSuggestion of one of the findings.
Apply ==
    /\ findings # {}
    /\ applied < MaxApplied
    /\ applied' = applied + 1
    /\ proposal' = suggestion
    /\ suggestion' = NoRing /\ findings' = {}
    /\ moves' = [i \in DOMAIN moves |->
                    IF suggestion[i] = proposal[i] THEN moves[i] ELSE moves[i] + 1]
    /\ UNCHANGED <<neighbours, drawn, tolerance>>

Next == Apply \/ \E t \in Tolerances : Detect(t)

Spec == Init /\ [][Next]_vars

-----------------------------------------------------------------------------
(* Correctness *)

\* The whole points of a side along an axis.
OnSide(s) ==
    (Lower(s[1][1], s[2][1]) .. Higher(s[1][1], s[2][1]))
       \X (Lower(s[1][2], s[2][2]) .. Higher(s[1][2], s[2][2]))

Outline(ring) == UNION {OnSide(Sides(ring)[i]) : i \in DOMAIN ring}

Outlines == UNION {Outline(References[r]) : r \in DOMAIN References}

CornersOf(ring) == {ring[i] : i \in DOMAIN ring}

Vertices == UNION {CornersOf(References[r]) : r \in DOMAIN References}

NearestOf(p, points) ==
    {v \in points : \A w \in points : SquaredDistance(p, v) <= SquaredDistance(p, w)}

\* Snapping leaves no sliver at a corner and is no matter of chance: every
\* corner of a suggestion is on the outline of a parcel or has none of them
\* within the tolerance; one that was within the tolerance of a vertex is on
\* the nearest, and of equally near ones on the parcel's own.
NoSliverAtCorners ==
    \A i \in DOMAIN suggestion :
        LET nearest == NearestOf(proposal[i], Vertices)
            own     == nearest \cap CornersOf(Base)
        IN
        /\ \/ suggestion[i] \in Outlines
           \/ \A q \in Outlines : ~Within(suggestion[i], q, tolerance)
        /\ (\E v \in nearest : Within(proposal[i], v, tolerance)) =>
              suggestion[i] \in (IF own # {} THEN own ELSE nearest)

\* Applying suggestions comes to an end: no corner ever moves more than twice
\* (to an edge and from there to a vertex), whatever the tolerances, so that
\* it stays within twice the largest tolerance of where it was drawn.
CornersSettle ==
    \A i \in DOMAIN moves :
        /\ moves[i] <= 2
        /\ \E t \in Tolerances : Within(drawn[i], proposal[i], 2 * t)

\* The neighbours have no area in common with each other.
Disjoint ==
    \A m, n \in DOMAIN neighbours : m # n => Overlap(neighbours[m], neighbours[n]) = {}

\* The whole points of a rectangle, its border included.
Ground(ring) == (ring[1][1] .. ring[3][1]) \X (ring[1][2] .. ring[3][2])

Near(ring, n) == \E p \in Ground(ring), q \in Ground(neighbours[n]) : Within(p, q, tolerance)

Touch(n) == SharedBorder(suggestion, neighbours[n])

LostContact == {n \in DOMAIN neighbours : Near(Base, n) /\ ~Near(suggestion, n)}

TooShort == {n \in DOMAIN neighbours : Near(suggestion, n) /\ BorderLength(Touch(n)) <= tolerance}

Apart == {n \in TooShort : Touch(n) = {}}

Named(kind) == {f.parcel : f \in {g \in findings : g.kind = kind}}

FirstOf(places) == {n \in places : \A m \in places : n <= m}

\* What a report can be relied on for, although of findings with one kind and
\* one geometry only the first is kept.  Of neighbours that do not overlap each
\* other, every one that the suggestion overlaps by more than a ten-thousandth
\* of the squared tolerance is named with its area.  Of those that lost contact
\* only the first is named.  A contact too short to be a shared edge is named
\* if some point of it is in contact with no other neighbour; of the neighbours
\* near by that the suggestion does not touch, only the first.  And none is
\* named without cause.  So a report is empty only if there is no trouble.
TroubleReported ==
    suggestion # NoRing /\ Examined(suggestion) =>
        /\ Disjoint =>
              \A n \in DOMAIN neighbours :
                 LET area == Cardinality(Cells(suggestion) \cap Cells(neighbours[n])) IN
                 10000 * area > tolerance * tolerance <=>
                    \E f \in findings : f.kind = "overlap" /\ f.parcel = n /\ f.magnitude = area
        /\ Named("gap") = FirstOf(LostContact)
        /\ Named("dangling_edge") \subseteq TooShort
        /\ \A n \in TooShort :
              n \in Named("dangling_edge")
                 \/ Touch(n) \subseteq UNION {Touch(m) : m \in DOMAIN neighbours \ {n}}
        /\ Named("dangling_edge") \cap Apart = FirstOf(Apart)
        /\ TooShort # {} => Named("dangling_edge") # {}
=============================================================================
