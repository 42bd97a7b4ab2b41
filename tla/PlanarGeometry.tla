--------------------------- MODULE PlanarGeometry ---------------------------
(***************************************************************************)
(* The geometry of a boundary proposal: what a valid ring is, how its      *)
(* corners are snapped to the parcels around it, and what is then reported *)
(* about every neighbour.                                                  *)
(*                                                                         *)
(* A point is a pair of whole units, a ring the sequence of its corners    *)
(* without the closing repetition of the first.  Distances are compared by *)
(* their squares.  A ring has any number of corners.  The parcels snapped  *)
(* to have sides along the axes, so that the foot of a perpendicular is a  *)
(* whole point again; a drawn or snapped ring may have sides of any        *)
(* direction.  What is found is modelled for rectangles.                   *)
(***************************************************************************)
EXTENDS Integers, Sequences, FiniteSets
LOCAL INSTANCE Functions

Point == Int \X Int

Lower(a, b)  == IF a <= b THEN a ELSE b
Higher(a, b) == IF a <= b THEN b ELSE a

SquaredDistance(p, q) ==
    (p[1] - q[1]) * (p[1] - q[1]) + (p[2] - q[2]) * (p[2] - q[2])

Within(p, q, tolerance) == SquaredDistance(p, q) <= tolerance * tolerance

-----------------------------------------------------------------------------
(* Rings *)

Ring == {ring \in Seq(Point) : Len(ring) >= 3}

\* The sides of a ring: every corner with the next one.
Sides(ring) == [i \in DOMAIN ring |-> <<ring[i], ring[(i % Len(ring)) + 1]>>]

\* signedArea, doubled.
DoubleArea(ring) ==
    FoldFunction(LAMBDA s, area : area + s[1][1] * s[2][2] - s[2][1] * s[1][2], 0, Sides(ring))

\* Twice the area a, b, c turn around, negative for a right turn.
Turn(a, b, c) == (b[1] - a[1]) * (c[2] - a[2]) - (c[1] - a[1]) * (b[2] - a[2])

\* The segments from a to b and from c to d have a point in common.
Meet(a, b, c, d) ==
    /\ \A k \in {1, 2} : /\ Lower(a[k], b[k]) <= Higher(c[k], d[k])
                         /\ Lower(c[k], d[k]) <= Higher(a[k], b[k])
    /\ Turn(a, b, c) * Turn(a, b, d) <= 0
    /\ Turn(c, d, a) * Turn(c, d, b) <= 0

\* ParsePolygon: a ring runs counter-clockwise around a positive area, and
\* of its sides, but for those without a length, only adjacent ones meet.
ValidRing(ring) ==
    LET sides == SelectSeq(Sides(ring), LAMBDA s : s[1] # s[2])
        Adjacent(i, j) == j = i + 1 \/ (i = 1 /\ j = Len(sides))
    IN  /\ DoubleArea(ring) > 0
        /\ \A i, j \in DOMAIN sides :
              i < j /\ ~Adjacent(i, j) =>
                 ~Meet(sides[i][1], sides[i][2], sides[j][1], sides[j][2])

AlongAxes(ring) ==
    \A i \in DOMAIN ring : LET s == Sides(ring)[i] IN s[1][1] = s[2][1] \/ s[1][2] = s[2][2]

\* The ring of a rectangle, from its lower left corner.
Rectangle(west, south, east, north) ==
    << <<west, south>>, <<east, south>>, <<east, north>>, <<west, north>> >>

IsRectangle(ring) ==
    /\ Len(ring) = 4
    /\ ring[1][1] < ring[3][1] /\ ring[1][2] < ring[3][2]
    /\ ring = Rectangle(ring[1][1], ring[1][2], ring[3][1], ring[3][2])

-----------------------------------------------------------------------------
(* Snapping *)

\* Mutant of Projection: the foot may lie beyond the ends of the segment.
FootOnLine(p, segment) ==
    IF segment[1][1] = segment[2][1] THEN <<segment[1][1], p[2]>>
                                     ELSE <<p[1], segment[1][2]>>

Clamped(v, a, b) == Higher(Lower(a, b), Lower(v, Higher(a, b)))

\* projectOntoSegment, for a segment along an axis.
Projection(p, segment) ==
    <<Clamped(p[1], segment[1][1], segment[2][1]),
      Clamped(p[2], segment[1][2], segment[2][2])>>

\* The entries of a sequence of sequences, by their places: those of the
\* first sequence come first, then those of the second.
Places(parts) == UNION {{r} \X DOMAIN parts[r] : r \in DOMAIN parts}

InTurn(parts) == [at \in Places(parts) |-> parts[at[1]][at[2]]]

NotAfter(one, other) == one[1] < other[1] \/ (one[1] = other[1] /\ one[2] <= other[2])

\* The first of the points that are nearest to p.
FirstNearest(p, points) ==
    LET first == CHOOSE i \in DOMAIN points :
                    \A j \in DOMAIN points :
                       /\ SquaredDistance(p, points[i]) <= SquaredDistance(p, points[j])
                       /\ SquaredDistance(p, points[i]) = SquaredDistance(p, points[j])
                             => NotAfter(i, j)
    IN  points[first]

Feet(p, segments) == [i \in DOMAIN segments |-> Projection(p, segments[i])]

\* Mutant of SnapTarget: a target the point is already on is passed over.
SnapTargetElsewhere(p, vertices, segments, tolerance) ==
    LET other == [at \in {i \in DOMAIN vertices : vertices[i] # p} |-> vertices[at]]
    IN  IF DOMAIN other # {} /\ Within(p, FirstNearest(p, other), tolerance)
        THEN FirstNearest(p, other)
        ELSE IF Within(p, FirstNearest(p, Feet(p, segments)), tolerance)
             THEN FirstNearest(p, Feet(p, segments)) ELSE p

\* nearestSnapTarget: a vertex within the tolerance goes before every edge.
SnapTarget(p, vertices, segments, tolerance) ==
    LET vertex == FirstNearest(p, vertices)
        foot   == FirstNearest(p, Feet(p, segments))
    IN  IF Within(p, vertex, tolerance) THEN vertex
        ELSE IF Within(p, foot, tolerance) THEN foot ELSE p

-----------------------------------------------------------------------------
(* Findings, for rectangles *)

\* The unit squares inside a rectangle, by their lower left corners.
Cells(ring) == (ring[1][1] .. ring[3][1] - 1) \X (ring[1][2] .. ring[3][2] - 1)

Overlap(one, other) == Cells(one) \cap Cells(other)

\* The border of a rectangle in half units: corners and midpoints of the unit
\* edges it consists of.
Border(ring) ==
    LET west == 2 * ring[1][1]  south == 2 * ring[1][2]
        east == 2 * ring[3][1]  north == 2 * ring[3][2]
    IN  ({west, east} \X (south .. north)) \cup ((west .. east) \X {south, north})

SharedBorder(one, other) == Border(one) \cap Border(other)

\* A midpoint stands for a unit edge.
BorderLength(points) == Cardinality({p \in points : (p[1] + p[2]) % 2 = 1})

\* The squared distance of two rectangles, zero if they touch.
Separation(one, other) ==
    LET Apart(k) == Higher(0, Higher(other[1][k] - one[3][k], one[1][k] - other[3][k]))
    IN  Apart(1) * Apart(1) + Apart(2) * Apart(2)

Finding(kind, evidence, magnitude, parcel) ==
    [kind |-> kind, evidence |-> evidence, magnitude |-> magnitude, parcel |-> parcel]

\* areaThreshold: an overlap counts from a ten-thousandth of the squared
\* tolerance on.
ExceedsAreaThreshold(area, tolerance) == 10000 * area > tolerance * tolerance

\* What DetectTopology finds for the neighbour at place n.
FindingsFor(n, base, candidate, neighbour, tolerance) ==
    LET near(ring) == Separation(ring, neighbour) <= tolerance * tolerance
        area   == Cardinality(Overlap(candidate, neighbour))
        shared == SharedBorder(candidate, neighbour)
        length == BorderLength(shared)
    IN  {f \in {Finding("overlap", Overlap(candidate, neighbour), area, n)} :
            ExceedsAreaThreshold(area, tolerance)}
        \cup {f \in {Finding("gap", Border(candidate), Separation(candidate, neighbour), n)} :
                 near(base) /\ ~near(candidate)}
        \cup {f \in {Finding("dangling_edge", shared, Higher(tolerance - length, 0), n)} :
                 near(candidate) /\ length <= tolerance}

\* Mutant of SameFinding: the evidence is not compared.
SameKind(one, other) == one.kind = other.kind

\* deduplicateFindings: the kind and the geometry make the key.
SameFinding(one, other) == one.kind = other.kind /\ one.evidence = other.evidence

\* DetectTopology: the neighbours in the order of their ids, and of equal
\* findings the first.
DetectTopology(base, candidate, neighbours, tolerance) ==
    LET all == UNION {FindingsFor(n, base, candidate, neighbours[n], tolerance) :
                         n \in DOMAIN neighbours}
    IN  {f \in all : \A g \in all : SameFinding(f, g) => f.parcel <= g.parcel}
=============================================================================
